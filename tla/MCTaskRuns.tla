----------------------------- MODULE MCTaskRuns -----------------------------
(* Model values; the graph of two tasks, the second after the first.       *)
EXTENDS TaskRuns

CONSTANTS n1, n2

Chain == [n \in {n1, n2} |-> IF n = n2 THEN {n1} ELSE {}]
=============================================================================
