----------------------------- MODULE MCGroupRuns -----------------------------
(* An instance of GroupRuns for TLC: two groups whose templates share a member.  *)
EXTENDS GroupRuns, TLC

CONSTANTS g1, g2, u1

\* The first group has two members, and the one that comes first by startup_order
\* depends on the other; the second group has one of their nicknames.
Templates == g1 :> {"a", "b"} @@ g2 :> {"a"}
Dependencies == [g \in Groups |-> [m \in Members |->
    IF g = g1 /\ m = "a" THEN {"b"} ELSE {}]]
Order == [g \in Groups |-> [m \in Members |-> IF m = "b" THEN 1 ELSE 0]]
Alphabet == "a" :> 1 @@ "b" :> 2
Strategies1 == g1 :> ("a" :> "post-launch-inject" @@ "b" :> "system-prompt-file")
            @@ g2 :> ("a" :> "none" @@ "b" :> "none")
Names == [u \in Users |-> "b"]
=============================================================================
