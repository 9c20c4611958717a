-------------------------- MODULE MCDeliveryQueue --------------------------
(* Instances of DeliveryQueue for TLC: two consumers, two sequenced events and
   one without a number, sent in any order. *)
EXTENDS DeliveryQueue

CONSTANTS e1, e2, u1

MCSeqOf == [e \in Events |-> IF e = e1 THEN 1 ELSE IF e = e2 THEN 2 ELSE 0]

\* All three events; or an operation that begins while another is under way; or
\* a claim given back after acting.
MCSettings ==
    {[events |-> Events, overlaps |-> 0, undone |-> 0],
     [events |-> {e1, e2}, overlaps |-> 1, undone |-> 0],
     [events |-> {e1, e2}, overlaps |-> 0, undone |-> 1]}
=============================================================================
