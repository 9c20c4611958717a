------------------------ MODULE MCDeliveryScheduler ------------------------
(* Instances of DeliveryScheduler for TLC. *)
EXTENDS DeliveryScheduler, TLC

CONSTANTS s1, s2, e1, e2, e3, t1, t2, b1

\* One agent with three messages: e3 is not to be injected, e2 is not gated on idle.
OneAgent == [e \in Events |-> s1]
\* Two agents with one message each.
TwoAgents == (e1 :> s1) @@ (e2 :> s2)
=============================================================================
