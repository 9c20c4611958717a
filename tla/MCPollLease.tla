---------------------------- MODULE MCPollLease ----------------------------
(* Instances of PollLease for TLC: two waits in the daemon, two pollers. *)
EXTENDS PollLease, TLC

CONSTANTS w1, w2, r1, r2, daemon, p1, p2

Placed == (w1 :> daemon) @@ (w2 :> daemon) @@ (r1 :> p1) @@ (r2 :> p2)
InOf == [r \in Receivers |-> Placed[r]]
AnyWindows == SUBSET AllWindows
=============================================================================
