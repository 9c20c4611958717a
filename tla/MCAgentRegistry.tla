--------------------------- MODULE MCAgentRegistry ---------------------------
(* Instances of AgentRegistry for TLC. *)
EXTENDS AgentRegistry, TLC

CONSTANTS a1, a2, a3, t1

\* Two agents in one terminal, and one without a terminal.
OneTerminal == a1 :> t1 @@ a2 :> t1 @@ a3 :> NoTty
\* The first of them comes back once.
OneReturns == a1 :> 2 @@ a2 :> 1 @@ a3 :> 1
=============================================================================
