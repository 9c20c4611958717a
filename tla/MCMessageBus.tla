---------------------------- MODULE MCMessageBus ----------------------------
(* Instances of MessageBus for TLC: the three settings the properties tell apart
   (nobody gets in, sends one after the other, everything at once). *)
EXTENDS MessageBus

Quiet == [windows |-> {}, serial |-> FALSE, stalls |-> FALSE]
Serial == [windows |-> AllWindows, serial |-> TRUE, stalls |-> TRUE]
Rough == [windows |-> AllWindows, serial |-> FALSE, stalls |-> FALSE]

MCSettings == {Quiet, Serial, Rough}
=============================================================================
