--------------------------- MODULE QueueContract ---------------------------
(***************************************************************************)
(* What a subscriber queue promises to senders and consumers: an event is  *)
(* held by nobody until it is taken, by one consumer at a time while it is *)
(* held, and finished once the consumer says so; a consumer that gives it  *)
(* up, or dies, puts it back.  Taking, returning and the recovery of what  *)
(* a dead consumer held are each one step here.                            *)
(***************************************************************************)
CONSTANTS Consumers, Messages

VARIABLES
    waiting,   \* the messages anyone may take
    held,      \* the messages each consumer holds
    done       \* the messages that were finished at least once

cvars == <<waiting, held, done>>

Held == UNION {held[c] : c \in Consumers}

Init ==
    /\ waiting = {}
    /\ held = [c \in Consumers |-> {}]
    /\ done = {}

Send(m) ==
    /\ m \notin waiting \cup Held \cup done
    /\ waiting' = waiting \cup {m}
    /\ UNCHANGED <<held, done>>

Take(c, m) ==
    /\ m \in waiting
    /\ waiting' = waiting \ {m}
    /\ held' = [held EXCEPT ![c] = @ \cup {m}]
    /\ UNCHANGED done

Finish(c, m) ==
    /\ m \in held[c]
    /\ held' = [held EXCEPT ![c] = @ \ {m}]
    /\ done' = done \cup {m}
    /\ UNCHANGED waiting

\* A consumer gives back one message, or dies and gives back all it held.
GiveBack(c, M) ==
    /\ M # {} /\ M \subseteq held[c]
    /\ held' = [held EXCEPT ![c] = @ \ M]
    /\ waiting' = waiting \cup M
    /\ UNCHANGED done

Next ==
    \/ \E m \in Messages : Send(m)
    \/ \E c \in Consumers :
        \/ \E m \in Messages : Take(c, m) \/ Finish(c, m) \/ GiveBack(c, {m})
        \/ GiveBack(c, held[c])

Spec == Init /\ [][Next]_cvars
=============================================================================
