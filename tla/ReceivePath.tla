----------------------------- MODULE ReceivePath -----------------------------
(***************************************************************************)
(* How an agent that is not typed into receives: it waits for messages in  *)
(* a wait_for_message call (controlPlaneService.js) or a resident "ufoo    *)
(* bus poll --follow" prints them (poll.js, bus/index.js), it handles what *)
(* it is shown and then acknowledges through the last number it was shown  *)
(* (queue.js).  PollLease gives it one receiver.                           *)
(*                                                                         *)
(* The receiver reads the pending file and changes nothing; the            *)
(* acknowledgement, another process, claims one message after the other    *)
(* and gives back the first that is beyond the limit.  A message is its    *)
(* sequence number (MessageBus: no two are alike).  Claims, completions    *)
(* and restorations are those of DeliveryQueue without overlap.            *)
(***************************************************************************)
EXTENDS Naturals, Sequences, FiniteSets, FiniteSetsExt

CONSTANTS
    Numbers,       \* the sequence numbers sent to the subscriber
    Orders,        \* whether they arrive in their order
    Modes,         \* the ways to receive: "wait", "poll"
    Limit,         \* how many messages a wait returns at most
    MaxCrashes,    \* bound: how often an acknowledgement dies half done
    MaxRounds      \* rounds of the poll process one acknowledgement may last

ASSUME ReceiveConstants ==
    /\ Numbers \subseteq Nat \ {0}
    /\ Orders \subseteq BOOLEAN
    /\ Modes \subseteq {"wait", "poll"} /\ Modes # {}
    /\ Limit \in Nat \ {0}
    /\ MaxCrashes \in Nat /\ MaxRounds \in Nat

VARIABLES
    mode,      \* how this agent receives
    ordered,   \* the numbers arrive in their order
    arrived,   \* numbers appended to the queue so far
    pending,   \* the pending file
    claimed,   \* the number the acknowledgement has claimed, 0 when none
    orphans,   \* numbers in processing files of a dead acknowledgement
    agent,     \* "idle", "waiting", "handling" or "acking"
    cursor,    \* after_seq of the next wait, and the limit of the acknowledgement
    through,   \* last_seq of the batch in hand, 0 when none
    inFlight,  \* inFlightKeys of the poll process
    shown,     \* history: numbers the agent was shown
    again,     \* history: numbers it was shown twice
    acked,     \* numbers completed
    crashes,
    rounds     \* rounds the poll process has made during this acknowledgement

queue == <<arrived, pending, claimed, orphans, acked>>
view == <<shown, again>>
bounds == <<crashes, rounds>>
setting == <<mode, ordered>>
vars == <<setting, queue, agent, cursor, through, inFlight, view, bounds>>

Elements(s) == {s[i] : i \in DOMAIN s}

InOrder(s) == \A i, j \in DOMAIN s : i < j => s[i] < s[j]

\* mergeAndSort: the numbers of a file in order, each once.
Sorted(S) == CHOOSE s \in [1 .. Cardinality(S) -> S] : Elements(s) = S /\ InOrder(s)

Init ==
    /\ mode \in Modes /\ ordered \in Orders
    /\ arrived = {} /\ acked = {} /\ orphans = {}
    /\ pending = <<>>
    /\ claimed = 0
    /\ agent = "idle"
    /\ cursor = 0 /\ through = 0
    /\ inFlight = {}
    /\ shown = {} /\ again = {}
    /\ crashes = 0 /\ rounds = 0

\* A sender appends the message; senders took their numbers earlier.
Arrive(n) ==
    /\ n \notin arrived
    /\ ordered => \A m \in Numbers \ arrived : n <= m
    /\ arrived' = arrived \cup {n}
    /\ pending' = Append(pending, n)
    /\ UNCHANGED <<setting, claimed, orphans, acked, agent, cursor, through, inFlight,
                   view, bounds>>

Show(batch) ==
    /\ shown' = shown \cup batch
    /\ again' = again \cup (shown \cap batch)

\* wait_for_message with after_seq = cursor.
Arm ==
    /\ mode = "wait" /\ agent = "idle"
    /\ agent' = "waiting"
    /\ UNCHANGED <<setting, queue, cursor, through, inFlight, view, bounds>>

\* Timeout or cancellation.
Disarm ==
    /\ agent = "waiting"
    /\ agent' = "idle"
    /\ UNCHANGED <<setting, queue, cursor, through, inFlight, view, bounds>>

\* The last_seq of a result of the wait, the --through of the printed command.
LastSeq(batch) == Max(batch)

\* Where the messages behind the cursor are in the file, and the first of them.
Unseen == {i \in DOMAIN pending : pending[i] > cursor}
Batch == {pending[i] : i \in {k \in Unseen : Cardinality({j \in Unseen : j <= k}) <= Limit}}

\* The wait finds messages behind the cursor and returns the first of them.
Return ==
    /\ agent = "waiting" /\ Unseen # {}
    /\ Show(Batch)
    /\ through' = LastSeq(Batch)
    /\ agent' = "handling"
    /\ UNCHANGED <<setting, queue, cursor, inFlight, bounds>>

\* Variant for the mutation runs: every round prints what is pending.
UnackedNever == {}

\* The part of the last batch that is still pending.
Unacked == inFlight \cap Elements(pending)

\* A round of runPendingPoll: nothing is printed while a part of the last batch is
\* pending.  What it prints ends in the acknowledgement to make.
PollRound ==
    LET batch == Elements(pending)
    IN  /\ mode = "poll" /\ Unacked = {}
        /\ agent = "acking" => rounds < MaxRounds
        /\ rounds' = IF agent = "acking" THEN rounds + 1 ELSE 0
        /\ inFlight' = batch
        /\ IF batch = {} THEN UNCHANGED <<through, view>>
           ELSE Show(batch) /\ through' = LastSeq(batch)
        /\ UNCHANGED <<setting, queue, agent, cursor, crashes>>

\* The agent has handled what it was shown.
StartAck ==
    /\ through > 0
    /\ IF mode = "wait" THEN agent = "handling" ELSE agent = "idle"
    /\ cursor' = through
    /\ agent' = "acking"
    /\ rounds' = 0
    /\ UNCHANGED <<setting, queue, through, inFlight, view, crashes>>

\* claimNext gives back to the queue what a dead acknowledgement had claimed.
AckRecover ==
    /\ agent = "acking" /\ claimed = 0
    /\ orphans # {}
    /\ pending' = Sorted(Elements(pending) \cup orphans)
    /\ orphans' = {}
    /\ UNCHANGED <<setting, arrived, claimed, acked, agent, cursor, through, inFlight,
                   view, bounds>>

\* The acknowledgement is over; the agent goes on with what it was shown since.
EndAck ==
    /\ agent' = "idle"
    /\ through' = IF through = cursor THEN 0 ELSE through

AckClaim ==
    /\ agent = "acking" /\ claimed = 0 /\ orphans = {}
    /\ IF pending = <<>>
       THEN EndAck /\ UNCHANGED <<pending, claimed>>
       ELSE /\ claimed' = Head(pending)
            /\ pending' = Tail(pending)
            /\ UNCHANGED <<agent, through>>
    /\ UNCHANGED <<setting, arrived, orphans, acked, cursor, inFlight, view, bounds>>

\* Variant: the limit is one too high.
WithinNext(n) == n <= cursor + 1

\* ackPendingThrough acknowledges up to and with the last number of the batch.
Within(n) == n <= cursor

AckComplete ==
    /\ claimed > 0 /\ Within(claimed)
    /\ acked' = acked \cup {claimed}
    /\ claimed' = 0
    /\ UNCHANGED <<setting, arrived, pending, orphans, agent, cursor, through, inFlight,
                   view, bounds>>

\* Variant: the claim beyond the limit is dropped.
AckDropBeyond ==
    /\ claimed > 0 /\ ~ Within(claimed)
    /\ claimed' = 0
    /\ EndAck
    /\ UNCHANGED <<setting, arrived, pending, orphans, acked, cursor, inFlight, view, bounds>>

\* The first message beyond the limit goes back, and the acknowledgement ends.
AckBeyond ==
    /\ claimed > 0 /\ ~ Within(claimed)
    /\ pending' = Sorted(Elements(pending) \cup {claimed})
    /\ claimed' = 0
    /\ EndAck
    /\ UNCHANGED <<setting, arrived, orphans, acked, cursor, inFlight, view, bounds>>

\* The process of the acknowledgement dies; the agent, who sees it fail, runs it again.
AckCrash ==
    /\ agent = "acking" /\ crashes < MaxCrashes
    /\ crashes' = crashes + 1
    /\ orphans' = orphans \cup ({claimed} \ {0})
    /\ claimed' = 0
    /\ agent' = IF mode = "wait" THEN "handling" ELSE "idle"
    /\ UNCHANGED <<setting, arrived, pending, acked, cursor, through, inFlight, view,
                   rounds>>

Acknowledge == AckRecover \/ AckClaim \/ AckComplete \/ AckBeyond

Next ==
    \/ \E n \in Numbers : Arrive(n)
    \/ Arm \/ Disarm \/ Return \/ PollRound
    \/ StartAck \/ Acknowledge \/ AckCrash

Spec == Init /\ [][Next]_vars

\* The agent arms, handles and acknowledges, and its wait is not always cancelled
\* before it has looked; the poll process goes on.
FairSpec ==
    /\ Spec
    /\ WF_vars(Arm) /\ SF_vars(Return) /\ WF_vars(PollRound)
    /\ WF_vars(StartAck) /\ WF_vars(Acknowledge)
-----------------------------------------------------------------------------
TypeOK ==
    /\ mode \in Modes /\ ordered \in Orders
    /\ arrived \subseteq Numbers /\ acked \subseteq arrived /\ orphans \subseteq arrived
    /\ pending \in Seq(arrived)
    /\ claimed \in arrived \cup {0}
    /\ agent \in {"idle", "waiting", "handling", "acking"}
    /\ cursor \in arrived \cup {0} /\ through \in arrived \cup {0}
    /\ inFlight \subseteq arrived /\ shown \subseteq arrived /\ again \subseteq shown
    /\ crashes \in 0 .. MaxCrashes /\ rounds \in 0 .. MaxRounds

\* A message that arrived is in one place: pending, claimed, in the file of a dead
\* acknowledgement, or acknowledged.
NoneLost ==
    \A n \in arrived :
        Cardinality({i \in DOMAIN pending : pending[i] = n})
          + (IF claimed = n THEN 1 ELSE 0)
          + (IF n \in orphans THEN 1 ELSE 0)
          + (IF n \in acked THEN 1 ELSE 0) = 1

\* An agent that waits is given every message that arrives in its order: it
\* acknowledges none it was not shown (queue.js:141 "Later arrivals remain pending"),
\* and what its cursor hides it was shown (controlPlaneService.js:531 "after_seq
\* suppresses re-delivery within a re-armed wait").
AckedWasShown ==
    mode = "wait" /\ ordered =>
        /\ acked \subseteq shown
        /\ \A n \in Elements(pending) : n <= cursor => n \in shown

\* No message is shown twice, in whatever order the messages arrive: to an agent that
\* waits, whose acknowledgements may die half done; or by a poll process, when they do
\* not and last no longer than its interval.
ShownOnce ==
    mode = "wait" \/ (crashes = 0 /\ MaxRounds <= 1) => again = {}

NoRepeat(s) == \A i, j \in DOMAIN s : s[i] = s[j] => i = j

\* The parts of the invariant behind the three properties above.  A number that
\* arrived is in one place, and no file holds one twice.
PlaceInv ==
    /\ IsFiniteSet(arrived)
    /\ arrived = Elements(pending) \cup ({claimed} \ {0}) \cup orphans \cup acked
    /\ NoRepeat(pending)
    /\ Elements(pending) \cap (orphans \cup acked) = {}
    /\ orphans \cap acked = {}
    /\ claimed \notin Elements(pending) \cup orphans \cup acked

\* What the agent does, its cursor and the batch in hand go together.
AgentInv ==
    /\ claimed # 0 => agent = "acking" /\ orphans = {}
    /\ orphans # {} => crashes > 0
    /\ agent = "acking" => through > 0
    /\ mode = "wait" =>
        /\ agent \in {"idle", "waiting"} => through = 0 /\ orphans = {}
        /\ agent = "handling" => through > 0 /\ cursor <= through
        /\ agent = "acking" => through = cursor
    /\ mode = "poll" =>
        /\ agent \in {"idle", "acking"}
        /\ agent = "acking" /\ rounds = 0 => through = cursor

\* An agent that waits was shown what is at or below its cursor or its batch, and
\* nothing else; the first only if all arrives in order, as does the pending file.
WaitInv ==
    mode = "wait" =>
        /\ again = {}
        /\ \A n \in shown : n <= cursor \/ n <= through
        /\ ordered =>
            /\ acked \subseteq shown
            /\ \A n \in arrived : n <= cursor \/ n <= through => n \in shown
            /\ \A n \in arrived, m \in Numbers \ arrived : n < m
            /\ InOrder(pending)

\* Of what a poll process has printed, the queue holds no more than its last batch, but
\* for the claim that is going to be completed.
PollInv ==
    mode = "poll" /\ crashes = 0 /\ MaxRounds <= 1 =>
        /\ again = {}
        /\ \A n \in shown \cap (Elements(pending) \cup {claimed}) :
              \/ n = claimed /\ n <= cursor
              \/ n \in inFlight /\ (through > 0 => n <= through)

ReceiveInv == TypeOK /\ PlaceInv /\ AgentInv /\ WaitInv /\ PollInv

\* The pending file and the files of the acknowledgement are a queue as QueueContract
\* has it, with the acknowledgement as its consumer: the claim beyond the limit and the
\* one of an acknowledgement that died are given back, and recovery is invisible.
Contract == INSTANCE QueueContract WITH
    Consumers <- {"ack"},
    Messages <- Numbers,
    waiting <- Elements(pending) \cup orphans,
    held <- [c \in {"ack"} |-> {claimed} \ {0}],
    done <- acked

ImplementsContract == Contract!Spec

\* Every message is acknowledged in the end.
EventuallyAcked ==
    \A n \in Numbers : (mode = "poll" \/ ordered) /\ n \in arrived ~> n \in acked
=============================================================================
