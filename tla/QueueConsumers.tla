--------------------------- MODULE QueueConsumers ---------------------------
(***************************************************************************)
(* The loops that take messages from a delivery queue and do something     *)
(* with them, apart from the delivery scheduler and the receive path:      *)
(*                                                                         *)
(*   "runner"  the headless agent, agents/internal/internalRunner.js:      *)
(*             claims all there is, then handles one after the other       *)
(*   "ucode"   runUbusCommand of code/busConsumer.js: one claim at a time  *)
(*   "report"  the daemon's report queue, runtime/daemon/reportControlBus: *)
(*             completes all claims before it handles the first            *)
(*   "bridge"  pollQueue of runtime/daemon/index.js: hands the daemon's    *)
(*             own messages to the connected clients                       *)
(*                                                                         *)
(* A claim and a restore are single steps of one process, as QueueContract *)
(* has them; the messages a dead process had claimed are back in the queue *)
(* with the next claim.  Which loop it is is chosen once.                  *)
(***************************************************************************)
EXTENDS Naturals, Sequences, FiniteSets, Functions

CONSTANTS
    Kinds,       \* the loops to look at
    Total,       \* the messages have the numbers 1 .. Total
    Actionable,  \* those the loop does something with; it completes the others
    MaxFaults    \* bound on the failures of handlers and the deaths of the process

AllKinds == {"runner", "ucode", "report", "bridge"}

Messages == 1 .. Total

ASSUME ConsumerConstants ==
    /\ Kinds \subseteq AllKinds
    /\ Total \in Nat /\ MaxFaults \in Nat
    /\ Actionable \subseteq Messages

VARIABLES
    kind,
    waiting,     \* the messages in pending.jsonl, in the order of its lines
    processing,  \* the messages in processing files of this process
    stranded,    \* the messages in processing files of a process that is gone
    batch,       \* what the loop has taken and not yet handled, in memory
    draining,    \* is the loop at taking messages?
    up,          \* does the process run?
    clients,     \* the bridge: is a client connected?
    remembered,  \* the bridge: keys of the events it has emitted, in memory
    sent,        \* history: the messages appended so far
    earlier,     \* history: those that had been appended before a message was
    ran,         \* history: how often a message was acted upon
    undone,      \* history: how often that was not followed by a completion
    hit,         \* history: messages in hand when a handler failed or it died
    faults       \* history: failures and deaths so far

files == <<waiting, processing, stranded>>
arrivals == <<sent, earlier>>
history == <<ran, undone, hit, faults>>
loopVars == <<kind, files, batch, draining, up, clients, remembered, arrivals, history>>

InBatch == Range(batch)
Waiting == Range(waiting)

\* Two loops have one message in hand at most.
OneByOne == kind \in {"ucode", "bridge"}

LoopInit ==
    /\ kind \in Kinds
    /\ waiting = <<>> /\ processing = {} /\ stranded = {}
    /\ batch = <<>>
    /\ draining = FALSE
    /\ up = TRUE
    /\ clients = FALSE
    /\ remembered = {}
    /\ sent = {}
    /\ earlier = [m \in Messages |-> {}]
    /\ ran = [m \in Messages |-> 0]
    /\ undone = [m \in Messages |-> 0]
    /\ hit = {}
    /\ faults = 0

\* Messages of the bus are numbered under a lock and appended outside of it, so
\* they may arrive in any order.  Reports have no number: here theirs only names them.
Send(m) ==
    /\ m \notin sent
    /\ kind = "report" => \A n \in Messages \ sent : m <= n
    /\ sent' = sent \cup {m}
    /\ earlier' = [earlier EXCEPT ![m] = sent]
    /\ waiting' = Append(waiting, m)
    /\ UNCHANGED <<kind, processing, stranded, batch, draining, up, clients, remembered,
                   history>>

\* Variant: nothing is sorted.
InAnyOrder(set) == {s \in [1 .. Cardinality(set) -> set] : Range(s) = set}

\* The sequence that holds the numbers of a set in rising order.
ByNumber(set) ==
    {s \in [1 .. Cardinality(set) -> set] :
        Range(s) = set /\ \A i, j \in DOMAIN s : i < j => s[i] < s[j]}

\* pending.jsonl after a recovery.  What has a number is sorted by it; a report, of
\* which one process leaves one behind at most, goes behind those that wait.
Recovered ==
    IF stranded = {} THEN {waiting}
    ELSE IF kind = "report" THEN {Append(waiting, r) : r \in stranded}
    ELSE ByNumber(Waiting \cup stranded)

\* A turn of the polling loop begins when the one before has ended; the bridge
\* leaves its queue alone while nobody is connected.
Poll ==
    /\ up
    /\ ~ draining /\ batch = <<>>
    /\ waiting # <<>> \/ stranded # {}
    /\ kind = "bridge" => clients
    /\ draining' = TRUE
    /\ UNCHANGED <<kind, files, batch, up, clients, remembered, arrivals, history>>

\* The first message of pending gets a processing file; the recovery comes first.
\* A report is put into the batch later, right before its claim is completed.
ClaimNext ==
    /\ up /\ draining
    /\ OneByOne => batch = <<>>
    /\ kind = "report" => processing = {}
    /\ \E line \in Recovered :
        /\ line # <<>>
        /\ waiting' = Tail(line)
        /\ stranded' = {}
        /\ processing' = processing \cup {Head(line)}
        /\ batch' = IF kind = "report" THEN batch ELSE Append(batch, Head(line))
    /\ UNCHANGED <<kind, draining, up, clients, remembered, arrivals, history>>

\* takeReportControlEvents: the report is taken and its claim completed.
TakeReport ==
    /\ up /\ draining
    /\ kind = "report"
    /\ \E r \in processing :
        /\ batch' = Append(batch, r)
        /\ processing' = processing \ {r}
    /\ UNCHANGED <<kind, waiting, stranded, draining, up, clients, remembered, arrivals,
                   history>>

\* There is nothing more to claim.
Drained ==
    /\ up /\ draining
    /\ waiting = <<>> /\ stranded = {}
    /\ OneByOne => batch = <<>>
    /\ kind = "report" => processing = {}
    /\ draining' = FALSE
    /\ UNCHANGED <<kind, files, batch, up, clients, remembered, arrivals, history>>

Complete(m) ==
    /\ processing' = processing \ {m}
    /\ batch' = Tail(batch)
    /\ UNCHANGED <<waiting, stranded, draining>>

\* Not a message for this loop, or an event the bridge has emitted already.
Ignore(m) ==
    /\ m \notin Actionable \/ m \in remembered
    /\ Complete(m)
    /\ UNCHANGED <<kind, up, clients, remembered, arrivals, history>>

Act(m) ==
    /\ m \in Actionable \ remembered
    /\ ran' = [ran EXCEPT ![m] = @ + 1]
    /\ remembered' = IF kind = "bridge" THEN remembered \cup {m} ELSE {}
    /\ Complete(m)
    /\ UNCHANGED <<kind, up, clients, arrivals, undone, hit, faults>>

\* The handler fails, with or without having acted before.
Spoilt(m) ==
    /\ faults < MaxFaults
    /\ faults' = faults + 1
    /\ \E n \in {0, 1} :
        /\ ran' = [ran EXCEPT ![m] = @ + n]
        /\ undone' = [undone EXCEPT ![m] = @ + n]

\* The process is gone and its memory with it; its claims stay in their files.
Ends ==
    /\ up' = FALSE
    /\ draining' = FALSE
    /\ batch' = <<>>
    /\ processing' = {}
    /\ remembered' = {}

Restore(m) ==
    /\ waiting' \in ByNumber(Waiting \cup {m})
    /\ processing' = processing \ {m}
    /\ UNCHANGED stranded

\* Variants: the runner completes the claim of a message that failed; and nobody
\* restores a claim or ends.
FailCompletes(m) ==
    /\ m \in Actionable \ remembered
    /\ Spoilt(m)
    /\ hit' = hit \cup {m}
    /\ Complete(m)
    /\ remembered' = IF kind = "bridge" THEN remembered \cup {m} ELSE {}
    /\ UNCHANGED <<kind, up, clients, arrivals>>

FailKeepsClaim(m) ==
    /\ m \in Actionable \ remembered
    /\ Spoilt(m)
    /\ hit' = hit \cup {m}
    /\ batch' = Tail(batch)
    /\ remembered' = IF kind = "bridge" THEN remembered \cup {m} ELSE {}
    /\ UNCHANGED <<kind, files, draining, up, clients, arrivals>>

\* The runner restores the claim and throws, which ends its process with the
\* rest of the batch claimed.  ucode restores it and leaves the loop.  A report
\* is gone: its claim was completed before.  The bridge restores the claim and claims
\* again, but it has remembered the event before it called the handler.
Fail(m) ==
    /\ m \in Actionable \ remembered
    /\ Spoilt(m)
    /\ hit' = hit \cup {m}
    /\ \/ /\ kind = "runner"
          /\ waiting' \in ByNumber(Waiting \cup {m})
          /\ stranded' = stranded \cup (processing \ {m})
          /\ Ends
       \/ /\ kind = "ucode"
          /\ Restore(m)
          /\ batch' = <<>>
          /\ draining' = FALSE
          /\ UNCHANGED <<up, remembered>>
       \/ /\ kind = "report"
          /\ batch' = Tail(batch)
          /\ UNCHANGED <<files, draining, up, remembered>>
       \/ /\ kind = "bridge"
          /\ Restore(m)
          /\ batch' = <<>>
          /\ remembered' = remembered \cup {m}
          /\ UNCHANGED <<draining, up>>
    /\ UNCHANGED <<kind, clients, arrivals>>

\* What was claimed one by one is handled before the next claim, the rest when
\* everything has been claimed.
Handle ==
    /\ up
    /\ batch # <<>>
    /\ ~ OneByOne => ~ draining
    /\ Ignore(Head(batch)) \/ Act(Head(batch)) \/ Fail(Head(batch))

\* The process dies, perhaps between acting on a message and completing it.
Die ==
    /\ up
    /\ \/ /\ batch # <<>> /\ Head(batch) \in Actionable \ remembered
          /\ ~ OneByOne => ~ draining
          /\ Spoilt(Head(batch))
       \/ /\ faults < MaxFaults
          /\ faults' = faults + 1
          /\ UNCHANGED <<ran, undone>>
    /\ hit' = hit \cup InBatch \cup processing
    /\ stranded' = stranded \cup processing
    /\ Ends
    /\ UNCHANGED <<kind, waiting, clients, arrivals>>

\* The agent or the daemon is launched again.
Restart ==
    /\ ~ up
    /\ up' = TRUE
    /\ UNCHANGED <<kind, files, batch, draining, clients, remembered, arrivals, history>>

\* Clients of the daemon come and go.
Connect ==
    /\ kind = "bridge"
    /\ clients' = ~ clients
    /\ UNCHANGED <<kind, files, batch, draining, up, remembered, arrivals, history>>

Drain == ClaimNext \/ TakeReport \/ Drained

LoopNext ==
    \/ \E m \in Messages : Send(m)
    \/ Poll \/ Drain \/ Handle \/ Die \/ Restart \/ Connect

LoopSpec == LoopInit /\ [][LoopNext]_loopVars

\* The loops are driven by timers, handlers return, and what died is launched again.
LoopFairSpec ==
    /\ LoopSpec
    /\ WF_loopVars(Poll) /\ WF_loopVars(Drain) /\ WF_loopVars(Handle) /\ WF_loopVars(Restart)

-----------------------------------------------------------------------------
\* Nothing more will be done about a message.
Settled(m) == m \in sent \ (Waiting \cup processing \cup stranded \cup InBatch)

\* Is x to be acted on before y?  It arrived before y and, where messages have
\* numbers, has the smaller one.  A report that was in hand when the daemon died has
\* lost its place.
Precedes(x, y) ==
    /\ x \in earlier[y]
    /\ IF kind = "report" THEN x \notin hit ELSE x < y

\* Every variable has its type.
LoopTypeOK ==
    /\ kind \in Kinds /\ up \in BOOLEAN /\ draining \in BOOLEAN /\ clients \in BOOLEAN
    /\ waiting \in Seq(Messages) /\ batch \in Seq(Messages)
    /\ processing \in SUBSET Messages /\ stranded \in SUBSET Messages
    /\ remembered \in SUBSET Messages /\ hit \in SUBSET Messages
    /\ sent \in SUBSET Messages /\ faults \in 0 .. MaxFaults
    /\ earlier \in [Messages -> SUBSET Messages]
    /\ ran \in [Messages -> Nat] /\ undone \in [Messages -> Nat]

\* No loop loses a message or acts on it twice without a reason.  The headless
\* agent and ucode never lose one; the report queue loses the report whose handler
\* failed and those in memory when the daemon dies, the bridge an event whose
\* emission failed.  A second action on a message needs a first one that was cut
\* off before its claim was completed, and a report is never acted on twice.
Explained ==
    /\ LoopTypeOK
    /\ Waiting \cap (processing \cup stranded) = {}
    /\ kind # "report" => InBatch = processing
    /\ \A m \in Actionable :
        /\ Settled(m) /\ ran[m] = 0 => kind \in {"report", "bridge"} /\ m \in hit
        /\ ran[m] <= 1 + (IF kind = "report" THEN 0 ELSE undone[m])

\* Messages are acted on in order: the first action on one never comes while one
\* that precedes it still waits for its own.
ActedInOrder ==
    [][\A m \in Messages : ran[m] = 0 /\ ran'[m] = 1 =>
          \A older \in Actionable :
             Precedes(older, m) => ran[older] > 0 \/ Settled(older)]_loopVars

\* Every message is dealt with in the end, however the handlers fail and the
\* process dies, as long as both stop some time; none is left in a processing file
\* of a process that goes on.  The bridge needs a client that stays.
EventuallySettled ==
    \A m \in Messages :
        m \in sent ~> (Settled(m) \/ (kind = "bridge" /\ ~ clients))
=============================================================================
