----------------------------- MODULE MessageBus -----------------------------
(***************************************************************************)
(* Sending on the bus and consuming from its log, src/coordination/bus/    *)
(* message.js.  A sender takes the next sequence number under a lock file, *)
(* appends the event to the log and, per target, to the pending queue of   *)
(* the subscriber unless the subscriber's offset says it has consumed that *)
(* number already.  consume() reads the log from the offset on.            *)
(*                                                                         *)
(* A sender is one call of send() in some process.  The lock file is a     *)
(* file created exclusively and stamped with a pid by a second call; a     *)
(* waiter looks whether the file exists, reads it and, when it takes it    *)
(* for stale, unlinks whatever file then has that name.  The setting, which *)
(* is chosen once, says between which pairs of calls another process gets  *)
(* in; the other pairs are one step.                                       *)
(***************************************************************************)
EXTENDS Naturals, Sequences

CONSTANTS
    Senders,     \* the calls of send()
    Mortal,      \* the senders whose process may die
    Settings,    \* what the surroundings may be like, see Setting
    Free         \* the lock file does not exist

\* "stamp":    between creating the lock file and writing the pid into it
\* "vanish":   between existsSync and readFileSync of the lock file
\* "unlink":   between judging the lock file stale and unlinking it
\* "truncate": between truncating the counter file and writing it
AllWindows == {"stamp", "vanish", "unlink", "truncate"}

\* windows: the pairs of calls that are two steps
\* serial:  a send begins when no other is under way
\* stalls:  a live holder may be suspended past SEQ_LOCK_STALE_MS
Setting == [windows : SUBSET AllWindows, serial : BOOLEAN, stalls : BOOLEAN]

ASSUME BusConstants ==
    /\ Mortal \subseteq Senders
    /\ Settings \subseteq Setting
    /\ Free \notin [by : Senders, stamped : BOOLEAN]

VARIABLES
    setting,
    lock,      \* the lock file: who created it, whether it holds the pid yet
    counter,   \* the number in the counter file, 0 when missing or empty
    log,       \* the lines of the event log, oldest first
    inbox,     \* the numbers appended to the subscriber's pending queue
    offset,    \* the subscriber's offset file
    alive,     \* the senders whose process lives
    pc,        \* the next step of each sender
    current,   \* the number a sender read from the counter
    seq,       \* the number a sender was given, 0 before
    reader,    \* consume(): the numbers it read, and is about to commit
    consumed   \* history: the log positions handed to the subscriber

senderVars == <<alive, pc, current, seq>>
lockVars == <<lock, counter>>
readVars == <<offset, reader, consumed>>
vars == <<setting, lockVars, log, inbox, readVars, senderVars>>

Windows == setting.windows
SerialSends == setting.serial
Stalls == setting.stalls

\* No process gets in between the two calls of a window, no holder is suspended.
Undisturbed == Windows = {} /\ ~ Stalls

Lock == [by : Senders, stamped : BOOLEAN]

PCs == {"idle", "try", "stamp", "check", "inspect", "unlink", "read", "truncate",
        "write", "release", "append", "offer", "enqueue", "done", "failed"}

Idle == [reading |-> FALSE, upto |-> 0]

Goto(p, label) == pc' = [pc EXCEPT ![p] = label]

At(p, label) == p \in alive /\ pc[p] = label

Ended(p) == p \notin alive \/ pc[p] \in {"idle", "done", "failed"}

-----------------------------------------------------------------------------
Init ==
    /\ setting \in Settings
    /\ lock = Free
    /\ counter = 0
    /\ log = <<>>
    /\ inbox = {}
    /\ offset = 0
    /\ alive = Senders
    /\ pc = [p \in Senders |-> "idle"]
    /\ current = [p \in Senders |-> 0]
    /\ seq = [p \in Senders |-> 0]
    /\ reader = Idle
    /\ consumed = {}

Send(p) ==
    /\ At(p, "idle")
    /\ SerialSends => \A q \in Senders : Ended(q)
    /\ Goto(p, "try")
    /\ UNCHANGED <<setting, lockVars, log, inbox, readVars, alive, current, seq>>

\* Variant: the lock is not looked at.
TryLockBlindly(p) ==
    /\ At(p, "try")
    /\ lock' = [by |-> p, stamped |-> "stamp" \notin Windows]
    /\ Goto(p, IF "stamp" \in Windows THEN "stamp" ELSE "read")
    /\ UNCHANGED <<setting, counter, log, inbox, readVars, alive, current, seq>>

\* acquireSeqLock: open with O_CREAT | O_EXCL.
TryLock(p) ==
    /\ At(p, "try")
    /\ IF lock = Free
       THEN /\ lock' = [by |-> p, stamped |-> "stamp" \notin Windows]
            /\ Goto(p, IF "stamp" \in Windows THEN "stamp" ELSE "read")
       ELSE /\ Goto(p, "check")
            /\ UNCHANGED lock
    /\ UNCHANGED <<setting, counter, log, inbox, readVars, alive, current, seq>>

\* The pid goes into the file that was created, also when its name is gone.
Stamp(p) ==
    /\ At(p, "stamp")
    /\ lock' = IF lock # Free /\ lock.by = p THEN [lock EXCEPT !.stamped = TRUE]
                                             ELSE lock
    /\ Goto(p, "read")
    /\ UNCHANGED <<setting, counter, log, inbox, readVars, alive, current, seq>>

\* SEQ_LOCK_TIMEOUT_MS is over: "Failed to acquire sequence lock".
GiveUp(p) ==
    /\ At(p, "try")
    /\ Goto(p, "failed")
    /\ UNCHANGED <<setting, lockVars, log, inbox, readVars, alive, current, seq>>

\* Variant for the mutation runs: any pid in the file counts as a live holder.
VerdictsTrusting == {lock = Free \/ ~ lock.stamped}

\* What cleanupStaleSeqLock may conclude.  A file that cannot be read, holds no
\* pid or the pid of a dead process is stale; a file that is too old as well.
Verdicts ==
    IF lock = Free \/ ~ lock.stamped \/ lock.by \notin alive THEN {TRUE}
    ELSE IF Stalls THEN {TRUE, FALSE} ELSE {FALSE}

\* After the verdict: unlink now, unlink later, or go back and poll.
Judge(p) ==
    \E verdict \in Verdicts :
        /\ Goto(p, IF verdict /\ "unlink" \in Windows THEN "unlink" ELSE "try")
        /\ lock' = IF verdict /\ "unlink" \notin Windows THEN Free ELSE lock

CheckLock(p) ==
    /\ At(p, "check")
    /\ \/ /\ lock = Free
          /\ Goto(p, "try")
          /\ UNCHANGED lock
       \/ /\ lock # Free
          /\ IF "vanish" \in Windows THEN Goto(p, "inspect") /\ UNCHANGED lock
                                     ELSE Judge(p)
    /\ UNCHANGED <<setting, counter, log, inbox, readVars, alive, current, seq>>

InspectLock(p) ==
    /\ At(p, "inspect")
    /\ Judge(p)
    /\ UNCHANGED <<setting, counter, log, inbox, readVars, alive, current, seq>>

UnlinkStale(p) ==
    /\ At(p, "unlink")
    /\ lock' = Free
    /\ Goto(p, "try")
    /\ UNCHANGED <<setting, counter, log, inbox, readVars, alive, current, seq>>

\* readMaxSeqFromEvents: the number on the last line of the newest log file.
LastSeq == IF log = <<>> THEN 0 ELSE log[Len(log)].seq

ReadCounter(p) ==
    /\ At(p, "read")
    /\ current' = [current EXCEPT ![p] = IF counter > 0 THEN counter ELSE LastSeq]
    /\ Goto(p, IF "truncate" \in Windows THEN "truncate" ELSE "write")
    /\ UNCHANGED <<setting, lockVars, log, inbox, readVars, alive, seq>>

\* writeFileSync opens the counter with O_TRUNC and writes the number after.
TruncateCounter(p) ==
    /\ At(p, "truncate")
    /\ counter' = 0
    /\ Goto(p, "write")
    /\ UNCHANGED <<setting, lock, log, inbox, readVars, alive, current, seq>>

WriteCounter(p) ==
    /\ At(p, "write")
    /\ counter' = current[p] + 1
    /\ seq' = [seq EXCEPT ![p] = current[p] + 1]
    /\ Goto(p, "release")
    /\ UNCHANGED <<setting, lock, log, inbox, readVars, alive, current>>

\* releaseSeqLock unlinks the lock file there is, whoever created it.
ReleaseLock(p) ==
    /\ At(p, "release")
    /\ lock' = Free
    /\ Goto(p, "append")
    /\ UNCHANGED <<setting, counter, log, inbox, readVars, alive, current, seq>>

TargetNotFound(p) ==
    /\ At(p, "append")
    /\ Goto(p, "failed")
    /\ UNCHANGED <<setting, lockVars, log, inbox, readVars, alive, current, seq>>

AppendLog(p) ==
    /\ At(p, "append")
    /\ log' = Append(log, [seq |-> seq[p], by |-> p])
    /\ Goto(p, "offer")
    /\ UNCHANGED <<setting, lockVars, inbox, readVars, alive, current, seq>>

\* getOffset, awaited: nothing is queued for a number up to the offset.
CheckOffset(p) ==
    /\ At(p, "offer")
    /\ Goto(p, IF seq[p] > offset THEN "enqueue" ELSE "done")
    /\ UNCHANGED <<setting, lockVars, log, inbox, readVars, alive, current, seq>>

Enqueue(p) ==
    /\ At(p, "enqueue")
    /\ inbox' = inbox \cup {seq[p]}
    /\ Goto(p, "done")
    /\ UNCHANGED <<setting, lockVars, log, readVars, alive, current, seq>>

\* consume: of the lines read, those are taken whose number is larger than the
\* offset and than every number before them.
Taken == {i \in DOMAIN log :
             log[i].seq > offset /\ \A j \in 1 .. i - 1 : log[j].seq < log[i].seq}

Consume ==
    /\ ~ reader.reading
    /\ Taken # {}
    /\ \E top \in Taken :
          /\ \A i \in Taken : log[i].seq <= log[top].seq
          /\ reader' = [reading |-> TRUE, upto |-> log[top].seq]
    /\ consumed' = consumed \cup Taken
    /\ UNCHANGED <<setting, lockVars, log, inbox, offset, senderVars>>

\* Variant: the offset follows the counter instead of what was read.
CommitCounter ==
    /\ reader.reading
    /\ offset' = counter
    /\ reader' = Idle
    /\ UNCHANGED <<setting, lockVars, log, inbox, consumed, senderVars>>

CommitOffset ==
    /\ reader.reading
    /\ offset' = reader.upto
    /\ reader' = Idle
    /\ UNCHANGED <<setting, lockVars, log, inbox, consumed, senderVars>>

Crash(p) ==
    /\ p \in alive \cap Mortal
    /\ pc[p] \notin {"idle", "done", "failed"}
    /\ alive' = alive \ {p}
    /\ UNCHANGED <<setting, lockVars, log, inbox, readVars, pc, current, seq>>

Step(p) ==
    \/ TryLock(p) \/ Stamp(p) \/ CheckLock(p) \/ InspectLock(p) \/ UnlinkStale(p)
    \/ ReadCounter(p) \/ TruncateCounter(p) \/ WriteCounter(p) \/ ReleaseLock(p)
    \/ AppendLog(p) \/ CheckOffset(p) \/ Enqueue(p)

Next ==
    \/ \E p \in Senders :
        Send(p) \/ Step(p) \/ GiveUp(p) \/ TargetNotFound(p) \/ Crash(p)
    \/ Consume
    \/ CommitOffset

Spec == Init /\ [][Next]_vars

\* A process that lives takes its next step.
FairSpec == Spec /\ \A p \in Senders : WF_vars(Step(p))
-----------------------------------------------------------------------------
\* Types, and that a number is given out before it is used.
TypeOK ==
    /\ setting \in Settings
    /\ lock \in Lock \cup {Free}
    /\ counter \in Nat
    /\ log \in Seq([seq : Nat \ {0}, by : Senders])
    /\ inbox \in SUBSET (Nat \ {0})
    /\ offset \in Nat
    /\ alive \in SUBSET Senders
    /\ pc \in [Senders -> PCs]
    /\ current \in [Senders -> Nat]
    /\ seq \in [Senders -> Nat]
    /\ reader \in [reading : BOOLEAN, upto : Nat]
    /\ consumed \in SUBSET (Nat \ {0})
    /\ \A p \in Senders :
          pc[p] \in {"release", "append", "offer", "enqueue"} => seq[p] > 0

InCritical(p) == p \in alive /\ pc[p] \in {"read", "truncate", "write"}

\* The holder of a working lock: the sender between taking and releasing it
\* is the one that created the file.
HolderInv ==
    /\ lock # Free => lock.stamped
    /\ \A p \in alive : pc[p] \in {"read", "write", "release"} =>
          lock # Free /\ lock.by = p
    /\ \A p \in Senders : pc[p] \notin {"stamp", "inspect", "unlink", "truncate"}

\* Numbers grow: nothing given out exceeds the counter, the holder has read the
\* counter as it is, and no two sends have the same number.
NumbersInv ==
    /\ \A p \in Senders : seq[p] <= counter
    /\ \A p \in alive : pc[p] = "write" => current[p] = counter
    /\ \A p, q \in Senders : seq[p] = seq[q] /\ seq[p] > 0 => p = q
    /\ \A p \in Senders : pc[p] \in {"idle", "try", "check", "read", "write"} => seq[p] = 0

\* The log holds, once each, the numbers of sends that have got that far.
LogInv ==
    /\ \A i \in DOMAIN log :
          /\ log[i].seq = seq[log[i].by]
          /\ pc[log[i].by] \in {"offer", "enqueue", "done"}
    /\ \A i, j \in DOMAIN log : log[i].by = log[j].by => i = j

LockInv == TypeOK /\ HolderInv /\ NumbersInv /\ LogInv

\* One send at a time: of the senders that live one at most is under way.
OneSend == \A p, q \in Senders : ~ Ended(p) /\ ~ Ended(q) => p = q

\* The numbers of the log grow, and whoever is about to add one has a larger one,
\* also when those before died and left an empty counter or a lock behind.
GrowthInv ==
    /\ \A i, j \in DOMAIN log : i < j => log[i].seq < log[j].seq
    /\ \A i \in DOMAIN log :
          /\ counter > 0 => log[i].seq <= counter
          /\ \A p \in alive :
                /\ pc[p] \in {"truncate", "write"} => log[i].seq <= current[p]
                /\ pc[p] \in {"release", "append"} => log[i].seq < seq[p]
    /\ \A p \in alive : pc[p] \in {"release", "append"} => seq[p] <= counter

\* What is up to the offset, or to what a reader is about to commit, is consumed,
\* and neither is ahead of the log.
OffsetInv ==
    /\ offset <= LastSeq
    /\ reader.reading => reader.upto <= LastSeq
    /\ \A i \in DOMAIN log :
          log[i].seq <= offset \/ (reader.reading /\ log[i].seq <= reader.upto)
          => i \in consumed

\* A send that is done has queued its number unless a consumer has it.
QueuedInv ==
    \A i \in DOMAIN log : pc[log[i].by] = "done" => log[i].seq \in inbox \/ i \in consumed

\* The inductive invariant behind MutualExclusion and SeqUnique, undisturbed.
BusInv == Undisturbed => LockInv

\* The one behind SeqUnique, QueuedOrConsumed and NothingSkipped, serial.
SerialInv ==
    SerialSends => TypeOK /\ LogInv /\ OneSend /\ GrowthInv /\ OffsetInv /\ QueuedInv

\* The lock works: no two live senders are between taking and releasing it.
MutualExclusion ==
    Undisturbed => \A p, q \in Senders : InCritical(p) /\ InCritical(q) => p = q

NoTwins == \A i, j \in DOMAIN log : log[i].seq = log[j].seq => i = j

\* No two events of the log carry the same number, undisturbed or when one send
\* follows the other, whoever dies half way and leaves lock and counter behind.
SeqUnique == Undisturbed \/ SerialSends => NoTwins

\* message.js:461 "check the subscriber's offset; a seq it has consumed already
\* is not added again": when one send follows the other, a send that queues
\* nothing left nothing undelivered.
QueuedOrConsumed ==
    SerialSends =>
        \A i \in DOMAIN log :
            pc[log[i].by] = "done" => log[i].seq \in inbox \/ i \in consumed

\* The offset passes over no event of the log.
NothingSkipped ==
    SerialSends => \A i \in DOMAIN log : log[i].seq <= offset => i \in consumed

\* Every send ends, whoever dies holding the lock: waiters clear a dead holder.
EverySendEnds == \A p \in Senders : pc[p] = "try" ~> Ended(p)
=============================================================================
