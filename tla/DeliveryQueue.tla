--------------------------- MODULE DeliveryQueue ---------------------------
(***************************************************************************)
(* The pending queue of one bus subscriber, src/coordination/bus/          *)
(* deliveryQueue.js, as the processes that share its directory see it.     *)
(*                                                                         *)
(* A queue is one file, pending.jsonl, and one processing file for every   *)
(* event that has been claimed and not yet completed or restored.  There   *)
(* is no lock: append, claimNext, restoreClaim and recover are sequences   *)
(* of file-system calls, and an action below is one such call.  Inside one *)
(* process the calls of an operation run without a pause (the code is      *)
(* synchronous); other processes run between them, and a process may die   *)
(* between them.  A process that is started again has another pid, so a    *)
(* crash is for ever.                                                      *)
(***************************************************************************)
EXTENDS Integers, Sequences, FiniteSets, Functions

CONSTANTS
    Procs,        \* pids of the processes that claim from the queue
    Mortal,       \* those of them that may crash
    Files,        \* names of processing files; bounds how many exist at once
    Events,       \* the events that may be sent to the subscriber
    SeqOf,        \* the seq of an event, 0 when it carries none
    NoFile,       \* the content of a name under which no file exists
    Settings,     \* bounds of a behaviour: the events sent, how many operations
                  \* begin while another is under way, how often an event that
                  \* was acted on is given back
    MaxEffects    \* bound on how often the side effect of an event happens

ASSUME QueueConstants ==
    /\ Mortal \subseteq Procs
    /\ IsFiniteSet(Files)
    /\ SeqOf \in [Events -> Nat]
    /\ Settings \subseteq [events : SUBSET Events, overlaps : Nat, undone : Nat]
    /\ MaxEffects \in Nat
    /\ NoFile \notin [pid : Procs, ev : Events]

VARIABLES
    pending,   \* the events in pending.jsonl, <<>> when the file is missing
    file,      \* the processing files: the owner in the name, the event inside
    alive,     \* the processes that have not crashed
    pc,        \* the file-system call a process makes next
    then,      \* what follows recover(): claimNext goes on, readPending ends
    todo,      \* processing files the operation under way is to remove
    buf,       \* the events the operation has read and will write
    sent,      \* history: the events appended so far
    inOrder,   \* history: sequenced events came in the order of their seq
    ran,       \* history: the claims whose side effect has been carried out
    effects,   \* history: how often the side effect of an event was carried out
    unacked,   \* history: side effects no completeClaim followed: the process
               \* died before it, or gave the claim back after acting
    finished,  \* history: the events whose claim was completed
    overlaps,  \* history: operations begun while another one was under way
    overwritten, \* history: events in pending.jsonl that a rewrite dropped, the
               \* writer not having read them
    setting    \* the bounds of this behaviour, chosen once

disk == <<pending, file>>
procState == <<alive, pc, then, todo, buf>>
arrivals == <<sent, inOrder>>
tally == <<overlaps, setting>>
races == <<tally, overwritten>>
history == <<arrivals, ran, effects, unacked, finished, overwritten>>
vars == <<disk, procState, history, tally>>

PCs == {"idle", "recoverPending", "recoverFiles", "write", "remove",
        "claim", "save", "trim"}

Claim == [pid : Procs, ev : Events]

Sequenced(e) == SeqOf[e] > 0

Exists(f) == file[f] # NoFile

\* Variant for the mutation runs: recovery takes every owner for a live one.
RecoverableNever == {}

\* The processing files isRecoverableProcessingFile accepts: a file whose name
\* carries a pid is recoverable when, and only when, that process is dead.
Recoverable == {f \in Files : Exists(f) /\ file[f].pid \notin alive}

InFiles == {file[f].ev : f \in {g \in Files : Exists(g)}}

\* A name nobody uses: generated from pid, time and a random part, so never
\* one that another process still has on the list of files it is removing.
Fresh(f) == ~ Exists(f) /\ \A q \in Procs : f \notin todo[q]

\* What the files contain that the operation of p is to remove or has claimed.
TodoEvents(p) == {file[f].ev : f \in {g \in todo[p] : Exists(g)}}

-----------------------------------------------------------------------------
(***************************************************************************)
(* mergeAndSort.  Of the events with the same positive seq the first is    *)
(* kept; sequenced events come first, in the order of their seq, the       *)
(* others follow in the order they were read.  The result is given by the  *)
(* positions it takes from the input; there is exactly one such order.     *)
(***************************************************************************)
Kept(s) == {i \in DOMAIN s : Sequenced(s[i]) =>
               \A j \in DOMAIN s : j < i => SeqOf[s[j]] # SeqOf[s[i]]}

Precedes(s, i, j) ==
    \/ Sequenced(s[i]) /\ Sequenced(s[j]) /\ SeqOf[s[i]] < SeqOf[s[j]]
    \/ Sequenced(s[i]) /\ ~ Sequenced(s[j])
    \/ ~ Sequenced(s[i]) /\ ~ Sequenced(s[j]) /\ i < j

MergeOrders(s) ==
    LET n == Cardinality(Kept(s))
    IN  {o \in Bijection(1 .. n, Kept(s)) :
            \A a, b \in 1 .. n : a < b => Precedes(s, o[a], o[b])}

MergeNothing(s) == {s}   \* variant: plain concatenation

MergeAndSort(s) == {[i \in DOMAIN o |-> s[o[i]]] : o \in MergeOrders(s)}

\* The contents of some processing files, read in the order of their names,
\* which start with the pid and so say nothing about age.
Contents(S) ==
    {[i \in DOMAIN o |-> file[o[i]].ev] : o \in Bijection(1 .. Cardinality(S), S)}

-----------------------------------------------------------------------------
Init ==
    /\ pending = <<>>
    /\ file = [f \in Files |-> NoFile]
    /\ alive = Procs
    /\ pc = [p \in Procs |-> "idle"]
    /\ then = [p \in Procs |-> "idle"]
    /\ todo = [p \in Procs |-> {}]
    /\ buf = [p \in Procs |-> <<>>]
    /\ sent = {}
    /\ inOrder = TRUE
    /\ ran = {}
    /\ effects = [e \in Events |-> 0]
    /\ unacked = [e \in Events |-> 0]
    /\ finished = {}
    /\ overlaps = 0
    /\ overwritten = {}
    /\ setting \in Settings

\* Some process is in the middle of an operation.
Busy == \E q \in alive : pc[q] # "idle"

\* An operation begins.  Nothing keeps it from doing so while another is under
\* way; such beginnings are counted, and the setting bounds them.
Begin ==
    /\ UNCHANGED setting
    /\ \/ ~ Busy /\ UNCHANGED overlaps
       \/ Busy /\ overlaps < setting.overlaps /\ overlaps' = overlaps + 1

MayBegin(p) == p \in alive /\ pc[p] = "idle" /\ Begin

Goto(p, label) == pc' = [pc EXCEPT ![p] = label]

Overtakes(e) == Sequenced(e) /\ \E d \in sent : Sequenced(d) /\ SeqOf[d] > SeqOf[e]

\* append: one O_APPEND write by any process, of an event not appended before.
\* (An append that opened the file before a rename and writes after it leaves
\* what an append right before the rename leaves.)
AppendEvent(e) ==
    /\ Begin
    /\ e \in setting.events \ sent
    /\ pending' = Append(pending, e)
    /\ sent' = sent \cup {e}
    /\ inOrder' = (inOrder /\ ~ Overtakes(e))
    /\ UNCHANGED <<file, procState, ran, effects, unacked, finished, overwritten>>

\* The first step of recover(): list the files of dead processes.  next is
\* what follows, and follows at once when there is no such file.
BeginRecover(p, next) ==
    /\ todo' = [todo EXCEPT ![p] = Recoverable]
    /\ then' = [then EXCEPT ![p] = next]
    /\ Goto(p, IF Recoverable = {} THEN next ELSE "recoverPending")
    /\ UNCHANGED <<disk, alive, buf, history>>

\* readPending() by a checker or a poller changes something only by recovering.
ReadPending(p) ==
    /\ MayBegin(p)
    /\ Recoverable # {}
    /\ BeginRecover(p, "idle")

\* Bound: a claim begins only while there is a name left for it in Files.
Unreserved ==
    Cardinality({f \in Files : Fresh(f) \/ f \in Recoverable})
      - Cardinality({q \in alive : pc[q] # "idle" /\ then[q] = "claim"})

ClaimNext(p) ==
    /\ MayBegin(p)
    /\ Unreserved > 0
    /\ BeginRecover(p, "claim")

RecoverPending(p) ==
    /\ pc[p] = "recoverPending"
    /\ buf' = [buf EXCEPT ![p] = pending]
    /\ Goto(p, "recoverFiles")
    /\ UNCHANGED <<disk, alive, then, todo, history, tally>>

\* A listed file that another process has removed meanwhile reads as empty.
RecoverFiles(p) ==
    /\ pc[p] = "recoverFiles"
    /\ \E read \in Contents({f \in todo[p] : Exists(f)}) :
       \E merged \in MergeAndSort(buf[p] \o read) :
           buf' = [buf EXCEPT ![p] = merged]
    /\ Goto(p, "write")
    /\ UNCHANGED <<disk, alive, then, todo, history, tally>>

\* writePending replaces the whole file by what the process has in memory; kept
\* is what it knew of.
Rewrite(p, kept) ==
    /\ pending' = buf[p]
    /\ overwritten' = overwritten \cup (Range(pending) \ kept)
    /\ buf' = [buf EXCEPT ![p] = <<>>]

\* writePending(merged), of recover() and of restoreClaim(): a rename.
WriteMerged(p) ==
    /\ pc[p] = "write"
    /\ Rewrite(p, Range(buf[p]))
    /\ Goto(p, "remove")
    /\ UNCHANGED <<file, alive, then, todo, arrivals, ran, effects, unacked, finished, tally>>

\* Remove one of the merged processing files; after the last, go on.
RemoveFile(p) ==
    /\ pc[p] = "remove"
    /\ \E f \in todo[p] :
        /\ file' = [file EXCEPT ![f] = NoFile]
        /\ todo' = [todo EXCEPT ![p] = @ \ {f}]
        /\ Goto(p, IF todo[p] = {f} THEN then[p] ELSE "remove")
    /\ UNCHANGED <<pending, alive, then, buf, history, tally>>

\* Variant: the event is taken out of pending.jsonl before its processing file is
\* written.
ClaimReadTrimming(p) ==
    /\ pc[p] = "claim"
    /\ buf' = [buf EXCEPT ![p] = pending]
    /\ Goto(p, IF pending = <<>> THEN "idle" ELSE "save")
    /\ pending' = IF pending = <<>> THEN <<>> ELSE Tail(pending)
    /\ UNCHANGED <<file, alive, then, todo, history, tally>>

\* claimNext after its recover(): read pending.jsonl.
ClaimRead(p) ==
    /\ pc[p] = "claim"
    /\ buf' = [buf EXCEPT ![p] = pending]
    /\ Goto(p, IF pending = <<>> THEN "idle" ELSE "save")
    /\ UNCHANGED <<disk, alive, then, todo, history, tally>>

\* Write the processing file: the event is now in two places.
ClaimSave(p) ==
    /\ pc[p] = "save"
    /\ \E f \in Files :
        /\ Fresh(f)
        /\ file' = [file EXCEPT ![f] = [pid |-> p, ev |-> Head(buf[p])]]
        /\ todo' = [todo EXCEPT ![p] = {f}]
    /\ buf' = [buf EXCEPT ![p] = Tail(@)]
    /\ Goto(p, "trim")
    /\ UNCHANGED <<pending, alive, then, history, tally>>

\* writePending(remaining): the claim is handed to the caller.
ClaimTrim(p) ==
    /\ pc[p] = "trim"
    /\ Rewrite(p, Range(buf[p]) \cup TodoEvents(p))
    /\ todo' = [todo EXCEPT ![p] = {}]
    /\ Goto(p, "idle")
    /\ UNCHANGED <<file, alive, then, arrivals, ran, effects, unacked, finished, tally>>

\* The claims a live process holds and has not begun to give back.
Holds(p, f) == Exists(f) /\ file[f].pid = p /\ p \in alive /\ f \notin todo[p]

\* A claim on its way back that is not yet in pending.jsonl.
Restoring(p, f) == p \in alive /\ pc[p] = "write" /\ f \in todo[p]
                   /\ Exists(f) /\ file[f].pid = p

\* The caller carries out the side effect (an injection, a tool run, an ack).
Effect(p, f) ==
    /\ Holds(p, f) /\ pc[p] = "idle"
    /\ f \notin ran
    /\ effects[file[f].ev] < MaxEffects
    /\ ran' = ran \cup {f}
    /\ effects' = [effects EXCEPT ![file[f].ev] = @ + 1]
    /\ UNCHANGED <<disk, procState, arrivals, unacked, finished, races>>

CompleteClaim(p, f) ==
    /\ Holds(p, f) /\ pc[p] = "idle"
    /\ f \in ran
    /\ file' = [file EXCEPT ![f] = NoFile]
    /\ ran' = ran \ {f}
    /\ finished' = finished \cup {file[f].ev}
    /\ UNCHANGED <<pending, procState, arrivals, effects, unacked, races>>

\* An effect that was carried out loses its claim without completeClaim.
Undo(f) ==
    /\ f \in ran => unacked[file[f].ev] < setting.undone
    /\ ran' = ran \ {f}
    /\ unacked' = [unacked EXCEPT ![file[f].ev] = IF f \in ran THEN @ + 1 ELSE @]

\* Variant of RestoreClaim: the processing file goes before pending is written.
RestoreRemovesFirst(p, f) ==
    /\ Holds(p, f) /\ MayBegin(p)
    /\ Undo(f)
    /\ \E merged \in MergeAndSort(<<file[f].ev>> \o pending) :
           buf' = [buf EXCEPT ![p] = merged]
    /\ file' = [file EXCEPT ![f] = NoFile]
    /\ todo' = [todo EXCEPT ![p] = {f}]
    /\ then' = [then EXCEPT ![p] = "idle"]
    /\ Goto(p, "write")
    /\ UNCHANGED <<pending, alive, arrivals, effects, finished, overwritten>>

\* restoreClaim: the side effect was refused or failed, or it was carried out
\* and a later step failed, as the reply does after the turn of ucode.
RestoreClaim(p, f) ==
    /\ Holds(p, f) /\ MayBegin(p)
    /\ Undo(f)
    /\ \E merged \in MergeAndSort(<<file[f].ev>> \o pending) :
           buf' = [buf EXCEPT ![p] = merged]
    /\ todo' = [todo EXCEPT ![p] = {f}]
    /\ then' = [then EXCEPT ![p] = "idle"]
    /\ Goto(p, "write")
    /\ UNCHANGED <<disk, alive, arrivals, effects, finished, overwritten>>

\* The claims on e that p has carried out and not completed.
RanFor(p, e) == {f \in ran : file[f].pid = p /\ file[f].ev = e}

\* A process dies between two calls: its memory is gone, its files stay.
Crash(p) ==
    /\ p \in alive \cap Mortal
    /\ alive' = alive \ {p}
    /\ Goto(p, "idle")
    /\ then' = [then EXCEPT ![p] = "idle"]
    /\ todo' = [todo EXCEPT ![p] = {}]
    /\ buf' = [buf EXCEPT ![p] = <<>>]
    /\ ran' = {f \in ran : file[f].pid # p}
    /\ unacked' = [e \in Events |-> unacked[e] + Cardinality(RanFor(p, e))]
    /\ UNCHANGED <<disk, arrivals, effects, finished, races>>

\* The next call of an operation under way.
Continue(p) ==
    \/ RecoverPending(p) \/ RecoverFiles(p) \/ WriteMerged(p) \/ RemoveFile(p)
    \/ ClaimRead(p) \/ ClaimSave(p) \/ ClaimTrim(p)

Next ==
    \/ \E e \in Events : AppendEvent(e)
    \/ \E p \in Procs :
        \/ ReadPending(p) \/ ClaimNext(p) \/ Continue(p) \/ Crash(p)
        \/ \E f \in Files : Effect(p, f) \/ CompleteClaim(p, f) \/ RestoreClaim(p, f)

Spec == Init /\ [][Next]_vars

(***************************************************************************)
(* A synchronous operation that was begun is finished unless the process   *)
(* dies; a consumer polls (the scheduler, the notifier and the runners all *)
(* call claimNext from a timer), completes what it has carried out, and    *)
(* does not turn down every chance to carry out a side effect.             *)
(***************************************************************************)
Fairness ==
    \A p \in Procs :
        /\ WF_vars(Continue(p))
        /\ SF_vars(ClaimNext(p))
        /\ SF_vars(\E f \in Files : CompleteClaim(p, f))
        /\ SF_vars(\E f \in Files : Effect(p, f))

FairSpec == Spec /\ Fairness

-----------------------------------------------------------------------------
\* Every variable has its type, and an operation carries exactly the data its
\* next call needs: a list of files to remove from the listing to the last
\* removal, and while it claims the one name of the new processing file.
TypeOK ==
    /\ pending \in Seq(Events)
    /\ file \in [Files -> Claim \cup {NoFile}]
    /\ alive \in SUBSET Procs
    /\ pc \in [Procs -> PCs]
    /\ then \in [Procs -> {"idle", "claim"}]
    /\ todo \in [Procs -> SUBSET Files]
    /\ buf \in [Procs -> Seq(Events)]
    /\ sent \in SUBSET Events
    /\ ran \in SUBSET Files
    /\ effects \in [Events -> Nat]
    /\ unacked \in [Events -> Nat]
    /\ finished \in SUBSET Events
    /\ overlaps \in Nat
    /\ overwritten \in SUBSET Events
    /\ \A p \in Procs : pc[p] = "save" => buf[p] # <<>>

\* Who may remove what: an operation removes files of dead processes and files
\* of its own process only, and a claim whose side effect was carried out waits
\* for completeClaim, with nobody about to remove or restore it.
Ownership ==
    /\ \A q \in Procs : \A f \in todo[q] :
          Exists(f) => file[f].pid \notin alive \/ file[f].pid = q
    /\ \A f \in ran :
          Exists(f) /\ file[f].pid \in alive /\ \A q \in Procs : f \notin todo[q]

\* At every instant, also between two file-system calls and after any number of
\* crashes, an event that was appended and not completed is in pending.jsonl or
\* in a processing file, unless a process rewrote pending.jsonl without having
\* read it, which takes two operations that overlap.
NoLoss ==
    /\ sent \subseteq Range(pending) \cup InFiles \cup finished \cup overwritten
    /\ overlaps = 0 => overwritten = {}

\* Why nothing else is lost, however operations overlap.  An event goes from one
\* place only when it is in another: recover and restoreClaim have in memory
\* what the files they will remove contain, claimNext has written its file.
\* Condemned files are those a process has merged and is removing.
Condemned == UNION {todo[p] : p \in {q \in Procs : pc[q] = "remove"}}

Safe == Range(pending) \cup finished \cup overwritten
        \cup {file[f].ev : f \in {g \in Files \ Condemned : Exists(g)}}

Carries(p) ==
    /\ p \notin alive => pc[p] = "idle"
    /\ pc[p] = "write" => TodoEvents(p) \subseteq Range(buf[p])
    /\ pc[p] = "trim" => \A f \in todo[p] : Exists(f) /\ file[f].pid = p

LossInv ==
    /\ TypeOK
    /\ Ownership
    /\ \A p \in Procs : Carries(p)
    /\ sent \subseteq Safe

\* What holds of operations that have not overlapped: one at a time is under way,
\* so what it has read is still what the disk holds.
OneAtATime ==
    /\ \A p \in Procs : p \notin alive => pc[p] = "idle"
    /\ \A p, q \in Procs : pc[p] # "idle" /\ pc[q] # "idle" => p = q

Snapshot(p) ==
    /\ pc[p] \in {"recoverFiles", "save"} => buf[p] = pending
    /\ pc[p] = "write" => Range(pending) \cup TodoEvents(p) \subseteq Range(buf[p])
    /\ pc[p] = "remove" => TodoEvents(p) \subseteq Range(pending)
    /\ pc[p] = "trim" =>
          /\ Range(pending) \subseteq Range(buf[p]) \cup TodoEvents(p)
          /\ \A f \in todo[p] : Exists(f) => file[f].pid = p

\* The inductive invariant behind NoLoss.
QueueInv ==
    /\ LossInv
    /\ overlaps = 0 => OneAtATime /\ (\A p \in Procs : Snapshot(p)) /\ overwritten = {}

\* As long as no operations have overlapped, a side effect is repeated only
\* because no completeClaim followed it: its process died, or the consumer itself
\* gave the claim back after acting.  The copies an interrupted claim, restore or
\* recovery leaves behind are merged before anyone claims again.  Events without
\* a seq cannot be told apart, so for them only as long as nobody has crashed.
EffectsExplained ==
    \A e \in Events :
        overlaps = 0 /\ (Sequenced(e) \/ alive = Procs) => effects[e] <= 1 + unacked[e]

\* recover() leaves the claims of live processes alone: a file whose owner is
\* alive goes only when its owner completes or restores it.
LiveClaimsKept ==
    [][\A f \in Files :
          Exists(f) /\ file[f].pid \in alive /\ file'[f] # file[f]
          => \/ f \in ran /\ file[f].ev \in finished'
             \/ f \in todo[file[f].pid] /\ pc[file[f].pid] = "remove"]_vars

\* docs/delivery-queue-developer-guide.md:128 "sorts positive seq values during
\* recovery/restore": as long as sequenced events come in order and operations have
\* not overlapped, no claim overtakes one with a smaller number, whatever was
\* restored and recovered in between.
ClaimsInOrder ==
    [][\A f \in Files :
          overlaps' = 0 /\ inOrder /\ ~ Exists(f) /\ file'[f] # NoFile /\ Sequenced(file'[f].ev)
          => \A d \in Range(pending) :
                Sequenced(d) => SeqOf[d] >= SeqOf[file'[f].ev]]_vars

\* As long as no operations have overlapped, the queue implements QueueContract for
\* sequenced events: its multi-call operations look like single steps, whoever
\* crashes and wherever.  A claim is taken when claimNext has trimmed
\* pending.jsonl, given back when restoreClaim has rewritten it or when its owner
\* dies; recovery is invisible.
SequencedEvents == {e \in Events : Sequenced(e)}

Contract == INSTANCE QueueContract WITH
    Consumers <- Procs,
    Messages <- SequencedEvents,
    waiting <- SequencedEvents \cap (Range(pending) \cup
        {file[f].ev : f \in {g \in Files : Exists(g) /\ file[g].pid \notin alive}}),
    held <- [p \in Procs |-> SequencedEvents \cap
        {file[f].ev : f \in {g \in Files : Holds(p, g) \/ Restoring(p, g)}}],
    done <- SequencedEvents \cap finished

ImplementsContract ==
    Contract!Init /\ [][overlaps' = 0 => [Contract!Next]_(Contract!cvars)]_vars

\* Every event that is sent is completed in the end, if not all consumers die and
\* no rewrite by an overlapping operation drops it.
EventuallyFinished ==
    \A e \in Events : e \in sent ~> e \in finished \cup overwritten \/ alive = {}
=============================================================================
