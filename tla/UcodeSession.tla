---------------------------- MODULE UcodeSession ----------------------------
(***************************************************************************)
(* One ucode session: the serial chain of jobs of the terminal host        *)
(* (code/UcodeController.js, ui/rustUcodeHost.js), the turns they run      *)
(* (code/agent.js, code/nativeRunner.js), the conversation journal         *)
(* (code/conversation/sessionJournal.js), the session snapshot             *)
(* (code/sessionStore.js) and the question a turn may leave open           *)
(* (code/context/userInteraction.js, code/protocol/suspension.js).         *)
(*                                                                         *)
(* A line typed by the user becomes an answer when a question is open at   *)
(* that moment and a turn otherwise; messages of the bus become turns of   *)
(* the same session.  A turn journals its input, asks the provider and     *)
(* runs tools until the provider answers with text, the run fails, or a    *)
(* question is left open, and journals what it produced.  The snapshot is  *)
(* written after the job.  The process may die between any two of these.   *)
(*                                                                         *)
(* Abstracted: the text of prompts and answers, the tools themselves (one  *)
(* data tool stands for them), the plan graph (only its checkpoint opens a *)
(* question), artifacts, task focus and reminders.  The wire format is the *)
(* one of openai-chat, whose pairing of calls and results the code repairs.*)
(***************************************************************************)
EXTENDS Integers, FiniteSets, Sequences

CONSTANTS
    Lines,       \* number of lines the user types
    Tasks,       \* number of messages waiting on the bus
    Window,      \* events of the journal a new turn is shown
    MaxRounds,   \* provider rounds of a turn before its timeout
    MaxCalls,    \* tool calls in all
    MaxFaults,   \* failed appends, failed replies
    MaxCrashes,
    MaxCancels

ASSUME Bounds == /\ {Lines, Tasks, MaxFaults, MaxCrashes, MaxCancels} \subseteq Nat
                 /\ {Window, MaxRounds, MaxCalls} \subseteq Nat \ {0}

VARIABLES
    journal,     \* the events on disk, oldest first
    snap,        \* the open question in the snapshot, or NoSnap
    up,          \* the process is running
    pending,     \* executionState.pendingUserInteraction
    mem,         \* the events the process last read
    chain,       \* jobs waiting for their turn
    job,         \* the job that holds the chain
    run,         \* the turn in progress
    busq,        \* messages in the queue file
    replied,     \* what the sender of each message was told
    ctl,         \* job the abort controller belongs to
    aborted,     \* jobs that were cancelled
    used         \* counters: lines, jobs, turns, calls, faults, crashes, cancels

sessionVars == <<journal, snap, up, pending, mem, chain, job, run, busq, replied, ctl,
          aborted, used>>

-----------------------------------------------------------------------------
None == 0
NoSnap == [saved |-> FALSE]
NoQuestion == [kind |-> "none", call |-> None]
NoJob == [id |-> None, kind |-> "none", phase |-> "none", result |-> "none",
          handled |-> FALSE, task |-> None]

(* Journal events: the input of a turn, text of the model, its tool calls,
   the result of one call. *)
User(t) == [kind |-> "user", turn |-> t, ids |-> {}]
Text(t) == [kind |-> "text", turn |-> t, ids |-> {}]
Calls(t, cs) == [kind |-> "calls", turn |-> t, ids |-> cs]
Result(t, c) == [kind |-> "result", turn |-> t, ids |-> {c}]

(* A turn: what had been read when it began, the event it began with, whether that
   is the answer to a question, and to which call, and what it has produced. *)
NoRun == [turn |-> None, seen |-> <<>>, first |-> User(None), resumed |-> FALSE,
          answer |-> None, out |-> <<>>, rounds |-> 0]

(* The k-th position of a set, and the events of s at the positions in a set. *)
Nth(at, k) == CHOOSE i \in at : Cardinality({j \in at : j <= i}) = k
Pick(s, at) == [k \in 1 .. Cardinality(at) |-> s[Nth(at, k)]]

IsCalls(s, i) == s[i].kind = "calls"
IsResult(s, i) == s[i].kind = "result"
Called(s) == UNION {s[i].ids : i \in {j \in DOMAIN s : IsCalls(s, j)}}
Results(s) == UNION {s[i].ids : i \in {j \in DOMAIN s : IsResult(s, j)}}

(* The results that stand directly after position i. *)
Following(s, i) == {j \in i + 1 .. Len(s) : \A k \in i + 1 .. j : IsResult(s, k)}
FollowingIds(s, i) == UNION {s[j].ids : j \in Following(s, i)}

(* The calls with a result for each of them directly behind, and those results. *)
PairedCalls(s) ==
    {i \in DOMAIN s : IsCalls(s, i) /\ s[i].ids \subseteq FollowingIds(s, i)}
PairedResults(s) ==
    {i \in DOMAIN s : \E k \in PairedCalls(s) :
        i \in Following(s, k) /\ s[i].ids \subseteq s[k].ids}
Unpaired(s) == {i \in DOMAIN s : ~IsCalls(s, i) /\ ~IsResult(s, i)}

sanitizeKeepsOrphans(s) ==   \* mutant: results are kept without their calls
    Pick(s, {i \in DOMAIN s : IsCalls(s, i) => i \in PairedCalls(s)})

(* Calls without a result for each of them directly behind are dropped, and
   results without their calls. *)
sanitizeModelMessages(s) ==
    Pick(s, Unpaired(s) \cup PairedCalls(s) \cup PairedResults(s))

(* The last Window events that may be shown, without the results whose calls
   fell out of the window. *)
buildModelMessages(s) ==
    LET answered == {i \in DOMAIN s : IsCalls(s, i) => s[i].ids \subseteq Results(s)}
        allowed == Pick(s, answered)
        window == SubSeq(allowed, 1 + (IF Len(allowed) > Window
                                       THEN Len(allowed) - Window ELSE 0), Len(allowed))
        unknown == {i \in DOMAIN window :
                        IsResult(window, i) /\ ~(window[i].ids \subseteq Called(window))}
    IN  sanitizeModelMessages(Pick(window, DOMAIN window \ unknown))

-----------------------------------------------------------------------------
SessionInit ==
    /\ journal = <<>>
    /\ snap = NoSnap
    /\ up = TRUE
    /\ pending = NoQuestion
    /\ mem = <<>>
    /\ chain = <<>>
    /\ job = NoJob
    /\ run = NoRun
    /\ busq = [i \in 1..Tasks |-> i]
    /\ replied = [i \in 1..Tasks |-> "none"]
    /\ ctl = None
    /\ aborted = {}
    /\ used = [lines |-> 0, jobs |-> 0, turns |-> 0, calls |-> 0, faults |-> 0,
               crashes |-> 0, cancels |-> 0]

hasPendingUserInteraction == pending # NoQuestion
isBusy == chain # <<>> \/ job # NoJob
Cancelled == job.id \in aborted

(* A counter moves, and an operation that may fail does. *)
Used(u, f) == u' = [u EXCEPT ![f] = @ + 1]
FaultLeft == used.faults < MaxFaults

(* runExclusive: the job takes its place in the chain, and the abort
   controller is its own from this moment on. *)
runExclusive(kind) ==
    LET id == used.jobs + 1 IN
    /\ chain' = Append(chain, [NoJob EXCEPT !.id = id, !.kind = kind])
    /\ ctl' = id

(* input.submit and interaction.respond: the user's line. *)
InputSubmit ==
    /\ up
    /\ used.lines < Lines
    /\ runExclusive(IF hasPendingUserInteraction THEN "answer" ELSE "nl")
    /\ used' = [used EXCEPT !.lines = @ + 1, !.jobs = @ + 1]
    /\ UNCHANGED <<journal, snap, up, pending, mem, job, run, busq, replied, aborted>>

(* scheduleAutoBus, every 1.5 s: an idle host takes the messages of the bus. *)
ScheduleAutoBus ==
    /\ up
    /\ ~isBusy
    /\ busq # <<>>
    /\ runExclusive("bus")
    /\ Used(used, "jobs")
    /\ UNCHANGED <<journal, snap, up, pending, mem, job, run, busq, replied, aborted>>

(* task.cancel *)
CancelTask ==
    /\ up
    /\ ctl # None
    /\ used.cancels < MaxCancels
    /\ aborted' = aborted \cup {ctl}
    /\ Used(used, "cancels")
    /\ UNCHANGED <<journal, snap, up, pending, mem, chain, job, run, busq, replied, ctl>>

(* The job gives the chain free. *)
EndJob ==
    /\ job' = NoJob
    /\ ctl' = IF ctl = job.id THEN None ELSE ctl
    /\ aborted' = aborted \ {job.id}

-----------------------------------------------------------------------------
StartJobKeepsSlot ==   \* mutant: a cancelled job does not give the chain free
    /\ up
    /\ job = NoJob
    /\ chain # <<>>
    /\ chain' = Tail(chain)
    /\ job' = [Head(chain) EXCEPT !.phase = IF Head(chain).id \in aborted
                                            THEN "aborted" ELSE "start"]
    /\ ctl' = Head(chain).id
    /\ UNCHANGED <<journal, snap, up, pending, mem, run, busq, replied, aborted, used>>

(* The next job of the chain starts, unless it was cancelled before. *)
StartJob ==
    /\ up
    /\ job = NoJob
    /\ chain # <<>>
    /\ chain' = Tail(chain)
    /\ IF Head(chain).id \in aborted
       THEN /\ job' = NoJob
            /\ ctl' = IF ctl = Head(chain).id THEN None ELSE ctl
            /\ aborted' = aborted \ {Head(chain).id}
       ELSE /\ job' = [Head(chain) EXCEPT !.phase = "start"]
            /\ ctl' = Head(chain).id
            /\ UNCHANGED aborted
    /\ UNCHANGED <<journal, snap, up, pending, mem, run, busq, replied, used>>

Outcome(result) == job' = [job EXCEPT !.phase = "after", !.result = result]

(* A turn starts: its first event is appended, then the provider is asked. *)
NewTurn == used.turns + 1
BeginTurn(j, event, resumed, answer) ==
    \/ /\ journal' = Append(journal, event)
       /\ run' = [NoRun EXCEPT !.turn = NewTurn, !.seen = mem, !.first = event,
                               !.resumed = resumed, !.answer = answer]
       /\ used' = [used EXCEPT !.turns = NewTurn]
       /\ job' = [j EXCEPT !.phase = "turn"]
    \/ /\ FaultLeft
       /\ Used(used, "faults")
       /\ job' = [j EXCEPT !.phase = "after", !.result = "error"]
       /\ UNCHANGED <<journal, run>>

(* runNaturalLanguageTask, up to its first await. *)
BeginInput(j) ==
    BeginTurn(j, User(NewTurn), FALSE, None)

BeginNaturalLanguage ==
    /\ up
    /\ job.kind = "nl"
    /\ job.phase = "start"
    /\ BeginInput(job)
    /\ UNCHANGED <<snap, up, pending, mem, chain, busq, replied, ctl, aborted>>

(* runUbusCommand: the next message is claimed and becomes a turn. *)
BusNext ==
    /\ up
    /\ job.kind = "bus"
    /\ job.phase = "start"
    /\ busq # <<>>
    /\ busq' = Tail(busq)
    /\ BeginInput([job EXCEPT !.task = Head(busq)])
    /\ UNCHANGED <<snap, up, pending, mem, chain, replied, ctl, aborted>>

(* submitUserInteractionAnswer without an open question, or with an answer
   that is none of the options. *)
RejectAnswer ==
    /\ up
    /\ job.kind = "answer"
    /\ job.phase = "start"
    /\ pending.kind # "checkpoint"
    /\ Outcome("rejected")
    /\ UNCHANGED <<journal, snap, up, pending, mem, chain, run, busq, replied, ctl,
                   aborted, used>>

closeQuestionLater == UNCHANGED pending   \* mutant: the question stays open

(* resolveUserInteraction: the question is closed. *)
closeQuestion == pending' = NoQuestion

(* resumeAfterUserInteraction: the question is closed first, then the answer is
   journalled, as the result of the call that asked or, for a checkpoint, as a
   message of the user; then the provider goes on with the whole conversation. *)
ResumeAfterAnswer ==
    /\ up
    /\ job.kind = "answer"
    /\ job.phase = "start"
    /\ hasPendingUserInteraction
    /\ closeQuestion
    /\ LET answer == IF pending.kind = "ask" THEN Result(NewTurn, pending.call)
                                             ELSE User(NewTurn)
       IN  BeginTurn(job, answer, TRUE, pending.call)
    /\ mem' = IF journal' # journal THEN journal' ELSE mem
    /\ UNCHANGED <<snap, up, chain, busq, replied, ctl, aborted>>

-----------------------------------------------------------------------------
(* What the provider is sent in a round of the turn: the last events before it or,
   after an answer, the whole conversation, and what the turn has produced. *)
History(r) ==
    IF r.resumed THEN sanitizeModelMessages(Append(r.seen, r.first))
                 ELSE Append(buildModelMessages(r.seen), r.first)
Wire == History(run) \o run.out

Round == up /\ run # NoRun /\ ~Cancelled
NewCall == used.calls + 1

(* The items of the turn, n calls among them new, are journalled and the
   conversation is read again.  When the append fails the turn ends in an error
   and nothing is read. *)
EndTurn(items, result, n) ==
    /\ run' = NoRun
    /\ \/ /\ journal' = journal \o items
          /\ mem' = journal'
          /\ Outcome(result)
          /\ used' = [used EXCEPT !.calls = @ + n]
       \/ /\ FaultLeft
          /\ used' = [used EXCEPT !.calls = @ + n, !.faults = @ + 1]
          /\ Outcome("error")
          /\ UNCHANGED <<journal, mem>>

(* The batch is answered and the loop goes on. *)
NextRound(items, n) ==
    /\ run' = [run EXCEPT !.out = @ \o items, !.rounds = @ + 1]
    /\ used' = [used EXCEPT !.calls = @ + n]
    /\ UNCHANGED <<journal, mem, job>>

MoreRounds(n) == run.rounds + 1 < MaxRounds /\ used.calls + n <= MaxCalls

FinalText ==
    /\ Round
    /\ EndTurn(Append(run.out, Text(run.turn)), "final", 0)
    /\ UNCHANGED <<snap, up, pending, chain, busq, replied, ctl, aborted>>

(* Tools run and have their results; with a question open, by whomever, the
   loop stops here to wait for the user. *)
ToolBatch ==
    /\ Round
    /\ MoreRounds(1)
    /\ LET items == <<Calls(run.turn, {NewCall}), Result(run.turn, NewCall)>> IN
       IF hasPendingUserInteraction
       THEN EndTurn(run.out \o items, "waiting", 1)
       ELSE NextRound(items, 1)
    /\ UNCHANGED <<snap, up, pending, chain, busq, replied, ctl, aborted>>

(* ask_user beside other tools: every call of the batch is refused. *)
MixedBatch ==
    /\ Round
    /\ MoreRounds(2)
    /\ NextRound(<<Calls(run.turn, {NewCall, NewCall + 1}), Result(run.turn, NewCall),
                   Result(run.turn, NewCall + 1)>>, 2)
    /\ UNCHANGED <<snap, up, pending, chain, busq, replied, ctl, aborted>>

AskUserAnyway ==   \* mutant: a question may replace the one that is open
    /\ Round
    /\ MoreRounds(1)
    /\ pending' = [kind |-> "ask", call |-> NewCall]
    /\ EndTurn(Append(run.out, Calls(run.turn, {NewCall})), "waiting", 1)
    /\ UNCHANGED <<snap, up, chain, busq, replied, ctl, aborted>>

(* ask_user alone: the call stays without a result until the user answers. *)
AskUser ==
    /\ Round
    /\ MoreRounds(1)
    /\ IF hasPendingUserInteraction
       THEN /\ EndTurn(run.out \o <<Calls(run.turn, {NewCall}),
                                        Result(run.turn, NewCall)>>, "waiting", 1)
            /\ UNCHANGED pending
       ELSE /\ pending' = [kind |-> "ask", call |-> NewCall]
            /\ EndTurn(Append(run.out, Calls(run.turn, {NewCall})), "waiting", 1)
    /\ UNCHANGED <<snap, up, chain, busq, replied, ctl, aborted>>

(* plan_graph yields at an approval checkpoint: its call has a result, and the
   question is the checkpoint's. *)
Checkpoint ==
    /\ Round
    /\ MoreRounds(1)
    /\ ~hasPendingUserInteraction
    /\ pending' = [kind |-> "checkpoint", call |-> None]
    /\ EndTurn(run.out \o <<Calls(run.turn, {NewCall}), Result(run.turn, NewCall)>>,
                   "waiting", 1)
    /\ UNCHANGED <<snap, up, chain, busq, replied, ctl, aborted>>

(* An abort, a timeout, an error of the provider or the tool budget ends the
   turn: what it produced is not journalled. *)
TurnFails ==
    /\ up
    /\ run # NoRun
    /\ run' = NoRun
    /\ mem' = journal
    /\ Outcome("error")
    /\ UNCHANGED <<journal, snap, up, pending, chain, busq, replied, ctl, aborted, used>>

-----------------------------------------------------------------------------
persistSessionState == snap' = IF mem = <<>> THEN snap ELSE [saved |-> TRUE, pending |-> pending]

(* The host writes the snapshot after the user's turn or answer. *)
FinishJob ==
    /\ up
    /\ job.kind \in {"nl", "answer"}
    /\ job.phase = "after"
    /\ persistSessionState
    /\ EndJob
    /\ UNCHANGED <<journal, up, pending, mem, chain, run, busq, replied, used>>

(* The sender has its reply and the claim is completed. *)
BusReply ==
    /\ up
    /\ job.kind = "bus"
    /\ job.phase = "after"
    /\ replied' = [replied EXCEPT ![job.task] = job.result]
    /\ job' = [job EXCEPT !.phase = "start", !.handled = TRUE, !.task = None]
    /\ UNCHANGED <<journal, snap, up, pending, mem, chain, run, busq, ctl, aborted, used>>

(* The reply failed: the claim is restored and the command ends with an error,
   after which nothing is persisted. *)
BusReplyFails ==
    /\ up
    /\ job.kind = "bus"
    /\ job.phase = "after"
    /\ FaultLeft
    /\ Used(used, "faults")
    /\ busq' = <<job.task>> \o busq
    /\ EndJob
    /\ UNCHANGED <<journal, snap, up, pending, mem, chain, run, replied>>

BusFinish ==
    /\ up
    /\ job.kind = "bus"
    /\ job.phase = "start"
    /\ busq = <<>>
    /\ IF job.handled THEN persistSessionState ELSE UNCHANGED snap
    /\ EndJob
    /\ UNCHANGED <<journal, up, pending, mem, chain, run, busq, replied, used>>

-----------------------------------------------------------------------------
(* The process dies; a claim of it is recovered by the next one. *)
Crash ==
    /\ up
    /\ used.crashes < MaxCrashes
    /\ up' = FALSE
    /\ pending' = NoQuestion
    /\ mem' = <<>>
    /\ chain' = <<>>
    /\ job' = NoJob
    /\ run' = NoRun
    /\ ctl' = None
    /\ aborted' = {}
    /\ busq' = IF job.task # None THEN <<job.task>> \o busq ELSE busq
    /\ Used(used, "crashes")
    /\ UNCHANGED <<journal, snap, replied>>

(* resumeSessionState: the execution state of the snapshot, the conversation of
   the journal. *)
ResumeSession ==
    /\ ~up
    /\ snap # NoSnap
    /\ up' = TRUE
    /\ pending' = snap.pending
    /\ mem' = journal
    /\ UNCHANGED <<journal, snap, chain, job, run, busq, replied, ctl, aborted, used>>

Rounds == FinalText \/ ToolBatch \/ MixedBatch \/ AskUser \/ Checkpoint \/ TurnFails
Jobs == \/ StartJob \/ BeginNaturalLanguage \/ RejectAnswer \/ ResumeAfterAnswer
        \/ BusNext \/ FinishJob \/ BusReply \/ BusReplyFails \/ BusFinish
Host == Jobs \/ Rounds \/ ScheduleAutoBus
SessionNext == Host \/ InputSubmit \/ CancelTask \/ Crash \/ ResumeSession

(* The event loop goes on with whatever the host has to do, its timer for the
   bus included; no two of these are ever ready at once.  A turn ends because the
   provider answers or the timeout of the run strikes. *)
Fairness == WF_sessionVars(Host)

SessionSpec == SessionInit /\ [][SessionNext]_sessionVars /\ Fairness

-----------------------------------------------------------------------------
(* Each call has its result directly behind, and each result its call before. *)
WellPaired(s) ==
    \A i \in DOMAIN s :
        /\ IsCalls(s, i) => s[i].ids \subseteq FollowingIds(s, i)
        /\ IsResult(s, i) =>
              \E k \in 1 .. i - 1 : /\ IsCalls(s, k)
                                    /\ i \in Following(s, k)
                                    /\ s[i].ids \subseteq s[k].ids

(* What the provider is sent in any round is well formed: calls are followed at
   once by a result for each of them and no result stands anywhere else
   (context/assembler.js:246, nativeRunner.js:2242: "every declared call must
   get a contiguous tool result"), whatever crashes, failed appends and
   questions that were never answered left in the journal. *)
HistoryPaired == run # NoRun => WellPaired(Wire)

(* A question stays open until it is answered, although turns for the bus and
   lines typed ahead go on in the meantime and may ask as well: a call of the
   journal without a result is the open question, except for one per crash or
   failed append (the question is closed before its answer is written). *)
QuestionStaysOpen ==
    Cardinality((Called(journal) \ Results(journal)) \ {pending.call})
        <= used.crashes + used.faults

(* Where a conversation holds a result of a call. *)
Answers(s, c) == {i \in DOMAIN s : s[i] = Result(s[i].turn, c)}

(* A question is answered once, however often the user submits: a second result
   for a call needs a crash between the answer and the snapshot, from which the
   question comes back open. *)
AnsweredOnce ==
    \A c \in 1 .. used.calls :
        Cardinality(Answers(journal, c)) <= 1 + used.crashes

(* The parts of the invariant behind the three properties above.  A conversation is
   a sequence of events, of which a result answers one call. *)
Event == [kind : {"user", "text", "calls", "result"}, turn : Nat,
          ids : SUBSET (Nat \ {0})]
Transcript(s) ==
    /\ s \in Seq(Event)
    /\ \A i \in DOMAIN s : IsResult(s, i) => \E c \in s[i].ids : s[i].ids = {c}
Question == {NoQuestion, [kind |-> "checkpoint", call |-> None]}
            \cup [kind : {"ask"}, call : Nat \ {0}]

ConversationTypes ==
    /\ Transcript(journal) /\ Transcript(mem)
    /\ snap \in {NoSnap} \cup [saved : {TRUE}, pending : Question]
    /\ up \in BOOLEAN /\ pending \in Question
    /\ run \in [turn : Nat, seen : Seq(Event), first : Event, resumed : BOOLEAN,
                answer : Nat, out : Seq(Event), rounds : Nat]
    /\ Transcript(run.seen) /\ Transcript(run.out)
    /\ Transcript(<<run.first>>) /\ (run.resumed \/ run.first.kind = "user")
    /\ used \in [lines : Nat, jobs : Nat, turns : Nat, calls : Nat, faults : Nat,
                 crashes : Nat, cancels : Nat]

(* A process that is gone has no turn and no question. *)
GoneInv == ~up => run = NoRun /\ pending = NoQuestion

(* The calls of the turn have their results, one each, and are new. *)
AnsweredAlone(s) ==
    \A i, j \in DOMAIN s : IsResult(s, i) /\ IsResult(s, j) /\ s[i].ids = s[j].ids => i = j
TurnInv ==
    /\ WellPaired(run.out)
    /\ Called(run.out) \subseteq Results(run.out)
    /\ AnsweredAlone(run.out)
    /\ Results(run.out) \cap (Results(journal) \cup {pending.call}) = {}

(* Calls are numbered as they are made. *)
NumberedInv ==
    /\ Called(journal) \cup Results(journal) \cup Results(run.out) \cup {pending.call}
          \subseteq 0 .. used.calls
    /\ snap # NoSnap => snap.pending.call \in 0 .. used.calls

(* Of the crashes that are counted one is still to be used up by a question that is
   open, or may come back. *)
AnswersInv ==
    \A c \in 1 .. used.calls :
        /\ Cardinality(Answers(journal, c)) <= 1 + used.crashes
        /\ ~up \/ pending.call = c => Cardinality(Answers(journal, c)) <= used.crashes

SessionInv ==
    /\ ConversationTypes /\ GoneInv /\ TurnInv /\ NumberedInv /\ AnswersInv
    /\ QuestionStaysOpen

(* The continuity rule of context/userInteraction.js:6: the answer "sits
   immediately after that tool call in the model transcript".  It does not hold:
   a turn for the bus, or for a line typed ahead, may have come between. *)
AnswerFollowsQuestion ==
    run.answer # None =>
        \E i \in DOMAIN Wire :
            /\ IsCalls(Wire, i) /\ run.answer \in Wire[i].ids
            /\ run.answer \in FollowingIds(Wire, i)

(* As long as the process lives, every line and every message of the bus is
   dealt with and the host falls idle. *)
EventuallyIdle == <>[](~up \/ (~isBusy /\ busq = <<>>))
=============================================================================
