# ufoo: specification, model checking and proofs

This directory is a verification project for ufoo, the project-scoped multi-agent
runtime in `src/`. It holds TLA+ modules translated from the code, the TLC
configurations that check them on small instances, theorems about them with proofs
for TLAPS, and this document. Paths below are relative to the repository; line numbers
are those of the commit the modules were written from. `PROJECT.json` maps every
definition that stands for code to its lines.

1. [The system](#1-the-system)
2. [Hard behaviour](#2-hard-behaviour)
3. [The modules](#3-the-modules)
4. [The runs](#4-the-runs)
5. [Limits of the guarantees](#5-limits-of-the-guarantees)
6. [The proofs](#6-the-proofs)
7. [What is not modelled](#7-what-is-not-modelled)
8. [Plan](#8-plan)

## 1. The system

ufoo runs several coding agents in one project. A user-scoped daemon hosts a runtime per
project; agents are either *wrapped* (started by `ucodex`, `uclaude`, ... in a terminal
the daemon can type into), *internal* (run inside a ufoo process) or *external* (hosted
by another application, which registers over MCP and fetches its messages). They talk
over a bus made of files below `.ufoo/bus/`, which the daemon, every agent process and
every `ufoo` command read and write directly. Nothing but the file system orders these
processes. Inside one process Node runs one thread, and calls interleave at an `await`.

| component (source) | state it keeps | operations |
|---|---|---|
| delivery queue (`src/coordination/bus/deliveryQueue.js`, `queue.js`) | per subscriber `pending.jsonl` and one `processing` file per claim, with the owner's pid in its name | append, claimNext, completeClaim, restoreClaim, recover, readPending, clear, acknowledge all or through a number |
| message bus (`bus/message.js`) | lock file and counter of sequence numbers, event logs, one offset per subscriber | send, consume |
| receive lease (`bus/poll.js`) | pid file per subscriber | acquire, release; the poll loop |
| receive path (`runtime/daemon/controlPlaneService.js`, `bus/index.js`, `bus/queue.js`) | cursor of the waiting agent, batch in flight of the poll process | wait_for_message, poll --follow, ack --through |
| delivery scheduler (`runtime/daemon/deliveryScheduler.js`) | lock per agent, tracked waits, retry backoff (all in memory) | tick, deliverTargets, deliverSubscriber |
| agent registry (`coordination/state/agentsStore.js`, `bus/subscriber.js`, `agents/activity/`) | `all-agents.json`: agents, nicknames, activity states | join, leave, rename, heartbeat, activity reports, takeover of a terminal |
| queue consumers (`agents/internal/internalRunner.js`, `code/busConsumer.js`, `daemon/reportControlBus.js`, bus bridge of `daemon/index.js`) | claims in hand, batches in memory | loops around the delivery queue |
| PTY runner (`agents/launch/ptyRunner.js`) | bounded queue in memory, current turn, timers, the terminal's process | main loop, turns, restart |
| global daemon (`runtime/daemon/globalDaemon.js`, `projectRuntimeManager.js`) | project runtimes and their leases, pid and lock files | activate, suspend, remove, route |
| project daemon, control plane, MCP (`runtime/daemon/`) | sockets, sessions, registration handles | IPC and MCP requests |
| groups (`runtime/daemon/groupOrchestrator.js`) | group files, the group of a run in memory | run with rollback, stop |
| solo agents, cron (`runtime/daemon/soloBootstrap.js`, `cronOps.js`) | scheduled tasks | launch, tick |
| ucode runtime (`code/runtime/`, `code/context/planGraph*.js`) | plan graph, task runs, write leases, command logs, mailbox | plan_graph, task_run, advancing a plan |
| ucode session (`code/agent.js`, `nativeRunner.js`, `UcodeController.js`, `ui/rustUcodeHost.js`, `code/conversation/`) | chain of jobs, the turn in progress, open question, journal, snapshot | a line, a turn, a bus message, an answer, cancellation, resumption |
| controller (`agents/controller/`, `orchestration/controller/`) | observations of the loop | routing, tool rounds |
| memory, decisions, reports, history | files | commands |
| online relay (`online/`) | rooms, channels | relay |
| chat, CLI, TUI (`app/`, `ui/`, `crates/ufoo-tui`) | what is on the screen | rendering, commands |

How the parts modelled here interact: `send` (message bus) takes a number under the lock
file, appends to the log and appends to the pending queue of each target. A wrapped
agent's queue is emptied by the delivery scheduler of the daemon, called by a timer and by
every bus_send, which claims a message, types it into the terminal and completes or
restores the claim. An external agent's queue is read, not claimed, by a wait or a poll
process, of which the receive lease admits one; the agent handles what it was shown and
acknowledges, which claims and completes. Agents that run inside ufoo processes, and the
daemon itself, take from their queues with loops of their own: the headless runner, the
PTY runner, ucode, the report queue and the bridge to connected clients. Who is there to
receive is written in the registry, which every one of these processes reads and rewrites,
and which the scheduler's gate, the resolution of nicknames and the group orchestrator
read. The orchestrator launches agents (each enters itself in the registry), waits for their
activity state, types their roles into them, and closes them by pid. A ucode session takes
its messages from the queue as turns among those of its user; within a turn, synchronous
tool calls change a plan, start and end task runs, and repeat.

The modules compose along the same lines: `QueueContract` is what `DeliveryQueue` is proved
to implement, and is the queue that `DeliveryScheduler`, `QueueConsumers` and
`PtyRunner` are written against (single steps; claims of a dead process come back). What `ReceivePath`
does to the files is proved to be within the same contract.

## 2. Hard behaviour

`PROJECT.json` lists the hazards, each at its line and with the properties that look
at it. They fall into nine groups.

* **Processes between two file-system calls.** No operation on the queue, the lock files or
  the counter is one call. Every pair of calls is a place where another process gets in,
  and where the process may die.
* **Claims and their owners.** Whether a claim may be recovered depends on a pid; who holds it
  when a message is restored, recovered, repeated or acknowledged decides whether messages are
  lost or delivered twice.
* **Awaits in the scheduler.** A terminal injection may take long or never return, while the
  timer and other sends start further calls for the same agent, and the agent changes its
  activity state behind the gate's back.
* **Numbers that arrive out of order.** Numbers are taken before messages are appended; cursors,
  offsets and acknowledgements compare numbers only.
* **Sequences of legal commands.** Task runs outlive plans, plans reuse task names, commands are
  repeated with and without ids.
* **Effects and completions in different orders.** Each loop around the queue completes its
  claims at another moment: before, between or after acting. Handlers fail, processes die, and
  what is in memory is gone.
* **Turns without a protocol.** A terminal does not say when an agent is done. Quiet output, an
  activity detector, a watchdog and the exit of the process each may end a turn, and may come late.
* **One registry, many writers.** `all-agents.json` is loaded, changed and saved without a lock.
  `join` does not even do that in one go, and it moves the queue of the agent whose terminal it
  takes over.
* **A question left open.** ucode goes on with other turns while a question waits for the user; the
  process may die, or an append fail, between closing the question, journalling the answer and
  saving the snapshot; the provider refuses histories whose calls and results do not pair.
* **Groups that meet.** A run of a group waits at three places, and a stop, a second group, the death
  of an agent or of the daemon come in between; members are found by nickname only.

For each component, what makes it correct: a queue loses nothing and repeats side effects only
for a crash; numbers are unique and a send that queues nothing left nothing undelivered; one
receiver at a time, and never locked out; a terminal gets one message at a time, in the end
each of them; an agent acknowledges only what it was shown; write leases, runs and plan tell
one story; a consumer acts on each message, in order, and again only for a reason; each turn of
a terminal has one beginning and one end; an agent that joined stays known under a nickname of
its own; what the provider is sent is well formed and a question is answered once; a group
closes what it launched, all of it, and nothing else.

## 3. The modules

| module | models | used by |
|---|---|---|
| `DeliveryQueue` | the queue, one action per file-system call | `MCDeliveryQueue`, `DeliveryQueue_proofs` |
| `QueueContract` | what a queue promises, one action per operation | refined by `DeliveryQueue` |
| `MessageBus` | send and consume | `MCMessageBus`, `MessageBus_proofs` |
| `DeliveryScheduler` | the scheduler on one thread | `MCDeliveryScheduler`, `DeliveryScheduler_proofs` |
| `PollLease` | the receive lease | `MCPollLease`, `Receivers_proofs` |
| `ReceivePath` | wait, poll and acknowledgement of one external agent | itself, `Receivers_proofs` |
| `TaskRuns` | task runs and task_loop nodes of a ucode session | `MCTaskRuns`, `Ucode_proofs` |
| `QueueConsumers` | the loops of headless agents, ucode, the report queue and the bridge | itself, `Receivers_proofs` |
| `PtyRunner` | a terminal agent fed from its queue | itself, `PtyRunner_proofs` |
| `AgentRegistry` | the registry and its writers | `MCAgentRegistry`, `AgentRegistry_proofs` |
| `UcodeSession` | jobs, turns and questions of a ucode session | itself, `Ucode_proofs` |
| `GroupRuns` | runs and stops of groups of agents | `MCGroupRuns`, `GroupRuns_proofs` |

The `MC` modules only give values to constants. Most modules have a type invariant `TypeOK`,
which is proved or a conjunct of a property rather than a run's property of its own.
Definitions marked as variants are plausible mistakes, used nowhere in the specification; `PROJECT.json` pairs each checked property with one that breaks it. The inductive
invariants stand in the modules, before the properties that follow from them. `ReceivePath`,
`PollLease` and `QueueConsumers` share a module of proofs, and so do `TaskRuns` and
`UcodeSession`; hence the prefixes of `LeaseInit`, `LoopNext`, `SessionSpec` and their like.

### DeliveryQueue

`pending` is `pending.jsonl`; `file` maps the names of processing files to the owner's pid
and the event inside. `pc`, `then`, `todo` and `buf` are what a process in the middle of an
operation remembers: the next call, what follows `recover()`, the processing files it will
remove, and the events it has read. `claimNext` is `ClaimNext` (list recoverable files),
`RecoverPending`, `RecoverFiles`, `WriteMerged`, `RemoveFile`... when there are any, then
`ClaimRead`, `ClaimSave`, `ClaimTrim`; `restoreClaim` is `RestoreClaim`, `WriteMerged`,
`RemoveFile`. `MergeAndSort` is the code's merge: first of each positive seq, sequenced before
unsequenced. The order in which recovered files are read is that of names that start with a
pid, so any order. `Effect` stands for whatever a consumer does between claiming and
completing. A process that crashes never comes back: its successor has another pid, and pids
are not reused.

Nothing keeps operations of different processes from overlapping in time: there is no lock,
and `Begin` lets an operation start while another is under way. `overlaps` counts these
beginnings, and `overwritten` collects the events in `pending.jsonl` that a rewrite dropped because
its writer had not read them. `NoLoss` says that an event is lost in no other way; the other safety
properties of the queue hold as long as `overlaps = 0` (section 5 says what happens after), and
`Ownership` and `LiveClaimsKept` always. `RestoreClaim` is possible before and after the effect:
ucode gives a claim back when the reply fails after the turn has run (busConsumer.js:401-405).
`unacked` counts the effects that no completion followed, for this reason or because the process
died. `setting`, chosen in `Init`, bounds what TLC explores: the events sent, the overlaps, the
claims given back after acting.

### MessageBus

One sender is one call of `send`. The variables are the files (`lock`, `counter`, `log`,
`inbox`, `offset`) and the senders' places in the code. `setting.windows` says which pairs of
calls another process can get between: creating and stamping the lock file, `existsSync` and
`readFileSync` of it, judging and unlinking it, truncating and writing the counter.
`setting.stalls` says whether a live holder may be suspended for longer than
`SEQ_LOCK_STALE_MS`, `setting.serial` whether a send begins only when no other is under way.
The setting is chosen in `Init`, so one run covers several surroundings, and properties say
under which they hold. Target resolution, policy and rendering only decide who the
targets are; one subscriber is modelled, and `TargetNotFound` is the early error.

### DeliveryScheduler

Everything runs on one thread: an action is what the code does between two awaits.
`deliverSubscriber` is `SkipLocked`, `Defer`, `CompleteUnsupported` or `Claim`, then, for an
idle-gated message, `PassSecondGate` or `RestoreAtSecondGate` before any other action of the
daemon (`ThreadFree`), and after the awaited injection `InjectResolves` or
`InjectRejects`. `Gate` is `resolveGate` with its six outcomes; `Track` and `Forget` are
what it does to `pendingSeen` and `forceRetries`. Ages replace timestamps: they grow with
`PassTime` and stop at the limit they are compared with, which is exact because the code
only compares them with that limit. The registry is written by the agents
(`ReportActivity`) and by registration (`Register`), the queue by senders and by `ufoo bus ack`,
at any moment. `Hung` agents never return from an injection.

The queue in this module is what `DeliveryQueue` establishes for one live consumer; `Restart`
gives back claimed messages as its recovery does.

### PollLease

`file` is the pid file; `windows` as in MessageBus: between `existsSync` and
`readFileSync`, judging and removing, removing and creating, creating and stamping. Receivers
of one process cannot be in `acquirePollLease` at the same time (`ThreadFree`).

### ReceivePath

One external agent, in the mode "wait" or "poll". A message is its number. The receiver reads
`pending` (`Batch` is what a wait returns, `Sorted` the order in which recovery writes numbers
back); the acknowledgement (`AckRecover`, `AckClaim`, `AckComplete`, `AckBeyond`) is
another process that claims one message after the other up to the last number shown and gives
back the first beyond. `ordered` says whether messages arrive in the order of their numbers;
`MaxRounds` bounds how many rounds of the poll process may fall into one acknowledgement (its
interval is at least 250 ms, an acknowledgement takes milliseconds).

### TaskRuns

One session: `plan`, the status of its task_loop nodes and the run each shows, the runs in
order of creation, the holders of write leases, and the two command logs. Calls are
synchronous, so an action is a whole call of plan_graph or task_run: `CreatePlan`,
`CancelGraph`, `StartTask`, `StartTaskAgain`, `StartStandalone`, `EndCall` (cancel, fail,
complete), `SkipNode`, `CancelSubtree`, `Replay` (a control command whose key is in the log),
`Work`, the resumption of a run by a patch of its own steps, and `Look`, an inspection of the graph
of a run. Each includes everything
the call does in the end: writing the run's state to the node of the plan (`Synced`,
`Shown`), releasing the lease, the mailbox event, and, for plan_graph, advancing and perhaps
archiving the plan (`Advance`), which marks running task_loop nodes as failed
(`Advanced`, see section 5).

Each run has a graph for its own steps, and a call that names one works on it in
`executionState.planGraph`, the slot of the agent's plan. Afterwards the plan is put back, but when there
was none the graph of the run stays there (`Visit`; `guest` is that run, planGraphService.js:617-631).
The next create or cancel_graph takes it for the plan, archives it and removes it from `graphs`
(`Archive`, `gone`). From then on the run cannot work, and its completion fails
(CHILD_GRAPH_MISSING in `Complete`, taskLoop.js:224-229). In a run, `marked` is a history: the plan
that has its success on the task.

### QueueConsumers

Four loops, chosen by `kind`: the headless agent (`"runner"`, claims all there is, then handles
one after the other), the bus consumer of ucode (one claim at a time), the report queue of the
daemon (completes all claims before it handles the first) and the bridge of the daemon to its
clients (remembers an event, then emits it). `Send` appends messages in any order of their numbers,
since the lock of the numbers does not cover the append. `Poll` begins a turn of the loop (the
bridge only while a client is connected, index.js:1124; clients come and go with `Connect`),
`ClaimNext` claims one message, `Drained` ends the claiming. The report queue puts a report into
its batch and completes the claim in `TakeReport`, before it claims the next
(reportControlBus.js:84-90); reports carry no number, so one that was in hand when the daemon died
is recovered behind those that wait (`Recovered`), where other messages are sorted. `Handle` is
`Ignore`, `Act` or `Fail` of the message at the head of the batch. `Die` may come between any two
claims, or cut a handler off between its effect and the completion; the claims are `stranded` until
the next `ClaimNext` recovers them. `ran`, `undone` and `hit` are histories: how often a message was acted on,
how often that was not followed by a completion, and what was in memory when something failed.

### PtyRunner

One runner and its terminal. `pending` has the order in which messages were appended, which may be
any order of their numbers. `Round` is a round of the main loop (claim, push, complete, and
`processQueue`; claims whose message cannot be accepted are restored, ptyRunner.js:1094-1096),
`Ready` the first prompt of the terminal, `Output`, `IdleFires`, `DetectorIdle`
and `WatchdogFires` the four ways in which a turn is seen to go on or end, `Exit` and `Respawn`
the death of the terminal's process and its restart with two attempts and a limit, `Stop` the end of
the runner. Handlers run without a pause, so each is one action; the idle timer and the
watchdog are separate variables because the code forgets to clear the first in a restart.

### AgentRegistry

`disk` is `all-agents.json`, `mem` the copy of a join in progress. Commands that load and save in one
go (`Touch`, `Leave`, `Rename`, `WriteActivity`) are one step; `join` is `BeginJoin`, then `ReadQueue`,
`AppendQueue` and `ClearQueue` for each agent whose terminal it takes over (`source` is the one
it is at, `taken` what it has read), then `EndJoin`. A join
waits for other programs in between; `overlap`, chosen in `Init`, says whether other processes get
in meanwhile. `Save` (with `MergeActivity`) is the merge of activity states that every save does. A nickname is its
number, since all agents have one type.

### UcodeSession

`chain` and `job` are the promise chain of `UcodeController`, `run` the turn in progress (what it read
of the conversation, the event it began with, what it has produced), `journal` and `snap` the two files, `mem` what the process last read
of the journal, `pending` the open question. `InputSubmit` decides whether a line is an answer or a
turn by what is open at that moment; `ScheduleAutoBus`, `BusNext`, `BusReply`, `BusReplyFails` and
`BusFinish` are the bus; a turn begins with `BeginNaturalLanguage`, `BusNext` or `ResumeAfterAnswer`
and goes through the rounds `FinalText`, `ToolBatch`, `MixedBatch`, `AskUser`, `Checkpoint` and
`TurnFails`. `CancelTask`, `Crash` and `ResumeSession` may come at any moment.
`History` is what the turn sends the provider before its own rounds, and `Wire` all of it.
`sanitizeModelMessages` and `buildModelMessages` drop what the code drops, because it matters what
that is; they are written as sets of positions (`PairedCalls`, `PairedResults`, `Unpaired`) from
which `Pick` makes a conversation again.

### GroupRuns

A run of a group (`RunGroup`, then `RunStep`) holds the daemon's thread except while it launches,
waits for an agent to get ready, or types the role into it (`pc`, `ThreadFree`). `left` and `batch`
are the plan of `buildLaunchPlan`, unfolded while it is used: the batch of members all of whose
dependencies have been launched, in the order of `NotAfter`. `runtime` is the group in memory, `file`
what `writeGroupState` has written: members that wait are not in it yet. `Fail` is
`failGroupLaunch` with the rollback, `Close` is `closeAgent`, where each process may refuse the signal.
`Holders` are the active entries with a nickname, from which `Reuse` takes one; `Spawn` removes the
inactive ones. `told`, `closed` and `lost` are histories. Agents report, die, are noticed, and are
started by users; the daemon may die (`Crash`): runs are gone, files and agents stay.

## 4. The runs

Every run finishes in under three minutes with two workers.

| run | instance | distinct states | properties |
|---|---|---|---|
| `dq_queue` | 2 consumers, 1 mortal; 2 processing files; three settings: events with seq 1, 2 and none; 2 events and an operation that overlaps another; 2 events and a claim given back after acting | 68,690 | NoLoss, EffectsExplained, ClaimsInOrder, ImplementsContract, EventuallyFinished |
| `bus_send` | 3 senders, 2 mortal; three settings | 306,210 | SeqUnique, QueuedOrConsumed, NothingSkipped, EverySendEnds |
| `sched_safe` | 1 agent, 3 messages of three kinds, a timer call, a bus_send call, a restart | 180,464 | OneInjection, NothingStranded |
| `sched_live` | 2 agents, one whose injections hang, 2 timer calls | 126,946 | EventuallyInjected |
| `lease_poll` | 2 waits in the daemon, 2 poll processes, 2 mortal processes, all 16 sets of windows | 60,191 | OneReceiver, LeaseTakenOver |
| `recv_ack` | 4 messages, batches of 2, both modes, both orders, 2 crashes | 114,879 | NoneLost, AckedWasShown, ShownOnce, EventuallyAcked |
| `task_runs` | 2 tasks in a row, 2 plans, 3 runs, 2 leases, 1 command id, 2 logged commands | 886,694 | Accounted, NodesExplained, OneRunPerCommand, DependenciesRan |
| `queue_consumers` | all 4 loops; 4 messages in any order, one of them ignored; 2 failures or deaths | 247,683 | Explained, ActedInOrder, EventuallySettled |
| `pty_turns` | 4 messages in any order, 3 that can be typed; a queue of 2; 2 exits, 1 restart, 1 restored claim | 420,712 | OneTurnAtATime, TurnWatched, EventuallyClosed |
| `registry` | 2 agents in one terminal, one of which comes back, and a headless one; 2 nicknames, 1 message | 818,186 | JoinedIsKnown, NicknamesUnique, TakeoverKeepsMessages, ActivityNeverOlder |
| `ucode_session` | 2 lines, 1 bus message, 2 tool calls, 2 rounds, a failed append or reply, a death, a cancellation | 371,630 | HistoryPaired, AnsweredOnce, QuestionStaysOpen, EventuallyIdle |
| `group_runs` | a group of 2, one depending on the other, a group of 1 with the same nickname, a user's agent with the other; 1 death of the daemon | 141,531 | GroupsCloseTheirOwn, NobodyForgotten, DependenciesFirst, RunsEnd |

What the less obvious properties say, and why the bounds are enough:

* **NoLoss** holds at every file-system call, also with overlap: an event is gone only if a rewrite
  dropped it, and no rewrite does as long as nothing overlaps. One overlap suffices for every pair
  of operations.
* **EffectsExplained** A side effect is repeated at most once per crash between it and its
  completion, and per claim given back after it. Needs an event, a crash and two consumers. The
  unsequenced event shows that without a seq this holds only as long as nobody has crashed.
* **ClaimsInOrder** needs two sequenced events, one restored or recovered while the other
  waits.
* **ImplementsContract** The queue, for sequenced events, refines `QueueContract`: a message
  counts as taken when `claimNext` has trimmed the file, as given back when `restoreClaim` has
  rewritten it or its owner has died, and recovery is invisible.
* **SeqUnique** holds under two assumptions, of which either is enough: nobody gets between
  two calls on the lock file, or one send follows the other. Three senders: a dead
  holder, a waiter that clears its lock, and a third that meets the waiter.
* **QueuedOrConsumed**, **NothingSkipped** relate sends, the offset check and a `consume` that
  hands out events before it commits the offset.
* **EventuallyInjected** The forced delivery overcomes a stale activity state and hung agents.
* **LeaseTakenOver** holds whatever the windows.
* **AckedWasShown** relates what is acknowledged to what the agent saw. Four messages: a batch of two, one beyond it, one after that.
* **NodesExplained**, **DependenciesRan** range over plans: two plans and three runs suffice for
  a run that ends in the next plan, and a dependent started there. A success counts for a plan if the
  run was started for it, or for a plan that it replaced while the run was at work (`WorkedFor`): the
  one exception the code makes to a clean start (section 5). What had ended before a plan was
  created never counts.
* **Explained** says of each loop which messages it may fail to act on and which it may act on
  twice, and why. Four messages: a batch with something before and behind the one whose
  handler fails; two faults, so that a repeated message fails again, or a death meets what a failure
  gave back.
* **ActedInOrder** is about messages of which one arrived earlier *and* has the smaller number, since
  a smaller number that arrives late is claimed late; of reports, about those that were not in hand when
  the daemon died.
* **OneTurnAtATime**, **TurnWatched** relate what was typed to how it ended. The order of turns is
  stated like `ActedInOrder`, with an exception for restored claims. A queue of two and four
  messages let the queue overflow while a turn is under way; two exits exhaust one restart.
* **JoinedIsKnown**, **NicknamesUnique**, **TakeoverKeepsMessages** are stated for joins that nobody
  interrupts; **ActivityNeverOlder** also for those that are. The two agents in one terminal drive
  each other out, the returning one finds its old entry.
* **HistoryPaired** is about what the provider is sent in every round, with a window of four events
  that cuts the journal anywhere. **QuestionStaysOpen** and **AnsweredOnce** count the crash and the
  fault that may explain an exception.
* **NobodyForgotten** ranges over groups at rest, with members that were launched, reused, failed,
  rolled back, stopped while their run went on, or written down before a crash. The shared
  nicknames let a member of one group be reused by the other, and a user's agent by the first.
* **DependenciesFirst**: the member that comes first by startup_order depends on the other.

Some calls cannot deadlock and some systems stop: `CHECK_DEADLOCK FALSE` is set for the queue (all
events completed, or every consumer dead), the bus (every send ended), the receive path
(everything acknowledged), the consumers and the PTY runner (all messages dealt with, or the
runner stopped), the registry (launches used up), the ucode session (all lines answered, or
dead without a snapshot) and the groups (all runs over and the crash used up).

**Fairness.** *Queue:* a synchronous operation goes on until it ends (weak, per process); every
consumer in the code claims from a timer, completes what it carried out and is not refused
the side effect for ever (strong: these are disabled again and again while another process
works). `EventuallyFinished` allows for the death of all consumers. *Bus:* a live sender
takes its next step; waiters give up after `SEQ_LOCK_TIMEOUT_MS`, but the property does not
need that they do. *Scheduler:* the clock, the timer and each call go on; an injection returns
unless its agent is hung, and one that is tried again and again succeeds in the end (an
assumption on the terminal). *Lease:* an acquisition goes on, refused receivers try again. *Receive
path:* the agent re-arms, handles and acknowledges, and its wait is not cancelled every
time before it looks. *Consumers:* the loop polls, a handler returns, what died is launched again.
*PTY runner:* the main loop and the timers go on; a terminal that is started again and again
gets ready (strong: each exit disables it). *ucode:* the event loop goes on, its bus timer
included, and a turn ends because the provider answers or the timeout of the run strikes; lines and
answers of the user are not assumed. *Groups:* every await of a run comes back, since launches, waits and
injections have deadlines. Task runs and the registry have no liveness property: the agents decide
everything.

## 5. Limits of the guarantees

Stronger forms of the checked properties that do not hold of the code. They were seen while
modelling, most of them as counterexamples of TLC; they are stated here so that nobody reads more
into the properties than they say. Where a comment or a document says otherwise, it is quoted.

* *Queue.* `claimNext` reads `pending.jsonl` (deliveryQueue.js:252) and later rewrites it from what
  it read (260): an append in between is lost (an event of `overwritten`). queue.js:141-142:
  "Later arrivals remain pending ...". `recover` (231-237) and `restoreClaim` (288-289) have the same
  window. Two claims that overlap may take the same event, and both act on it: after an overlap
  neither `EffectsExplained` nor `ClaimsInOrder` nor the contract holds. A claim of ucode given back
  because the reply failed is acted on again, without any crash (busConsumer.js:401-405). Unsequenced
  events are not first in, first out: a recovered one goes behind those
  that are pending. Order among recovered events is that of file names. `completeClaim` ignores a
  removal that fails (272); the event comes back when the process is dead.
* *Bus.* The lock file exists before it holds a pid (message.js:136-137), and a file without a pid
  is taken for stale (102-104), so two sends may get one number; message.js:170 says the
  file lock guarantees an atomic increment across processes. The unlink of a lock judged earlier
  (125) and a truncated counter whose fallback is a log without the last number (65, 93) do the
  same. With concurrent sends an offset may run ahead of a smaller number whose append comes
  later, which is then not queued (464 against 461).
* *Scheduler.* The backoff of a forced delivery is forgotten when a tick sees the queue empty
  because the message is in the hand of another call (deliveryScheduler.js:444): retries
  of an injection slower than the interval are not spaced out. Marking an agent as working after an
  injection is meant to close the gate before its own report arrives (376-379), but a failure to do so
  is swallowed (380-384), and the next message may follow in the same idle period.
* *Lease.* With a window open two receivers may both believe they hold the lease: a file seen
  before it is stamped, or a fresh file removed in place of a stale one (poll.js:60). A pid that
  was given to another process keeps a dead lease (57).
* *Receive path.* An acknowledgement claims the first message beyond its limit and gives it back
  (queue.js:157-158). A poll round in between does not see it, prints a later one, and the next
  acknowledgement clears both. A message whose smaller number arrives late is hidden by the cursor
  of a wait (controlPlaneService.js:535) or acknowledged unseen (queue.js:157). A dead
  acknowledgement's claim is seen by no wait until the next acknowledgement recovers it. When an
  acknowledgement lasts longer than the poll interval (`MaxRounds` of 2 or more), the poll process may
  forget that it printed a message the acknowledgement has claimed, and print it again when it
  is given back: `ShownOnce` leaves this out.
* *Task runs.* The end of a run whose plan was replaced is written to the task of the same name in
  the new plan (taskLoop.js:108), and its dependents may start; planGraphService.js:947: "create
  starts clean — do not inherit statuses from a replaced graph." `NodesExplained` and
  `DependenciesRan` name this as an exception (second case of `WorkedFor`); without it both are
  refuted: create, start_task, create, complete_task shows the task of the second plan as succeeded. A
  run without a task, started while there is no plan, leaves its graph in the slot of the plan
  (planGraphService.js:617-631); the next create or cancel_graph archives it, and the completion of
  the run fails (taskLoop.js:224-229). Advancing a plan takes
  running task_loop nodes, which have no tool lease, for nodes whose lease has expired
  and marks them failed (toolRuntime.js:97, planGraph.js:857) while their run works on, without a
  task_failed event; promptLayers.js:65: "The Agent Loop is woken by runtime task_started,
  task_succeeded, task_failed, and task_cancelled events." A call without a command id is logged under
  a key made of operation and target (taskControl.js:601), so a second start_task of a task
  without an id is answered with the run that has ended. `findActiveTaskRunForNode` does not
  look at the plan: a start in a new plan is answered with the run of the old one. A plan may be
  archived as completed with a run at work, since cancel_subtree and advancing change nodes only.
  `processTaskRun` and the patch of its child graph call each other (planGraphService.js:643); a repeated
  millisecond in a command id, or the stack, ends it.
* *Consumers.* The report queue loses a report whose handler fails and those behind it when the
  daemon dies; the bridge loses an event whose emission failed (it was remembered first, and
  the restored message is taken for a duplicate) and polls only while clients are connected
  (index.js:1124): `EventuallySettled` asks for a client that stays. An event that always fails is
  claimed again at once. A report that was in hand when the daemon died goes behind later ones, since
  reports have no number (reportControlBus.js:51-58). A message with a smaller number that is appended
  late (message.js:461-464) is handled late.
* *PTY runner.* A smaller number that is appended late is typed late, and a message whose claim was
  restored behind those accepted in the same round. The oldest message of a full queue is dropped
  although its claim was completed, and nobody is told (ptyRunner.js:1088). When the terminal is given up, messages are still claimed and
  completed, and never typed. The idle timer of a turn ended by the watchdog survives the restart and
  may end the next turn early.
* *Registry.* Joins that overlap drop each other's entries or give one nickname twice
  (bus/index.js:179). `leave` clears the activity state, and the merge of the save brings it back.
  A message sent between the copy and the truncation of a taken-over queue is lost
  (subscriber.js:206). An entry whose activity a cleanup has emptied may get an older one back, since
the merge takes an empty state for none (agentsStore.js:120-121): `ActivityNeverOlder` is about
entries that have one. An agent that inherits a nickname keeps the scoped nickname generated for it
  before (261-296), so that the next agent may get that name, and `resolveNickname`
  (nickname.js:14-22) sends its messages to the first. Reconciliation may write an older
  `activity_since`.
* *ucode.* An answer is appended at the end of the conversation (agent.js:1111-1145), but while its
  question is open turns for the bus (rustUcodeHost.js:766-782) and lines typed earlier (875-1038)
  journal events behind the call. `sanitizeModelMessages` then drops the call, whose result does
  not follow at once, and the result, an orphan: the provider goes on without the answer.
  userInteraction.js:6-9 says the answer "is written as the matching tool_result so it sits
  immediately after that tool call in the model transcript." `AnswerFollowsQuestion` states this
  and TLC refutes it on the instance of `ucode_session` without any fault. While a question is
  open, other turns stop after their first batch of tools (nativeRunner.js:2264), and the sender of a
  bus message is told "Waiting for your reply". `task.cancel` aborts the job queued last
  (UcodeController.js:67). The effects of tools in a turn that fails are not journalled. A death
  between the answer and the snapshot opens the question again; a death before the snapshot of
  a question loses it; a failed append of an answer loses both.
* *Groups.* A stop during a run is overwritten by the next write of the run, which goes on. An agent
  launched but not yet written is unknown to a stop, and to everybody after a death of the daemon
  (`lost`). `stop_failed` and `rollback_failed` are never tried again. Role files and arguments of a
  reused agent are marked "applied" although nothing was launched; a reused member without
  a role, or of type ucode, fails the run. Stopping the group that launched an agent closes it under
  another group that reuses it. `findAppliedBootstrapRecord` never matches, since the
  fingerprint holds the group id.

## 6. The proofs

TLAPS checks eight modules; nothing is assumed but the `ASSUME`s on constants and, for four theorems
about the queue, that no two sequenced events share a seq (`UniqueSeqs`), which is what `SeqUnique`
says of the sender. What is proved
holds for every value of the constants: any number of processes, senders, agents, messages,
tasks, plans, groups, turns, calls, failures and crashes.
Every safety invariant and every action property of the runs is proved.
`LiveClaimsKept`, `MutualExclusion`, `LeaseKept`, `OneActivePerNode` and the contract of the receive path
are proved only: no run lists them, since the properties of the runs that stand beside them say more
about the same code.

| theorem | says | argument |
|---|---|---|
| `DeliveryQueue_proofs!TypeCorrect` | `TypeOK` | inductive as it stands; needs that a merge of events is a sequence of them (`MergeType`) |
| `OwnershipHolds` | `Ownership`, with overlap | inductive with `TypeOK`: who lists a file, and why no one else has it |
| `LiveClaimsSafe` | the action property `LiveClaimsKept`, with overlap | from the two |
| `NothingLost` | `NoLoss`, with overlap | `LossInv`: an event leaves one place only when it is in another or was overwritten (`Safe`, `Carries`); `QueueInv` adds, until something overlaps, `OneAtATime` and what the buffer of each call knows about the disk (`Snapshot`), so no rewrite drops anything |
| `EffectsCounted` | `EffectsExplained`: until operations overlap | counts the effects of an event against where its copies are (`Settled`), given that a sequenced event is never twice in hand (`Singly`) |
| `ClaimsInOrderHolds` | `ClaimsInOrder`: until operations overlap | `Ordered`: `pending.jsonl` and what an operation is about to write are sorted by seq |
| `ContractImplemented` | `ImplementsContract`: until operations overlap, sequenced events | each step of an operation maps to a step of `QueueContract` or to a stutter, with `Singly` |
| `MessageBus_proofs!LockWorks` | undisturbed: `MutualExclusion` and unique numbers | `LockInv`: the sender between taking and releasing is the one named by the lock file; the counter bounds every number given out and the holder has read it as it is; the log has each number once |
| `SeqUniqueHolds` | `SeqUnique`: unique numbers, undisturbed or serial | `LockInv` for the first, `SerialInv` for the second |
| `QueuedOrConsumedHolds`, `NothingSkippedHolds` | serial, all windows open: `QueuedOrConsumed`, `NothingSkipped` | `SerialInv`: the numbers of the log grow (`GrowthInv`), and what is up to the offset, or to what a reader is about to commit, is consumed (`OffsetInv`) |
| `DeliveryScheduler_proofs!OneInjectionHolds` | `OneInjection` | the lock of an agent and the message in hand imply each other (`LockInv`) |
| `NothingStrandedHolds` | `NothingStranded` | `PlaceInv`: every message is queued, in the hand of exactly one call, or done |
| `Receivers_proofs!NoneLostHolds` | `NoneLost` | `ReceiveInv`: a number is in one place, and no file holds one twice (`PlaceInv`) |
| `AckedWasShownHolds`, `ShownOnceHolds` | `AckedWasShown`, `ShownOnce` | `ReceiveInv`: a wait was shown what is up to its cursor or its batch (`WaitInv`); of what a poll process printed, the queue holds its last batch at most (`PollInv`) |
| `ReceivePathImplementsContract` | `ReceivePath!ImplementsContract`: `QueueContract`, with the acknowledgement as consumer | each step maps to a step of the contract or a stutter, with `ReceiveInv`; recovery and the order of the file are invisible |
| `OneReceiverHolds` | undisturbed: `OneReceiver` | `HeldInv`: the stamped file names the process of the live receiver that created it, and nobody is in the middle of acquiring |
| `LeaseIsKept` | undisturbed: `LeaseKept` | from the same invariant: a live holder's file is not stale |
| `ConsumersExplained` | `Explained` | `ConsumerInv`: a message is in one place; what is open was acted on as often as it was undone |
| `ActedInOrderHolds` | `ActedInOrder` | `ConsumerInv`: batch, claims and pending stand in line, and nothing behind what it precedes (`LineInv`, `Late`) |
| `AgentRegistry_proofs!TypeCorrect` | `TypeOK` | inductive as it stands, with overlap |
| `JoinedIsKnownHolds`, `NicknamesUniqueHolds`, `TakeoverKeepsMessagesHolds` | joins that nobody interrupts: `JoinedIsKnown`, `NicknamesUnique`, `TakeoverKeepsMessages` | `RegistryInv`: what a join is about to save holds everyone it does not displace (`CopyInv`), and what it moves is in one queue or the other (`MoveInv`) |
| `ActivityNeverOlderHolds` | `ActivityNeverOlder`, with overlap | the merge of the save takes the younger state (`MergeActivity`) |
| `Ucode_proofs!TypeCorrect`, `LeasesAccounted`, `OneRunPerTask`, `CommandsStartOnce`, `PlanIsExplained`, `RunsAfterDependencies` | `TypeOK`, `Accounted`, `OneActivePerNode`, `OneRunPerCommand`, `NodesExplained`, `DependenciesRan` of the task runs | one invariant, `IInv` |
| `SaneIsWellPaired`, `SaneKeepsPaired` | what `sanitizeModelMessages` returns is well paired whatever it is given, and it changes nothing that was | the results behind a call that is kept are kept, and stay directly behind it |
| `HistoryPairedHolds`, `AnsweredOnceHolds`, `QuestionStaysOpenHolds` | `HistoryPaired`, `AnsweredOnce`, `QuestionStaysOpen` | `SessionInv`, with `SaneIsWellPaired` for the first |
| `PtyRunner_proofs!OneTurnHolds`, `TurnWatchedHolds` | `OneTurnAtATime`, `TurnWatched` | `RunnerInv`: typed, accepted and pending messages stand in line, nothing behind what it precedes (`Late`), and each typed message but the current has exactly one end |
| `GroupRuns_proofs!GroupsCloseTheirOwnHolds`, `NobodyForgottenHolds`, `DependenciesFirstHolds` | `GroupsCloseTheirOwn`, `NobodyForgotten`, `DependenciesFirst` | `GroupInv`: for each group, what its file tells of its living agents (`Filed`) and what a run knows of them (`Running`) |

Why the invariants are stronger than the properties they give:

* `NoLoss` says where events are, not why an operation under way may overwrite a file. `Snapshot`
  does: what was read is still what the disk holds (true because nothing else is under way),
  and an event about to leave one place is in the other. With overlap it fails at
  the first append. What is left then (`Carries`) is that an operation has in memory what is in
  the files it will remove, which is why only a rewrite of `pending.jsonl` can lose an event.
* `MutualExclusion` says nothing of the lock file; `HolderInv` ties the holder to it and
  `NumbersInv` ties the holder's copy of the counter to the counter.
* Of sends one after the other, `HolderInv` is false: a dead sender leaves its lock behind, and with the
  windows open the next one may take it from itself; and a death after the truncation empties the
  counter. What is left is that only one sender lives and is under way (`OneSend`), that the number it
  holds or is about to compute is above all in the log, and that a counter which is not empty is not
  below them. `SeqUnique` needs only that the log grows; `NothingSkipped` needs also that no offset and no
  reader is ahead of the log, or the next event would be behind the offset at once.
* `NoneLost` counts the places of a message. That an agent was shown what it acknowledges needs
  more: an acknowledgement goes through its cursor, so everything at or below the cursor must have been
  shown, and what arrives later must be above it. This is where the order of arrival enters, and
  a file that is not in order would break it, because recovery sorts. For the poll process, `PollInv`
  keeps what was printed and is still queued inside `inFlight`, the keys the code remembers, except
  for a claim that will be completed.
* `JoinedIsKnown` speaks of the file; a join holds a copy and will overwrite the file with it.
  `CopyInv` says of the copy what the invariant says of the file, of all but the agents whose
  terminal is taken over, and that holds only because nobody else writes in between (`OneJoin`).
  `TakeoverKeepsMessages` needs that the messages read are still in the old queue when they are
  appended, and in the new one when the old is truncated, and that the two are not the same.
* `IInv` of the task runs adds that a logged key remembers the run it started
  (`Remembered`), which gives `OneRunPerCommand`, and that a succeeded node shows a run that
  did and worked for this plan, which together with `StartTask`'s guard gives `DependenciesRan`; that
  plans are numbered as they are created (`Numbered`), so that a new plan has nothing to answer for;
  that no run is ever queued
  needs that active runs and lease holders are the same set, so that `rejectMaxConcurrent`
  and the lease agree.
* `HistoryPaired` is half a lemma about data (whatever the journal holds, what is built from it is well
  paired, since `sanitizeModelMessages` comes last) and half an invariant: what the turn itself adds
  is a sequence of whole batches (`TurnInv`). An event appended to a well paired conversation, and two
  of them put together, are well paired if the first does not end in a call without its result.
* `AnsweredOnce` is not inductive: it allows one answer per crash and one more, but a question that
  is open must not have used up that one. `AnswersInv` keeps it in reserve while the process is
  down (the snapshot may bring the question back) or the call is the open question.
  `NumberedInv` makes a new call one that was never answered, and `TurnInv` keeps the calls of a turn
  out of the journal until they are written.
* `OneTurnAtATime` counts ends; the invariant names the one end of each message, and ties the
  idle timer to the turn whose output set it.
* `NobodyForgotten` is about files of groups at rest. While a run is under way its file is behind:
  `Running` says that the run itself knows every agent it has launched (it is about to close or
  write them) and that nobody else has changed what the file says of members it has not got
  to. `DependenciesFirst` needs that members which the run has left behind stay in place, and that a
  batch depends on nothing that is left.

The proofs share one shape: an `Init` lemma, one lemma per action or group of actions with a step
for each conjunct that it can disturb, and a last step by temporal logic. In the part of
`Ucode_proofs` about task runs
the actions are grouped by what they do to the runs (create, end, leave alone) and to the plan; in
the part about the session the lemmas about conversations (`Pick`, `Following`, concatenation) come
first, without any state.
The inductive invariants and the contract of the receive path were checked by TLC before they were
proved; the runs check the properties only.

Only model-checked: the liveness properties `EventuallyFinished`, `EverySendEnds`,
`EventuallyInjected`, `LeaseTakenOver`, `EventuallyAcked`, `EventuallySettled`, `EventuallyClosed`,
`EventuallyIdle` and `RunsEnd`. Out of the prover's reach: liveness under fairness and
`ENABLED`; induction over data, so what `MergeAndSort` and `sanitizeModelMessages` compute is given
by what the result is (there is exactly one order; a set of positions) and not by a loop;
recursive operators, of which the modules have none.

## 7. What is not modelled

`PROJECT.json` lists each component with its status. In the modelled parts:

* *Queue:* `clearPending`, failing file-system calls, reused pids, lines of `pending.jsonl` that
  do not parse (they are skipped by the reader).
* *Bus:* several targets per message (independent of each other), torn writes of a few bytes, the
  daily log files (only the newest is asked for the last number).
* *Scheduler:* warnings and their rate limits; races on the registry file itself.
* *Receive path:* registration handles, the timeout's answer, unsequenced messages (for which
  `ack --through` is not offered).
* *Task runs:* nodes that are executed by the plan itself (inline, expand, aggregate, tools,
  checkpoints), patch, fail_current_task, several actions in one control call, graph ids chosen
  and reused by the agent, and resumption after a restart (`resumePersistedTaskRuns` and
  `beginWakeup` have no caller in `src/`).

* *Consumers:* the path of ucode without claims (busConsumer.js:417-464, which parses the output of
  `ufoo bus check` when there is no `pending.jsonl`), what handlers do, threads and streams
  of the headless agent, `drainJsonlFile` (busConsumer.js:168-195, which nothing in `src/` calls), the agents the bridge only watches.
* *PTY runner:* the socket and its viewers, what is typed, how a prompt is recognised.
* *Registry:* old formats, launches in a nickname scope, the reconciliation of activity states, the
  microseconds between the read and the write of synchronous commands in different processes.
* *ucode session:* what the user types outside of the chain of jobs (/ubus and /resume run at once,
  not in `runExclusive`), the wire format of Anthropic, artifacts, the working set, skills, texts; tools are
  one data tool that may fail, ask_user, and the checkpoint of a plan.
* *Groups:* validation of templates, dry runs, stub entries (the launch of an agent that has only been
  announced), sessions of providers, and the modes terminal, tmux and host, in which the newest agent
  of the type is taken for the one launched (index.js:94-126). A launch that fails after it
  entered its agent leaves an entry without a process.

Left out altogether: rendering and commands (chat, CLI, TUI), launching programs and
terminal adapters, providers and prompts, whose state is that of other programs; the
controller, whose decisions are a language model's; memory, decisions and reports, which are
files written and read by command; the online relay, which is independent of the core; cron and
solo agents. These are most of the repository's lines: of about 86,000 lines of implementation,
the part whose state several actors share, and to which a model adds something, is a small share.

## 8. Plan

Done, in this order: `DeliveryQueue` with `QueueContract`, `MessageBus`, `DeliveryScheduler`,
`PollLease`, `ReceivePath`, `TaskRuns`; then `QueueConsumers`, `PtyRunner`, `AgentRegistry`,
`UcodeSession`, `GroupRuns`, and the proofs of section 6, with which all safety properties of the
runs are theorems.

What is left, most important first:

1. A composition of `MessageBus` and `DeliveryQueue`: a sent message reaches a consumer or the
   offset; `SerialInv` and `QueueInv` are the two halves of its invariant.
2. **ProjectRuntimes**: activation, suspension and removal by concurrent requests: one runtime per
   project, none suspended under a client.
3. **PlanSchedule**: claims and tool leases of the other kinds of nodes, expansion, aggregation,
   patch; composed with `TaskRuns`.
4. **ControlPlane**: registration handles and MCP sessions, composed with `ReceivePath`.
5. Cron, and groups in the launch modes where the agent is not a child of the daemon.

Theorems worth proving next: `DeliveryScheduler`, `QueueConsumers` and `PtyRunner` take, finish or drop
several messages in one step, which `QueueContract` does one by one; a contract whose steps are about
sets of messages would let `ContractImplemented` reach them as it reaches `ReceivePath`.
`buildModelMessages` keeps the newest events of a conversation that may be shown.
