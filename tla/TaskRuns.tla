------------------------------ MODULE TaskRuns ------------------------------
(***************************************************************************)
(* The task runs of a ucode session and the plan graph they work for       *)
(* (src/code/runtime/taskControl.js, taskLoop.js, taskRun.js,              *)
(* workspaceLease.js and the control, create and cancel_graph operations   *)
(* of src/code/context/planGraphService.js).                               *)
(*                                                                         *)
(* The agent plans with the tool plan_graph: a plan is a graph of tasks,   *)
(* and the ones modelled, of the kind task_loop, are executed by a task    *)
(* run each.  It also starts, cancels, fails and completes runs with the   *)
(* tool task_run, runs without a task among them.  Every call is           *)
(* synchronous and works on one executionState, so an action is a whole    *)
(* call; what can go wrong is a sequence of calls: runs outlive the plan   *)
(* they were started for, a plan is replaced by one with the same task     *)
(* names, and commands are repeated.  A call that is rejected and changes  *)
(* nothing is not an action.                                               *)
(*                                                                         *)
(* A run has a graph of its own for its steps.  executionState.planGraph   *)
(* is the slot of the agent's plan; a call that names the graph of a run   *)
(* works in the slot and puts the plan back when there is one.  When there *)
(* is none the graph of the run stays there, as a guest, until the next    *)
(* create or cancel_graph archives it and takes it out of graphs.          *)
(***************************************************************************)
EXTENDS Naturals, FiniteSets, Sequences

CONSTANTS
    Nodes,      \* the ids of the tasks; every plan has the same ones
    DependsOn,  \* DependsOn[n]: the tasks that n waits for (node.dependsOn)
    Commands,   \* command ids the agent may give, and give again
    NoCommand,  \* the call has no command id
    NoNode,     \* the parentNodeId of a standalone run
    StopOps,    \* of cancel_task and fail_task, the ones the agent uses
    MaxLeases,  \* MAX_CONCURRENT_WRITE_LEASES (6)
    MaxRuns,    \* bound: task runs created
    MaxPlans,   \* bound: plans created
    MaxLog      \* bound: commands in the log

ASSUME ConstantsAssumption ==
    /\ DependsOn \in [Nodes -> SUBSET Nodes]
    /\ NoNode \notin Nodes
    /\ NoCommand \notin Commands
    /\ StopOps \subseteq {"cancel_task", "fail_task"}
    /\ MaxLeases \in Nat \ {0}
    /\ MaxRuns \in Nat
    /\ MaxPlans \in Nat
    /\ MaxLog \in Nat

VARIABLES
    plan,     \* the agent's plan in executionState.planGraph, a number; 0: no plan
    guest,    \* the run whose graph is in executionState.planGraph; 0: none
    gone,     \* the runs whose graph was archived and is not in graphs any more
    plans,    \* number of plans created so far
    status,   \* status[n]: node.status in the plan
    shown,    \* shown[n]: node.runtime.taskRunId, 0 when there is none
    planLog,  \* command ids in planGraph.commandLog, of the plan or the guest
    runs,     \* taskRuns.byId in the order of creation: see Run
    holders,  \* workspaceLease.holders, as a set of runs
    log       \* taskRuns.commandLog: what a command answered, by its key

slot == <<plan, guest, gone>>
planVars == <<slot, plans, status, shown, planLog>>
vars == <<planVars, runs, holders, log>>

RunIds == DOMAIN runs

\* A run: the plan and task it was started for, its status, the number of
\* events about its end in the agent's mailbox, and as history the key of the
\* command that started it and the plan that has its success on the task.
Run(p, n, s, k) ==
    [plan |-> p, node |-> n, status |-> s, told |-> 0, by |-> k, marked |-> 0]

\* TERMINAL_TASK_RUN; a status of a node after which the plan needs no more of
\* it.
Terminal == {"succeeded", "failed", "cancelled"}
Done == {"succeeded", "failed", "cancelled", "skipped"}

Active(r) == runs[r].status \notin Terminal

\* findActiveTaskRunForNode: the first active run with that parentNodeId.  It
\* does not look at the plan of the run.
ActiveRunsOf(n) == {r \in RunIds : runs[r].node = n /\ Active(r)}

\* The key that runControlActions gives to an action: the command id, or a key
\* made of the operation and its target when the call has none.
ControlKey(c, op, t) == IF c = NoCommand THEN <<op, t>> ELSE c

CacheNothing(k, r, ok) == UNCHANGED log   \* variant

\* cacheControlCommand: task_run without a command id caches nothing.
Cache(k, r, ok) ==
    IF k = NoCommand
      THEN UNCHANGED log
      ELSE /\ Cardinality(DOMAIN log) < MaxLog
           /\ log' = [x \in DOMAIN log \cup {k} |->
                        IF x = k THEN [run |-> r, ok |-> ok] ELSE log[x]]

Logged(c) == IF c = NoCommand THEN planLog ELSE planLog \cup {c}

-----------------------------------------------------------------------------
\* Plans.

NoPlan == [n \in Nodes |-> "none"]
NoRuns == [n \in Nodes |-> 0]

\* archivePlanGraph: the graph in the slot is taken out of graphs, also when it
\* is the graph of a run.  The runs are left as they are.
Archive ==
    /\ guest' = 0
    /\ gone' = gone \cup ({guest} \ {0})

\* archivePlanGraph and emptyPlanGraphState.
ClearPlan ==
    /\ Archive
    /\ plan' = 0
    /\ status' = NoPlan
    /\ shown' = NoRuns
    /\ planLog' = {}

\* restorePrimaryGraph, after a call that works on the graph of run r: the graph
\* stays in the slot when the slot was empty.
Visit(r) ==
    IF plan = 0 /\ guest = 0
      THEN guest' = r /\ planLog' = {} /\ UNCHANGED <<plan, gone>>
      ELSE UNCHANGED <<slot, planLog>>

\* Variant: the new plan is laid over the one it replaces.
CreateOverlay(c) ==
    /\ c \notin planLog
    /\ plans < MaxPlans
    /\ plans' = plans + 1
    /\ plan' = plans + 1
    /\ Archive
    /\ status' = [n \in Nodes |-> IF status[n] = "none" THEN "pending" ELSE status[n]]
    /\ planLog' = {c} \ {NoCommand}
    /\ UNCHANGED <<shown, runs, holders, log>>

\* The log of the graph that is replaced is asked for the command, the log of
\* the new one has only the command that created it.
CreatePlan(c) ==
    /\ c \notin planLog
    /\ plans < MaxPlans
    /\ plans' = plans + 1
    /\ plan' = plans + 1
    /\ Archive
    /\ status' = [n \in Nodes |-> "pending"]
    /\ shown' = NoRuns
    /\ planLog' = {c} \ {NoCommand}
    /\ UNCHANGED <<runs, holders, log>>

CancelGraph ==
    /\ ClearPlan
    /\ UNCHANGED <<plans, runs, holders, log>>

\* executePlanGraph on the tasks st.  It starts no task_loop; but a node that is
\* running without a lease of the tool runtime, as these are, counts as one
\* whose lease has expired (recoverExpiredLeases), and fails.
Advanced(st) == [n \in Nodes |-> IF st[n] = "running" THEN "failed" ELSE st[n]]

\* The end of a control call whose action is accepted: the plan is advanced,
\* archived when all of it is done (as a plan without tasks is), and remembers
\* the command otherwise.  The graph of a run is advanced, too, and never
\* archived for being done (finalizeTerminalPrimaryPlan).
Advance(st, sh, c) ==
    \/ /\ guest # 0
       /\ planLog' = Logged(c)
       /\ UNCHANGED <<slot, status, shown>>
    \/ /\ guest = 0
       /\ plan = 0 \/ \A n \in Nodes : Advanced(st)[n] \in Done
       /\ ClearPlan
    \/ /\ guest = 0
       /\ ~ (plan = 0 \/ \A n \in Nodes : Advanced(st)[n] \in Done)
       /\ status' = Advanced(st)
       /\ shown' = sh
       /\ planLog' = Logged(c)
       /\ UNCHANGED slot

\* Variant: every end counts as success.
SyncedDone(r, s) ==
    [n \in Nodes |-> IF plan # 0 /\ n = runs[r].node THEN "succeeded" ELSE status[n]]

\* syncParentNodeFromRun: the plan of the run or, when that one is archived,
\* whatever plan there is; the node with the name of the run's task.  The graph
\* of a run has no such node.
Synced(r, s) ==
    [n \in Nodes |-> IF plan # 0 /\ n = runs[r].node THEN s ELSE status[n]]
Shown(r) ==
    [n \in Nodes |-> IF plan # 0 /\ n = runs[r].node THEN r ELSE shown[n]]

-----------------------------------------------------------------------------
\* Starting runs.

MayCreateAny == TRUE   \* variant

\* rejectMaxConcurrent lets the run be created.
MayCreate ==
    /\ Cardinality({r \in RunIds : Active(r)}) < MaxLeases
    /\ Cardinality(holders) < MaxLeases

LeaseFree == Cardinality(holders) < MaxLeases

\* createTaskRun, then processTaskRun: the run takes a write lease and runs,
\* or stays queued when all leases are taken.
NewRun(p, n, k) ==
    LET r == Len(runs) + 1
    IN /\ r <= MaxRuns
       /\ runs' = Append(runs, Run(p, n, IF LeaseFree THEN "running" ELSE "queued", k))
       /\ holders' = IF LeaseFree THEN holders \cup {r} ELSE holders
       /\ Cache(k, r, TRUE)

\* startTask.
StartTask(n, c) ==
    LET k == ControlKey(c, "start_task", n) IN
    /\ plan # 0
    /\ c \notin planLog
    /\ k \notin DOMAIN log
    /\ ActiveRunsOf(n) = {}
    /\ \A d \in DependsOn[n] : status[d] = "succeeded"
    /\ MayCreate
    /\ NewRun(plan, n, k)
    /\ status' = [status EXCEPT ![n] = "running"]
    /\ shown' = [shown EXCEPT ![n] = Len(runs) + 1]
    /\ planLog' = Logged(c)
    /\ UNCHANGED <<slot, plans>>

\* startTask answers already_running.
StartTaskAgain(n, c) ==
    LET k == ControlKey(c, "start_task", n) IN
    /\ plan # 0
    /\ c \notin planLog
    /\ k \notin DOMAIN log
    /\ \E r \in ActiveRunsOf(n) :
         /\ \A q \in ActiveRunsOf(n) : r <= q
         /\ Cache(k, r, TRUE)
         /\ planLog' = Logged(c)
    /\ UNCHANGED <<slot, plans, status, shown, runs, holders>>

\* startStandaloneTask, called by the tool task_run: the first tick of the run
\* patches its graph.
StartStandalone(c) ==
    /\ c \notin DOMAIN log
    /\ MayCreate
    /\ NewRun(0, NoNode, c)
    /\ IF LeaseFree THEN Visit(Len(runs) + 1) ELSE UNCHANGED <<slot, planLog>>
    /\ UNCHANGED <<plans, status, shown>>

\* The agent inspects the graph of a run, or patches that of an ended run or in
\* vain.
Look(r) ==
    /\ r \notin gone
    /\ Visit(r)
    /\ UNCHANGED <<plans, status, shown, runs, holders, log>>

\* processTaskRun of a running run, when the agent has patched its graph
\* (resumeChildTaskLoopIfNeeded): the steps are executed, and the task is shown
\* as running again whatever became of it.  A graph that was in the slot before
\* is patched and the run is not resumed.
Work(r) ==
    /\ runs[r].status = "running"
    /\ r \notin gone
    /\ r # guest
    /\ Visit(r)
    /\ status' = Synced(r, "running")
    /\ shown' = Shown(r)
    /\ UNCHANGED <<plans, runs, holders, log>>

-----------------------------------------------------------------------------
\* Ending runs.

\* The run that cancelTask and failTask act on: the one named, when active, or
\* the active one of the task named.
StopTargets(t) ==
    IF t \in Nodes
      THEN {r \in ActiveRunsOf(t) : \A q \in ActiveRunsOf(t) : r <= q}
      ELSE {r \in RunIds : r = t /\ Active(r)}

\* finalizeSuccess and finalizeFailure: the compare-and-set of the status, the
\* write lease, the event for the agent.
EndRun(r, s) ==
    /\ runs' = [runs EXCEPT ![r].status = s, ![r].told = @ + 1,
                            ![r].marked = IF s = "succeeded" /\ runs[r].node \in Nodes
                                            THEN plan ELSE 0]
    /\ holders' = holders \ {r}

\* What a call leaves of the plan: one of plan_graph advances it, one of
\* task_run does not.
After(via, st, sh, c) ==
    IF via = "control"
      THEN Advance(st, sh, c)
      ELSE /\ status' = st
           /\ shown' = sh
           /\ UNCHANGED <<slot, planLog>>

\* cancelTask and failTask of run r: running to cancelling to cancelled; a
\* queued run may not become cancelling, so it stays as it is.
Stop(r, k, via, c) ==
    \/ /\ runs[r].status = "running"
       /\ EndRun(r, "cancelled")
       /\ Cache(k, r, TRUE)
       /\ After(via, Synced(r, "cancelled"), Shown(r), c)
    \/ /\ runs[r].status = "queued"
       /\ Cache(k, r, FALSE)
       /\ UNCHANGED <<slot, status, shown, planLog, runs, holders>>

\* A run that processTaskRun gets as far as its graph.
Ticks(r) == runs[r].status = "running" \/ (runs[r].status = "queued" /\ LeaseFree)

\* completeTaskFromLoop of run r: an active one succeeds (a queued one only if
\* it can take a lease first) or, when its graph is gone, fails and rejects the
\* call (CHILD_GRAPH_MISSING); an ended one answers with its status.
Complete(r, k, via, c) ==
    \/ /\ Ticks(r) /\ r \notin gone
       /\ EndRun(r, "succeeded")
       /\ Cache(k, r, TRUE)
       /\ After(via, Synced(r, "succeeded"), Shown(r), c)
    \/ /\ Ticks(r) /\ r \in gone
       /\ EndRun(r, "failed")
       /\ Cache(k, r, FALSE)
       /\ status' = Synced(r, "failed")
       /\ shown' = Shown(r)
       /\ UNCHANGED <<slot, planLog>>
    \/ /\ runs[r].status = "succeeded"
       /\ Cache(k, r, TRUE)
       /\ After(via, status, shown, c)
       /\ UNCHANGED <<runs, holders>>
    \/ /\ \/ runs[r].status \in {"failed", "cancelled"}
          \/ runs[r].status = "queued" /\ ~ LeaseFree
       /\ Cache(k, r, FALSE)
       /\ UNCHANGED <<slot, status, shown, planLog, runs, holders>>

\* A call that ends a run, through plan_graph or task_run.
EndCall(op, t, via, c) ==
    LET k == IF via = "control" THEN ControlKey(c, op, t) ELSE c IN
    /\ via = "control" => c \notin planLog
    /\ k \notin DOMAIN log
    /\ \/ op \in StopOps /\ \E r \in StopTargets(t) : Stop(r, k, via, c)
       \/ op = "complete_task" /\ t \in RunIds /\ Complete(t, k, via, c)
    /\ UNCHANGED plans

-----------------------------------------------------------------------------
\* Changing the tasks of the plan without a run.

\* Everything that waits for n, n included.
Subtree(n) ==
    {m \in Nodes : \A S \in SUBSET Nodes :
        (/\ n \in S
         /\ \A d \in Nodes : DependsOn[d] \cap S # {} => d \in S) => m \in S}

\* applyControlNodeAction, called by skipNode and cancelSubtree.
ControlNode(op, n, c, st) ==
    LET k == ControlKey(c, op, n) IN
    /\ plan # 0
    /\ c \notin planLog
    /\ k \notin DOMAIN log
    /\ Cache(k, 0, TRUE)
    /\ Advance(st, shown, c)
    /\ UNCHANGED <<plans, runs, holders>>

SkipNode(n, c) ==
    /\ status[n] = "pending"
    /\ ControlNode("skip_node", n, c, [status EXCEPT ![n] = "skipped"])

\* The runs of the cancelled tasks are left as they are.
CancelSubtree(n, c) ==
    ControlNode("cancel_subtree", n, c,
        [m \in Nodes |->
            IF m \in Subtree(n) /\ status[m] \notin {"succeeded", "failed"}
              THEN "cancelled"
              ELSE status[m]])

-----------------------------------------------------------------------------
\* A control call whose key is in the log gets the logged answer: nothing is
\* done but what plan_graph does after an accepted action.
Replay(op, t, c) ==
    LET k == ControlKey(c, op, t) IN
    /\ c \notin planLog
    /\ k \in DOMAIN log
    /\ log[k].ok
    /\ IF op = "start_task"
         THEN planLog' = Logged(c) /\ UNCHANGED <<slot, status, shown>>
         ELSE Advance(status, shown, c)
    /\ UNCHANGED <<plans, runs, holders, log>>

-----------------------------------------------------------------------------
Init ==
    /\ plan = 0 /\ guest = 0 /\ gone = {}
    /\ plans = 0
    /\ status = NoPlan
    /\ shown = NoRuns
    /\ planLog = {}
    /\ runs = <<>>
    /\ holders = {}
    /\ log = [k \in {} |-> [run |-> 0, ok |-> TRUE]]

NodeOps == {"start_task", "skip_node", "cancel_subtree"}

\* How the calls name what they end: the tool task_run a run, plan_graph the
\* task to stop or the run that is complete.
Targets(op, via) ==
    IF via = "control" /\ op \in StopOps THEN Nodes ELSE RunIds

Next ==
    \/ CancelGraph
    \/ \E r \in RunIds : Look(r) \/ Work(r)
    \/ \E c \in Commands \cup {NoCommand} :
         \/ CreatePlan(c)
         \/ StartStandalone(c)
         \/ \E n \in Nodes :
              \/ StartTask(n, c)
              \/ StartTaskAgain(n, c)
              \/ SkipNode(n, c)
              \/ CancelSubtree(n, c)
              \/ \E op \in NodeOps : Replay(op, n, c)
         \/ \E op \in StopOps \cup {"complete_task"} :
              \/ \E via \in {"control", "task_run"} :
                   \E t \in Targets(op, via) : EndCall(op, t, via, c)
              \/ \E t \in Targets(op, "control") : Replay(op, t, c)

Spec == Init /\ [][Next]_vars

-----------------------------------------------------------------------------
\* Types and shapes of the variables.
Operations == NodeOps \cup {"cancel_task", "fail_task", "complete_task"}
Keys == Commands \cup {NoCommand} \cup (Operations \X (Nodes \cup Nat))

RunSet == [plan : 0..MaxPlans, node : Nodes \cup {NoNode},
           status : Terminal \cup {"queued", "running"}, told : 0..1, by : Keys,
           marked : 0..MaxPlans]

TypeOK ==
    /\ plan \in 0..MaxPlans
    /\ guest \in 0..Len(runs)
    /\ gone \subseteq RunIds
    /\ plans \in 0..MaxPlans
    /\ status \in [Nodes -> Done \cup {"none", "pending", "running"}]
    /\ shown \in [Nodes -> 0..Len(runs)]
    /\ planLog \subseteq Commands
    /\ runs \in Seq(RunSet)
    /\ Len(runs) <= MaxRuns
    /\ holders \subseteq RunIds
    /\ DOMAIN log \subseteq Keys \ {NoCommand}
    /\ \A k \in DOMAIN log : log[k].run \in 0..Len(runs)

\* The write lease keeps the agent and the runs from writing at once
\* (workspaceLease.js): a run holds one exactly while it is active, so none
\* waits for a lease, none writes after its end and none that ended keeps the
\* agent from writing; and the agent is told of the end of a run once.
Accounted ==
    /\ holders = {r \in RunIds : Active(r)}
    /\ Cardinality(holders) <= MaxLeases
    /\ \A r \in RunIds :
         /\ runs[r].status # "queued"
         /\ runs[r].told = IF Active(r) THEN 0 ELSE 1

\* However tasks are started, cancelled and started again, and plans replaced,
\* at most one run works for a task (startTask: already_running).
OneActivePerNode ==
    \A q, r \in RunIds :
        /\ Active(q) /\ Active(r)
        /\ runs[q].node = runs[r].node
        /\ runs[q].node # NoNode
        => q = r

\* Run q worked for plan p: it was started for p, or for an earlier plan that p
\* replaced before q had ended.  planGraphService.js:947 "create starts clean - do
\* not inherit statuses from a replaced graph" knows no such exception, but the end
\* of a run is written into whatever plan there is (taskLoop.js:108).
WorkedFor(q, p) ==
    \/ runs[q].plan = p
    \/ runs[q].plan < p /\ runs[q].marked = p

\* What the plan shows of a task was brought about by a run: a task that is
\* running names an active run of its own, one that succeeded a run that worked
\* for this plan and succeeded (syncParentNodeFromRun), also after a subtree with
\* runs was cancelled; nothing that had ended before the plan was created counts.
NodesExplained ==
    \A n \in Nodes :
        /\ status[n] = "running" =>
             /\ shown[n] \in RunIds
             /\ runs[shown[n]].node = n
             /\ runs[shown[n]].status = "running"
        /\ status[n] = "succeeded" =>
             /\ shown[n] \in RunIds
             /\ runs[shown[n]].node = n
             /\ runs[shown[n]].status = "succeeded"
             /\ WorkedFor(shown[n], plan)

\* A command that is given again starts nothing again, whatever happened to
\* the run it started and to the plan (getCachedControlCommand).
OneRunPerCommand ==
    \A q, r \in RunIds :
        runs[q].by = runs[r].by /\ runs[q].by # NoCommand => q = r

\* A run was created after each task that its task waits for had a run that worked
\* for the same plan and succeeded (dependenciesSatisfied).
DependenciesRan ==
    \A r \in RunIds : runs[r].node \in Nodes =>
        \A d \in DependsOn[runs[r].node] :
            \E q \in 1..(r - 1) :
                /\ runs[q].node = d /\ runs[q].status = "succeeded"
                /\ WorkedFor(q, runs[r].plan)

=============================================================================
