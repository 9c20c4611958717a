------------------------------ MODULE GroupRuns ------------------------------
(***************************************************************************)
(* Groups of agents, src/runtime/daemon/groupOrchestrator.js: runGroup     *)
(* launches the members of a template one after another, in the order of   *)
(* their dependencies, tells each its role, and closes again what it has   *)
(* launched when a step fails; stopGroup closes what the group file lists. *)
(* A run keeps the group in memory and writes all of it to its file after  *)
(* each member.                                                            *)
(*                                                                         *)
(* Several runs, a stop and the agents themselves are under way at once.   *)
(* The daemon has one thread: a run gives way while a launch is on the bus *)
(* (its rename event waits for the sequence lock), while it waits for an   *)
(* agent to get ready, and while it types the role into it; closing an     *)
(* agent does not give way.  Agents are found by their nicknames, so two   *)
(* groups, or a group and a user's own agent, may meet in one agent.       *)
(*                                                                         *)
(* Agents are launched in mode "internal", as children of the daemon.  A   *)
(* process that was sent SIGTERM is taken as gone.                         *)
(***************************************************************************)
EXTENDS Integers, FiniteSets

CONSTANTS
    Groups,      \* group ids; one is used for one run
    Members,     \* nicknames
    Template,    \* the members of each group
    DependsOn,   \* depends_on of each member
    Startup,     \* startup_order of each member
    Rank,        \* the nicknames in alphabetical order
    Strategy,    \* bootstrap_strategy of each member
    Users,       \* agents that were not started by a group
    Name,        \* their nicknames
    MaxCrashes,  \* bound: how often the daemon dies
    None

Strategies == {"none", "ucode-bootstrap-file", "system-prompt-file",
               "initial-prompt-arg", "post-launch-inject"}

\* A group launches a member once, so an agent of its own is named by both.
Agents == Users \cup (Groups \X Members)

MemberRecord ==
    [status : {"pending", "active", "reused", "failed", "rolled_back",
               "rollback_failed", "stopped", "stop_failed"},
     agent : Agents \cup {None},
     boot : {"pending", "skipped", "applied", "failed"}]

Group(g) ==
    [status : {"starting", "active", "failed", "stopped"},
     member : [Template[g] -> MemberRecord]]

\* Variant for the mutation runs: depends_on is not looked at.
ReadyOrNot(g, S) == S

\* buildLaunchPlan: those of the remaining members S that can be launched together.
Ready(g, S) == {m \in S : DependsOn[g][m] \cap S = {}}

\* Which of two goes first among them.
NotAfter(g, m, n) ==
    \/ Startup[g][m] < Startup[g][n]
    \/ Startup[g][m] = Startup[g][n] /\ Rank[m] <= Rank[n]

First(g, S) == CHOOSE m \in S : \A n \in S : NotAfter(g, m, n)

\* A template is finite and was validated: its dependencies are members and form no
\* cycle.
ASSUME GroupConstants ==
    /\ Template \in [Groups -> SUBSET Members]
    /\ DependsOn \in [Groups -> [Members -> SUBSET Members]]
    /\ \A g \in Groups : \A m \in Template[g] : DependsOn[g][m] \subseteq Template[g]
    /\ \A g \in Groups : \A S \in (SUBSET Template[g]) \ {{}} :
        Ready(g, S) # {} /\ \E m \in S : \A n \in S : NotAfter(g, m, n)
    /\ Startup \in [Groups -> [Members -> Int]] /\ Rank \in [Members -> Int]
    /\ Strategy \in [Groups -> [Members -> Strategies]]
    /\ Name \in [Users -> Members] /\ Users \cap (Groups \X Members) = {}
    /\ MaxCrashes \in Nat
    /\ None \notin Agents /\ \A g \in Groups : None \notin Group(g)

VARIABLES
    entry,     \* registry: "none", "starting" or "ready" (status "active"), "inactive"
    alive,     \* the agents whose process runs
    file,      \* the group file
    runtime,   \* the group a run has in memory
    pc,        \* "idle", "next", "launching", "wait" or "inject" for each run
    left,      \* the members a run has not got to yet
    batch,     \* those among them it launches before it looks at depends_on again
    rollback,  \* rollbackTargets
    told,      \* history: group and agent that was given its role in it
    closed,    \* history: group and agent it sent a signal to
    lost,      \* history: agents no file lists, because the daemon died too early
    crashes

agents == <<entry, alive>>
plan == <<left, batch>>
run == <<runtime, pc, plan, rollback>>
history == <<told, closed, lost, crashes>>
vars == <<agents, file, run, history>>

NameOf(a) == IF a \in Users THEN Name[a] ELSE a[2]

Listed(a) == entry[a] \in {"starting", "ready"}

\* The active entries that hold a nickname.
Holders(m) == {a \in Agents : NameOf(a) = m /\ Listed(a)}

ThreadFree == \A g \in Groups : pc[g] # "next"

\* The member a run is at.
Item(g) == First(g, batch[g])

Status(g, m) == file[g].member[m].status

\* buildDefaultRuntime.
DefaultRuntime(g) ==
    [status |-> "starting",
     member |-> [m \in Template[g] |->
        [status |-> "pending", agent |-> None,
         boot |-> IF Strategy[g][m] = "none" THEN "skipped" ELSE "pending"]]]

Init ==
    /\ entry = [a \in Agents |-> "none"] /\ alive = {}
    /\ file = [g \in Groups |-> None] /\ runtime = [g \in Groups |-> None]
    /\ pc = [g \in Groups |-> "idle"]
    /\ left = [g \in Groups |-> {}] /\ batch = [g \in Groups |-> {}]
    /\ rollback = [g \in Groups |-> {}]
    /\ told = {} /\ closed = {} /\ lost = {} /\ crashes = 0
-----------------------------------------------------------------------------
(* Closing agents.                                                         *)

\* closeAgent for each of the agents A: an agent the registry does not know counts
\* as closed; the signal may be refused by those of refused, which stay as they are.
Close(g, A, refused) ==
    LET known == {a \in A : entry[a] # "none"}
    IN  /\ entry' = [a \in Agents |-> IF a \in known \ refused THEN "inactive" ELSE entry[a]]
        /\ alive' = alive \ (known \ refused)
        /\ closed' = closed \cup ({g} \X known)

AgentsOf(group, M) == {group.member[m].agent : m \in M}

\* Variant: what became of the attempt is not looked at.
OutcomeGood(group, M, refused, good, bad) ==
    [group EXCEPT !.member = [m \in DOMAIN group.member |->
        IF m \in M THEN [@[m] EXCEPT !.status = good] ELSE @[m]]]

\* The group after an attempt to close its members M.
Outcome(group, M, refused, good, bad) ==
    [group EXCEPT !.member = [m \in DOMAIN group.member |->
        IF m \notin M THEN @[m]
        ELSE [@[m] EXCEPT !.status = IF group.member[m].agent \in refused THEN bad
                                                                          ELSE good]]]

\* The group when r has become of the member its run is at.
Updated(g, r) == [runtime[g] EXCEPT !.member[Item(g)] = r]

Failed(g, r) == [Updated(g, r) EXCEPT !.status = "failed"]

\* failGroupLaunch: what was launched is closed, and the group written.
Fail(g, r) ==
    /\ \E refused \in SUBSET (AgentsOf(Failed(g, r), rollback[g]) \cap alive) :
        /\ Close(g, AgentsOf(Failed(g, r), rollback[g]), refused)
        /\ file' = [file EXCEPT ![g] = Outcome(Failed(g, r), rollback[g], refused,
                                              "rolled_back", "rollback_failed")]
    /\ runtime' = [runtime EXCEPT ![g] = None]
    /\ pc' = [pc EXCEPT ![g] = "idle"]
    /\ left' = [left EXCEPT ![g] = {}]
    /\ batch' = [batch EXCEPT ![g] = {}]
    /\ rollback' = [rollback EXCEPT ![g] = {}]
    /\ UNCHANGED <<lost, crashes>>
-----------------------------------------------------------------------------
(* A run.                                                                  *)

\* The run is done with the member it is at: the group is written, and the next
\* member is due.
GoOn(g, r) ==
    LET rest == left[g] \ {Item(g)}
    IN  /\ runtime' = [runtime EXCEPT ![g] = Updated(g, r)]
        /\ file' = [file EXCEPT ![g] = Updated(g, r)]
        /\ pc' = [pc EXCEPT ![g] = "next"]
        /\ left' = [left EXCEPT ![g] = rest]
        /\ batch' = [batch EXCEPT ![g] = IF batch[g] = {Item(g)} THEN Ready(g, rest)
                                         ELSE @ \ {Item(g)}]

\* The member waits for its agent to get ready; nothing is written yet.
Wait(g, r) ==
    /\ runtime' = [runtime EXCEPT ![g] = Updated(g, r)]
    /\ pc' = [pc EXCEPT ![g] = "wait"]
    /\ UNCHANGED <<file, plan>>

Record(g) == runtime[g].member[Item(g)]

StrategyOf(g) == Strategy[g][Item(g)]

\* The role goes along with the launch.
InArguments == {"system-prompt-file", "initial-prompt-arg"}

\* runGroup up to the first launch.
RunGroup(g) ==
    /\ ThreadFree
    /\ file[g] = None
    /\ runtime' = [runtime EXCEPT ![g] = DefaultRuntime(g)]
    /\ file' = [file EXCEPT ![g] = DefaultRuntime(g)]
    /\ pc' = [pc EXCEPT ![g] = "next"]
    /\ left' = [left EXCEPT ![g] = Template[g]]
    /\ batch' = [batch EXCEPT ![g] = Ready(g, Template[g])]
    /\ UNCHANGED <<agents, rollback, history>>

Due(g) == pc[g] = "next" /\ left[g] # {}

\* The file with the role cannot be written.
PrepareFails(g) ==
    /\ Due(g)
    /\ StrategyOf(g) \in {"ucode-bootstrap-file", "system-prompt-file"}
    /\ Fail(g, [Record(g) EXCEPT !.status = "failed", !.boot = "failed"])
    /\ UNCHANGED told

LaunchFails(g) ==
    /\ Due(g) /\ Holders(Item(g)) = {}
    /\ Fail(g, [Record(g) EXCEPT !.status = "failed"])
    /\ UNCHANGED told

\* An active agent has the nickname: it is used instead, and told its role if that
\* is done by typing.  Role files and arguments count as given although nothing was
\* launched; a member without a role, or of type ucode, cannot be reused.  (A record
\* of an earlier bootstrap never matches: the fingerprint holds the group id.)
Reuse(g) ==
    /\ Due(g)
    /\ \E a \in Holders(Item(g)) :
        LET r == [Record(g) EXCEPT !.status = "reused", !.agent = a]
        IN  \/ /\ StrategyOf(g) = "post-launch-inject"
               /\ Wait(g, r)
               /\ UNCHANGED <<agents, rollback, history>>
            \/ /\ StrategyOf(g) \in InArguments
               /\ GoOn(g, [r EXCEPT !.boot = "applied"])
               /\ UNCHANGED <<agents, rollback, history>>
            \/ /\ StrategyOf(g) \in {"none", "ucode-bootstrap-file"}
               /\ Fail(g, [r EXCEPT !.status = "failed", !.boot = "failed"])
               /\ UNCHANGED told

\* Nobody active has the nickname: what is left of others in the registry is removed,
\* the new agent is entered, and its process started.
Spawn(g) ==
    LET m == Item(g)
    IN  /\ Due(g) /\ Holders(m) = {}
        /\ entry' = [a \in Agents |-> IF a = <<g, m>> THEN "starting"
                                      ELSE IF NameOf(a) = m THEN "none" ELSE entry[a]]
        /\ alive' = alive \cup {<<g, m>>}
        /\ told' = IF StrategyOf(g) \in InArguments \cup {"ucode-bootstrap-file"}
                   THEN told \cup {<<g, <<g, m>>>>} ELSE told
        /\ pc' = [pc EXCEPT ![g] = "launching"]
        /\ UNCHANGED <<file, runtime, plan, rollback, closed, lost, crashes>>

\* handleOps comes back.
LaunchReturns(g) ==
    LET r == [Record(g) EXCEPT !.status = "active", !.agent = <<g, Item(g)>>]
    IN  /\ pc[g] = "launching" /\ ThreadFree
        /\ rollback' = [rollback EXCEPT ![g] = @ \cup {Item(g)}]
        /\ \/ StrategyOf(g) = "post-launch-inject" /\ Wait(g, r)
           \/ StrategyOf(g) = "none" /\ GoOn(g, r)
           \/ /\ StrategyOf(g) \in InArguments \cup {"ucode-bootstrap-file"}
              /\ GoOn(g, [r EXCEPT !.boot = "applied"])
        /\ UNCHANGED <<agents, history>>

\* Variant: a wait has no deadline.
GivesUpWhenGone(g) == ~ Listed(Record(g).agent)

\* The agent is gone, or the deadline is over.
GivesUp(g) == entry[Record(g).agent] # "ready"

\* waitForBootstrapReady.  "starting" stands also for an agent that has not been
\* working for long enough to be written to.
WaitOver(g) ==
    /\ pc[g] = "wait" /\ ThreadFree
    /\ entry[Record(g).agent] = "ready"
    /\ pc' = [pc EXCEPT ![g] = "inject"]
    /\ UNCHANGED <<agents, file, runtime, plan, rollback, history>>

WaitFails(g) ==
    /\ pc[g] = "wait" /\ ThreadFree
    /\ GivesUp(g)
    /\ Fail(g, [Record(g) EXCEPT !.status = "failed", !.boot = "failed"])
    /\ UNCHANGED told

\* injectBootstrapPrompt types the role into the agent.
InjectResolves(g) ==
    /\ pc[g] = "inject" /\ ThreadFree
    /\ Record(g).agent \in alive
    /\ told' = told \cup {<<g, Record(g).agent>>}
    /\ GoOn(g, [Record(g) EXCEPT !.boot = "applied"])
    /\ UNCHANGED <<agents, rollback, closed, lost, crashes>>

InjectFails(g) ==
    /\ pc[g] = "inject" /\ ThreadFree
    /\ Fail(g, [Record(g) EXCEPT !.status = "failed", !.boot = "failed"])
    /\ UNCHANGED told

\* All members are in place.
Finish(g) ==
    /\ pc[g] = "next" /\ left[g] = {}
    /\ file' = [file EXCEPT ![g] = [runtime[g] EXCEPT !.status = "active"]]
    /\ runtime' = [runtime EXCEPT ![g] = None]
    /\ pc' = [pc EXCEPT ![g] = "idle"]
    /\ rollback' = [rollback EXCEPT ![g] = {}]
    /\ UNCHANGED <<agents, plan, history>>

RunStep(g) ==
    \/ PrepareFails(g) \/ LaunchFails(g) \/ Reuse(g) \/ Spawn(g) \/ LaunchReturns(g)
    \/ WaitOver(g) \/ WaitFails(g) \/ InjectResolves(g) \/ InjectFails(g) \/ Finish(g)
-----------------------------------------------------------------------------
(* The rest of the daemon and of the world.                                *)

\* Variant: managed is not looked at.
ToStopAll(g) == {m \in Template[g] : Status(g, m) \in {"active", "reused"}}

\* The members the file lists as active, which are managed ones.
ToStop(g) == {m \in Template[g] : Status(g, m) = "active"}

\* stopGroup closes those; a run of the group that is still under way is not told.
Stop(g) ==
    /\ ThreadFree /\ file[g] # None
    /\ \E refused \in SUBSET (AgentsOf(file[g], ToStop(g)) \cap alive) :
        /\ Close(g, AgentsOf(file[g], ToStop(g)), refused)
        /\ file' = [file EXCEPT ![g] = Outcome([file[g] EXCEPT !.status = "stopped"],
                                              ToStop(g), refused, "stopped", "stop_failed")]
    /\ UNCHANGED <<run, told, lost, crashes>>

\* An agent writes its activity.
Report(a, state) ==
    /\ a \in alive /\ Listed(a) /\ state # entry[a]
    /\ entry' = [entry EXCEPT ![a] = state]
    /\ UNCHANGED <<alive, file, run, history>>

Die(a) ==
    /\ a \in alive
    /\ alive' = alive \ {a}
    /\ UNCHANGED <<entry, file, run, history>>

\* The exit of a child, or a cleanup of the registry, is noted.
Notice(a, state) ==
    /\ a \notin alive /\ entry[a] \notin {"none", state}
    /\ entry' = [entry EXCEPT ![a] = state]
    /\ UNCHANGED <<alive, file, run, history>>

\* A user starts an agent, under a nickname no active agent has.
UserStarts(u) ==
    /\ u \notin alive /\ Holders(Name[u]) = {}
    /\ entry' = [a \in Agents |-> IF a = u THEN "starting"
                                  ELSE IF NameOf(a) = Name[u] THEN "none" ELSE entry[a]]
    /\ alive' = alive \cup {u}
    /\ UNCHANGED <<file, run, history>>

\* The daemon dies and starts again.  The agents live on, or die on their own.
Crash ==
    /\ crashes < MaxCrashes
    /\ crashes' = crashes + 1
    /\ lost' = lost \cup {a \in alive \ Users :
                            pc[a[1]] # "idle" /\ Status(a[1], a[2]) = "pending"}
    /\ runtime' = [g \in Groups |-> None]
    /\ pc' = [g \in Groups |-> "idle"]
    /\ left' = [g \in Groups |-> {}] /\ batch' = [g \in Groups |-> {}]
    /\ rollback' = [g \in Groups |-> {}]
    /\ UNCHANGED <<agents, file, told, closed>>

Next ==
    \/ \E g \in Groups : RunGroup(g) \/ RunStep(g) \/ Stop(g)
    \/ \E a \in Agents :
        \/ Die(a)
        \/ \E state \in {"starting", "ready"} : Report(a, state)
        \/ \E state \in {"none", "inactive"} : Notice(a, state)
    \/ \E u \in Users : UserStarts(u)
    \/ Crash

Spec == Init /\ [][Next]_vars

\* Every await of a run comes back: launches, waits and injections have deadlines.
FairSpec == Spec /\ \A g \in Groups : WF_vars(RunStep(g))
-----------------------------------------------------------------------------
TypeOK ==
    /\ entry \in [Agents -> {"none", "starting", "ready", "inactive"}]
    /\ alive \subseteq Agents
    /\ DOMAIN file = Groups /\ \A g \in Groups : file[g] \in Group(g) \cup {None}
    /\ DOMAIN runtime = Groups /\ \A g \in Groups : runtime[g] \in Group(g) \cup {None}
    /\ pc \in [Groups -> {"idle", "next", "launching", "wait", "inject"}]
    /\ left \in [Groups -> SUBSET Members] /\ batch \in [Groups -> SUBSET Members]
    /\ rollback \in [Groups -> SUBSET Members]
    /\ told \subseteq Groups \X Agents /\ closed \subseteq Groups \X Agents
    /\ lost \subseteq Agents /\ crashes \in 0 .. MaxCrashes

\* A group closes agents it has launched itself, and no other: not a user's agent and
\* not another group's, although members are looked up by their nicknames.
GroupsCloseTheirOwn ==
    \A g \in Groups, a \in Agents : <<g, a>> \in closed => a \in {g} \X Template[g]

\* When no run of a group is under way, every living agent it has launched is either a
\* member of a group that is up, or reported as one that could not be closed;
\* whatever failed, was stopped meanwhile, or crashed after the agent was written down.
NobodyForgotten ==
    \A g \in Groups : \A m \in Template[g] :
        <<g, m>> \in alive \ lost /\ pc[g] = "idle" =>
            \/ Status(g, m) = "active" /\ file[g].status \in {"starting", "active"}
            \/ Status(g, m) \in {"rollback_failed", "stop_failed"}

\* The member m of g has an agent, and it was given its role if it has one; an agent
\* that was there already is told only if that is done by typing.
InPlace(g, m) ==
    LET r == runtime[g].member[m]
    IN  /\ r.status \in {"active", "reused"}
        /\ \/ <<g, r.agent>> \in told
           \/ Strategy[g][m] = "none"
           \/ r.status = "reused" /\ Strategy[g][m] \in InArguments

\* A member is launched only after everything it depends on is in place.
DependenciesFirst ==
    [][\A g \in Groups : \A m \in Template[g] :
        <<g, m>> \in alive' \ alive => \A d \in DependsOn[g][m] : InPlace(g, d)]_vars

\* A run ends, and says how, unless the daemon dies on the way.
RunsEnd ==
    \A g \in Groups : pc[g] # "idle" ~>
        /\ pc[g] = "idle" /\ file[g] # None
        /\ file[g].status \in {"active", "failed"} \/ crashes > 0
=============================================================================
