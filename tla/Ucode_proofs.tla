---------------------------- MODULE Ucode_proofs ----------------------------
(***************************************************************************)
(* The two parts of ucode.                                                 *)
(*                                                                         *)
(* Task runs, for any plans, commands and limits: the write leases are     *)
(* those of the active runs, a task has one run at a time, a command       *)
(* starts one run, what the plan shows was brought about by a run, and a   *)
(* run starts after the tasks it depends on.                               *)
(*                                                                         *)
(* The session, for any number of lines, messages, rounds, calls, faults   *)
(* and crashes: the provider is only sent calls with their results, a      *)
(* question is answered once and stays open until it is.                   *)
(***************************************************************************)
EXTENDS TaskRuns, UcodeSession, FunctionTheorems, FiniteSetTheorems,
        SequenceTheorems, TLAPS

-----------------------------------------------------------------------------
\* The part of TypeOK about the runs.
RunsTyped ==
    /\ runs \in Seq(RunSet)
    /\ Len(runs) <= MaxRuns
    /\ DOMAIN log \subseteq Keys \ {NoCommand}

\* The command that started a run is in the log, unless it has no key.
Remembered ==
    \A r \in RunIds : runs[r].by = NoCommand \/ runs[r].by \in DOMAIN log

RunInv ==
    /\ RunsTyped
    /\ Accounted
    /\ OneActivePerNode
    /\ Remembered
    /\ OneRunPerCommand

LEMMA RunAt ==
    ASSUME RunsTyped, NEW r \in RunIds
    PROVE  /\ RunIds = 1..Len(runs)
           /\ Len(runs) \in Nat
           /\ runs[r] \in RunSet
BY DEF RunsTyped, RunIds

LEMMA HoldersFinite ==
    ASSUME RunInv
    PROVE  IsFiniteSet(holders) /\ Cardinality(holders) \in Nat
<1>1. Len(runs) \in Nat /\ RunIds = 1..Len(runs)
  BY DEF RunInv, RunsTyped, RunIds
<1>2. IsFiniteSet(1..Len(runs))
  BY <1>1, FS_Interval
<1>3. holders \subseteq 1..Len(runs)
  BY <1>1 DEF RunInv, Accounted
<1>4. IsFiniteSet(holders)
  BY <1>2, <1>3, FS_Subset
<1>5. QED
  BY <1>4, FS_CardinalityType

-----------------------------------------------------------------------------
\* A run is created, for a task that has no active one.
LEMMA CreationKeepsRunInv ==
    ASSUME ConstantsAssumption, RunInv,
           NEW p \in 0..MaxPlans, NEW n \in Nodes \cup {NoNode}, NEW k \in Keys,
           k \notin DOMAIN log, MayCreate, NewRun(p, n, k),
           n \in Nodes => ActiveRunsOf(n) = {}
    PROVE  /\ RunInv'
           /\ Len(runs') = Len(runs) + 1
           /\ \A q \in RunIds : runs'[q] = runs[q]
           /\ runs'[Len(runs) + 1] = Run(p, n, "running", k)
           /\ DOMAIN log \subseteq DOMAIN log'
<1>1. Len(runs) \in Nat /\ RunIds = 1..Len(runs) /\ runs \in Seq(RunSet)
  BY DEF RunInv, RunsTyped, RunIds
<1> PICK r \in Nat : r = Len(runs) + 1
  BY <1>1
<1> DEFINE e == Run(p, n, "running", k)
<1>2. Cardinality(holders) < MaxLeases
  BY DEF MayCreate
<1>3. runs' = Append(runs, e) /\ holders' = holders \cup {r} /\ r <= MaxRuns
  BY <1>2 DEF NewRun, LeaseFree
<1>4. /\ e \in RunSet
      /\ e.node = n /\ e.status = "running" /\ e.told = 0 /\ e.by = k
  BY ConstantsAssumption DEF ConstantsAssumption, Run, RunSet
<1>5. /\ runs' \in Seq(RunSet)
      /\ Len(runs') = r
      /\ RunIds' = 1..r
      /\ r \notin RunIds
      /\ runs'[r] = e
      /\ \A q \in RunIds : runs'[q] = runs[q]
  <2> HIDE DEF e
  <2>1. QED
    BY <1>1, <1>3, <1>4 DEF RunIds
<1> HIDE DEF e
<1>6. RunIds' = RunIds \cup {r}
  BY <1>1, <1>5
<1>7. /\ DOMAIN log' \subseteq Keys \ {NoCommand}
      /\ DOMAIN log \subseteq DOMAIN log'
      /\ k = NoCommand \/ k \in DOMAIN log'
  <2>1. Cache(k, r, TRUE)
    BY DEF NewRun
  <2>2. CASE k = NoCommand
    BY <2>1, <2>2 DEF Cache, RunInv, RunsTyped
  <2>3. CASE k # NoCommand
    <3>1. DOMAIN log' = DOMAIN log \cup {k}
      BY <2>1, <2>3 DEF Cache
    <3>2. QED
      BY <3>1, <2>3 DEF RunInv, RunsTyped
  <2>4. QED
    BY <2>2, <2>3
<1>8. RunsTyped'
  BY <1>3, <1>5, <1>7 DEF RunsTyped
<1>9. \A q \in RunIds' : Active(q)' <=> q = r \/ (q \in RunIds /\ Active(q))
  BY <1>4, <1>5, <1>6 DEF Active, Terminal
<1>10. Accounted'
  <2>1. holders' = {q \in RunIds' : Active(q)'}
    BY <1>3, <1>6, <1>9, <1>5 DEF RunInv, Accounted
  <2>2. Cardinality(holders') <= MaxLeases
    <3>1. r \notin holders
      BY <1>5 DEF RunInv, Accounted
    <3>2. Cardinality(holders \cup {r}) = Cardinality(holders) + 1
      BY <3>1, HoldersFinite, FS_AddElement
    <3>3. QED
      BY <3>2, <1>2, <1>3, HoldersFinite, ConstantsAssumption DEF ConstantsAssumption
  <2>3. \A q \in RunIds' : /\ runs'[q].status # "queued"
                           /\ runs'[q].told = IF Active(q)' THEN 0 ELSE 1
    <3>1. runs'[r].status # "queued" /\ runs'[r].told = 0 /\ Active(r)'
      BY <1>4, <1>5, <1>6, <1>9
    <3>2. ASSUME NEW q \in RunIds
          PROVE  /\ runs'[q].status # "queued"
                 /\ runs'[q].told = IF Active(q)' THEN 0 ELSE 1
      BY <3>2, <1>5 DEF RunInv, Accounted, Active
    <3>3. QED
      BY <3>1, <3>2, <1>6
  <2>4. QED
    BY <2>1, <2>2, <2>3 DEF Accounted
<1>11. OneActivePerNode'
  <2> SUFFICES ASSUME NEW q1 \in RunIds', NEW q2 \in RunIds',
                      Active(q1)', Active(q2)',
                      runs'[q1].node = runs'[q2].node, runs'[q1].node # NoNode
               PROVE  q1 = q2
    BY DEF OneActivePerNode
  <2>1. \A q \in RunIds : Active(q) /\ n # NoNode => runs[q].node # n
    BY DEF ActiveRunsOf
  <2>2. CASE q1 \in RunIds /\ q2 \in RunIds
    BY <2>2, <1>5 DEF RunInv, OneActivePerNode, Active
  <2>3. CASE q1 = r \/ q2 = r
    BY <2>1, <2>3, <1>4, <1>5, <1>6 DEF Active
  <2>4. QED
    BY <2>2, <2>3, <1>6
<1>12. Remembered'
  BY <1>4, <1>5, <1>6, <1>7 DEF RunInv, Remembered
<1>13. OneRunPerCommand'
  <2> SUFFICES ASSUME NEW q1 \in RunIds', NEW q2 \in RunIds',
                      runs'[q1].by = runs'[q2].by, runs'[q1].by # NoCommand
               PROVE  q1 = q2
    BY DEF OneRunPerCommand
  <2>1. \A q \in RunIds : k # NoCommand => runs[q].by # k
    BY DEF RunInv, Remembered
  <2>2. CASE q1 \in RunIds /\ q2 \in RunIds
    BY <2>2, <1>5 DEF RunInv, OneRunPerCommand
  <2>3. CASE q1 = r \/ q2 = r
    BY <2>1, <2>3, <1>4, <1>5, <1>6
  <2>4. QED
    BY <2>2, <2>3, <1>6
<1>14. QED
  BY <1>5, <1>7, <1>8, <1>10, <1>11, <1>12, <1>13 DEF RunInv, e

\* A run that is at work ends.
LEMMA EndKeepsRunInv ==
    ASSUME RunInv, NEW r \in RunIds, NEW s \in {"succeeded", "failed", "cancelled"},
           plan \in 0..MaxPlans, Active(r), EndRun(r, s),
           DOMAIN log \subseteq DOMAIN log', DOMAIN log' \subseteq Keys \ {NoCommand}
    PROVE  /\ RunInv'
           /\ RunIds' = RunIds /\ Len(runs') = Len(runs)
           /\ runs'[r].status = s
           /\ s = "succeeded" /\ runs[r].node \in Nodes => runs'[r].marked = plan
           /\ \A q \in RunIds :
                /\ runs'[q].node = runs[q].node
                /\ runs'[q].plan = runs[q].plan
                /\ q # r => runs'[q] = runs[q]
<1> DEFINE m == IF s = "succeeded" /\ runs[r].node \in Nodes THEN plan ELSE 0
           e == [runs[r] EXCEPT !.status = s, !.told = 1, !.marked = m]
<1>1. Len(runs) \in Nat /\ RunIds = 1..Len(runs) /\ runs \in Seq(RunSet)
  BY DEF RunInv, RunsTyped, RunIds
<1>2. runs[r] \in RunSet /\ runs[r].told = 0
  BY <1>1 DEF RunInv, Accounted
<1>3. /\ e \in RunSet
      /\ e.status = s /\ e.told = 1 /\ e.marked = m
      /\ e.node = runs[r].node /\ e.by = runs[r].by /\ e.plan = runs[r].plan
  <2>0. PICK w \in 0..MaxPlans : w = m
    BY ConstantsAssumption DEF ConstantsAssumption
  <2>1. s \in Terminal /\ 1 \in 0..1
    BY DEF Terminal
  <2>2. PICK x \in RunSet : x = runs[r]
    BY <1>2
  <2>3. e = [x EXCEPT !.status = s, !.told = 1, !.marked = w]
    BY <2>0, <2>2
  <2>4. \A f : f = [x EXCEPT !.status = s, !.told = 1, !.marked = w] =>
           /\ f \in RunSet
           /\ f.status = s /\ f.told = 1 /\ f.marked = w
           /\ f.node = x.node /\ f.by = x.by /\ f.plan = x.plan
    BY <2>1 DEF RunSet, Terminal
  <2> HIDE DEF e, m
  <2>5. QED
    BY <2>0, <2>2, <2>3, <2>4
<1>4. runs' = [runs EXCEPT ![r] = e] /\ holders' = holders \ {r}
  <2>1. runs[r].told + 1 = 1
    BY <1>2
  <2>2. QED
    BY <1>1, <2>1 DEF EndRun
<1> HIDE DEF e
<1>5. /\ runs' \in Seq(RunSet)
      /\ Len(runs') = Len(runs)
      /\ RunIds' = RunIds
      /\ runs'[r] = e
      /\ \A q \in RunIds : q # r => runs'[q] = runs[q]
  BY <1>1, <1>3, <1>4 DEF RunIds
<1>6. RunsTyped'
  BY <1>5 DEF RunInv, RunsTyped
<1>7. \A q \in RunIds' : Active(q)' <=> q # r /\ Active(q)
  BY <1>3, <1>5 DEF Active, Terminal
<1>8. Accounted'
  <2>1. holders' = {q \in RunIds' : Active(q)'}
    BY <1>4, <1>5, <1>7 DEF RunInv, Accounted
  <2>2. Cardinality(holders') <= MaxLeases
    <3>1. Cardinality(holders') <= Cardinality(holders) /\ Cardinality(holders') \in Nat
      BY <1>4, HoldersFinite, FS_Subset, FS_CardinalityType
    <3>2. QED
      BY <3>1, HoldersFinite, ConstantsAssumption DEF RunInv, Accounted, ConstantsAssumption
  <2>3. \A q \in RunIds' : /\ runs'[q].status # "queued"
                           /\ runs'[q].told = IF Active(q)' THEN 0 ELSE 1
    <3>1. runs'[r].status # "queued" /\ runs'[r].told = 1 /\ ~ Active(r)'
      BY <1>3, <1>5, <1>7
    <3>2. ASSUME NEW q \in RunIds, q # r
          PROVE  /\ runs'[q].status # "queued"
                 /\ runs'[q].told = IF Active(q)' THEN 0 ELSE 1
      BY <3>2, <1>5 DEF RunInv, Accounted, Active
    <3>3. QED
      BY <3>1, <3>2, <1>5
  <2>4. QED
    BY <2>1, <2>2, <2>3 DEF Accounted
<1>9. \A q \in RunIds : runs'[q].node = runs[q].node /\ runs'[q].by = runs[q].by
                        /\ runs'[q].plan = runs[q].plan
  BY <1>3, <1>5
<1>10. OneActivePerNode'
  BY <1>5, <1>7, <1>9 DEF RunInv, OneActivePerNode
<1>11. Remembered' /\ OneRunPerCommand'
  BY <1>5, <1>9 DEF RunInv, Remembered, OneRunPerCommand
<1>12. s = "succeeded" /\ runs[r].node \in Nodes => runs'[r].marked = plan
  BY <1>3, <1>5
<1>13. QED
  BY <1>3, <1>5, <1>6, <1>8, <1>9, <1>10, <1>11, <1>12 DEF RunInv

\* Nothing happens to the runs.
LEMMA QuietKeepsRunInv ==
    ASSUME RunInv, runs' = runs, holders' = holders,
           DOMAIN log \subseteq DOMAIN log', DOMAIN log' \subseteq Keys \ {NoCommand}
    PROVE  RunInv'
<1>1. RunIds' = RunIds /\ \A q \in RunIds : Active(q)' <=> Active(q)
  BY DEF RunIds, Active
<1>2. RunsTyped' /\ Remembered' /\ OneRunPerCommand'
  BY <1>1 DEF RunInv, RunsTyped, Remembered, OneRunPerCommand
<1>3. Accounted'
  BY <1>1 DEF RunInv, Accounted
<1>4. OneActivePerNode'
  BY <1>1 DEF RunInv, OneActivePerNode
<1>5. QED
  BY <1>2, <1>3, <1>4 DEF RunInv

-----------------------------------------------------------------------------
\* The rest of the state: the plan, what it shows of its tasks, and the log.
Statuses == Done \cup {"none", "pending", "running"}

PlanTyped ==
    /\ plan \in 0..MaxPlans
    /\ guest \in 0..Len(runs)
    /\ gone \subseteq RunIds
    /\ plans \in 0..MaxPlans
    /\ status \in [Nodes -> Statuses]
    /\ shown \in [Nodes -> 0..Len(runs)]
    /\ planLog \subseteq Commands
    /\ plan = 0 => status = NoPlan
    /\ guest # 0 => plan = 0

\* Plans are numbered as they are created; a run was started for one of them.
Numbered ==
    /\ plan \in {0, plans}
    /\ \A r \in RunIds : runs[r].plan <= plans

LogTyped == \A k \in DOMAIN log : log[k].run \in 0..Len(runs)

IInv ==
    /\ RunInv
    /\ PlanTyped
    /\ LogTyped
    /\ Numbered
    /\ NodesExplained
    /\ DependenciesRan

\* What a step does to the log.
LogStep ==
    /\ DOMAIN log \subseteq DOMAIN log'
    /\ DOMAIN log' \subseteq Keys \ {NoCommand}
    /\ \A k \in DOMAIN log' : log'[k].run \in 0..Len(runs')

\* What a step does to the plan and its slot, when it is not the creation of one.
PlanStep(st, sh) ==
    /\ plans' = plans
    /\ \/ ClearPlan
       \/ /\ plan' = plan
          /\ gone' = gone
          /\ guest' = guest \/ (plan = 0 /\ guest' \in RunIds')
          /\ \/ /\ status' = st \/ status' = Advanced(st)
                /\ shown' = sh
             \/ plan = 0 /\ status' = status /\ shown' = shown
          /\ planLog' \subseteq Commands

\* The statuses st and the runs sh of the tasks are explained by the runs rs.
Explained(rs, st, sh) ==
    \A n \in Nodes :
        /\ st[n] = "running" =>
             /\ sh[n] \in DOMAIN rs
             /\ rs[sh[n]].node = n
             /\ rs[sh[n]].status = "running"
        /\ st[n] = "succeeded" =>
             /\ sh[n] \in DOMAIN rs
             /\ rs[sh[n]].node = n
             /\ rs[sh[n]].status = "succeeded"
             /\ \/ rs[sh[n]].plan = plan
                \/ rs[sh[n]].plan < plan /\ rs[sh[n]].marked = plan

LEMMA CacheIsLogStep ==
    ASSUME RunsTyped, LogTyped, Len(runs') \in Nat, Len(runs) <= Len(runs'),
           NEW k \in Keys, NEW r \in 0..Len(runs'),
           Cache(k, r, TRUE) \/ Cache(k, r, FALSE)
    PROVE  LogStep
<1>0. Len(runs) \in Nat
  BY DEF RunsTyped
<1>1. CASE k = NoCommand
  BY <1>0, <1>1 DEF Cache, LogStep, RunsTyped, LogTyped
<1>2. CASE k # NoCommand
  <2>1. DOMAIN log' = DOMAIN log \cup {k}
    BY <1>2 DEF Cache
  <2>2. log'[k].run = r
    BY <1>2 DEF Cache
  <2>3. \A x \in DOMAIN log : x # k => log'[x] = log[x]
    BY <1>2 DEF Cache
  <2>4. \A x \in DOMAIN log' : log'[x].run \in 0..Len(runs')
    BY <1>0, <2>1, <2>2, <2>3 DEF LogTyped
  <2>5. QED
    BY <1>2, <2>1, <2>4 DEF LogStep, RunsTyped
<1>3. QED
  BY <1>1, <1>2

LEMMA KeyTyped ==
    ASSUME NEW c \in Commands \cup {NoCommand}, NEW op \in Operations,
           NEW t \in Nodes \cup Nat
    PROVE  ControlKey(c, op, t) \in Keys
BY DEF ControlKey, Keys

LEMMA PlanStepKeeps ==
    ASSUME ConstantsAssumption, PlanTyped, Len(runs) \in Nat, Len(runs') \in Nat,
           RunIds = 1..Len(runs), RunIds' = 1..Len(runs'), Len(runs) <= Len(runs'),
           NEW st \in [Nodes -> Statuses], NEW sh \in [Nodes -> 0..Len(runs')],
           plan = 0 => st = NoPlan,
           Explained(runs', st, sh),
           PlanStep(st, sh)
    PROVE  PlanTyped' /\ NodesExplained'
<1>1. CASE ClearPlan
  <2>0. gone' \subseteq RunIds' /\ guest' = 0
    BY <1>1 DEF ClearPlan, Archive, PlanTyped
  <2>1. PlanTyped'
    BY <1>1, <2>0 DEF ClearPlan, PlanTyped, PlanStep, NoPlan, NoRuns, Statuses,
                      ConstantsAssumption
  <2>2. \A n \in Nodes : status'[n] = "none"
    BY <1>1 DEF ClearPlan, NoPlan
  <2>3. QED
    BY <2>1, <2>2 DEF NodesExplained
<1>2. ASSUME NEW f \in [Nodes -> Statuses], NEW g \in [Nodes -> 0..Len(runs')],
             plan = 0 => f = NoPlan,
             Explained(runs', f, g),
             plan' = plan, gone' = gone,
             guest' = guest \/ (plan = 0 /\ guest' \in RunIds'),
             status' = f, shown' = g, planLog' \subseteq Commands
      PROVE  PlanTyped' /\ NodesExplained'
  <2>1. guest' \in 0..Len(runs') /\ gone' \subseteq RunIds' /\ plans' = plans
    BY <1>2 DEF PlanTyped, PlanStep
  <2>2. PlanTyped'
    BY <1>2, <2>1 DEF PlanTyped, NoPlan
  <2>3. NodesExplained'
    BY <1>2 DEF NodesExplained, Explained, RunIds, WorkedFor
  <2>4. QED
    BY <2>2, <2>3
<1>3. PICK f : f = Advanced(st)
  OBVIOUS
<1>4. f \in [Nodes -> Statuses]
  BY <1>3 DEF Advanced, Statuses, Done
<1>5. \A n \in Nodes : f[n] = "running" \/ f[n] = "succeeded" => f[n] = st[n]
  BY <1>3 DEF Advanced
<1>6. plan = 0 => f = NoPlan
  BY <1>3 DEF Advanced, NoPlan
<1>7. Explained(runs', f, sh)
  BY <1>5 DEF Explained
<1>8. ASSUME plan = 0, plan' = plan, gone' = gone,
             guest' = guest \/ (plan = 0 /\ guest' \in RunIds'),
             status' = status, shown' = shown, planLog' \subseteq Commands
      PROVE  PlanTyped' /\ NodesExplained'
  <2>1. PICK h \in [Nodes -> Statuses] : h = status /\ h = NoPlan
    BY <1>8 DEF PlanTyped
  <2>2. PICK g \in [Nodes -> 0..Len(runs')] : g = shown
    BY DEF PlanTyped
  <2>3. Explained(runs', h, g)
    BY <2>1 DEF Explained, NoPlan
  <2>4. QED
    BY <1>2, <1>8, <2>1, <2>2, <2>3
<1>9. QED
  BY <1>1, <1>2, <1>3, <1>4, <1>6, <1>7, <1>8 DEF PlanStep

LEMMA AfterIsPlanStep ==
    ASSUME PlanTyped, plans' = plans, NEW st, NEW sh, NEW via,
           NEW c \in Commands \cup {NoCommand}, After(via, st, sh, c)
    PROVE  PlanStep(st, sh)
BY DEF After, Advance, PlanStep, Logged, PlanTyped, slot

LEMMA AdvanceIsPlanStep ==
    ASSUME PlanTyped, plans' = plans, NEW st, NEW sh,
           NEW c \in Commands \cup {NoCommand}, Advance(st, sh, c)
    PROVE  PlanStep(st, sh)
BY DEF Advance, PlanStep, Logged, PlanTyped, slot

-----------------------------------------------------------------------------
\* The kinds of steps.

\* The runs stay as they are.
LEMMA QuietStep ==
    ASSUME ConstantsAssumption, IInv, runs' = runs, holders' = holders,
           LogStep, PlanTyped', NodesExplained',
           plan' \in {0, plans'}, plans <= plans'
    PROVE  IInv'
<1>1. RunInv'
  BY QuietKeepsRunInv DEF IInv, LogStep
<1>2. DependenciesRan'
  BY DEF IInv, DependenciesRan, RunIds, WorkedFor
<1>3. LogTyped'
  BY DEF LogStep, LogTyped
<1>4. Numbered'
  <2>1. \A r \in RunIds : runs[r].plan \in Nat
    BY RunAt DEF IInv, RunInv, RunSet
  <2>2. plans \in Nat /\ plans' \in Nat
    BY DEF IInv, PlanTyped
  <2>3. QED
    BY <2>1, <2>2 DEF IInv, Numbered, RunIds
<1>5. QED
  BY <1>1, <1>2, <1>3, <1>4 DEF IInv

LEMMA PlanStepNumbers ==
    ASSUME IInv, NEW st, NEW sh, PlanStep(st, sh)
    PROVE  plans' = plans /\ plan' \in {0, plans'} /\ plans <= plans'
BY DEF IInv, Numbered, PlanTyped, PlanStep, ClearPlan

\* The plan stays as it is, or the call leaves the tasks with st and sh, which
\* the runs explain.
LEMMA QuietPlanStep ==
    ASSUME ConstantsAssumption, IInv, runs' = runs, holders' = holders,
           LogStep,
           NEW st \in [Nodes -> Statuses], PlanStep(st, shown),
           plan = 0 => st = NoPlan,
           \A n \in Nodes : st[n] \in {"running", "succeeded"} => st[n] = status[n]
    PROVE  IInv'
<1>1. /\ Len(runs) \in Nat /\ Len(runs') = Len(runs)
      /\ RunIds = 1..Len(runs) /\ RunIds' = 1..Len(runs')
  BY DEF IInv, RunInv, RunsTyped, RunIds
<1>2. PICK sh \in [Nodes -> 0..Len(runs')] : sh = shown
  BY DEF IInv, PlanTyped
<1>3. Explained(runs', st, sh)
  BY <1>2 DEF IInv, NodesExplained, Explained, RunIds, WorkedFor
<1>4. PlanStep(st, sh)
  BY <1>2
<1>5. PlanTyped' /\ NodesExplained'
  BY <1>1, <1>3, <1>4, PlanStepKeeps DEF IInv
<1>6. plan' \in {0, plans'} /\ plans <= plans'
  BY PlanStepNumbers
<1>7. QED
  BY <1>5, <1>6, QuietStep

LEMMA LogUnchanged ==
    ASSUME RunInv, LogTyped, log' = log, Len(runs) <= Len(runs'), Len(runs') \in Nat
    PROVE  LogStep
BY DEF LogStep, RunInv, RunsTyped, LogTyped

\* Run r, at work, ends.
LEMMA EndStep ==
    ASSUME ConstantsAssumption, IInv,
           NEW r \in RunIds, NEW s \in {"succeeded", "failed", "cancelled"},
           NEW k \in Keys, Active(r), EndRun(r, s),
           Cache(k, r, TRUE) \/ Cache(k, r, FALSE),
           PlanStep(Synced(r, s), Shown(r))
    PROVE  IInv'
<1>0. Len(runs) \in Nat /\ RunIds = 1..Len(runs)
  BY DEF IInv, RunInv, RunsTyped, RunIds
<1>1. PICK w : runs' = [runs EXCEPT ![r].status = s, ![r].told = @ + 1, ![r].marked = w]
  BY DEF EndRun
<1>2. Len(runs') = Len(runs) /\ Len(runs') \in Nat
  BY <1>0, <1>1 DEF IInv, RunInv, RunsTyped
<1>3. r \in 0..Len(runs')
  BY <1>0, <1>2
<1>4. LogStep
  <2>1. RunsTyped /\ LogTyped /\ Len(runs) <= Len(runs')
    BY <1>0, <1>2 DEF IInv, RunInv
  <2>2. QED
    BY <2>1, <1>2, <1>3, CacheIsLogStep, Zenon
<1>5. /\ RunInv'
      /\ RunIds' = RunIds
      /\ runs'[r].status = s
      /\ s = "succeeded" /\ runs[r].node \in Nodes => runs'[r].marked = plan
      /\ \A q \in RunIds : /\ runs'[q].node = runs[q].node
                           /\ runs'[q].plan = runs[q].plan
                           /\ q # r => runs'[q] = runs[q]
  BY <1>4, EndKeepsRunInv DEF IInv, LogStep, PlanTyped
<1>6. PICK st \in [Nodes -> Statuses] : st = Synced(r, s)
  BY DEF Synced, IInv, PlanTyped, Statuses, Done
<1>7. PICK sh \in [Nodes -> 0..Len(runs')] : sh = Shown(r)
  BY <1>0, <1>2, <1>3 DEF Shown, IInv, PlanTyped
<1>8. PlanStep(st, sh)
  BY <1>6, <1>7
<1>9. plan = 0 => st = NoPlan
  BY <1>6 DEF Synced, NoPlan, IInv, PlanTyped
<1>10. Explained(runs', st, sh)
  <2> SUFFICES ASSUME NEW n \in Nodes, st[n] \in {"running", "succeeded"}
               PROVE  /\ sh[n] \in RunIds
                      /\ runs'[sh[n]].node = n
                      /\ runs'[sh[n]].status = st[n]
                      /\ st[n] = "succeeded" =>
                           \/ runs'[sh[n]].plan = plan
                           \/ runs'[sh[n]].plan < plan /\ runs'[sh[n]].marked = plan
    BY <1>5 DEF Explained, RunIds
  <2>1. CASE n = runs[r].node
    <3>1. plan # 0
      BY <1>9 DEF NoPlan
    <3>2. st[n] = s /\ sh[n] = r
      BY <2>1, <3>1, <1>6, <1>7 DEF Synced, Shown
    <3>3. runs[r].plan <= plan /\ runs[r].plan \in Nat /\ plan \in Nat
      BY <3>1, RunAt DEF IInv, Numbered, PlanTyped, RunInv, RunSet
    <3>4. QED
      BY <2>1, <3>2, <3>3, <1>5
  <2>2. CASE n # runs[r].node
    <3>1. st[n] = status[n] /\ sh[n] = shown[n]
      BY <2>2, <1>6, <1>7 DEF Synced, Shown
    <3>2. /\ shown[n] \in RunIds
          /\ runs[shown[n]].node = n
          /\ runs[shown[n]].status = st[n]
          /\ st[n] = "succeeded" =>
               \/ runs[shown[n]].plan = plan
               \/ runs[shown[n]].plan < plan /\ runs[shown[n]].marked = plan
      BY <3>1 DEF IInv, NodesExplained, WorkedFor
    <3>3. shown[n] # r
      BY <2>2, <3>2
    <3>4. QED
      BY <3>1, <3>2, <3>3, <1>5
  <2>3. QED
    BY <2>1, <2>2
<1>11. PlanTyped' /\ NodesExplained'
  BY <1>0, <1>2, <1>5, <1>8, <1>9, <1>10, PlanStepKeeps DEF IInv
<1>12. DependenciesRan'
  <2> SUFFICES ASSUME NEW x \in RunIds, runs[x].node \in Nodes,
                      NEW d \in DependsOn[runs[x].node]
               PROVE  \E q \in 1..(x - 1) :
                        /\ runs'[q].node = d /\ runs'[q].status = "succeeded"
                        /\ WorkedFor(q, runs[x].plan)'
    BY <1>5 DEF DependenciesRan, WorkedFor
  <2>1. PICK q \in 1..(x - 1) :
          /\ runs[q].node = d /\ runs[q].status = "succeeded"
          /\ WorkedFor(q, runs[x].plan)
    BY DEF IInv, DependenciesRan
  <2>2. q \in RunIds /\ q # r
    BY <1>0, <2>1 DEF Active, Terminal
  <2>3. runs'[q] = runs[q] /\ runs'[x].plan = runs[x].plan
    BY <2>2, <1>5
  <2>4. QED
    BY <2>1, <2>3 DEF WorkedFor
<1>13. Numbered'
  <2>1. plans' = plans /\ plan' \in {0, plans'}
    BY <1>8, PlanStepNumbers
  <2>2. QED
    BY <2>1, <1>5 DEF IInv, Numbered
<1>14. QED
  BY <1>4, <1>5, <1>11, <1>12, <1>13 DEF IInv, LogStep, LogTyped

\* A run is created, for a task whose dependencies succeeded or for none.
LEMMA CreationStep ==
    ASSUME ConstantsAssumption, IInv,
           NEW p \in 0..MaxPlans, NEW n \in Nodes \cup {NoNode}, NEW k \in Keys,
           k \notin DOMAIN log, MayCreate, NewRun(p, n, k),
           n \in Nodes => ActiveRunsOf(n) = {},
           n \in Nodes => \A d \in DependsOn[n] : status[d] = "succeeded",
           n \in Nodes => p = plan, p <= plans, UNCHANGED <<plan, plans>>
    PROVE  /\ RunInv'
           /\ LogTyped'
           /\ Numbered'
           /\ DependenciesRan'
           /\ Len(runs) \in Nat
           /\ Len(runs') = Len(runs) + 1
           /\ RunIds' = RunIds \cup {Len(runs) + 1}
           /\ \A q \in RunIds : runs'[q] = runs[q]
           /\ runs'[Len(runs) + 1].node = n
           /\ runs'[Len(runs) + 1].status = "running"
<1>0. Len(runs) \in Nat /\ RunIds = 1..Len(runs)
  BY DEF IInv, RunInv, RunsTyped, RunIds
<1>1. /\ RunInv'
      /\ Len(runs') = Len(runs) + 1
      /\ \A q \in RunIds : runs'[q] = runs[q]
      /\ runs'[Len(runs) + 1] = Run(p, n, "running", k)
  BY CreationKeepsRunInv DEF IInv
<1>2. /\ runs'[Len(runs) + 1].node = n
      /\ runs'[Len(runs) + 1].plan = p
      /\ runs'[Len(runs) + 1].status = "running"
  BY <1>1 DEF Run
<1>3. RunIds' = RunIds \cup {Len(runs) + 1}
  <2>1. RunIds' = 1..Len(runs')
    BY <1>1 DEF RunInv, RunsTyped, RunIds
  <2>2. QED
    BY <2>1, <1>0, <1>1
<1>4. LogTyped'
  <2>1. Cache(k, Len(runs) + 1, TRUE)
    BY DEF NewRun
  <2>2. PICK r \in 0..Len(runs') : r = Len(runs) + 1
    BY <1>0, <1>1
  <2>3. LogStep
    <3>1. RunsTyped /\ LogTyped /\ Len(runs') \in Nat /\ Len(runs) <= Len(runs')
      BY <1>0, <1>1 DEF IInv, RunInv
    <3>2. QED
      BY <3>1, <2>1, <2>2, CacheIsLogStep, Zenon
  <2>4. QED
    BY <2>3 DEF LogStep, LogTyped
<1>5. DependenciesRan'
  <2> SUFFICES ASSUME NEW x \in RunIds', runs'[x].node \in Nodes,
                      NEW d \in DependsOn[runs'[x].node]
               PROVE  \E q \in 1..(x - 1) :
                        /\ runs'[q].node = d /\ runs'[q].status = "succeeded"
                        /\ WorkedFor(q, runs[x].plan)'
    BY DEF DependenciesRan, WorkedFor
  <2>1. CASE x \in RunIds
    <3>1. PICK q \in 1..(x - 1) :
            /\ runs[q].node = d /\ runs[q].status = "succeeded"
            /\ WorkedFor(q, runs[x].plan)
      BY <1>1, <2>1 DEF IInv, DependenciesRan
    <3>2. q \in RunIds
      BY <1>0, <2>1
    <3>3. QED
      BY <3>1, <3>2, <2>1, <1>1 DEF WorkedFor
  <2>2. CASE x = Len(runs) + 1
    <3>1. n \in Nodes /\ d \in DependsOn[n] /\ d \in Nodes
      BY <1>2, <2>2 DEF ConstantsAssumption
    <3>2. status[d] = "succeeded"
      BY <3>1
    <3>3. /\ shown[d] \in RunIds
          /\ runs[shown[d]].node = d
          /\ runs[shown[d]].status = "succeeded"
          /\ WorkedFor(shown[d], plan)
      BY <3>1, <3>2 DEF IInv, NodesExplained
    <3>4. runs'[shown[d]] = runs[shown[d]] /\ runs'[x].plan = plan
      BY <3>1, <3>3, <2>2, <1>1, <1>2
    <3>5. QED
      BY <3>3, <3>4, <2>2, <1>0 DEF WorkedFor
  <2>3. QED
    BY <2>1, <2>2, <1>3
<1>6. Numbered'
  BY <1>1, <1>2, <1>3 DEF IInv, Numbered
<1>7. QED
  BY <1>0, <1>1, <1>2, <1>3, <1>4, <1>5, <1>6

-----------------------------------------------------------------------------
\* One lemma per action, the quiet ones together.

LEMMA Quiet ==
    ASSUME ConstantsAssumption, IInv, runs' = runs, holders' = holders, LogStep,
           PlanStep(status, shown)
    PROVE  IInv'
<1>1. PICK st \in [Nodes -> Statuses] : st = status
  BY DEF IInv, PlanTyped
<1>2. PlanStep(st, shown) /\ (plan = 0 => st = NoPlan)
  BY <1>1 DEF IInv, PlanTyped
<1>3. QED
  BY <1>1, <1>2, QuietPlanStep

LEMMA CachedQuietly ==
    ASSUME IInv, runs' = runs, NEW k \in Keys, NEW r \in 0..Len(runs),
           Cache(k, r, TRUE) \/ Cache(k, r, FALSE)
    PROVE  LogStep
<1>1. RunsTyped /\ LogTyped /\ Len(runs') \in Nat /\ Len(runs) <= Len(runs')
  BY DEF IInv, RunInv, RunsTyped
<1>2. r \in 0..Len(runs')
  OBVIOUS
<1>3. QED
  BY <1>1, <1>2, CacheIsLogStep, Zenon

LEMMA CreatePlanKeeps ==
    ASSUME ConstantsAssumption, IInv, NEW c \in Commands \cup {NoCommand},
           CreatePlan(c)
    PROVE  IInv'
<1>1. runs' = runs /\ holders' = holders /\ log' = log
  BY DEF CreatePlan
<1>2. LogStep
  BY <1>1, LogUnchanged DEF IInv, RunInv, RunsTyped
<1>3. PlanTyped'
  <2>1. guest' = 0 /\ gone' \subseteq RunIds'
    BY <1>1 DEF CreatePlan, Archive, IInv, PlanTyped, RunInv, RunsTyped, RunIds
  <2>2. QED
    BY <1>1, <2>1 DEF CreatePlan, IInv, PlanTyped, NoRuns, Statuses,
                      ConstantsAssumption, RunInv, RunsTyped
<1>4. NodesExplained'
  <2>1. \A n \in Nodes : status'[n] = "pending"
    BY DEF CreatePlan
  <2>2. QED
    BY <2>1 DEF NodesExplained
<1>5. plan' \in {0, plans'} /\ plans <= plans'
  BY DEF CreatePlan, IInv, PlanTyped
<1>6. QED
  BY <1>1, <1>2, <1>3, <1>4, <1>5, QuietStep

LEMMA CancelGraphKeeps ==
    ASSUME ConstantsAssumption, IInv, CancelGraph
    PROVE  IInv'
<1>1. runs' = runs /\ holders' = holders /\ log' = log
  BY DEF CancelGraph
<1>2. LogStep
  BY <1>1, LogUnchanged DEF IInv, RunInv, RunsTyped
<1>3. PlanStep(status, shown)
  BY DEF CancelGraph, PlanStep
<1>4. QED
  BY <1>1, <1>2, <1>3, Quiet

LEMMA StartStandaloneKeeps ==
    ASSUME ConstantsAssumption, IInv, NEW c \in Commands \cup {NoCommand},
           StartStandalone(c)
    PROVE  IInv'
<1>1. /\ c \in Keys /\ c \notin DOMAIN log /\ MayCreate /\ NewRun(0, NoNode, c)
      /\ 0 \in 0..MaxPlans /\ NoNode \notin Nodes
  BY DEF StartStandalone, Keys, ConstantsAssumption
<1>2. /\ plan' = plan /\ plans' = plans /\ status' = status /\ shown' = shown
      /\ gone' = gone
      /\ guest' = guest \/ (plan = 0 /\ guest' = Len(runs) + 1)
      /\ planLog' \subseteq Commands
  BY DEF StartStandalone, Visit, slot, IInv, PlanTyped
<1>3. /\ RunInv' /\ LogTyped' /\ Numbered' /\ DependenciesRan'
      /\ Len(runs) \in Nat /\ Len(runs') = Len(runs) + 1
      /\ RunIds' = RunIds \cup {Len(runs) + 1}
      /\ \A q \in RunIds : runs'[q] = runs[q]
  BY <1>1, <1>2, CreationStep DEF IInv, PlanTyped
<1>4. PlanTyped'
  BY <1>2, <1>3 DEF IInv, PlanTyped, NoPlan
<1>5. NodesExplained'
  BY <1>2, <1>3 DEF IInv, NodesExplained, WorkedFor
<1>6. QED
  BY <1>3, <1>4, <1>5 DEF IInv

LEMMA StartTaskKeeps ==
    ASSUME ConstantsAssumption, IInv, NEW c \in Commands \cup {NoCommand},
           NEW n \in Nodes, StartTask(n, c)
    PROVE  IInv'
<1> DEFINE key == ControlKey(c, "start_task", n)
<1>0. "start_task" \in Operations /\ n \in Nodes \cup Nat
  BY DEF Operations, NodeOps
<1>1. PICK k \in Keys : k = key
  BY <1>0, KeyTyped
<1>2. /\ k \notin DOMAIN log
      /\ MayCreate
      /\ NewRun(plan, n, k)
      /\ ActiveRunsOf(n) = {}
      /\ \A d \in DependsOn[n] : status[d] = "succeeded"
      /\ plan # 0
      /\ status' = [status EXCEPT ![n] = "running"]
      /\ shown' = [shown EXCEPT ![n] = Len(runs) + 1]
      /\ planLog' = Logged(c)
      /\ plan' = plan /\ plans' = plans /\ guest' = guest /\ gone' = gone
  BY <1>1 DEF StartTask, slot
<1>3. PICK p \in 0..MaxPlans : p = plan
  BY DEF IInv, PlanTyped
<1>4. NewRun(p, n, k)
  BY <1>2, <1>3
<1>5. /\ RunInv' /\ LogTyped' /\ Numbered' /\ DependenciesRan'
      /\ Len(runs) \in Nat /\ Len(runs') = Len(runs) + 1
      /\ RunIds' = RunIds \cup {Len(runs) + 1}
      /\ \A q \in RunIds : runs'[q] = runs[q]
      /\ runs'[Len(runs) + 1].node = n
      /\ runs'[Len(runs) + 1].status = "running"
  <2>1. p <= plans
    BY <1>3 DEF IInv, PlanTyped, Numbered
  <2>2. QED
    BY <2>1, <1>2, <1>3, <1>4, CreationStep
<1>6. PlanTyped'
  <2>1. planLog' \subseteq Commands
    BY <1>2 DEF Logged, IInv, PlanTyped
  <2>2. shown' \in [Nodes -> 0..Len(runs')]
    BY <1>2, <1>5 DEF IInv, PlanTyped
  <2>3. QED
    BY <2>1, <2>2, <1>2, <1>5 DEF IInv, PlanTyped, Statuses
<1>7. NodesExplained'
  <2> SUFFICES ASSUME NEW m \in Nodes, status'[m] \in {"running", "succeeded"}
               PROVE  /\ shown'[m] \in RunIds'
                      /\ runs'[shown'[m]].node = m
                      /\ runs'[shown'[m]].status = status'[m]
                      /\ status'[m] = "succeeded" => WorkedFor(shown[m], plan)'
    BY DEF NodesExplained
  <2>1. CASE m = n
    <3>1. status'[m] = "running" /\ shown'[m] = Len(runs) + 1
      BY <2>1, <1>2 DEF IInv, PlanTyped
    <3>2. QED
      BY <2>1, <3>1, <1>5
  <2>2. CASE m # n
    <3>1. status'[m] = status[m] /\ shown'[m] = shown[m]
      BY <2>2, <1>2 DEF IInv, PlanTyped
    <3>2. /\ shown[m] \in RunIds
          /\ runs[shown[m]].node = m
          /\ runs[shown[m]].status = status[m]
          /\ status[m] = "succeeded" => WorkedFor(shown[m], plan)
      BY <3>1 DEF IInv, NodesExplained
    <3>3. runs'[shown'[m]] = runs[shown[m]]
      BY <3>1, <3>2, <1>5
    <3>4. QED
      BY <3>1, <3>2, <3>3, <1>2, <1>5 DEF WorkedFor
  <2>3. QED
    BY <2>1, <2>2
<1>8. QED
  BY <1>5, <1>6, <1>7 DEF IInv

\* A graph of a run is looked at.
LEMMA VisitIsPlanStep ==
    ASSUME IInv, NEW r \in RunIds, Visit(r), plans' = plans, RunIds' = RunIds,
           NEW st, NEW sh, status' = st, shown' = sh
    PROVE  PlanStep(st, sh)
BY DEF Visit, PlanStep, slot, IInv, PlanTyped

LEMMA LookKeeps ==
    ASSUME ConstantsAssumption, IInv, NEW r \in RunIds, Look(r)
    PROVE  IInv'
<1>1. /\ runs' = runs /\ holders' = holders /\ log' = log /\ plans' = plans
      /\ status' = status /\ shown' = shown /\ Visit(r)
  BY DEF Look
<1>2. LogStep
  BY <1>1, LogUnchanged DEF IInv, RunInv, RunsTyped
<1>3. RunIds' = RunIds
  BY <1>1 DEF RunIds
<1>4. PlanStep(status, shown)
  BY <1>1, <1>3, VisitIsPlanStep
<1>5. QED
  BY <1>1, <1>2, <1>4, Quiet

LEMMA WorkKeeps ==
    ASSUME ConstantsAssumption, IInv, NEW r \in RunIds, Work(r)
    PROVE  IInv'
<1>1. /\ runs' = runs /\ holders' = holders /\ log' = log
      /\ plans' = plans /\ Visit(r)
      /\ status' = Synced(r, "running") /\ shown' = Shown(r)
      /\ runs[r].status = "running"
  BY DEF Work
<1>2. /\ Len(runs) \in Nat /\ Len(runs') = Len(runs) /\ r \in 0..Len(runs')
      /\ RunIds = 1..Len(runs) /\ RunIds' = 1..Len(runs')
  BY <1>1 DEF IInv, RunInv, RunsTyped, RunIds
<1>3. LogStep
  BY <1>1, <1>2, LogUnchanged DEF IInv
<1>4. PICK st \in [Nodes -> Statuses] : st = Synced(r, "running")
  BY DEF Synced, IInv, PlanTyped, Statuses
<1>5. PICK sh \in [Nodes -> 0..Len(runs')] : sh = Shown(r)
  BY <1>2 DEF Shown, IInv, PlanTyped
<1>6. PlanStep(st, sh)
  BY <1>1, <1>2, <1>4, <1>5, VisitIsPlanStep
<1>7. plan = 0 => st = NoPlan
  BY <1>4 DEF Synced, NoPlan, IInv, PlanTyped
<1>8. Explained(runs', st, sh)
  <2> SUFFICES ASSUME NEW n \in Nodes, st[n] \in {"running", "succeeded"}
               PROVE  /\ sh[n] \in RunIds
                      /\ runs[sh[n]].node = n
                      /\ runs[sh[n]].status = st[n]
                      /\ st[n] = "succeeded" => WorkedFor(sh[n], plan)
    BY <1>1 DEF Explained, RunIds, WorkedFor
  <2>1. CASE n = runs[r].node
    <3>1. plan # 0
      BY <1>7 DEF NoPlan
    <3>2. st[n] = "running" /\ sh[n] = r
      BY <2>1, <3>1, <1>4, <1>5 DEF Synced, Shown
    <3>3. QED
      BY <2>1, <3>2, <1>1
  <2>2. CASE n # runs[r].node
    <3>1. st[n] = status[n] /\ sh[n] = shown[n]
      BY <2>2, <1>4, <1>5 DEF Synced, Shown
    <3>2. QED
      BY <3>1 DEF IInv, NodesExplained
  <2>3. QED
    BY <2>1, <2>2
<1>9. PlanTyped' /\ NodesExplained'
  BY <1>2, <1>6, <1>7, <1>8, PlanStepKeeps DEF IInv
<1>10. plan' \in {0, plans'} /\ plans <= plans'
  BY <1>6, PlanStepNumbers
<1>11. QED
  BY <1>1, <1>3, <1>9, <1>10, QuietStep

LEMMA StartTaskAgainKeeps ==
    ASSUME ConstantsAssumption, IInv, NEW c \in Commands \cup {NoCommand},
           NEW n \in Nodes, StartTaskAgain(n, c)
    PROVE  IInv'
<1>0. "start_task" \in Operations /\ n \in Nodes \cup Nat
  BY DEF Operations, NodeOps
<1>1. PICK k \in Keys : k = ControlKey(c, "start_task", n)
  BY <1>0, KeyTyped
<1>2. PICK r \in ActiveRunsOf(n) : Cache(k, r, TRUE)
  BY <1>1 DEF StartTaskAgain
<1>3. /\ runs' = runs /\ holders' = holders /\ plans' = plans
      /\ plan' = plan /\ guest' = guest /\ gone' = gone
      /\ status' = status /\ shown' = shown /\ planLog' = Logged(c)
  BY <1>1 DEF StartTaskAgain, slot
<1>4. r \in 0..Len(runs)
  BY DEF ActiveRunsOf, RunIds, IInv, RunInv, RunsTyped
<1>5. LogStep
  BY <1>2, <1>3, <1>4, CachedQuietly, Zenon
<1>6. PlanStep(status, shown)
  BY <1>3 DEF PlanStep, Logged, IInv, PlanTyped
<1>7. QED
  BY <1>3, <1>5, <1>6, Quiet

LEMMA ControlNodeKeeps ==
    ASSUME ConstantsAssumption, IInv, NEW c \in Commands \cup {NoCommand},
           NEW n \in Nodes, NEW op \in Operations, NEW st \in [Nodes -> Statuses],
           ControlNode(op, n, c, st),
           \A m \in Nodes : st[m] \in {"running", "succeeded"} => st[m] = status[m]
    PROVE  IInv'
<1>1. PICK k \in Keys : k = ControlKey(c, op, n)
  BY KeyTyped
<1>2. /\ Cache(k, 0, TRUE)
      /\ Advance(st, shown, c)
      /\ plan # 0
      /\ runs' = runs /\ holders' = holders /\ plans' = plans
  BY <1>1 DEF ControlNode
<1>3. 0 \in 0..Len(runs)
  BY DEF IInv, RunInv, RunsTyped
<1>4. LogStep
  BY <1>2, <1>3, CachedQuietly, Zenon
<1>5. PlanStep(st, shown)
  BY <1>2, AdvanceIsPlanStep DEF IInv
<1>6. QED
  BY <1>2, <1>4, <1>5, QuietPlanStep

LEMMA SkipNodeKeeps ==
    ASSUME ConstantsAssumption, IInv, NEW c \in Commands \cup {NoCommand},
           NEW n \in Nodes, SkipNode(n, c)
    PROVE  IInv'
<1>1. PICK st \in [Nodes -> Statuses] : st = [status EXCEPT ![n] = "skipped"]
  BY DEF IInv, PlanTyped, Statuses, Done
<1>2. \A m \in Nodes : st[m] \in {"running", "succeeded"} => st[m] = status[m]
  BY <1>1 DEF IInv, PlanTyped
<1>3. ControlNode("skip_node", n, c, st)
  BY <1>1 DEF SkipNode
<1>4. "skip_node" \in Operations
  BY DEF Operations, NodeOps
<1>5. QED
  BY <1>2, <1>3, <1>4, ControlNodeKeeps

LEMMA CancelSubtreeKeeps ==
    ASSUME ConstantsAssumption, IInv, NEW c \in Commands \cup {NoCommand},
           NEW n \in Nodes, CancelSubtree(n, c)
    PROVE  IInv'
<1> DEFINE cancelled ==
      [m \in Nodes |->
         IF m \in Subtree(n) /\ status[m] \notin {"succeeded", "failed"}
           THEN "cancelled"
           ELSE status[m]]
<1>1. cancelled \in [Nodes -> Statuses]
  BY DEF IInv, PlanTyped, Statuses, Done
<1>2. PICK st \in [Nodes -> Statuses] : st = cancelled
  BY <1>1
<1>3. \A m \in Nodes : st[m] \in {"running", "succeeded"} => st[m] = status[m]
  BY <1>2
<1>4. ControlNode("cancel_subtree", n, c, st)
  BY <1>2 DEF CancelSubtree
<1>5. "cancel_subtree" \in Operations
  BY DEF Operations, NodeOps
<1> HIDE DEF cancelled
<1>6. QED
  BY <1>3, <1>4, <1>5, ControlNodeKeeps

LEMMA ReplayKeeps ==
    ASSUME ConstantsAssumption, IInv, NEW c \in Commands \cup {NoCommand},
           NEW op, NEW t, Replay(op, t, c)
    PROVE  IInv'
<1>1. runs' = runs /\ holders' = holders /\ log' = log /\ plans' = plans
  BY DEF Replay
<1>2. LogStep
  BY <1>1, LogUnchanged DEF IInv, RunInv, RunsTyped
<1>3. PlanStep(status, shown)
  <2>1. CASE Advance(status, shown, c)
    BY <2>1, <1>1, AdvanceIsPlanStep DEF IInv
  <2>2. CASE planLog' = Logged(c) /\ UNCHANGED <<slot, status, shown>>
    BY <2>2, <1>1 DEF PlanStep, Logged, IInv, PlanTyped, slot
  <2>3. QED
    BY <2>1, <2>2 DEF Replay
<1>4. QED
  BY <1>1, <1>2, <1>3, Quiet

LEMMA EndCallKeeps ==
    ASSUME ConstantsAssumption, IInv, NEW c \in Commands \cup {NoCommand},
           NEW op \in StopOps \cup {"complete_task"},
           NEW via \in {"control", "task_run"},
           NEW t \in Targets(op, via), EndCall(op, t, via, c)
    PROVE  IInv'
<1>0. RunIds \subseteq Nat /\ RunIds \subseteq 0..Len(runs)
  BY DEF IInv, RunInv, RunsTyped, RunIds
<1>1. op \in Operations /\ t \in Nodes \cup Nat /\ c \in Keys
  <2>1. op \in {"cancel_task", "fail_task", "complete_task"}
    BY DEF ConstantsAssumption
  <2>2. op \in Operations
    BY <2>1 DEF Operations
  <2>3. t \in Nodes \cup Nat
    BY <1>0 DEF Targets
  <2>4. c \in Keys
    BY DEF Keys
  <2>5. QED
    BY <2>2, <2>3, <2>4
<1>2. PICK k \in Keys : k = IF via = "control" THEN ControlKey(c, op, t) ELSE c
  BY <1>1, KeyTyped
<1>3. plans' = plans
  BY DEF EndCall
<1>4. ASSUME NEW r \in RunIds, Cache(k, r, TRUE) \/ Cache(k, r, FALSE),
             runs' = runs, holders' = holders, PlanStep(status, shown)
      PROVE  IInv'
  <2>1. r \in 0..Len(runs)
    BY <1>0
  <2>2. LogStep
    BY <2>1, <1>4, CachedQuietly, Zenon
  <2>3. QED
    BY <2>2, <1>4, Quiet
<1>5. UNCHANGED <<slot, status, shown, planLog>> => PlanStep(status, shown)
  BY <1>3 DEF PlanStep, IInv, PlanTyped, slot
<1>6. ASSUME NEW r \in RunIds, Stop(r, k, via, c)
      PROVE  IInv'
  <2>1. CASE runs[r].status = "running"
    <3>1. /\ EndRun(r, "cancelled") /\ Cache(k, r, TRUE)
          /\ After(via, Synced(r, "cancelled"), Shown(r), c)
      BY <2>1, <1>6 DEF Stop
    <3>2. Active(r)
      BY <2>1 DEF Active, Terminal
    <3>3. PlanStep(Synced(r, "cancelled"), Shown(r))
      BY <3>1, <1>3, AfterIsPlanStep DEF IInv
    <3>4. QED
      BY <3>1, <3>2, <3>3, EndStep
  <2>2. CASE runs[r].status = "queued"
    BY <2>2 DEF IInv, RunInv, Accounted
  <2>3. QED
    BY <2>1, <2>2, <1>6 DEF Stop
<1>7. ASSUME NEW r \in RunIds, Complete(r, k, via, c)
      PROVE  IInv'
  <2>1. CASE /\ EndRun(r, "succeeded") /\ Cache(k, r, TRUE)
             /\ After(via, Synced(r, "succeeded"), Shown(r), c)
             /\ Ticks(r)
    <3>1. Active(r)
      BY <2>1 DEF Active, Terminal, Ticks
    <3>2. PlanStep(Synced(r, "succeeded"), Shown(r))
      BY <2>1, <1>3, AfterIsPlanStep DEF IInv
    <3>3. QED
      BY <2>1, <3>1, <3>2, EndStep
  <2>2. CASE /\ Cache(k, r, TRUE) /\ runs' = runs /\ holders' = holders
             /\ After(via, status, shown, c)
    <3>1. PlanStep(status, shown)
      BY <2>2, <1>3, AfterIsPlanStep DEF IInv
    <3>2. QED
      BY <2>2, <3>1, <1>4
  <2>3. CASE /\ Cache(k, r, FALSE)
             /\ UNCHANGED <<slot, status, shown, planLog, runs, holders>>
    BY <2>3, <1>4, <1>5
  <2>4. CASE /\ EndRun(r, "failed") /\ Cache(k, r, FALSE) /\ Ticks(r)
             /\ status' = Synced(r, "failed") /\ shown' = Shown(r)
             /\ UNCHANGED <<slot, planLog>>
    <3>1. Active(r)
      BY <2>4 DEF Active, Terminal, Ticks
    <3>2. PlanStep(Synced(r, "failed"), Shown(r))
      BY <2>4, <1>3 DEF PlanStep, IInv, PlanTyped, slot
    <3>3. QED
      BY <2>4, <3>1, <3>2, EndStep
  <2>5. QED
    BY <2>1, <2>2, <2>3, <2>4, <1>7 DEF Complete
<1>8. CASE \E r \in StopTargets(t) : Stop(r, k, via, c)
  <2>1. StopTargets(t) \subseteq RunIds
    BY DEF StopTargets, ActiveRunsOf
  <2>2. QED
    BY <2>1, <1>6, <1>8
<1>9. CASE t \in RunIds /\ Complete(t, k, via, c)
  BY <1>7, <1>9
<1>10. QED
  BY <1>2, <1>8, <1>9 DEF EndCall

-----------------------------------------------------------------------------
LEMMA InitInv ==
    ASSUME ConstantsAssumption, Init
    PROVE  IInv
<1>1. runs = <<>> /\ RunIds = {} /\ Len(runs) = 0 /\ holders = {} /\ DOMAIN log = {}
  BY DEF Init, RunIds
<1>2. RunsTyped
  BY <1>1 DEF RunsTyped, ConstantsAssumption
<1>3. Accounted
  <2>1. Cardinality({}) = 0
    BY FS_EmptySet
  <2>2. Cardinality(holders) <= MaxLeases
    BY <2>1, <1>1 DEF ConstantsAssumption
  <2>3. QED
    BY <2>2, <1>1 DEF Accounted
<1>4. OneActivePerNode /\ Remembered /\ OneRunPerCommand /\ DependenciesRan /\ LogTyped
  BY <1>1 DEF OneActivePerNode, Remembered, OneRunPerCommand, DependenciesRan, LogTyped
<1>5. PlanTyped /\ Numbered
  BY <1>1 DEF Init, PlanTyped, Numbered, NoPlan, NoRuns, Statuses, ConstantsAssumption
<1>6. NodesExplained
  <2>1. \A n \in Nodes : status[n] = "none"
    BY DEF Init, NoPlan
  <2>2. QED
    BY <2>1 DEF NodesExplained
<1>7. QED
  BY <1>2, <1>3, <1>4, <1>5, <1>6 DEF IInv, RunInv

LEMMA NextInv ==
    ASSUME ConstantsAssumption, IInv, [Next]_vars
    PROVE  IInv'
<1>1. CASE UNCHANGED vars
  <2>1. /\ runs' = runs /\ holders' = holders /\ log' = log /\ plans' = plans
        /\ plan' = plan /\ guest' = guest /\ gone' = gone
        /\ status' = status /\ shown' = shown /\ planLog' = planLog
    BY <1>1 DEF vars, planVars, slot
  <2>2. LogStep
    BY <2>1, LogUnchanged DEF IInv, RunInv, RunsTyped
  <2>3. PlanStep(status, shown)
    BY <2>1 DEF PlanStep, IInv, PlanTyped
  <2>4. QED
    BY <2>1, <2>2, <2>3, Quiet
<1>2. ASSUME NEW c \in Commands \cup {NoCommand}, CreatePlan(c)
      PROVE  IInv'
  BY <1>2, CreatePlanKeeps
<1>3. CASE CancelGraph
  BY <1>3, CancelGraphKeeps
<1>4. ASSUME NEW c \in Commands \cup {NoCommand}, StartStandalone(c)
      PROVE  IInv'
  BY <1>4, StartStandaloneKeeps
<1>5. ASSUME NEW c \in Commands \cup {NoCommand}, NEW n \in Nodes,
             \/ StartTask(n, c)
             \/ StartTaskAgain(n, c)
             \/ SkipNode(n, c)
             \/ CancelSubtree(n, c)
      PROVE  IInv'
  BY <1>5, StartTaskKeeps, StartTaskAgainKeeps, SkipNodeKeeps, CancelSubtreeKeeps
<1>6. ASSUME NEW c \in Commands \cup {NoCommand}, NEW op, NEW t, Replay(op, t, c)
      PROVE  IInv'
  BY <1>6, ReplayKeeps
<1>7. ASSUME NEW c \in Commands \cup {NoCommand},
             NEW op \in StopOps \cup {"complete_task"},
             NEW via \in {"control", "task_run"},
             NEW t \in Targets(op, via), EndCall(op, t, via, c)
      PROVE  IInv'
  BY <1>7, EndCallKeeps
<1>8. ASSUME NEW r \in RunIds, Look(r) \/ Work(r)
      PROVE  IInv'
  BY <1>8, LookKeeps, WorkKeeps
<1>9. CASE Next
  BY <1>9, <1>2, <1>3, <1>4, <1>5, <1>6, <1>7, <1>8 DEF Next
<1>10. QED
  BY <1>1, <1>9

\* The state described by IInv is the only one that calls can reach.
THEOREM Invariant == Spec => []IInv
<1>1. Init => IInv
  BY InitInv, ConstantsAssumption
<1>2. IInv /\ [Next]_vars => IInv'
  BY NextInv, ConstantsAssumption
<1>3. QED
  BY <1>1, <1>2, PTL DEF Spec

\* Type correctness of the session's runs, plan and command log.
THEOREM TypeCorrect == Spec => []TypeOK
<1>1. IInv => TypeOK
  BY DEF IInv, RunInv, RunsTyped, Accounted, PlanTyped, LogTyped, TypeOK, Statuses
<1>2. QED
  BY <1>1, Invariant, PTL

\* Whatever calls the agent makes: the write leases held are those of the
\* active runs, never more than allowed, no run waits for one, and the end of
\* a run is reported once.
THEOREM LeasesAccounted == Spec => []Accounted
<1>1. IInv => Accounted
  BY DEF IInv, RunInv
<1>2. QED
  BY <1>1, Invariant, PTL

\* A task never has two active runs, over any number of plans.
THEOREM OneRunPerTask == Spec => []OneActivePerNode
<1>1. IInv => OneActivePerNode
  BY DEF IInv, RunInv
<1>2. QED
  BY <1>1, Invariant, PTL

\* A command that is repeated starts no second run.
THEOREM CommandsStartOnce == Spec => []OneRunPerCommand
<1>1. IInv => OneRunPerCommand
  BY DEF IInv, RunInv
<1>2. QED
  BY <1>1, Invariant, PTL

\* A task is shown as running or succeeded on the strength of a run that is, and
\* one that succeeded of a run that worked for this plan: it was started for it, or
\* for a plan that was replaced while the run was active.
THEOREM PlanIsExplained == Spec => []NodesExplained
<1>1. IInv => NodesExplained
  BY DEF IInv
<1>2. QED
  BY <1>1, Invariant, PTL

\* A run starts after a run of each task that its task depends on succeeded, and
\* worked for the same plan.
THEOREM RunsAfterDependencies == Spec => []DependenciesRan
<1>1. IInv => DependenciesRan
  BY DEF IInv
<1>2. QED
  BY <1>1, Invariant, PTL

-----------------------------------------------------------------------------
(* The k-th positions of a set of positions are its elements, in order. *)
LEMMA NthFacts ==
    ASSUME NEW n \in Nat, NEW S \in SUBSET (1 .. n)
    PROVE  /\ Cardinality(S) \in Nat
           /\ \A k \in 1 .. Cardinality(S) : Nth(S, k) \in S
           /\ \A i \in S : \E k \in 1 .. Cardinality(S) : Nth(S, k) = i
           /\ \A k, l \in 1 .. Cardinality(S) : k < l => Nth(S, k) < Nth(S, l)
<1> DEFINE Upto(i) == {j \in S : j <= i}
           rank(i) == Cardinality(Upto(i))
           m == Cardinality(S)
<1>0. \A i \in S : i \in Nat
  OBVIOUS
<1>1. IsFiniteSet(S) /\ m \in Nat
  <2>1. IsFiniteSet(1 .. n)
    BY FS_Interval
  <2>2. IsFiniteSet(S)
    BY <2>1, FS_Subset
  <2> QED
    BY <2>2, FS_CardinalityType
<1>2. ASSUME NEW i \in S
      PROVE  /\ Upto(i) \subseteq S /\ i \in Upto(i) /\ IsFiniteSet(Upto(i))
             /\ rank(i) \in 1 .. m
  <2>1. Upto(i) \subseteq S /\ i \in Upto(i)
    BY <1>0
  <2>2. IsFiniteSet(Upto(i)) /\ rank(i) <= m
    BY <1>1, <2>1, FS_Subset
  <2>3. rank(i) \in Nat /\ rank(i) # 0
    BY <2>1, <2>2, FS_CardinalityType, FS_EmptySet
  <2> HIDE DEF Upto, m
  <2> QED
    BY <1>1, <2>1, <2>2, <2>3
<1>3. ASSUME NEW i \in S, NEW j \in S, i < j
      PROVE  rank(i) < rank(j)
  <2>1. i \in Nat /\ j \in Nat
    BY <1>0
  <2>2. Upto(i) \subseteq Upto(j) /\ j \notin Upto(i) /\ j \in Upto(j)
    <3>1. \A k \in S : k <= i => k <= j
      BY <1>0, <1>3, <2>1
    <3>2. ~ (j <= i) /\ j <= j
      BY <1>3, <2>1
    <3> QED
      BY <3>1, <3>2
  <2>3. IsFiniteSet(Upto(j)) /\ rank(i) \in Nat /\ rank(j) \in Nat
    BY <1>1, <1>2
  <2>4. rank(i) <= rank(j) /\ (rank(i) = rank(j) => Upto(i) = Upto(j))
    BY <2>2, <2>3, FS_Subset
  <2> HIDE DEF Upto
  <2> QED
    BY <2>2, <2>3, <2>4
<1> HIDE DEF Upto
<1>4. ASSUME NEW i \in S, NEW j \in S, rank(i) = rank(j) PROVE i = j
  <2>1. i \in Nat /\ j \in Nat /\ rank(i) \in Nat
    BY <1>0, <1>2
  <2>2. ~ (i < j) /\ ~ (j < i)
    BY <1>3, <1>4, <2>1
  <2> QED
    BY <2>1, <2>2
<1>5. \A k \in 1 .. m : \E i \in S : rank(i) = k
  <2> DEFINE f == [i \in S |-> rank(i)]
  <2>1. f \in [S -> 1 .. m] /\ \A i \in S : f[i] = rank(i)
    BY <1>2
  <2>2. \A i, j \in S : f[i] = f[j] => i = j
    BY <1>4, <2>1
  <2> HIDE DEF f, m
  <2>3. f \in Injection(S, 1 .. m)
    BY <2>1, <2>2 DEF Injection, IsInjective
  <2>4. IsFiniteSet(1 .. m) /\ Cardinality(1 .. m) = m
    BY <1>1, FS_Interval
  <2>5. f \in Surjection(S, 1 .. m)
    BY <1>1, <2>3, <2>4, FS_Injection DEF m
  <2> QED
    BY <2>1, <2>5 DEF Surjection
<1>6. \A k \in 1 .. m : Nth(S, k) \in S /\ rank(Nth(S, k)) = k
  BY <1>5 DEF Nth, Upto
<1>7. \A i \in S : \E k \in 1 .. m : Nth(S, k) = i
  BY <1>2, <1>4, <1>6
<1>8. ASSUME NEW k \in 1 .. m, NEW l \in 1 .. m, k < l
      PROVE  Nth(S, k) < Nth(S, l)
  <2> DEFINE i == Nth(S, k)
             j == Nth(S, l)
  <2>1. i \in S /\ j \in S /\ rank(i) = k /\ rank(j) = l
    BY <1>6
  <2> HIDE DEF i, j, rank, m
  <2>2. i \in Nat /\ j \in Nat /\ k \in Nat /\ l \in Nat
    <3>1. \A q \in 1 .. m : q \in Nat
      BY <1>1
    <3> QED
      BY <1>0, <2>1, <3>1
  <2>3. ~ (j < i)
    BY <1>3, <1>8, <2>1, <2>2
  <2>4. i # j
    BY <1>8, <2>1, <2>2
  <2>5. i < j
    BY <2>2, <2>3, <2>4
  <2> QED
    BY <2>5 DEF i, j
<1> HIDE DEF rank, m
<1>9. m \in Nat
  BY <1>1
<1> QED
  BY <1>6, <1>7, <1>8, <1>9 DEF m

(* What is picked from a conversation is one. *)
LEMMA PickFacts ==
    ASSUME NEW s, Transcript(s), NEW S \in SUBSET DOMAIN s
    PROVE  /\ Cardinality(S) \in Nat
           /\ DOMAIN Pick(s, S) = 1 .. Cardinality(S)
           /\ Len(Pick(s, S)) = Cardinality(S)
           /\ \A k \in 1 .. Cardinality(S) :
                 Nth(S, k) \in S /\ Pick(s, S)[k] = s[Nth(S, k)]
           /\ Transcript(Pick(s, S))
<1>1. s \in Seq(Event) /\ Len(s) \in Nat /\ DOMAIN s = 1 .. Len(s)
  BY LenProperties DEF Transcript
<1>2. S \in SUBSET (1 .. Len(s))
  BY <1>1
<1>3. Cardinality(S) \in Nat /\ \A k \in 1 .. Cardinality(S) : Nth(S, k) \in S
  BY <1>1, <1>2, NthFacts
<1>4. \A k \in 1 .. Cardinality(S) : s[Nth(S, k)] \in Event
  BY <1>1, <1>2, <1>3, ElementOfSeq
<1>5. /\ Pick(s, S) \in [1 .. Cardinality(S) -> Event]
      /\ \A k \in 1 .. Cardinality(S) : Pick(s, S)[k] = s[Nth(S, k)]
  BY <1>4 DEF Pick
<1>6. Pick(s, S) \in Seq(Event) /\ Len(Pick(s, S)) = Cardinality(S)
  BY <1>3, <1>5, IsASeq, LenProperties
<1>7. \A k \in DOMAIN Pick(s, S) : IsResult(Pick(s, S), k) =>
         \E c \in Pick(s, S)[k].ids : Pick(s, S)[k].ids = {c}
  BY <1>3, <1>5, <1>2, <1>1 DEF Transcript, IsResult
<1> QED
  BY <1>3, <1>5, <1>6, <1>7 DEF Transcript

-----------------------------------------------------------------------------
(* Positions that follow one another in s still do in what is picked of s. *)
LEMMA FollowingPicked ==
    ASSUME NEW s, Transcript(s), NEW S \in SUBSET DOMAIN s,
           NEW k \in 1 .. Cardinality(S), NEW l \in 1 .. Cardinality(S),
           Nth(S, l) \in Following(s, Nth(S, k))
    PROVE  k < l /\ l \in Following(Pick(s, S), k)
<1> DEFINE N(i) == Nth(S, i)
           m == Cardinality(S)
           p == Pick(s, S)
<1>1. /\ m \in Nat /\ DOMAIN s = 1 .. Len(s) /\ Len(s) \in Nat
      /\ \A i \in 1 .. m : N(i) \in S /\ N(i) \in Nat /\ N(i) <= Len(s)
      /\ \A i, j \in 1 .. m : i < j => N(i) < N(j)
  <2>1. DOMAIN s = 1 .. Len(s) /\ Len(s) \in Nat
    BY LenProperties DEF Transcript
  <2>2. S \in SUBSET (1 .. Len(s))
    BY <2>1
  <2>3. /\ m \in Nat /\ \A i \in 1 .. m : N(i) \in S
        /\ \A i, j \in 1 .. m : i < j => N(i) < N(j)
    BY <2>1, <2>2, NthFacts
  <2>4. \A q \in S : q \in Nat /\ q <= Len(s)
    BY <2>1, <2>2
  <2> HIDE DEF N, m
  <2> QED
    BY <2>1, <2>3, <2>4
<1>2. Len(p) = m /\ \A i \in 1 .. m : p[i] = s[N(i)]
  BY PickFacts
<1> HIDE DEF N, m, p
<1>3. /\ N(k) < N(l)
      /\ \A q \in N(k) + 1 .. N(l) : IsResult(s, q)
  <2>1. k \in Nat /\ l \in Nat /\ k \in 1 .. m /\ l \in 1 .. m
    BY <1>1 DEF m
  <2>2. N(k) \in Nat /\ N(l) \in Nat
    BY <1>1, <2>1
  <2>3. N(l) \in N(k) + 1 .. Len(s) /\ \A q \in N(k) + 1 .. N(l) : IsResult(s, q)
    BY DEF Following, N
  <2> QED
    BY <1>1, <2>2, <2>3
<1>4. k \in 1 .. m /\ l \in 1 .. m /\ k \in Nat /\ l \in Nat
  BY <1>1 DEF m
<1>5. k < l
  <2>1. N(k) \in Nat /\ N(l) \in Nat
    BY <1>1, <1>4
  <2>2. ~ (l < k) /\ l # k
    BY <1>1, <1>3, <1>4, <2>1
  <2> QED
    BY <1>4, <2>2
<1>6. ASSUME NEW q \in k + 1 .. l PROVE IsResult(p, q)
  <2>1. q \in 1 .. m /\ k < q /\ (q = l \/ q < l)
    BY <1>1, <1>4
  <2>2. N(q) \in Nat /\ N(k) \in Nat /\ N(l) \in Nat /\ N(k) < N(q)
    BY <1>1, <1>4, <2>1
  <2>3. N(q) <= N(l)
    BY <1>1, <1>4, <2>1, <2>2
  <2>4. N(q) \in N(k) + 1 .. N(l)
    BY <2>2, <2>3
  <2>5. IsResult(s, N(q))
    BY <1>3, <2>4
  <2> QED
    BY <1>2, <2>1, <2>5 DEF IsResult
<1>7. l \in k + 1 .. Len(p)
  BY <1>1, <1>2, <1>4, <1>5
<1> QED
  BY <1>5, <1>6, <1>7 DEF Following, p

(* What sanitizeModelMessages leaves is well paired, whatever it is given. *)
THEOREM SaneIsWellPaired ==
    ASSUME NEW s, Transcript(s)
    PROVE  /\ Transcript(sanitizeModelMessages(s))
           /\ WellPaired(sanitizeModelMessages(s))
<1> DEFINE S == Unpaired(s) \cup PairedCalls(s) \cup PairedResults(s)
           p == Pick(s, S)
           m == Cardinality(S)
           N(k) == Nth(S, k)
<1>0. p = sanitizeModelMessages(s)
  BY DEF sanitizeModelMessages
<1>1. S \in SUBSET DOMAIN s
  BY DEF Unpaired, PairedCalls, PairedResults
<1>2. DOMAIN s = 1 .. Len(s) /\ Len(s) \in Nat /\ S \in SUBSET (1 .. Len(s))
  <2>1. DOMAIN s = 1 .. Len(s) /\ Len(s) \in Nat
    BY LenProperties DEF Transcript
  <2> QED
    BY <1>1, <2>1
<1>3. /\ m \in Nat /\ DOMAIN p = 1 .. m
      /\ \A k \in 1 .. m : N(k) \in S /\ p[k] = s[N(k)]
      /\ Transcript(p)
  BY <1>1, PickFacts
<1>4. \A i \in S : \E k \in 1 .. m : N(k) = i
  BY <1>2, NthFacts
<1>5. \A k, l \in 1 .. m : N(l) \in Following(s, N(k))
                           => k < l /\ l \in Following(p, k)
  BY <1>1, FollowingPicked
<1>6. \A k \in PairedCalls(s) : \A i \in Following(s, k) :
         /\ IsResult(s, i) /\ i \in DOMAIN s
         /\ s[i].ids \subseteq s[k].ids => i \in PairedResults(s)
  <2> TAKE k \in PairedCalls(s)
  <2> TAKE i \in Following(s, k)
  <2>1. k \in 1 .. Len(s)
    BY <1>2 DEF PairedCalls
  <2>2. i \in k + 1 .. Len(s) /\ \A q \in k + 1 .. i : IsResult(s, q)
    BY DEF Following
  <2>3. i \in 1 .. Len(s) /\ i \in k + 1 .. i
    BY <1>2, <2>1, <2>2
  <2> QED
    BY <1>2, <2>2, <2>3 DEF PairedResults
<1>7. \A i \in S : /\ IsCalls(s, i) => i \in PairedCalls(s)
                   /\ IsResult(s, i) => i \in PairedResults(s)
  <2>1. \A i \in PairedResults(s) : IsResult(s, i)
    BY <1>6 DEF PairedResults
  <2> QED
    BY <2>1 DEF Unpaired, PairedCalls, IsCalls, IsResult
<1> HIDE DEF S, p, m, N
<1>8. ASSUME NEW i \in 1 .. m, IsCalls(p, i)
      PROVE  p[i].ids \subseteq FollowingIds(p, i)
  <2>1. N(i) \in S /\ p[i] = s[N(i)] /\ N(i) \in PairedCalls(s)
    BY <1>3, <1>7, <1>8 DEF IsCalls
  <2> SUFFICES ASSUME NEW c \in p[i].ids
               PROVE  c \in FollowingIds(p, i)
    OBVIOUS
  <2>2. PICK j \in Following(s, N(i)) : c \in s[j].ids
    BY <2>1 DEF PairedCalls, FollowingIds
  <2>3. IsResult(s, j) /\ j \in DOMAIN s
    BY <1>6, <2>1, <2>2
  <2>4. s[j].ids = {c}
    BY <2>2, <2>3 DEF Transcript
  <2>5. j \in PairedResults(s)
    BY <1>6, <2>1, <2>2, <2>4
  <2>6. PICK l \in 1 .. m : N(l) = j
    BY <1>4, <2>5 DEF S
  <2>7. l \in Following(p, i) /\ p[l] = s[j]
    BY <1>3, <1>5, <2>2, <2>6
  <2> QED
    BY <2>2, <2>7 DEF FollowingIds
<1>9. ASSUME NEW i \in 1 .. m, IsResult(p, i)
      PROVE  \E k \in 1 .. i - 1 : /\ IsCalls(p, k) /\ i \in Following(p, k)
                                   /\ p[i].ids \subseteq p[k].ids
  <2>1. N(i) \in S /\ p[i] = s[N(i)] /\ N(i) \in PairedResults(s)
    BY <1>3, <1>7, <1>9 DEF IsResult
  <2>2. PICK q \in PairedCalls(s) : N(i) \in Following(s, q) /\ s[N(i)].ids \subseteq s[q].ids
    BY <2>1 DEF PairedResults
  <2>3. PICK k \in 1 .. m : N(k) = q
    BY <1>4, <2>2 DEF S
  <2>4. k < i /\ i \in Following(p, k) /\ p[k] = s[q]
    BY <1>3, <1>5, <2>2, <2>3
  <2>5. IsCalls(p, k)
    BY <2>4, <2>2 DEF IsCalls, PairedCalls
  <2>6. k \in 1 .. i - 1
    BY <1>3, <2>4
  <2> QED
    BY <2>1, <2>2, <2>4, <2>5, <2>6
<1>10. WellPaired(p)
  BY <1>3, <1>8, <1>9 DEF WellPaired
<1> QED
  BY <1>0, <1>3, <1>10

(* What sanitizeModelMessages is given well paired it leaves as it is: it takes
   nothing from a conversation that the provider would have accepted. *)
THEOREM SaneKeepsPaired ==
    ASSUME NEW s, Transcript(s), WellPaired(s)
    PROVE  sanitizeModelMessages(s) = s
<1> DEFINE n == Len(s)
           S == Unpaired(s) \cup PairedCalls(s) \cup PairedResults(s)
<1>1. s \in Seq(Event) /\ n \in Nat /\ DOMAIN s = 1 .. n
  BY LenProperties DEF Transcript
<1>2. S = DOMAIN s
  <2>1. S \subseteq DOMAIN s
    BY DEF Unpaired, PairedCalls, PairedResults
  <2>2. ASSUME NEW i \in DOMAIN s PROVE i \in S
    <3>1. CASE IsCalls(s, i)
      BY <3>1 DEF WellPaired, PairedCalls
    <3>2. CASE IsResult(s, i)
      <4>1. PICK k \in 1 .. i - 1 : /\ IsCalls(s, k) /\ i \in Following(s, k)
                                    /\ s[i].ids \subseteq s[k].ids
        BY <3>2 DEF WellPaired
      <4>2. k \in DOMAIN s
        BY <1>1
      <4>3. k \in PairedCalls(s)
        BY <4>1, <4>2 DEF WellPaired, PairedCalls
      <4> QED
        BY <4>1, <4>3 DEF PairedResults
    <3>3. CASE ~IsCalls(s, i) /\ ~IsResult(s, i)
      BY <3>3 DEF Unpaired
    <3> QED
      BY <3>1, <3>2, <3>3
  <2> HIDE DEF S
  <2> QED
    BY <2>1, <2>2
<1>3. \A k \in 1 .. n : Nth(1 .. n, k) = k
  <2>1. ASSUME NEW i \in 1 .. n PROVE Cardinality({j \in 1 .. n : j <= i}) = i
    <3>1. {j \in 1 .. n : j <= i} = 1 .. i
      BY <1>1
    <3>2. i \in Nat /\ 1 <= i
      BY <1>1
    <3>3. Cardinality(1 .. i) = i
      BY <3>2, FS_Interval
    <3> QED
      BY <3>1, <3>3
  <2> QED
    BY <2>1 DEF Nth
<1>4. Cardinality(1 .. n) = n
  BY <1>1, FS_Interval
<1>5. sanitizeModelMessages(s) = Pick(s, 1 .. n)
  BY <1>1, <1>2 DEF sanitizeModelMessages
<1> HIDE DEF n
<1>6. Pick(s, 1 .. n) = [k \in 1 .. n |-> s[k]]
  BY <1>3, <1>4 DEF Pick
<1>7. s = [k \in 1 .. n |-> s[k]]
  BY <1>1
<1> QED
  BY <1>5, <1>6, <1>7

-----------------------------------------------------------------------------
(* Two conversations, one after the other. *)
LEMMA ConcatFacts ==
    ASSUME NEW s, Transcript(s), NEW t, Transcript(t)
    PROVE  /\ Len(s) \in Nat /\ DOMAIN s = 1 .. Len(s)
           /\ Len(t) \in Nat /\ DOMAIN t = 1 .. Len(t)
           /\ Len(s \o t) = Len(s) + Len(t) /\ DOMAIN (s \o t) = 1 .. Len(s) + Len(t)
           /\ \A i \in 1 .. Len(s) : (s \o t)[i] = s[i]
           /\ \A i \in 1 .. Len(t) : (s \o t)[Len(s) + i] = t[i]
           /\ Transcript(s \o t)
<1> DEFINE st == s \o t
           m == Len(s)
           n == Len(t)
<1>1. /\ s \in Seq(Event) /\ t \in Seq(Event) /\ m \in Nat /\ n \in Nat
      /\ DOMAIN s = 1 .. m /\ DOMAIN t = 1 .. n
  BY LenProperties DEF Transcript
<1>2. /\ st \in Seq(Event) /\ Len(st) = m + n
      /\ \A i \in 1 .. m + n : st[i] = IF i <= m THEN s[i] ELSE t[i - m]
  BY <1>1, ConcatProperties
<1>3. DOMAIN st = 1 .. m + n
  BY <1>2, LenProperties
<1> HIDE DEF st, m, n
<1>4. \A i \in 1 .. m : st[i] = s[i]
  BY <1>1, <1>2
<1>5. ASSUME NEW i \in 1 .. n PROVE st[m + i] = t[i]
  <2>1. m + i \in 1 .. m + n /\ ~ (m + i <= m) /\ (m + i) - m = i
    BY <1>1
  <2> QED
    BY <1>2, <2>1
<1>6. ASSUME NEW i \in 1 .. m + n, IsResult(st, i)
      PROVE  \E c \in st[i].ids : st[i].ids = {c}
  <2>1. i \in 1 .. m \/ (i - m \in 1 .. n /\ i = m + (i - m))
    BY <1>1
  <2>2. CASE i \in 1 .. m
    BY <1>1, <1>4, <1>6, <2>2 DEF Transcript, IsResult
  <2>3. CASE i - m \in 1 .. n /\ i = m + (i - m)
    <3>1. st[i] = t[i - m] /\ i - m \in DOMAIN t
      BY <1>1, <1>5, <2>3
    <3>2. IsResult(t, i - m)
      BY <1>6, <3>1 DEF IsResult
    <3> QED
      BY <3>1, <3>2 DEF Transcript
  <2> QED
    BY <2>1, <2>2, <2>3
<1>7. Transcript(st)
  BY <1>2, <1>3, <1>6 DEF Transcript
<1> QED
  BY <1>1, <1>2, <1>3, <1>4, <1>5, <1>7 DEF st, m, n

LEMMA ConcatWellPaired ==
    ASSUME NEW s, Transcript(s), WellPaired(s), NEW t, Transcript(t), WellPaired(t)
    PROVE  WellPaired(s \o t)
<1> DEFINE st == s \o t
           m == Len(s)
           n == Len(t)
<1>1. /\ m \in Nat /\ n \in Nat /\ DOMAIN s = 1 .. m /\ DOMAIN t = 1 .. n
      /\ Len(st) = m + n /\ DOMAIN st = 1 .. m + n
      /\ \A i \in 1 .. m : st[i] = s[i]
      /\ \A i \in 1 .. n : st[m + i] = t[i]
  BY ConcatFacts
<1> HIDE DEF st
<1>2. ASSUME NEW i \in 1 .. m, NEW j \in Following(s, i)
      PROVE  j \in 1 .. m /\ j \in Following(st, i)
  <2>1. j \in i + 1 .. m /\ \A k \in i + 1 .. j : IsResult(s, k)
    BY DEF Following
  <2>2. j \in 1 .. m /\ j \in i + 1 .. Len(st)
    BY <1>1, <2>1
  <2>3. ASSUME NEW k \in i + 1 .. j PROVE IsResult(st, k)
    <3>1. k \in 1 .. m
      BY <1>1, <2>1
    <3> QED
      BY <1>1, <2>1, <3>1 DEF IsResult
  <2> QED
    BY <2>2, <2>3 DEF Following
<1>3. ASSUME NEW i \in 1 .. n, NEW j \in Following(t, i)
      PROVE  j \in 1 .. n /\ m + j \in Following(st, m + i)
  <2>1. j \in i + 1 .. n /\ \A k \in i + 1 .. j : IsResult(t, k)
    BY DEF Following
  <2>2. j \in 1 .. n /\ m + j \in (m + i) + 1 .. Len(st)
    BY <1>1, <2>1
  <2>3. ASSUME NEW k \in (m + i) + 1 .. m + j PROVE IsResult(st, k)
    <3>1. k - m \in i + 1 .. j /\ k - m \in 1 .. n /\ k = m + (k - m)
      BY <1>1, <2>1
    <3> QED
      BY <1>1, <2>1, <3>1 DEF IsResult
  <2> QED
    BY <2>2, <2>3 DEF Following
<1> HIDE DEF m, n
<1>4. ASSUME NEW i \in 1 .. m, IsCalls(st, i)
      PROVE  st[i].ids \subseteq FollowingIds(st, i)
  <2>1. s[i].ids \subseteq FollowingIds(s, i) /\ st[i] = s[i]
    BY <1>1, <1>4 DEF WellPaired, IsCalls
  <2>2. FollowingIds(s, i) \subseteq FollowingIds(st, i)
    BY <1>1, <1>2 DEF FollowingIds
  <2> QED
    BY <2>1, <2>2
<1>5. ASSUME NEW i \in 1 .. n, IsCalls(st, m + i)
      PROVE  st[m + i].ids \subseteq FollowingIds(st, m + i)
  <2>1. t[i].ids \subseteq FollowingIds(t, i) /\ st[m + i] = t[i]
    BY <1>1, <1>5 DEF WellPaired, IsCalls
  <2>2. FollowingIds(t, i) \subseteq FollowingIds(st, m + i)
    BY <1>1, <1>3 DEF FollowingIds
  <2> QED
    BY <2>1, <2>2
<1>6. ASSUME NEW i \in 1 .. m, IsResult(st, i)
      PROVE  \E k \in 1 .. i - 1 : /\ IsCalls(st, k) /\ i \in Following(st, k)
                                   /\ st[i].ids \subseteq st[k].ids
  <2>1. IsResult(s, i) /\ st[i] = s[i] /\ i \in DOMAIN s
    BY <1>1, <1>6 DEF IsResult
  <2>2. PICK k \in 1 .. i - 1 : /\ IsCalls(s, k) /\ i \in Following(s, k)
                                /\ s[i].ids \subseteq s[k].ids
    BY <2>1 DEF WellPaired
  <2>3. k \in 1 .. m
    BY <1>1
  <2> QED
    BY <1>1, <1>2, <2>1, <2>2, <2>3 DEF IsCalls
<1>7. ASSUME NEW i \in 1 .. n, IsResult(st, m + i)
      PROVE  \E k \in 1 .. (m + i) - 1 :
                /\ IsCalls(st, k) /\ m + i \in Following(st, k)
                /\ st[m + i].ids \subseteq st[k].ids
  <2>1. IsResult(t, i) /\ st[m + i] = t[i] /\ i \in DOMAIN t
    BY <1>1, <1>7 DEF IsResult
  <2>2. PICK k \in 1 .. i - 1 : /\ IsCalls(t, k) /\ i \in Following(t, k)
                                /\ t[i].ids \subseteq t[k].ids
    BY <2>1 DEF WellPaired
  <2>3. k \in 1 .. n /\ m + k \in 1 .. (m + i) - 1
    BY <1>1
  <2>4. IsCalls(st, m + k) /\ m + i \in Following(st, m + k)
        /\ st[m + i].ids \subseteq st[m + k].ids
    BY <1>1, <1>3, <2>1, <2>2, <2>3 DEF IsCalls
  <2> QED
    BY <2>3, <2>4
<1>8. ASSUME NEW i \in 1 .. m + n
      PROVE  i \in 1 .. m \/ \E q \in 1 .. n : i = m + q
  <2>1. ~ (i \in 1 .. m) => i - m \in 1 .. n /\ i = m + (i - m)
    BY <1>1
  <2> QED
    BY <2>1
<1>9. ASSUME NEW i \in DOMAIN st
      PROVE  /\ IsCalls(st, i) => st[i].ids \subseteq FollowingIds(st, i)
             /\ IsResult(st, i) =>
                   \E k \in 1 .. i - 1 : /\ IsCalls(st, k)
                                         /\ i \in Following(st, k)
                                         /\ st[i].ids \subseteq st[k].ids
  <2>1. CASE i \in 1 .. m
    BY <1>4, <1>6, <2>1
  <2>2. CASE \E q \in 1 .. n : i = m + q
    BY <1>5, <1>7, <2>2
  <2> QED
    BY <1>1, <1>8, <2>1, <2>2
<1> QED
  BY <1>9 DEF WellPaired, st

(* The calls and results of both. *)
LEMMA ConcatIds ==
    ASSUME NEW s, Transcript(s), NEW t, Transcript(t)
    PROVE  /\ Called(s \o t) = Called(s) \cup Called(t)
           /\ Results(s \o t) = Results(s) \cup Results(t)
<1> DEFINE st == s \o t
           m == Len(s)
           n == Len(t)
<1>1. /\ m \in Nat /\ n \in Nat /\ DOMAIN s = 1 .. m /\ DOMAIN t = 1 .. n
      /\ DOMAIN st = 1 .. m + n
      /\ \A i \in 1 .. m : st[i] = s[i]
      /\ \A i \in 1 .. n : st[m + i] = t[i]
  BY ConcatFacts
<1> HIDE DEF st, m, n
<1>2. ASSUME NEW i \in DOMAIN st
      PROVE  \/ i \in DOMAIN s /\ st[i] = s[i]
             \/ \E q \in DOMAIN t : st[i] = t[q]
  <2>1. ~ (i \in 1 .. m) => i - m \in 1 .. n /\ i = m + (i - m)
    BY <1>1
  <2> QED
    BY <1>1, <2>1
<1>3. \A i \in DOMAIN s : i \in DOMAIN st /\ st[i] = s[i]
  BY <1>1
<1>4. \A i \in DOMAIN t : m + i \in DOMAIN st /\ st[m + i] = t[i]
  BY <1>1
<1>5. Called(st) = Called(s) \cup Called(t)
  <2>1. Called(s) \subseteq Called(st)
    BY <1>3 DEF Called, IsCalls
  <2>2. Called(t) \subseteq Called(st)
    BY <1>4 DEF Called, IsCalls
  <2>3. Called(st) \subseteq Called(s) \cup Called(t)
    BY <1>2 DEF Called, IsCalls
  <2> QED
    BY <2>1, <2>2, <2>3
<1>6. Results(st) = Results(s) \cup Results(t)
  <2>1. Results(s) \subseteq Results(st)
    BY <1>3 DEF Results, IsResult
  <2>2. Results(t) \subseteq Results(st)
    BY <1>4 DEF Results, IsResult
  <2>3. Results(st) \subseteq Results(s) \cup Results(t)
    BY <1>2 DEF Results, IsResult
  <2> QED
    BY <2>1, <2>2, <2>3
<1> QED
  BY <1>5, <1>6 DEF st

(* A conversation names finitely many calls, none of them None. *)
LEMMA IdsFacts ==
    ASSUME NEW s, Transcript(s)
    PROVE  /\ Called(s) \subseteq Nat \ {0} /\ Results(s) \subseteq Nat \ {0}
           /\ \A i \in DOMAIN s : s[i] \in Event
<1>1. \A i \in DOMAIN s : s[i] \in Event
  BY ElementOfSeq, LenProperties DEF Transcript
<1>2. \A i \in DOMAIN s : s[i].ids \subseteq Nat \ {0}
  BY <1>1 DEF Event
<1> QED
  BY <1>1, <1>2 DEF Called, Results

LEMMA ConcatAlone ==
    ASSUME NEW s, Transcript(s), AnsweredAlone(s),
           NEW t, Transcript(t), AnsweredAlone(t),
           Results(s) \cap Results(t) = {}
    PROVE  AnsweredAlone(s \o t)
<1> DEFINE st == s \o t
           m == Len(s)
           n == Len(t)
<1>1. /\ m \in Nat /\ n \in Nat /\ DOMAIN s = 1 .. m /\ DOMAIN t = 1 .. n
      /\ DOMAIN st = 1 .. m + n
      /\ \A i \in 1 .. m : st[i] = s[i]
      /\ \A i \in 1 .. n : st[m + i] = t[i]
  BY ConcatFacts
<1> HIDE DEF st, m, n
<1>2. ASSUME NEW i \in DOMAIN st
      PROVE  \/ i \in DOMAIN s /\ st[i] = s[i]
             \/ \E q \in DOMAIN t : i = m + q /\ st[i] = t[q]
  <2>1. ~ (i \in 1 .. m) => i - m \in 1 .. n /\ i = m + (i - m)
    BY <1>1
  <2> QED
    BY <1>1, <2>1
<1>3. \A i \in DOMAIN s : IsResult(s, i) => s[i].ids # {} /\ s[i].ids \subseteq Results(s)
  BY DEF Transcript, Results
<1>4. \A i \in DOMAIN t : IsResult(t, i) => t[i].ids \subseteq Results(t)
  BY DEF Results
<1>5. ASSUME NEW i \in DOMAIN s, NEW q \in DOMAIN t, IsResult(s, i), IsResult(t, q)
      PROVE  s[i].ids # t[q].ids
  BY <1>3, <1>4, <1>5
<1>6. ASSUME NEW i \in DOMAIN st, NEW j \in DOMAIN st, IsResult(st, i), IsResult(st, j),
             st[i].ids = st[j].ids
      PROVE  i = j
  <2>1. CASE i \in DOMAIN s /\ st[i] = s[i]
    <3>1. CASE j \in DOMAIN s /\ st[j] = s[j]
      BY <1>6, <2>1, <3>1 DEF AnsweredAlone, IsResult
    <3>2. CASE \E q \in DOMAIN t : j = m + q /\ st[j] = t[q]
      BY <1>5, <1>6, <2>1, <3>2 DEF IsResult
    <3> QED
      BY <1>2, <3>1, <3>2
  <2>2. CASE \E q \in DOMAIN t : i = m + q /\ st[i] = t[q]
    <3>1. CASE j \in DOMAIN s /\ st[j] = s[j]
      BY <1>5, <1>6, <2>2, <3>1 DEF IsResult
    <3>2. CASE \E q \in DOMAIN t : j = m + q /\ st[j] = t[q]
      BY <1>6, <2>2, <3>2 DEF AnsweredAlone, IsResult
    <3> QED
      BY <1>2, <3>1, <3>2
  <2> QED
    BY <1>2, <2>1, <2>2
<1> QED
  BY <1>6 DEF AnsweredAlone, st

-----------------------------------------------------------------------------
(* Where a call has its results. *)
LEMMA AnswersFacts ==
    ASSUME NEW s, Transcript(s), NEW c
    PROVE  /\ IsFiniteSet(Answers(s, c)) /\ Cardinality(Answers(s, c)) \in Nat
           /\ c \notin Results(s) => Answers(s, c) = {} /\ Cardinality(Answers(s, c)) = 0
           /\ AnsweredAlone(s) => Cardinality(Answers(s, c)) <= 1
<1> DEFINE A == Answers(s, c)
<1>1. \A i \in A : i \in DOMAIN s /\ IsResult(s, i) /\ s[i].ids = {c}
  BY DEF Answers, Result, IsResult
<1>2. IsFiniteSet(A)
  <2>1. Len(s) \in Nat /\ DOMAIN s = 1 .. Len(s)
    BY LenProperties DEF Transcript
  <2>2. IsFiniteSet(1 .. Len(s))
    BY <2>1, FS_Interval
  <2>3. A \subseteq 1 .. Len(s)
    BY <1>1, <2>1
  <2> QED
    BY <2>2, <2>3, FS_Subset
<1>3. Cardinality(A) \in Nat
  BY <1>2, FS_CardinalityType
<1>4. c \notin Results(s) => A = {}
  BY <1>1 DEF Results
<1> HIDE DEF A
<1>5. A = {} => Cardinality(A) = 0
  BY FS_EmptySet
<1>6. AnsweredAlone(s) => \A i, j \in A : i = j
  BY <1>1 DEF AnsweredAlone
<1>7. (\A i, j \in A : i = j) => Cardinality(A) <= 1
  <2>1. CASE A = {}
    BY <1>5, <2>1
  <2>2. CASE A # {}
    <3>1. PICK i : i \in A
      BY <2>2
    <3>2. ASSUME \A k, j \in A : k = j PROVE A = {i}
      BY <3>1, <3>2
    <3>3. Cardinality({i}) = 1
      BY FS_Singleton
    <3> QED
      BY <1>3, <3>2, <3>3
  <2> QED
    BY <2>1, <2>2
<1> QED
  BY <1>2, <1>3, <1>4, <1>5, <1>6, <1>7 DEF A

LEMMA AnswersOfConcat ==
    ASSUME NEW s, Transcript(s), NEW t, Transcript(t), NEW c
    PROVE  /\ c \notin Results(t) => Answers(s \o t, c) = Answers(s, c)
           /\ c \notin Results(s) /\ AnsweredAlone(t) =>
                 Cardinality(Answers(s \o t, c)) <= 1
           /\ Len(t) = 1 =>
                 Cardinality(Answers(s \o t, c)) <= Cardinality(Answers(s, c)) + 1
<1> DEFINE st == s \o t
           m == Len(s)
           n == Len(t)
<1>1. /\ m \in Nat /\ n \in Nat /\ DOMAIN s = 1 .. m /\ DOMAIN t = 1 .. n
      /\ DOMAIN st = 1 .. m + n
      /\ \A i \in 1 .. m : st[i] = s[i]
      /\ \A i \in 1 .. n : st[m + i] = t[i]
      /\ Transcript(st)
  <2>1. /\ m \in Nat /\ n \in Nat /\ DOMAIN s = 1 .. m /\ DOMAIN t = 1 .. n
        /\ DOMAIN st = 1 .. m + n /\ Transcript(st)
    BY ConcatFacts
  <2>2. /\ \A i \in 1 .. m : st[i] = s[i]
        /\ \A i \in 1 .. n : st[m + i] = t[i]
    BY ConcatFacts
  <2> QED
    BY <2>1, <2>2
<1> HIDE DEF st, m, n
<1>2. ASSUME NEW i \in DOMAIN st
      PROVE  \/ i \in DOMAIN s /\ st[i] = s[i]
             \/ \E q \in DOMAIN t : i = m + q /\ st[i] = t[q]
  <2>1. ~ (i \in 1 .. m) => i - m \in 1 .. n /\ i = m + (i - m)
    BY <1>1
  <2> QED
    BY <1>1, <2>1
<1>3. \A i \in Answers(s, c) : i \in Answers(st, c)
  BY <1>1 DEF Answers
<1>4. \A i \in Answers(st, c) : \/ i \in Answers(s, c)
                                \/ \E q \in Answers(t, c) : i = m + q
  BY <1>2 DEF Answers
<1>5. c \notin Results(t) => Answers(st, c) = Answers(s, c)
  <2>1. c \notin Results(t) => Answers(t, c) = {}
    BY AnswersFacts
  <2> QED
    BY <1>3, <1>4, <2>1
<1>6. /\ IsFiniteSet(Answers(s, c)) /\ Cardinality(Answers(s, c)) \in Nat
      /\ IsFiniteSet(Answers(st, c)) /\ Cardinality(Answers(st, c)) \in Nat
      /\ c \notin Results(s) => Answers(s, c) = {}
  BY <1>1, AnswersFacts
<1>7. ASSUME Len(t) = 1
      PROVE  Cardinality(Answers(st, c)) <= Cardinality(Answers(s, c)) + 1
  <2> DEFINE B == Answers(s, c) \cup {m + 1}
  <2>1. \A q \in Answers(t, c) : q = 1
    BY <1>1, <1>7 DEF Answers, n
  <2>2. Answers(st, c) \subseteq B
    BY <1>4, <2>1
  <2>3. /\ IsFiniteSet(B)
        /\ Cardinality(B) = Cardinality(Answers(s, c))
           \/ Cardinality(B) = Cardinality(Answers(s, c)) + 1
    BY <1>6, FS_AddElement
  <2>4. Cardinality(Answers(st, c)) <= Cardinality(B)
    BY <2>2, <2>3, FS_Subset
  <2> HIDE DEF B
  <2> QED
    BY <1>6, <2>3, <2>4
<1>8. ASSUME c \notin Results(s), AnsweredAlone(t)
      PROVE  Cardinality(Answers(st, c)) <= 1
  <2>1. Answers(s, c) = {}
    BY <1>6, <1>8
  <2>2. \A i, j \in Answers(t, c) : i = j
    BY <1>8 DEF Answers, AnsweredAlone, Result, IsResult
  <2>3. \A i, j \in Answers(st, c) : i = j
    BY <1>4, <2>1, <2>2
  <2>4. CASE Answers(st, c) = {}
    BY <2>4, FS_EmptySet
  <2>5. CASE Answers(st, c) # {}
    <3>1. PICK i : Answers(st, c) = {i}
      BY <2>3, <2>5
    <3>2. Cardinality({i}) = 1
      BY FS_Singleton
    <3> QED
      BY <3>1, <3>2
  <2> QED
    BY <2>4, <2>5
<1> QED
  BY <1>5, <1>7, <1>8 DEF st

-----------------------------------------------------------------------------
(* What a new turn is shown. *)
LEMMA BuiltIsWellPaired ==
    ASSUME NEW s, Transcript(s)
    PROVE  /\ Transcript(buildModelMessages(s))
           /\ WellPaired(buildModelMessages(s))
<1> DEFINE answered == {i \in DOMAIN s : IsCalls(s, i) => s[i].ids \subseteq Results(s)}
           allowed == Pick(s, answered)
           from == 1 + (IF Len(allowed) > Window THEN Len(allowed) - Window ELSE 0)
           window == SubSeq(allowed, from, Len(allowed))
           unknown == {i \in DOMAIN window :
                          IsResult(window, i) /\ ~(window[i].ids \subseteq Called(window))}
           known == Pick(window, DOMAIN window \ unknown)
<1>1. buildModelMessages(s) = sanitizeModelMessages(known)
  BY DEF buildModelMessages
<1>2. Transcript(allowed)
  <2>1. answered \in SUBSET DOMAIN s
    OBVIOUS
  <2> QED
    BY <2>1, PickFacts
<1> HIDE DEF allowed
<1>3. allowed \in Seq(Event) /\ Len(allowed) \in Nat /\ DOMAIN allowed = 1 .. Len(allowed)
  BY <1>2, LenProperties DEF Transcript
<1>4. from \in 1 .. Len(allowed) + 1
  BY <1>3, Bounds
<1> HIDE DEF from
<1>5. /\ window \in Seq(Event)
      /\ Len(window) = IF from <= Len(allowed) THEN Len(allowed) - from + 1 ELSE 0
      /\ \A i \in 1 .. Len(window) : window[i] = allowed[from + i - 1]
  BY <1>3, <1>4, SubSeqProperties
<1>6. DOMAIN window = 1 .. Len(window)
  BY <1>5, LenProperties
<1> HIDE DEF window
<1>7. \A i \in 1 .. Len(window) : from + i - 1 \in DOMAIN allowed
  BY <1>3, <1>4, <1>5
<1>8. Transcript(window)
  <2> SUFFICES ASSUME NEW i \in 1 .. Len(window), IsResult(window, i)
               PROVE  \E c \in window[i].ids : window[i].ids = {c}
    BY <1>5, <1>6 DEF Transcript
  <2> DEFINE k == from + i - 1
  <2>1. k \in DOMAIN allowed /\ window[i] = allowed[k]
    BY <1>5, <1>7
  <2> HIDE DEF k
  <2>2. IsResult(allowed, k)
    BY <2>1 DEF IsResult
  <2> QED
    BY <1>2, <2>1, <2>2 DEF Transcript
<1>9. Transcript(known)
  BY <1>8, PickFacts
<1> HIDE DEF known
<1> QED
  BY <1>1, <1>9, SaneIsWellPaired

-----------------------------------------------------------------------------
(* The batches of events a round appends. *)
LEMMA EventFacts ==
    ASSUME NEW n \in Nat, NEW c \in Nat \ {0}, NEW d \in Nat \ {0}
    PROVE  /\ User(n) \in Event /\ Text(n) \in Event /\ Calls(n, {c}) \in Event
           /\ Calls(n, {c, d}) \in Event /\ Result(n, c) \in Event
  BY DEF User, Text, Calls, Result, Event

LEMMA OneEvent ==
    ASSUME NEW e \in Event, e.kind = "result" => \E c \in e.ids : e.ids = {c}
    PROVE  /\ Transcript(<<e>>) /\ AnsweredAlone(<<e>>) /\ Len(<<e>>) = 1
           /\ Called(<<e>>) = IF e.kind = "calls" THEN e.ids ELSE {}
           /\ Results(<<e>>) = IF e.kind = "result" THEN e.ids ELSE {}
           /\ e.kind \notin {"calls", "result"} => WellPaired(<<e>>)
<1> DEFINE s == <<e>>
<1>1. s \in Seq(Event) /\ Len(s) = 1 /\ DOMAIN s = {1} /\ s[1] = e
  OBVIOUS
<1> HIDE DEF s
<1>2. Transcript(s)
  BY <1>1 DEF Transcript, IsResult
<1>3. Called(s) = IF e.kind = "calls" THEN e.ids ELSE {}
  BY <1>1 DEF Called, IsCalls
<1>4. Results(s) = IF e.kind = "result" THEN e.ids ELSE {}
  BY <1>1 DEF Results, IsResult
<1>5. AnsweredAlone(s)
  BY <1>1 DEF AnsweredAlone
<1>6. e.kind \notin {"calls", "result"} => WellPaired(s)
  BY <1>1 DEF WellPaired, IsCalls, IsResult
<1> QED
  BY <1>1, <1>2, <1>3, <1>4, <1>5, <1>6 DEF s

LEMMA CallAnswered ==
    ASSUME NEW n \in Nat, NEW c \in Nat \ {0}
    PROVE  LET b == <<Calls(n, {c}), Result(n, c)>> IN
           /\ Transcript(b) /\ AnsweredAlone(b) /\ WellPaired(b)
           /\ Called(b) = {c} /\ Results(b) = {c}
<1> DEFINE b == <<Calls(n, {c}), Result(n, c)>>
<1>1. /\ b \in Seq(Event) /\ Len(b) = 2 /\ DOMAIN b = 1 .. 2
      /\ b[1] = Calls(n, {c}) /\ b[2] = Result(n, c)
  BY EventFacts
<1>2. /\ b[1].kind = "calls" /\ b[1].ids = {c}
      /\ b[2].kind = "result" /\ b[2].ids = {c}
  BY <1>1 DEF Calls, Result
<1> HIDE DEF b
<1>3. \A i \in DOMAIN b : (IsResult(b, i) <=> i = 2) /\ (IsCalls(b, i) <=> i = 1)
  BY <1>1, <1>2 DEF IsResult, IsCalls
<1>4. Transcript(b)
  BY <1>1, <1>2, <1>3 DEF Transcript
<1>5. AnsweredAlone(b)
  BY <1>3 DEF AnsweredAlone
<1>6. Called(b) = {c} /\ Results(b) = {c}
  <2>1. {j \in DOMAIN b : IsCalls(b, j)} = {1} /\ {j \in DOMAIN b : IsResult(b, j)} = {2}
    BY <1>1, <1>3
  <2> QED
    BY <1>2, <2>1 DEF Called, Results
<1>7. 2 \in Following(b, 1)
  BY <1>1, <1>3 DEF Following
<1>8. c \in FollowingIds(b, 1)
  BY <1>2, <1>7 DEF FollowingIds
<1>9. WellPaired(b)
  <2>1. DOMAIN b = {1, 2} /\ 1 \in 1 .. 2 - 1 /\ IsCalls(b, 1) /\ IsResult(b, 2)
        /\ ~IsResult(b, 1) /\ ~IsCalls(b, 2)
    BY <1>1, <1>3
  <2> QED
    BY <1>2, <1>7, <1>8, <2>1 DEF WellPaired
<1> QED
  BY <1>4, <1>5, <1>6, <1>9 DEF b

LEMMA CallsAnswered ==
    ASSUME NEW n \in Nat, NEW c \in Nat \ {0}, NEW d \in Nat \ {0}, c # d
    PROVE  LET b == <<Calls(n, {c, d}), Result(n, c), Result(n, d)>> IN
           /\ Transcript(b) /\ AnsweredAlone(b) /\ WellPaired(b)
           /\ Called(b) = {c, d} /\ Results(b) = {c, d}
<1> DEFINE b == <<Calls(n, {c, d}), Result(n, c), Result(n, d)>>
<1>1. /\ b \in Seq(Event) /\ Len(b) = 3 /\ DOMAIN b = 1 .. 3
      /\ b[1] = Calls(n, {c, d}) /\ b[2] = Result(n, c) /\ b[3] = Result(n, d)
  <2>1. /\ Calls(n, {c, d}) \in Event /\ Result(n, c) \in Event
        /\ Result(n, d) \in Event
    BY EventFacts
  <2> QED
    BY <2>1
<1>2. /\ b[1].kind = "calls" /\ b[1].ids = {c, d}
      /\ b[2].kind = "result" /\ b[2].ids = {c}
      /\ b[3].kind = "result" /\ b[3].ids = {d}
  BY <1>1 DEF Calls, Result
<1> HIDE DEF b
<1>0. DOMAIN b = {1, 2, 3}
  BY <1>1
<1>3. /\ IsCalls(b, 1) /\ ~IsCalls(b, 2) /\ ~IsCalls(b, 3)
      /\ ~IsResult(b, 1) /\ IsResult(b, 2) /\ IsResult(b, 3)
  BY <1>2 DEF IsResult, IsCalls
<1>4. Transcript(b)
  BY <1>0, <1>1, <1>2, <1>3 DEF Transcript
<1>5. AnsweredAlone(b)
  BY <1>0, <1>2, <1>3 DEF AnsweredAlone
<1>6. Called(b) = {c, d}
  BY <1>0, <1>2, <1>3 DEF Called
<1>7. Results(b) = {c, d}
  <2>1. c \in Results(b) /\ d \in Results(b)
    BY <1>0, <1>2, <1>3 DEF Results
  <2>2. \A x \in Results(b) : x = c \/ x = d
    BY <1>0, <1>2, <1>3 DEF Results
  <2> QED
    BY <2>1, <2>2
<1>8. 2 \in Following(b, 1) /\ 3 \in Following(b, 1)
  <2>1. \A q \in 1 + 1 .. 2 : q = 2
    OBVIOUS
  <2>2. \A q \in 1 + 1 .. 3 : q = 2 \/ q = 3
    OBVIOUS
  <2>3. 2 \in 1 + 1 .. 3 /\ 3 \in 1 + 1 .. 3
    OBVIOUS
  <2> QED
    BY <1>1, <1>3, <2>1, <2>2, <2>3 DEF Following
<1>9. c \in FollowingIds(b, 1) /\ d \in FollowingIds(b, 1)
  BY <1>2, <1>8 DEF FollowingIds
<1>10. 1 \in 1 .. 2 - 1 /\ 1 \in 1 .. 3 - 1
  OBVIOUS
<1>11. WellPaired(b)
  BY <1>0, <1>2, <1>3, <1>8, <1>9, <1>10 DEF WellPaired
<1> QED
  BY <1>4, <1>5, <1>6, <1>7, <1>11 DEF b

LEMMA EmptyFacts ==
    /\ Transcript(<<>>) /\ WellPaired(<<>>) /\ AnsweredAlone(<<>>)
    /\ Called(<<>>) = {} /\ Results(<<>>) = {}
<1>1. <<>> \in Seq(Event) /\ DOMAIN <<>> = {}
  OBVIOUS
<1> QED
  BY <1>1 DEF Transcript, WellPaired, AnsweredAlone, Called, Results

-----------------------------------------------------------------------------
(* The inductive invariant. *)
LEMMA OneMore ==
    ASSUME NEW A, IsFiniteSet(A), NEW x, NEW B, B \subseteq A \cup {x}
    PROVE  /\ IsFiniteSet(B) /\ Cardinality(B) \in Nat /\ Cardinality(A) \in Nat
           /\ Cardinality(B) <= Cardinality(A) + 1
           /\ B \subseteq A => Cardinality(B) <= Cardinality(A)
<1>1. /\ IsFiniteSet(A \cup {x}) /\ Cardinality(A) \in Nat
      /\ \/ Cardinality(A \cup {x}) = Cardinality(A)
         \/ Cardinality(A \cup {x}) = Cardinality(A) + 1
  BY FS_AddElement, FS_CardinalityType
<1>2. IsFiniteSet(B) /\ Cardinality(B) <= Cardinality(A \cup {x})
  BY <1>1, FS_Subset
<1>3. Cardinality(B) \in Nat
  BY <1>2, FS_CardinalityType
<1>4. B \subseteq A => Cardinality(B) <= Cardinality(A)
  BY FS_Subset
<1> QED
  BY <1>1, <1>2, <1>3, <1>4

LEMMA NoRunFacts ==
    /\ NoRun \in [turn : Nat, seen : Seq(Event), first : Event, resumed : BOOLEAN,
                  answer : Nat, out : Seq(Event), rounds : Nat]
    /\ NoRun.seen = <<>> /\ NoRun.out = <<>> /\ NoRun.first.kind = "user"
    /\ Transcript(<<NoRun.first>>)
<1>1. User(None) \in Event /\ User(None).kind = "user" /\ NoRun.first = User(None)
  BY DEF User, Event, None, NoRun
<1>2. Transcript(<<NoRun.first>>)
  BY <1>1, OneEvent
<1> QED
  BY <1>1, <1>2 DEF NoRun, None

LEMMA StartInv == SessionInit => SessionInv
<1> SUFFICES ASSUME SessionInit PROVE SessionInv
  OBVIOUS
<1>1. /\ journal = <<>> /\ mem = <<>> /\ snap = NoSnap /\ up = TRUE
      /\ pending = NoQuestion /\ run = NoRun
      /\ used = [lines |-> 0, jobs |-> 0, turns |-> 0, calls |-> 0, faults |-> 0,
                 crashes |-> 0, cancels |-> 0]
  BY DEF SessionInit
<1>2. pending.call = 0
  BY <1>1 DEF NoQuestion, None
<1>3. ConversationTypes
  BY <1>1, EmptyFacts, NoRunFacts DEF ConversationTypes, Question
<1>4. GoneInv
  BY <1>1 DEF GoneInv
<1>5. TurnInv
  BY <1>1, EmptyFacts, NoRunFacts DEF TurnInv
<1>6. NumberedInv
  BY <1>1, <1>2, EmptyFacts, NoRunFacts DEF NumberedInv
<1>7. AnswersInv
  BY <1>1 DEF AnswersInv
<1>8. QuestionStaysOpen
  <2>1. (Called(journal) \ Results(journal)) \ {pending.call} = {}
    BY <1>1, EmptyFacts
  <2> QED
    BY <1>1, <2>1, FS_EmptySet DEF QuestionStaysOpen
<1> QED
  BY <1>3, <1>4, <1>5, <1>6, <1>7, <1>8 DEF SessionInv

(* The facts about calls and numbers that the steps below share. *)
LEMMA InvFacts ==
    ASSUME SessionInv
    PROVE  /\ used \in [lines : Nat, jobs : Nat, turns : Nat, calls : Nat, faults : Nat,
                        crashes : Nat, cancels : Nat]
           /\ Transcript(journal) /\ Transcript(mem) /\ Transcript(run.seen)
           /\ Transcript(run.out)
           /\ pending \in Question /\ pending.call \in 0 .. used.calls
           /\ IsFiniteSet(Called(journal) \ Results(journal))
           /\ Called(journal) \subseteq 1 .. used.calls
           /\ Results(journal) \subseteq 1 .. used.calls
           /\ Results(run.out) \subseteq 1 .. used.calls
<1>1. /\ ConversationTypes /\ NumberedInv
  BY DEF SessionInv
<1>2. /\ used \in [lines : Nat, jobs : Nat, turns : Nat, calls : Nat, faults : Nat,
                   crashes : Nat, cancels : Nat]
      /\ Transcript(journal) /\ Transcript(mem) /\ Transcript(run.seen)
      /\ Transcript(run.out) /\ pending \in Question
  BY <1>1 DEF ConversationTypes
<1>3. used.calls \in Nat
  BY <1>2
<1>4. /\ Called(journal) \subseteq Nat \ {0} /\ Results(journal) \subseteq Nat \ {0}
      /\ Results(run.out) \subseteq Nat \ {0}
  BY <1>2, IdsFacts
<1>5. /\ Called(journal) \subseteq 0 .. used.calls
      /\ Results(journal) \subseteq 0 .. used.calls
      /\ Results(run.out) \subseteq 0 .. used.calls
      /\ pending.call \in 0 .. used.calls
  BY <1>1 DEF NumberedInv
<1>6. /\ Called(journal) \subseteq 1 .. used.calls
      /\ Results(journal) \subseteq 1 .. used.calls
      /\ Results(run.out) \subseteq 1 .. used.calls
  BY <1>3, <1>4, <1>5
<1>7. IsFiniteSet(Called(journal) \ Results(journal))
  <2>1. IsFiniteSet(0 .. used.calls)
    BY <1>3, FS_Interval
  <2> QED
    BY <1>5, <2>1, FS_Subset
<1> QED
  BY <1>2, <1>5, <1>6, <1>7

(* Steps that append nothing and leave the question alone. *)
LEMMA SessionQuiet ==
    ASSUME SessionInv, journal' = journal, pending' = pending, up' = up,
           snap' \in {snap, [saved |-> TRUE, pending |-> pending]},
           run' \in {run, NoRun}, mem' \in {mem, journal},
           used' \in [lines : Nat, jobs : Nat, turns : Nat, calls : Nat, faults : Nat,
                      crashes : Nat, cancels : Nat],
           used'.calls = used.calls, used'.crashes = used.crashes,
           used'.faults >= used.faults
    PROVE  SessionInv'
<1>1. ConversationTypes'
  <2>1. ConversationTypes
    BY DEF SessionInv
  <2>2. /\ Transcript(journal') /\ Transcript(mem') /\ up' \in BOOLEAN /\ pending' \in Question
        /\ snap' \in {NoSnap} \cup [saved : {TRUE}, pending : Question]
    <3>1. /\ Transcript(journal) /\ Transcript(mem) /\ up \in BOOLEAN /\ pending \in Question
          /\ snap \in {NoSnap} \cup [saved : {TRUE}, pending : Question]
      BY <2>1 DEF ConversationTypes
    <3>2. Transcript(journal') /\ Transcript(mem')
      BY <3>1
    <3>3. [saved |-> TRUE, pending |-> pending] \in [saved : {TRUE}, pending : Question]
      BY <3>1
    <3> QED
      BY <3>1, <3>2, <3>3
  <2>3. /\ run' \in [turn : Nat, seen : Seq(Event), first : Event, resumed : BOOLEAN,
                     answer : Nat, out : Seq(Event), rounds : Nat]
        /\ Transcript(run'.seen) /\ Transcript(run'.out) /\ Transcript(<<run'.first>>)
        /\ run'.resumed \/ run'.first.kind = "user"
    BY <2>1, NoRunFacts, EmptyFacts DEF ConversationTypes
  <2> QED
    BY <2>2, <2>3 DEF ConversationTypes
<1>2. GoneInv'
  BY DEF SessionInv, GoneInv
<1>3. TurnInv'
  BY NoRunFacts, EmptyFacts DEF SessionInv, TurnInv
<1>4. NumberedInv'
  <2>1. NumberedInv /\ pending.call \in 0 .. used.calls
    BY InvFacts DEF SessionInv
  <2>2. snap' # NoSnap => snap'.pending.call \in 0 .. used'.calls
    BY <2>1 DEF NumberedInv
  <2>3. Results(run'.out) \subseteq 0 .. used'.calls
    BY <2>1, NoRunFacts, EmptyFacts DEF NumberedInv
  <2> QED
    BY <2>1, <2>2, <2>3 DEF NumberedInv
<1>5. AnswersInv'
  BY DEF SessionInv, AnswersInv
<1>6. QuestionStaysOpen'
  <2> DEFINE open == (Called(journal) \ Results(journal)) \ {pending.call}
  <2>1. Cardinality(open) <= used.crashes + used.faults
    BY DEF SessionInv, QuestionStaysOpen
  <2>2. IsFiniteSet(open)
    BY InvFacts, FS_Subset
  <2>3. Cardinality(open) \in Nat
    BY <2>2, FS_CardinalityType
  <2>4. used.crashes \in Nat /\ used.faults \in Nat /\ used'.faults \in Nat
    BY InvFacts
  <2> HIDE DEF open
  <2>5. Cardinality(open) <= used'.crashes + used'.faults
    BY <2>1, <2>3, <2>4
  <2> QED
    BY <2>5 DEF QuestionStaysOpen, open
<1> QED
  BY <1>1, <1>2, <1>3, <1>4, <1>5, <1>6 DEF SessionInv

(* One event more in a conversation, and the record of a turn that begins with it. *)
LEMMA OneAppended ==
    ASSUME NEW s, Transcript(s), NEW e \in Event, e.kind # "calls",
           e.kind = "result" => \E c \in e.ids : e.ids = {c}
    PROVE  /\ Transcript(Append(s, e)) /\ Transcript(<<e>>)
           /\ Called(Append(s, e)) = Called(s)
           /\ Results(Append(s, e)) = Results(s) \cup (IF e.kind = "result" THEN e.ids ELSE {})
           /\ \A c : /\ ~ (e.kind = "result" /\ c \in e.ids) =>
                            Answers(Append(s, e), c) = Answers(s, c)
                     /\ Cardinality(Answers(Append(s, e), c))
                           <= Cardinality(Answers(s, c)) + 1
<1>1. /\ Transcript(<<e>>) /\ Called(<<e>>) = {} /\ Len(<<e>>) = 1
      /\ Results(<<e>>) = IF e.kind = "result" THEN e.ids ELSE {}
  BY OneEvent
<1>2. Append(s, e) = s \o <<e>>
  BY AppendIsConcat DEF Transcript
<1>3. Transcript(s \o <<e>>)
  BY <1>1, ConcatFacts
<1>4. Called(s \o <<e>>) = Called(s) \cup Called(<<e>>)
      /\ Results(s \o <<e>>) = Results(s) \cup Results(<<e>>)
  BY <1>1, ConcatIds
<1>5. \A c : /\ c \notin Results(<<e>>) => Answers(s \o <<e>>, c) = Answers(s, c)
             /\ Cardinality(Answers(s \o <<e>>, c)) <= Cardinality(Answers(s, c)) + 1
  BY <1>1, AnswersOfConcat
<1> QED
  BY <1>1, <1>2, <1>3, <1>4, <1>5

LEMMA RunBegun ==
    ASSUME NEW e \in Event, NEW s \in Seq(Event), NEW n \in Nat, NEW b \in BOOLEAN,
           NEW c \in Nat
    PROVE  LET r == [NoRun EXCEPT !.turn = n, !.seen = s, !.first = e,
                                  !.resumed = b, !.answer = c]
           IN  /\ r.seen = s /\ r.first = e /\ r.out = <<>> /\ r.resumed = b
               /\ r \in [turn : Nat, seen : Seq(Event), first : Event, resumed : BOOLEAN,
                         answer : Nat, out : Seq(Event), rounds : Nat]
<1> DEFINE r == [NoRun EXCEPT !.turn = n, !.seen = s, !.first = e,
                              !.resumed = b, !.answer = c]
<1>1. r.seen = s /\ r.first = e /\ r.out = <<>> /\ r.resumed = b
  BY DEF NoRun
<1>2. r \in [turn : Nat, seen : Seq(Event), first : Event, resumed : BOOLEAN,
             answer : Nat, out : Seq(Event), rounds : Nat]
  BY NoRunFacts
<1> QED
  BY <1>1, <1>2

(* A turn begins with a line of the user or a message of the bus. *)
LEMMA TurnBegins ==
    ASSUME SessionInv, up, up' = up, snap' = snap, pending' = pending, mem' = mem,
           NEW j, BeginInput(j)
    PROVE  SessionInv'
<1> DEFINE e == User(used.turns + 1)
<1>1. /\ used \in [lines : Nat, jobs : Nat, turns : Nat, calls : Nat, faults : Nat,
                   crashes : Nat, cancels : Nat]
      /\ Transcript(journal) /\ Transcript(mem)
  BY InvFacts
<1>2. /\ e \in Event /\ e.kind = "user"
  BY <1>1 DEF User, Event
<1>3. CASE FaultLeft /\ Used(used, "faults") /\ UNCHANGED <<journal, run>>
  <2>1. /\ used' \in [lines : Nat, jobs : Nat, turns : Nat, calls : Nat, faults : Nat,
                      crashes : Nat, cancels : Nat]
        /\ used'.calls = used.calls /\ used'.crashes = used.crashes
        /\ used'.faults >= used.faults
    BY <1>1, <1>3 DEF Used
  <2> QED
    BY <1>3, <2>1, SessionQuiet
<1>4. CASE /\ journal' = Append(journal, e)
           /\ run' = [NoRun EXCEPT !.turn = NewTurn, !.seen = mem, !.first = e,
                                   !.resumed = FALSE, !.answer = None]
           /\ used' = [used EXCEPT !.turns = NewTurn]
  <2> HIDE DEF e
  <2>1. Transcript(<<e>>)
    BY <1>2, OneEvent
  <2>2. e.kind # "calls" /\ e.kind # "result"
    BY <1>2
  <2>3. /\ Transcript(journal') /\ Called(journal') = Called(journal)
        /\ Results(journal') = Results(journal)
    BY <1>1, <1>2, <1>4, <2>2, OneAppended
  <2>4. \A c : Answers(journal', c) = Answers(journal, c)
    BY <1>1, <1>2, <1>4, <2>2, OneAppended
  <2>5. /\ run'.seen = mem /\ run'.first = e /\ run'.out = <<>>
        /\ run' \in [turn : Nat, seen : Seq(Event), first : Event, resumed : BOOLEAN,
                     answer : Nat, out : Seq(Event), rounds : Nat]
    <3>1. mem \in Seq(Event) /\ NewTurn \in Nat /\ None \in Nat
      BY <1>1 DEF Transcript, NewTurn, None
    <3> QED
      BY <1>2, <1>4, <3>1, RunBegun
  <2>6. /\ used' \in [lines : Nat, jobs : Nat, turns : Nat, calls : Nat, faults : Nat,
                      crashes : Nat, cancels : Nat]
        /\ used'.calls = used.calls /\ used'.crashes = used.crashes
        /\ used'.faults = used.faults
    BY <1>1, <1>4 DEF NewTurn
  <2>7. ConversationTypes'
    <3>1. /\ up' \in BOOLEAN /\ pending' \in Question /\ Transcript(mem')
          /\ snap' \in {NoSnap} \cup [saved : {TRUE}, pending : Question]
      BY <1>1 DEF SessionInv, ConversationTypes
    <3>2. /\ Transcript(run'.seen) /\ Transcript(run'.out) /\ Transcript(<<run'.first>>)
          /\ run'.first.kind = "user"
      BY <1>1, <1>2, <2>1, <2>5, EmptyFacts
    <3> QED
      BY <2>3, <2>5, <2>6, <3>1, <3>2 DEF ConversationTypes
  <2>8. GoneInv'
    BY DEF GoneInv
  <2>9. TurnInv'
    BY <2>5, EmptyFacts DEF TurnInv
  <2>10. NumberedInv'
    BY <2>3, <2>5, <2>6, EmptyFacts DEF SessionInv, NumberedInv
  <2>11. AnswersInv'
    BY <2>4, <2>6 DEF SessionInv, AnswersInv
  <2>12. QuestionStaysOpen'
    BY <2>3, <2>6 DEF SessionInv, QuestionStaysOpen
  <2> QED
    BY <2>7, <2>8, <2>9, <2>10, <2>11, <2>12 DEF SessionInv
<1> QED
  BY <1>3, <1>4 DEF BeginInput, BeginTurn, NewTurn

(* The answer of the user: the question is closed, then the answer is appended. *)
LEMMA AnswerTaken ==
    ASSUME SessionInv, ResumeAfterAnswer
    PROVE  SessionInv'
<1> DEFINE e == IF pending.kind = "ask" THEN Result(NewTurn, pending.call)
                                        ELSE User(NewTurn)
           open == Called(journal) \ Results(journal)
<1>1. /\ used \in [lines : Nat, jobs : Nat, turns : Nat, calls : Nat, faults : Nat,
                   crashes : Nat, cancels : Nat]
      /\ Transcript(journal) /\ Transcript(mem) /\ Transcript(run.out)
      /\ pending \in Question /\ pending.call \in 0 .. used.calls
      /\ IsFiniteSet(open)
      /\ Called(journal) \subseteq 1 .. used.calls
      /\ Results(journal) \subseteq 1 .. used.calls
      /\ Results(run.out) \subseteq 1 .. used.calls
  BY InvFacts
<1>2. /\ up /\ up' = up /\ snap' = snap /\ pending' = NoQuestion /\ pending'.call = 0
      /\ pending' \in Question
      /\ BeginTurn(job, e, TRUE, pending.call)
      /\ mem' = IF journal' # journal THEN journal' ELSE mem
  BY DEF ResumeAfterAnswer, closeQuestion, NoQuestion, None, Question
<1>3. /\ pending.kind = "ask" => pending.call \in Nat \ {0} /\ pending.call # 0
      /\ pending.kind # "ask" => pending.call = 0
      /\ pending.call \in Nat
  BY <1>1 DEF Question, NoQuestion, None
<1>4. Cardinality(open \ {pending.call}) <= used.crashes + used.faults
  BY DEF SessionInv, QuestionStaysOpen
<1>5. /\ IsFiniteSet(open \ {pending.call}) /\ Cardinality(open \ {pending.call}) \in Nat
  BY <1>1, FS_Subset, FS_CardinalityType
<1>6. CASE FaultLeft /\ Used(used, "faults") /\ UNCHANGED <<journal, run>>
  <2>1. /\ used' \in [lines : Nat, jobs : Nat, turns : Nat, calls : Nat, faults : Nat,
                      crashes : Nat, cancels : Nat]
        /\ used'.calls = used.calls /\ used'.crashes = used.crashes
        /\ used'.faults = used.faults + 1
    BY <1>1, <1>6 DEF Used
  <2>2. ConversationTypes'
    <3>1. /\ Transcript(journal) /\ up \in BOOLEAN
          /\ snap \in {NoSnap} \cup [saved : {TRUE}, pending : Question]
          /\ run \in [turn : Nat, seen : Seq(Event), first : Event, resumed : BOOLEAN,
                      answer : Nat, out : Seq(Event), rounds : Nat]
          /\ Transcript(run.seen) /\ Transcript(run.out)
          /\ Transcript(<<run.first>>) /\ (run.resumed \/ run.first.kind = "user")
      BY DEF SessionInv, ConversationTypes
    <3>2. Transcript(mem') /\ Transcript(journal') /\ run' = run
      BY <1>1, <1>2, <1>6
    <3>3. up' \in BOOLEAN /\ snap' \in {NoSnap} \cup [saved : {TRUE}, pending : Question]
      BY <1>2, <3>1
    <3> QED
      BY <1>2, <2>1, <3>1, <3>2, <3>3 DEF ConversationTypes
  <2>3. GoneInv'
    BY <1>2 DEF GoneInv
  <2>4. TurnInv'
    <3>1. Results(run.out) \cap (Results(journal) \cup {0}) = {}
      BY <1>1 DEF SessionInv, TurnInv
    <3> QED
      BY <1>2, <1>6, <3>1 DEF SessionInv, TurnInv
  <2>5. NumberedInv'
    <3>1. 0 \in 0 .. used.calls
      BY <1>1
    <3> QED
      BY <1>2, <1>6, <2>1, <3>1 DEF SessionInv, NumberedInv
  <2>6. AnswersInv'
    <3>1. \A c \in 1 .. used'.calls : ~ (pending'.call = c)
      BY <1>2
    <3> QED
      BY <1>2, <1>6, <2>1, <3>1 DEF SessionInv, AnswersInv
  <2>7. QuestionStaysOpen'
    <3>1. open \ {0} \subseteq (open \ {pending.call}) \cup {pending.call}
      OBVIOUS
    <3>2. /\ Cardinality(open \ {0}) <= Cardinality(open \ {pending.call}) + 1
          /\ Cardinality(open \ {0}) \in Nat
      BY <1>5, <3>1, OneMore
    <3> HIDE DEF open
    <3>3. Cardinality(open \ {0}) <= used'.crashes + used'.faults
      BY <1>1, <1>4, <1>5, <2>1, <3>2
    <3> QED
      BY <1>2, <1>6, <3>3 DEF QuestionStaysOpen, open
  <2> QED
    BY <2>2, <2>3, <2>4, <2>5, <2>6, <2>7 DEF SessionInv
<1>7. CASE /\ journal' = Append(journal, e)
           /\ run' = [NoRun EXCEPT !.turn = NewTurn, !.seen = mem, !.first = e,
                                   !.resumed = TRUE, !.answer = pending.call]
           /\ used' = [used EXCEPT !.turns = NewTurn]
  <2>1. /\ e \in Event
        /\ e.kind = "result" => e.ids = {pending.call}
        /\ e.kind = "result" <=> pending.kind = "ask"
        /\ e.kind # "calls" /\ (e.kind = "result" => \E c \in e.ids : e.ids = {c})
    <3>1. NewTurn \in Nat
      BY <1>1 DEF NewTurn
    <3>2. CASE pending.kind = "ask"
      <4>1. /\ e = Result(NewTurn, pending.call) /\ Result(NewTurn, pending.call) \in Event
        BY <1>3, <3>1, <3>2, EventFacts
      <4> QED
        BY <3>2, <4>1 DEF Result
    <3>3. CASE pending.kind # "ask"
      <4>1. /\ e = User(NewTurn) /\ User(NewTurn) \in Event
        BY <3>1, <3>3 DEF User, Event
      <4> QED
        BY <3>3, <4>1 DEF User
    <3> QED
      BY <3>2, <3>3
  <2> HIDE DEF e, open
  <2>2. Transcript(<<e>>)
    BY <2>1, OneEvent
  <2>3. e.kind # "calls" /\ (e.kind = "result" => \E c \in e.ids : e.ids = {c})
    BY <2>1
  <2>4. /\ Transcript(journal') /\ Called(journal') = Called(journal)
        /\ Results(journal') = Results(journal)
              \cup (IF pending.kind = "ask" THEN {pending.call} ELSE {})
    BY <1>1, <1>7, <2>1, <2>3, OneAppended
  <2>5. \A c : /\ c # pending.call => Answers(journal', c) = Answers(journal, c)
               /\ Cardinality(Answers(journal', c)) <= Cardinality(Answers(journal, c)) + 1
               /\ Cardinality(Answers(journal', c)) \in Nat
               /\ Cardinality(Answers(journal, c)) \in Nat
    <3>1. \A c : /\ ~ (e.kind = "result" /\ c \in e.ids) =>
                         Answers(journal', c) = Answers(journal, c)
                 /\ Cardinality(Answers(journal', c)) <= Cardinality(Answers(journal, c)) + 1
      BY <1>1, <1>7, <2>1, <2>3, OneAppended
    <3>2. \A c : /\ Cardinality(Answers(journal', c)) \in Nat
                 /\ Cardinality(Answers(journal, c)) \in Nat
      BY <1>1, <2>4, AnswersFacts
    <3> QED
      BY <2>1, <3>1, <3>2
  <2>6. /\ run'.seen = mem /\ run'.first = e /\ run'.out = <<>> /\ run'.resumed
        /\ run' \in [turn : Nat, seen : Seq(Event), first : Event, resumed : BOOLEAN,
                     answer : Nat, out : Seq(Event), rounds : Nat]
    <3>1. mem \in Seq(Event) /\ NewTurn \in Nat /\ pending.call \in Nat
      BY <1>1, <1>3 DEF Transcript, NewTurn
    <3> QED
      BY <1>7, <2>1, <3>1, RunBegun
  <2>7. /\ used' \in [lines : Nat, jobs : Nat, turns : Nat, calls : Nat, faults : Nat,
                      crashes : Nat, cancels : Nat]
        /\ used'.calls = used.calls /\ used'.crashes = used.crashes
        /\ used'.faults = used.faults
    BY <1>1, <1>7 DEF NewTurn
  <2>8. ConversationTypes'
    <3>1. /\ up' \in BOOLEAN
          /\ snap' \in {NoSnap} \cup [saved : {TRUE}, pending : Question]
      BY <1>2 DEF SessionInv, ConversationTypes
    <3>2. Transcript(mem')
      BY <1>1, <1>2, <2>4
    <3>3. Transcript(run'.seen) /\ Transcript(run'.out) /\ Transcript(<<run'.first>>)
      BY <1>1, <2>2, <2>6, EmptyFacts
    <3> QED
      BY <1>2, <2>4, <2>6, <2>7, <3>1, <3>2, <3>3 DEF ConversationTypes
  <2>9. GoneInv'
    BY <1>2 DEF GoneInv
  <2>10. TurnInv'
    BY <2>6, EmptyFacts DEF TurnInv
  <2>11. NumberedInv'
    <3>1. /\ Called(journal') \cup Results(journal') \subseteq 0 .. used'.calls
          /\ Results(run'.out) = {} /\ pending'.call \in 0 .. used'.calls
      BY <1>1, <1>2, <2>4, <2>6, <2>7, EmptyFacts
    <3>2. snap' # NoSnap => snap'.pending.call \in 0 .. used'.calls
      BY <1>2, <2>7 DEF SessionInv, NumberedInv
    <3> QED
      BY <3>1, <3>2 DEF NumberedInv
  <2>12. AnswersInv'
    <3> SUFFICES ASSUME NEW c \in 1 .. used.calls
                 PROVE  Cardinality(Answers(journal', c)) <= 1 + used.crashes
      BY <1>2, <2>7 DEF AnswersInv
    <3>1. /\ Cardinality(Answers(journal, c)) <= 1 + used.crashes
          /\ pending.call = c => Cardinality(Answers(journal, c)) <= used.crashes
      BY DEF SessionInv, AnswersInv
    <3>2. CASE c = pending.call
      BY <1>1, <2>5, <3>1, <3>2
    <3>3. CASE c # pending.call
      BY <2>5, <3>1, <3>3
    <3> QED
      BY <3>2, <3>3
  <2>13. QuestionStaysOpen'
    <3>1. (Called(journal') \ Results(journal')) \ {pending'.call} \subseteq open \ {pending.call}
      <4>1. CASE pending.kind = "ask"
        BY <2>4, <4>1 DEF open
      <4>2. CASE pending.kind # "ask"
        BY <1>2, <1>3, <2>4, <4>2 DEF open
      <4> QED
        BY <4>1, <4>2
    <3>2. Cardinality((Called(journal') \ Results(journal')) \ {pending'.call})
             <= Cardinality(open \ {pending.call})
      BY <1>5, <3>1, FS_Subset
    <3>3. Cardinality((Called(journal') \ Results(journal')) \ {pending'.call}) \in Nat
      BY <1>5, <3>1, FS_Subset, FS_CardinalityType
    <3> HIDE DEF open
    <3>4. Cardinality((Called(journal') \ Results(journal')) \ {pending'.call})
             <= used'.crashes + used'.faults
      BY <1>1, <1>4, <1>5, <2>7, <3>2, <3>3
    <3> QED
      BY <3>4 DEF QuestionStaysOpen
  <2> QED
    BY <2>8, <2>9, <2>10, <2>11, <2>12, <2>13 DEF SessionInv
<1> QED
  BY <1>2, <1>6, <1>7 DEF BeginTurn

(* A turn ends: what it produced, and the batch b with n new calls, is journalled.
   Only the call of a question that opens here may be left without its result. *)
LEMMA TurnEnds ==
    ASSUME SessionInv, up, up' = up, snap' = snap,
           NEW b, Transcript(b), AnsweredAlone(b), NEW n \in Nat, NEW result,
           Called(b) \cup Results(b) \subseteq used.calls + 1 .. used.calls + n,
           Called(b) \ Results(b) \subseteq {pending'.call},
           pending' \in Question, pending'.call \notin Results(b),
           pending' # pending =>
              /\ pending.call = 0
              /\ pending'.call \in {0} \cup (used.calls + 1 .. used.calls + n),
           EndTurn(run.out \o b, result, n)
    PROVE  SessionInv'
<1> DEFINE items == run.out \o b
           calls == used.calls
           p == pending.call
           q == pending'.call
<1>1. /\ used \in [lines : Nat, jobs : Nat, turns : Nat, calls : Nat, faults : Nat,
                   crashes : Nat, cancels : Nat]
      /\ Transcript(journal) /\ Transcript(mem) /\ Transcript(run.out)
      /\ p \in 0 .. calls
      /\ IsFiniteSet(Called(journal) \ Results(journal))
      /\ Called(journal) \subseteq 1 .. calls
      /\ Results(journal) \subseteq 1 .. calls
      /\ Results(run.out) \subseteq 1 .. calls
  BY InvFacts
<1>0. used \in [lines : Nat, jobs : Nat, turns : Nat, calls : Nat, faults : Nat,
                crashes : Nat, cancels : Nat]
  BY <1>1
<1>2. /\ calls \in Nat /\ used.crashes \in Nat /\ used.faults \in Nat
  BY <1>1
<1>3. /\ Called(run.out) \subseteq Results(run.out) /\ AnsweredAlone(run.out)
      /\ Results(run.out) \cap Results(journal) = {} /\ p \notin Results(run.out)
  BY DEF SessionInv, TurnInv
<1>4. /\ used' \in [lines : Nat, jobs : Nat, turns : Nat, calls : Nat, faults : Nat,
                    crashes : Nat, cancels : Nat]
      /\ used'.calls = calls + n /\ used'.crashes = used.crashes
      /\ used'.faults >= used.faults
  <2>1. CASE used' = [used EXCEPT !.calls = @ + n]
    BY <1>0, <2>1
  <2>2. CASE used' = [used EXCEPT !.calls = @ + n, !.faults = @ + 1]
    <3>1. /\ used.calls \in Nat /\ used.faults \in Nat
          /\ used.calls + n \in Nat /\ used.faults + 1 \in Nat
          /\ used.faults + 1 >= used.faults
      BY <1>0
    <3>2. used' \in [lines : Nat, jobs : Nat, turns : Nat, calls : Nat, faults : Nat,
                     crashes : Nat, cancels : Nat]
      BY <1>0, <2>2, <3>1
    <3>3. /\ used'.calls = calls + n /\ used'.crashes = used.crashes
          /\ used'.faults = used.faults + 1
      BY <1>0, <2>2
    <3> QED
      BY <3>1, <3>2, <3>3
  <2> QED
    BY <2>1, <2>2 DEF EndTurn
<1>5. /\ run' = NoRun
      /\ \/ journal' = journal \o items /\ mem' = journal'
         \/ journal' = journal /\ mem' = mem
  BY DEF EndTurn
<1> HIDE DEF items, calls, p, q
<1>6. /\ Called(b) \subseteq calls + 1 .. calls + n /\ Results(b) \subseteq calls + 1 .. calls + n
      /\ Called(b) \ Results(b) \subseteq {q} /\ q \notin Results(b)
      /\ q = p \/ (p = 0 /\ (q = 0 \/ q \in calls + 1 .. calls + n))
  <2>1. /\ Called(b) \subseteq calls + 1 .. calls + n
        /\ Results(b) \subseteq calls + 1 .. calls + n
    BY DEF calls
  <2>2. q = p \/ (p = 0 /\ (q = 0 \/ q \in calls + 1 .. calls + n))
    BY DEF calls, p, q
  <2> QED
    BY <2>1, <2>2 DEF q
<1>7. /\ q \in 0 .. calls + n /\ q \notin Results(run.out)
      /\ q # p => p = 0 /\ q \notin 1 .. calls
  <2>1. CASE q = p
    BY <1>1, <1>2, <1>3, <2>1
  <2>2. CASE p = 0 /\ q = 0
    BY <1>2, <1>3, <2>2
  <2>3. CASE p = 0 /\ q \in calls + 1 .. calls + n
    <3>1. q \notin 1 .. calls /\ q \in 0 .. calls + n
      BY <1>2, <2>3
    <3> QED
      BY <1>1, <2>3, <3>1
  <2> QED
    BY <1>6, <2>1, <2>2, <2>3
<1>8. /\ Transcript(items)
      /\ Called(items) = Called(run.out) \cup Called(b)
      /\ Results(items) = Results(run.out) \cup Results(b)
  BY <1>1, ConcatFacts, ConcatIds DEF items
<1>9. /\ AnsweredAlone(items) /\ q \notin Results(items)
      /\ Results(items) \cap Results(journal) = {}
  <2>1. \A c \in calls + 1 .. calls + n : c \notin 1 .. calls
    BY <1>2
  <2>2. Results(run.out) \cap Results(b) = {} /\ Results(journal) \cap Results(b) = {}
    BY <1>1, <1>6, <2>1
  <2>3. AnsweredAlone(items)
    BY <1>1, <1>3, <2>2, ConcatAlone DEF items
  <2> QED
    BY <1>3, <1>6, <1>7, <1>8, <2>2, <2>3
<1>10. /\ Called(items) \subseteq 1 .. calls + n /\ Results(items) \subseteq 1 .. calls + n
       /\ Called(items) \ Results(items) \subseteq {q}
  <2>1. 1 .. calls \subseteq 1 .. calls + n /\ calls + 1 .. calls + n \subseteq 1 .. calls + n
    BY <1>2
  <2>2. Called(run.out) \subseteq 1 .. calls
    BY <1>1, <1>3
  <2>3. Called(items) \subseteq 1 .. calls + n /\ Results(items) \subseteq 1 .. calls + n
    BY <1>1, <1>6, <1>8, <2>1, <2>2
  <2>4. Called(items) \ Results(items) \subseteq {q}
    BY <1>3, <1>6, <1>8
  <2> QED
    BY <2>3, <2>4
<1>11. /\ Transcript(journal') /\ Transcript(mem')
       /\ Called(journal') \subseteq 1 .. calls + n
       /\ Results(journal') \subseteq 1 .. calls + n
       /\ (Called(journal') \ Results(journal')) \ {q}
             \subseteq (Called(journal) \ Results(journal)) \ {p}
  <2>1. 1 .. calls \subseteq 1 .. calls + n
    BY <1>2
  <2>2. 0 \notin Called(journal)
    BY <1>1
  <2>3. (Called(journal) \ Results(journal)) \ {q}
             \subseteq (Called(journal) \ Results(journal)) \ {p}
    BY <1>7, <2>2
  <2>4. CASE journal' = journal \o items /\ mem' = journal'
    <3>1. /\ Transcript(journal') /\ Called(journal') = Called(journal) \cup Called(items)
          /\ Results(journal') = Results(journal) \cup Results(items)
      BY <1>1, <1>8, <2>4, ConcatFacts, ConcatIds
    <3>2. Called(journal') \subseteq 1 .. calls + n /\ Results(journal') \subseteq 1 .. calls + n
      BY <1>1, <1>10, <2>1, <3>1
    <3>3. (Called(journal') \ Results(journal')) \ {q}
              \subseteq (Called(journal) \ Results(journal)) \ {q}
      BY <1>10, <3>1
    <3> QED
      BY <2>3, <2>4, <3>1, <3>2, <3>3
  <2>5. CASE journal' = journal /\ mem' = mem
    BY <1>1, <2>1, <2>3, <2>5
  <2> QED
    BY <1>5, <2>4, <2>5
<1>12. ConversationTypes'
  <2>1. /\ up' \in BOOLEAN /\ pending' \in Question
        /\ snap' \in {NoSnap} \cup [saved : {TRUE}, pending : Question]
    BY DEF SessionInv, ConversationTypes
  <2>2. Transcript(run'.seen) /\ Transcript(run'.out)
    BY <1>5, NoRunFacts, EmptyFacts
  <2> QED
    BY <1>4, <1>5, <1>11, <2>1, <2>2, NoRunFacts DEF ConversationTypes
<1>13. GoneInv'
  BY DEF GoneInv
<1>14. TurnInv'
  BY <1>5, NoRunFacts, EmptyFacts DEF TurnInv
<1>15. NumberedInv'
  <2>1. 1 .. calls + n \subseteq 0 .. calls + n /\ 0 .. calls \subseteq 0 .. calls + n
    BY <1>2
  <2>2. Results(run'.out) = {}
    BY <1>5, NoRunFacts, EmptyFacts
  <2>3. snap' # NoSnap => snap'.pending.call \in 0 .. calls + n
    BY <2>1 DEF SessionInv, NumberedInv, calls
  <2> QED
    BY <1>4, <1>7, <1>11, <2>1, <2>2, <2>3 DEF NumberedInv, q
<1>16. AnswersInv'
  <2> SUFFICES ASSUME NEW c \in 1 .. calls + n
               PROVE  /\ Cardinality(Answers(journal', c)) <= 1 + used.crashes
                      /\ q = c => Cardinality(Answers(journal', c)) <= used.crashes
    BY <1>4 DEF AnswersInv, q
  <2>1. /\ Cardinality(Answers(journal, c)) <= 1 + used.crashes
        /\ q = c => Cardinality(Answers(journal, c)) <= used.crashes
        /\ Cardinality(Answers(journal, c)) \in Nat
    <3>0. Cardinality(Answers(journal, c)) \in Nat
      BY <1>1, AnswersFacts
    <3>1. CASE c \in 1 .. calls
      <4>1. /\ Cardinality(Answers(journal, c)) <= 1 + used.crashes
            /\ p = c => Cardinality(Answers(journal, c)) <= used.crashes
        BY <3>1 DEF SessionInv, AnswersInv, calls, p
      <4>2. q = c => p = c
        BY <1>7, <3>1
      <4> QED
        BY <3>0, <4>1, <4>2
    <3>2. CASE c \notin 1 .. calls
      <4>1. Cardinality(Answers(journal, c)) = 0
        BY <1>1, <3>2, AnswersFacts
      <4> QED
        BY <1>2, <4>1
    <3> QED
      BY <3>1, <3>2
  <2>2. CASE journal' = journal
    BY <2>1, <2>2
  <2>3. CASE journal' = journal \o items /\ c \notin Results(items)
    <3>1. Answers(journal', c) = Answers(journal, c)
      BY <1>1, <1>8, <2>3, AnswersOfConcat
    <3> QED
      BY <2>1, <3>1
  <2>4. CASE journal' = journal \o items /\ c \in Results(items)
    <3>1. c \notin Results(journal) /\ q # c
      BY <1>9, <2>4
    <3>2. Cardinality(Answers(journal', c)) <= 1
      BY <1>1, <1>8, <1>9, <2>4, <3>1, AnswersOfConcat
    <3>3. Cardinality(Answers(journal', c)) \in Nat
      BY <1>11, AnswersFacts
    <3> QED
      BY <1>2, <3>1, <3>2, <3>3
  <2> QED
    BY <1>5, <2>2, <2>3, <2>4
<1>17. QuestionStaysOpen'
  <2> DEFINE A == (Called(journal) \ Results(journal)) \ {p}
             B == (Called(journal') \ Results(journal')) \ {q}
  <2>1. IsFiniteSet(A)
    BY <1>1, FS_Subset
  <2>2. Cardinality(A) <= used.crashes + used.faults
    BY DEF SessionInv, QuestionStaysOpen, p
  <2>3. B \subseteq A
    BY <1>11
  <2> HIDE DEF A, B
  <2>4. IsFiniteSet(B) /\ Cardinality(B) <= Cardinality(A)
    BY <2>1, <2>3, FS_Subset
  <2>5. Cardinality(A) \in Nat /\ Cardinality(B) \in Nat
    BY <2>1, <2>4, FS_CardinalityType
  <2>6. Cardinality(B) <= used'.crashes + used'.faults
    BY <1>2, <1>4, <2>2, <2>4, <2>5
  <2> QED
    BY <2>6 DEF QuestionStaysOpen, B, q
<1> QED
  BY <1>12, <1>13, <1>14, <1>15, <1>16, <1>17 DEF SessionInv

(* A batch is answered and the turn goes on. *)
LEMMA RoundGoesOn ==
    ASSUME SessionInv, up' = up, snap' = snap, pending' = pending, run # NoRun,
           NEW b, Transcript(b), AnsweredAlone(b), WellPaired(b), NEW n \in Nat,
           Called(b) \subseteq Results(b),
           Results(b) \subseteq used.calls + 1 .. used.calls + n,
           NextRound(b, n)
    PROVE  SessionInv'
<1> DEFINE out == run.out \o b
           calls == used.calls
           p == pending.call
<1>0. used \in [lines : Nat, jobs : Nat, turns : Nat, calls : Nat, faults : Nat,
                crashes : Nat, cancels : Nat]
  BY InvFacts
<1>1. /\ Transcript(journal) /\ Transcript(run.out)
      /\ p \in 0 .. calls
      /\ Called(journal) \subseteq 1 .. calls
      /\ Results(journal) \subseteq 1 .. calls
      /\ Results(run.out) \subseteq 1 .. calls
  BY InvFacts
<1>2. /\ calls \in Nat /\ used.crashes \in Nat /\ used.faults \in Nat
  BY <1>0
<1>3. /\ Called(run.out) \subseteq Results(run.out) /\ AnsweredAlone(run.out)
      /\ WellPaired(run.out)
      /\ Results(run.out) \cap (Results(journal) \cup {p}) = {}
  BY DEF SessionInv, TurnInv
<1>4. /\ used' \in [lines : Nat, jobs : Nat, turns : Nat, calls : Nat, faults : Nat,
                    crashes : Nat, cancels : Nat]
      /\ used'.calls = calls + n /\ used'.crashes = used.crashes
      /\ used'.faults = used.faults
  BY <1>0 DEF NextRound
<1>5. /\ journal' = journal /\ mem' = mem
      /\ run' = [run EXCEPT !.out = out, !.rounds = @ + 1]
  BY DEF NextRound
<1>6. \A c \in Results(b) : c \in calls + 1 .. calls + n
  BY DEF calls
<1> HIDE DEF out, calls, p
<1>7. \A c \in calls + 1 .. calls + n : c \notin 0 .. calls /\ c \notin 1 .. calls
  BY <1>2
<1>8. /\ Transcript(out)
      /\ Called(out) = Called(run.out) \cup Called(b)
      /\ Results(out) = Results(run.out) \cup Results(b)
  BY <1>1, ConcatFacts, ConcatIds DEF out
<1>9. /\ AnsweredAlone(out) /\ WellPaired(out)
      /\ Called(out) \subseteq Results(out)
      /\ Results(out) \cap (Results(journal) \cup {p}) = {}
  <2>1. /\ Results(b) \cap Results(run.out) = {}
        /\ Results(b) \cap (Results(journal) \cup {p}) = {}
    BY <1>1, <1>6, <1>7
  <2>2. AnsweredAlone(out)
    BY <1>1, <1>3, <2>1, ConcatAlone DEF out
  <2>3. WellPaired(out)
    BY <1>1, <1>3, ConcatWellPaired DEF out
  <2> QED
    BY <1>3, <1>8, <2>1, <2>2, <2>3
<1>10. /\ run \in [turn : Nat, seen : Seq(Event), first : Event, resumed : BOOLEAN,
                   answer : Nat, out : Seq(Event), rounds : Nat]
       /\ Transcript(run.seen) /\ Transcript(<<run.first>>)
       /\ run.resumed \/ run.first.kind = "user"
  BY DEF SessionInv, ConversationTypes
<1>11. /\ run' \in [turn : Nat, seen : Seq(Event), first : Event, resumed : BOOLEAN,
                    answer : Nat, out : Seq(Event), rounds : Nat]
       /\ run'.seen = run.seen /\ run'.first = run.first /\ run'.resumed = run.resumed
       /\ run'.out = out
  <2>1. out \in Seq(Event)
    BY <1>8 DEF Transcript
  <2>2. run' \in [turn : Nat, seen : Seq(Event), first : Event, resumed : BOOLEAN,
                  answer : Nat, out : Seq(Event), rounds : Nat]
    <3>1. run \in [turn : Nat, seen : Seq(Event), first : Event, resumed : BOOLEAN,
                   answer : Nat, out : Seq(Event), rounds : Nat]
      BY <1>10
    <3>2. run.rounds \in Nat /\ run.rounds + 1 \in Nat
      BY <3>1
    <3>3. run' = [run EXCEPT !.out = out, !.rounds = run.rounds + 1]
      BY <1>5
    <3> QED
      BY <2>1, <3>1, <3>2, <3>3
  <2>3. run'.seen = run.seen /\ run'.first = run.first /\ run'.out = out
    BY <1>5, <1>10
  <2>4. run'.resumed = run.resumed
    BY <1>5, <1>10
  <2> QED
    BY <2>2, <2>3, <2>4
<1>12. ConversationTypes'
  <2>1. /\ up' \in BOOLEAN /\ pending' \in Question
        /\ snap' \in {NoSnap} \cup [saved : {TRUE}, pending : Question]
    BY DEF SessionInv, ConversationTypes
  <2>2. Transcript(journal') /\ Transcript(mem')
    BY <1>5, InvFacts
  <2>3. /\ Transcript(run'.seen) /\ Transcript(run'.out) /\ Transcript(<<run'.first>>)
        /\ run'.resumed \/ run'.first.kind = "user"
    BY <1>8, <1>10, <1>11
  <2> QED
    BY <1>4, <1>11, <2>1, <2>2, <2>3 DEF ConversationTypes
<1>13. GoneInv'
  BY DEF SessionInv, GoneInv
<1>14. TurnInv'
  BY <1>5, <1>9, <1>11 DEF TurnInv, p
<1>15. NumberedInv'
  <2>1. /\ 1 .. calls \subseteq 0 .. calls + n /\ 0 .. calls \subseteq 0 .. calls + n
        /\ calls + 1 .. calls + n \subseteq 0 .. calls + n
    BY <1>2
  <2>2. snap' # NoSnap => snap'.pending.call \in 0 .. calls + n
    BY <2>1 DEF SessionInv, NumberedInv, calls
  <2>3. Results(run'.out) \subseteq 0 .. calls + n
    BY <1>1, <1>6, <1>8, <1>11, <2>1
  <2>4. /\ Called(journal') \subseteq 0 .. calls + n /\ Results(journal') \subseteq 0 .. calls + n
        /\ pending'.call \in 0 .. calls + n
    BY <1>1, <1>5, <2>1 DEF p
  <2> QED
    BY <1>4, <2>2, <2>3, <2>4 DEF NumberedInv
<1>16. AnswersInv'
  <2> SUFFICES ASSUME NEW c \in 1 .. calls + n
               PROVE  /\ Cardinality(Answers(journal, c)) <= 1 + used.crashes
                      /\ ~up \/ p = c => Cardinality(Answers(journal, c)) <= used.crashes
    BY <1>4, <1>5 DEF AnswersInv, p
  <2>1. CASE c \in 1 .. calls
    BY <2>1 DEF SessionInv, AnswersInv, calls, p
  <2>2. CASE c \notin 1 .. calls
    <3>1. Cardinality(Answers(journal, c)) = 0
      BY <1>1, <2>2, AnswersFacts
    <3> QED
      BY <1>2, <3>1
  <2> QED
    BY <2>1, <2>2
<1>17. QuestionStaysOpen'
  BY <1>4, <1>5 DEF SessionInv, QuestionStaysOpen
<1> QED
  BY <1>12, <1>13, <1>14, <1>15, <1>16, <1>17 DEF SessionInv

(* The process dies: whatever question was open is forgotten. *)
LEMMA ProcessDies ==
    ASSUME SessionInv, Crash PROVE SessionInv'
<1> DEFINE open == Called(journal) \ Results(journal)
<1>0. used \in [lines : Nat, jobs : Nat, turns : Nat, calls : Nat, faults : Nat,
                crashes : Nat, cancels : Nat]
  BY InvFacts
<1>1. /\ Transcript(journal) /\ IsFiniteSet(open)
      /\ pending.call \in 0 .. used.calls
      /\ Results(journal) \subseteq 1 .. used.calls
  BY InvFacts
<1>2. /\ up' = FALSE /\ pending' = NoQuestion /\ pending'.call = 0 /\ mem' = <<>>
      /\ run' = NoRun /\ journal' = journal /\ snap' = snap
  BY DEF Crash, NoQuestion, None
<1>3. /\ used' \in [lines : Nat, jobs : Nat, turns : Nat, calls : Nat, faults : Nat,
                    crashes : Nat, cancels : Nat]
      /\ used'.calls = used.calls /\ used'.crashes = used.crashes + 1
      /\ used'.faults = used.faults
      /\ used.calls \in Nat /\ used.crashes \in Nat /\ used.faults \in Nat
  BY <1>0 DEF Crash, Used
<1>4. ConversationTypes'
  <2>1. /\ up' \in BOOLEAN /\ pending' \in Question
        /\ snap' \in {NoSnap} \cup [saved : {TRUE}, pending : Question]
    BY <1>2 DEF SessionInv, ConversationTypes, Question
  <2>2. /\ Transcript(journal') /\ Transcript(mem')
        /\ Transcript(run'.seen) /\ Transcript(run'.out)
    BY <1>1, <1>2, NoRunFacts, EmptyFacts
  <2> QED
    BY <1>2, <1>3, <2>1, <2>2, NoRunFacts DEF ConversationTypes
<1>5. GoneInv'
  BY <1>2 DEF GoneInv
<1>6. TurnInv'
  BY <1>2, NoRunFacts, EmptyFacts DEF TurnInv
<1>7. NumberedInv'
  <2>1. Results(run'.out) = {} /\ pending'.call \in 0 .. used.calls
    BY <1>2, <1>3, NoRunFacts, EmptyFacts
  <2> QED
    BY <1>2, <1>3, <2>1 DEF SessionInv, NumberedInv
<1>8. AnswersInv'
  <2> SUFFICES ASSUME NEW c \in 1 .. used.calls
               PROVE  /\ Cardinality(Answers(journal, c)) <= 1 + (used.crashes + 1)
                      /\ Cardinality(Answers(journal, c)) <= used.crashes + 1
    BY <1>2, <1>3 DEF AnswersInv
  <2>1. Cardinality(Answers(journal, c)) <= 1 + used.crashes
    BY DEF SessionInv, AnswersInv
  <2>2. Cardinality(Answers(journal, c)) \in Nat
    BY <1>1, AnswersFacts
  <2> QED
    BY <1>3, <2>1, <2>2
<1>9. QuestionStaysOpen'
  <2> DEFINE A == open \ {pending.call}
             B == open \ {0}
  <2>1. IsFiniteSet(A) /\ B \subseteq A \cup {pending.call}
    BY <1>1, FS_Subset
  <2>2. Cardinality(A) <= used.crashes + used.faults
    BY DEF SessionInv, QuestionStaysOpen
  <2> HIDE DEF A, B
  <2>3. /\ Cardinality(B) <= Cardinality(A) + 1 /\ Cardinality(B) \in Nat
        /\ Cardinality(A) \in Nat
    BY <2>1, OneMore
  <2>4. Cardinality(B) <= used'.crashes + used'.faults
    BY <1>3, <2>2, <2>3
  <2> QED
    BY <1>2, <2>4 DEF QuestionStaysOpen, B
<1> QED
  BY <1>4, <1>5, <1>6, <1>7, <1>8, <1>9 DEF SessionInv

(* The next process takes the question of the snapshot up again. *)
LEMMA ProcessResumes ==
    ASSUME SessionInv, ResumeSession PROVE SessionInv'
<1> DEFINE open == Called(journal) \ Results(journal)
<1>0. used \in [lines : Nat, jobs : Nat, turns : Nat, calls : Nat, faults : Nat,
                crashes : Nat, cancels : Nat]
  BY InvFacts
<1>1. /\ Transcript(journal) /\ IsFiniteSet(open)
      /\ Called(journal) \subseteq 1 .. used.calls
  BY InvFacts
<1>2. /\ ~up /\ snap # NoSnap /\ up' = TRUE /\ pending' = snap.pending /\ mem' = journal
      /\ journal' = journal /\ snap' = snap /\ run' = run /\ used' = used
  BY DEF ResumeSession
<1>3. run = NoRun /\ pending = NoQuestion /\ pending.call = 0
  BY <1>2 DEF SessionInv, GoneInv, NoQuestion, None
<1>4. ConversationTypes'
  <2>1. /\ snap \in {NoSnap} \cup [saved : {TRUE}, pending : Question]
        /\ Transcript(run.seen) /\ Transcript(run.out)
    BY DEF SessionInv, ConversationTypes
  <2>2. pending' \in Question
    BY <1>2, <2>1
  <2> QED
    BY <1>0, <1>1, <1>2, <1>3, <2>1, <2>2, NoRunFacts DEF ConversationTypes
<1>5. GoneInv'
  BY <1>2 DEF GoneInv
<1>6. TurnInv'
  BY <1>2, <1>3, NoRunFacts, EmptyFacts DEF TurnInv
<1>7. NumberedInv'
  <2>1. Results(run.out) = {}
    BY <1>3, NoRunFacts, EmptyFacts
  <2>2. /\ Called(journal) \cup Results(journal) \subseteq 0 .. used.calls
        /\ snap.pending.call \in 0 .. used.calls
    BY <1>2 DEF SessionInv, NumberedInv
  <2> QED
    BY <1>2, <2>1, <2>2 DEF NumberedInv
<1>8. AnswersInv'
  BY <1>2 DEF SessionInv, AnswersInv
<1>9. QuestionStaysOpen'
  <2> DEFINE A == open \ {pending.call}
             B == open \ {pending'.call}
  <2>1. IsFiniteSet(A) /\ B \subseteq A
    BY <1>1, <1>3, FS_Subset
  <2>2. Cardinality(A) <= used.crashes + used.faults
    BY DEF SessionInv, QuestionStaysOpen
  <2> HIDE DEF A, B
  <2>3. IsFiniteSet(B) /\ Cardinality(B) <= Cardinality(A)
    BY <2>1, FS_Subset
  <2>4. Cardinality(A) \in Nat /\ Cardinality(B) \in Nat
    BY <2>1, <2>3, FS_CardinalityType
  <2>5. Cardinality(B) <= used.crashes + used.faults
    BY <1>0, <2>2, <2>3, <2>4
  <2> QED
    BY <1>2, <2>5 DEF QuestionStaysOpen, B
<1> QED
  BY <1>4, <1>5, <1>6, <1>7, <1>8, <1>9 DEF SessionInv

-----------------------------------------------------------------------------
(* What each round of a turn, and each other step, does to the invariant. *)
LEMMA RoundInv ==
    ASSUME SessionInv, Rounds PROVE SessionInv'
<1> DEFINE n == used.calls
<1>0. used \in [lines : Nat, jobs : Nat, turns : Nat, calls : Nat, faults : Nat,
                crashes : Nat, cancels : Nat]
  BY InvFacts
<1>1. /\ n \in Nat /\ NewCall = n + 1 /\ NewCall \in Nat \ {0} /\ NewCall + 1 \in Nat \ {0}
      /\ NewCall # NewCall + 1
      /\ NewCall \in n + 1 .. n + 1 /\ {NewCall, NewCall + 1} \subseteq n + 1 .. n + 2
      /\ NewCall \notin 0 .. n
  BY <1>0 DEF NewCall
<1>2. /\ run.turn \in Nat /\ run.out \in Seq(Event)
  BY DEF SessionInv, ConversationTypes
<1>3. /\ pending \in Question /\ pending.call \in 0 .. n
  BY InvFacts
<1> DEFINE b == <<Calls(run.turn, {NewCall}), Result(run.turn, NewCall)>>
<1>4. /\ Transcript(b) /\ AnsweredAlone(b) /\ WellPaired(b)
      /\ Called(b) = {NewCall} /\ Results(b) = {NewCall}
  BY <1>1, <1>2, CallAnswered
<1> DEFINE a == <<Calls(run.turn, {NewCall})>>
<1>5. /\ Calls(run.turn, {NewCall}) \in Event
      /\ Transcript(a) /\ AnsweredAlone(a) /\ Called(a) = {NewCall} /\ Results(a) = {}
      /\ Append(run.out, Calls(run.turn, {NewCall})) = run.out \o a
  <2>1. /\ Calls(run.turn, {NewCall}) \in Event
        /\ Calls(run.turn, {NewCall}).kind = "calls"
        /\ Calls(run.turn, {NewCall}).ids = {NewCall}
    BY <1>1, <1>2, EventFacts DEF Calls
  <2>2. Append(run.out, Calls(run.turn, {NewCall})) = run.out \o a
    BY <1>2, <2>1, AppendIsConcat
  <2>3. Transcript(a) /\ AnsweredAlone(a) /\ Called(a) = {NewCall} /\ Results(a) = {}
    BY <2>1, OneEvent
  <2> QED
    BY <2>1, <2>2, <2>3
<1> HIDE DEF n, b, a
<1>6. CASE FinalText
  <2> DEFINE t == <<Text(run.turn)>>
  <2>1. /\ Text(run.turn) \in Event /\ Text(run.turn).kind = "text"
    BY <1>1, <1>2, EventFacts DEF Text
  <2>2. Transcript(t) /\ AnsweredAlone(t) /\ Called(t) = {} /\ Results(t) = {}
    BY <2>1, OneEvent
  <2>3. Append(run.out, Text(run.turn)) = run.out \o t
    BY <1>2, <2>1, AppendIsConcat
  <2>4. /\ up /\ up' = up /\ snap' = snap /\ pending' = pending
        /\ EndTurn(run.out \o t, "final", 0)
    BY <1>6, <2>3 DEF FinalText, Round
  <2> HIDE DEF t
  <2> QED
    BY <1>3, <2>2, <2>4, TurnEnds
<1>7. CASE ToolBatch
  <2>1. /\ up /\ up' = up /\ snap' = snap /\ pending' = pending /\ run # NoRun
        /\ EndTurn(run.out \o b, "waiting", 1) \/ NextRound(b, 1)
    BY <1>7 DEF ToolBatch, Round, b
  <2>2. CASE EndTurn(run.out \o b, "waiting", 1)
    <3>1. /\ Called(b) \cup Results(b) \subseteq used.calls + 1 .. used.calls + 1
          /\ Called(b) \ Results(b) \subseteq {pending'.call}
          /\ pending'.call \notin Results(b) /\ pending' \in Question
      BY <1>1, <1>3, <1>4, <2>1 DEF n
    <3> QED
      BY <1>4, <2>1, <2>2, <3>1, TurnEnds
  <2>3. CASE NextRound(b, 1)
    <3>1. /\ Results(b) \subseteq used.calls + 1 .. used.calls + 1
          /\ Called(b) \subseteq Results(b)
      BY <1>1, <1>4 DEF n
    <3> QED
      BY <1>4, <2>1, <2>3, <3>1, RoundGoesOn
  <2> QED
    BY <2>1, <2>2, <2>3
<1>8. CASE MixedBatch
  <2> DEFINE m == <<Calls(run.turn, {NewCall, NewCall + 1}), Result(run.turn, NewCall),
                    Result(run.turn, NewCall + 1)>>
  <2>1. /\ Transcript(m) /\ AnsweredAlone(m) /\ WellPaired(m)
        /\ Called(m) = {NewCall, NewCall + 1} /\ Results(m) = {NewCall, NewCall + 1}
    BY <1>1, <1>2, CallsAnswered
  <2>2. /\ up' = up /\ snap' = snap /\ pending' = pending /\ run # NoRun
        /\ NextRound(m, 2)
    BY <1>8 DEF MixedBatch, Round
  <2> HIDE DEF m
  <2>3. /\ Results(m) \subseteq used.calls + 1 .. used.calls + 2
        /\ Called(m) \subseteq Results(m)
    BY <1>1, <2>1 DEF n
  <2> QED
    BY <2>1, <2>2, <2>3, RoundGoesOn
<1>9. CASE AskUser
  <2>1. /\ up /\ up' = up /\ snap' = snap
        /\ \/ pending' = pending /\ EndTurn(run.out \o b, "waiting", 1)
           \/ /\ pending = NoQuestion
              /\ pending' = [kind |-> "ask", call |-> NewCall]
              /\ EndTurn(run.out \o a, "waiting", 1)
    BY <1>5, <1>9 DEF AskUser, Round, b, hasPendingUserInteraction
  <2>2. CASE pending' = pending /\ EndTurn(run.out \o b, "waiting", 1)
    <3>1. /\ Called(b) \cup Results(b) \subseteq used.calls + 1 .. used.calls + 1
          /\ Called(b) \ Results(b) \subseteq {pending'.call}
          /\ pending'.call \notin Results(b) /\ pending' \in Question
      BY <1>1, <1>3, <1>4, <2>2 DEF n
    <3> QED
      BY <1>4, <2>1, <2>2, <3>1, TurnEnds
  <2>3. CASE /\ pending = NoQuestion
             /\ pending' = [kind |-> "ask", call |-> NewCall]
             /\ EndTurn(run.out \o a, "waiting", 1)
    <3>1. /\ pending' \in Question /\ pending'.call = NewCall /\ pending.call = 0
      BY <1>1, <2>3 DEF Question, NoQuestion, None
    <3>2. /\ Called(a) \cup Results(a) \subseteq used.calls + 1 .. used.calls + 1
          /\ Called(a) \ Results(a) \subseteq {pending'.call}
          /\ pending'.call \notin Results(a)
          /\ pending'.call \in {0} \cup (used.calls + 1 .. used.calls + 1)
      BY <1>1, <1>5, <3>1 DEF n
    <3> QED
      BY <1>5, <2>1, <2>3, <3>1, <3>2, TurnEnds
  <2> QED
    BY <2>1, <2>2, <2>3
<1>10. CASE Checkpoint
  <2>1. /\ up /\ up' = up /\ snap' = snap /\ pending = NoQuestion
        /\ pending' = [kind |-> "checkpoint", call |-> None]
        /\ EndTurn(run.out \o b, "waiting", 1)
    BY <1>10 DEF Checkpoint, Round, b, hasPendingUserInteraction
  <2>2. /\ pending' \in Question /\ pending'.call = 0 /\ pending.call = 0
    BY <2>1 DEF Question, NoQuestion, None
  <2>3. /\ Called(b) \cup Results(b) \subseteq used.calls + 1 .. used.calls + 1
        /\ Called(b) \ Results(b) \subseteq {pending'.call}
        /\ pending'.call \notin Results(b)
        /\ pending'.call \in {0} \cup (used.calls + 1 .. used.calls + 1)
    BY <1>1, <1>4, <2>2 DEF n
  <2> QED
    BY <1>4, <2>1, <2>2, <2>3, TurnEnds
<1>11. CASE TurnFails
  <2>1. /\ journal' = journal /\ pending' = pending /\ up' = up /\ snap' = snap
        /\ run' = NoRun /\ mem' = journal /\ used' = used
    BY <1>11 DEF TurnFails
  <2> QED
    BY <1>0, <2>1, SessionQuiet
<1> QED
  BY <1>6, <1>7, <1>8, <1>9, <1>10, <1>11 DEF Rounds

LEMMA StepInv ==
    ASSUME SessionInv, [SessionNext]_sessionVars PROVE SessionInv'
<1> DEFINE Unmoved == /\ journal' = journal /\ pending' = pending /\ up' = up
                    /\ snap' \in {snap, [saved |-> TRUE, pending |-> pending]}
                    /\ run' = run /\ mem' = mem
           Counted == /\ used' \in [lines : Nat, jobs : Nat, turns : Nat, calls : Nat,
                                    faults : Nat, crashes : Nat, cancels : Nat]
                      /\ used'.calls = used.calls /\ used'.crashes = used.crashes
                      /\ used'.faults >= used.faults
<1>0. used \in [lines : Nat, jobs : Nat, turns : Nat, calls : Nat, faults : Nat,
                crashes : Nat, cancels : Nat]
  BY InvFacts
<1>1. ASSUME Unmoved, Counted PROVE SessionInv'
  BY <1>1, SessionQuiet
<1>2. CASE InputSubmit
  <2>1. Unmoved /\ used' = [used EXCEPT !.lines = @ + 1, !.jobs = @ + 1]
    BY <1>2 DEF InputSubmit
  <2>2. used.lines + 1 \in Nat /\ used.jobs + 1 \in Nat /\ used.faults >= used.faults
    BY <1>0
  <2>3. Counted
    BY <1>0, <2>1, <2>2
  <2> QED
    BY <1>1, <2>1, <2>3
<1>3. CASE ScheduleAutoBus
  BY <1>0, <1>1, <1>3 DEF ScheduleAutoBus, Used
<1>4. CASE CancelTask
  BY <1>0, <1>1, <1>4 DEF CancelTask, Used
<1>5. CASE StartJob
  BY <1>0, <1>1, <1>5 DEF StartJob
<1>6. CASE BeginNaturalLanguage
  BY <1>6, TurnBegins DEF BeginNaturalLanguage
<1>7. CASE BusNext
  BY <1>7, TurnBegins DEF BusNext
<1>8. CASE RejectAnswer
  BY <1>0, <1>1, <1>8 DEF RejectAnswer
<1>9. CASE ResumeAfterAnswer
  BY <1>9, AnswerTaken
<1>10. CASE FinishJob
  BY <1>0, <1>1, <1>10 DEF FinishJob, persistSessionState
<1>11. CASE BusReply
  BY <1>0, <1>1, <1>11 DEF BusReply
<1>12. CASE BusReplyFails
  BY <1>0, <1>1, <1>12 DEF BusReplyFails, Used
<1>13. CASE BusFinish
  BY <1>0, <1>1, <1>13 DEF BusFinish, persistSessionState
<1>14. CASE Rounds
  BY <1>14, RoundInv
<1>15. CASE Crash
  BY <1>15, ProcessDies
<1>16. CASE ResumeSession
  BY <1>16, ProcessResumes
<1>17. CASE UNCHANGED sessionVars
  BY <1>0, <1>1, <1>17 DEF sessionVars
<1> QED
  BY <1>2, <1>3, <1>4, <1>5, <1>6, <1>7, <1>8, <1>9, <1>10, <1>11, <1>12, <1>13,
     <1>14, <1>15, <1>16, <1>17 DEF SessionNext, Host, Jobs

(* What the provider is sent is well paired: the repaired history, the event the
   turn began with, and the batches of the turn are, one by one. *)
LEMMA WireIsWellPaired ==
    ASSUME SessionInv PROVE HistoryPaired
<1>1. /\ Transcript(run.seen) /\ Transcript(run.out) /\ Transcript(<<run.first>>)
      /\ run.resumed \/ run.first.kind = "user"
      /\ run.first \in Event /\ run.seen \in Seq(Event)
      /\ WellPaired(run.out)
  BY DEF SessionInv, ConversationTypes, TurnInv, Transcript
<1>2. Transcript(History(run)) /\ WellPaired(History(run))
  <2>1. CASE run.resumed
    <3>1. Append(run.seen, run.first) = run.seen \o <<run.first>>
      BY <1>1, AppendIsConcat
    <3>2. Transcript(Append(run.seen, run.first))
      BY <1>1, <3>1, ConcatFacts
    <3> QED
      BY <2>1, <3>2, SaneIsWellPaired DEF History
  <2>2. CASE ~run.resumed
    <3> DEFINE built == buildModelMessages(run.seen)
    <3>1. Transcript(built) /\ WellPaired(built)
      BY <1>1, BuiltIsWellPaired
    <3>2. WellPaired(<<run.first>>)
      BY <1>1, <2>2, OneEvent
    <3>3. built \in Seq(Event)
      BY <3>1 DEF Transcript
    <3> HIDE DEF built
    <3>4. Append(built, run.first) = built \o <<run.first>>
      BY <1>1, <3>3, AppendIsConcat
    <3>5. Transcript(built \o <<run.first>>) /\ WellPaired(built \o <<run.first>>)
      BY <1>1, <3>1, <3>2, ConcatFacts, ConcatWellPaired
    <3> QED
      BY <2>2, <3>4, <3>5 DEF History, built
  <2> QED
    BY <2>1, <2>2
<1>3. WellPaired(Wire)
  BY <1>1, <1>2, ConcatWellPaired DEF Wire
<1> QED
  BY <1>3 DEF HistoryPaired

(* SessionInv holds in every reachable state: the base of the theorems below. *)
THEOREM SessionInvariant == SessionSpec => []SessionInv
<1> QED
  BY StartInv, StepInv, PTL DEF SessionSpec

(* Whatever crashes, failed appends and questions never answered leave in the
   journal, the provider only ever sees calls with their results directly behind. *)
THEOREM HistoryPairedHolds == SessionSpec => []HistoryPaired
<1> QED
  BY SessionInvariant, WireIsWellPaired, PTL

(* A question is answered once, but for one more time per crash. *)
THEOREM AnsweredOnceHolds == SessionSpec => []AnsweredOnce
<1>1. SessionInv => AnsweredOnce
  BY DEF SessionInv, AnswersInv, AnsweredOnce
<1> QED
  BY <1>1, SessionInvariant, PTL

(* A question stays open until it is answered, but for one per crash or fault. *)
THEOREM QuestionStaysOpenHolds == SessionSpec => []QuestionStaysOpen
<1>1. SessionInv => QuestionStaysOpen
  BY DEF SessionInv
<1> QED
  BY <1>1, SessionInvariant, PTL
=============================================================================
