-------------------------- MODULE GroupRuns_proofs --------------------------
(***************************************************************************)
(* Proofs about the runs of groups, for any number of groups, templates,   *)
(* users' agents and crashes: GroupsCloseTheirOwn, NobodyForgotten and     *)
(* DependenciesFirst.  GroupInv is the inductive invariant.  It says, for  *)
(* each group, what its file tells of its living agents (Filed) and what a *)
(* run knows of them (Running).                                            *)
(***************************************************************************)
EXTENDS GroupRuns, TLAPS

Files(g) ==
    /\ file[g] \in Group(g) \cup {None}
    /\ runtime[g] \in Group(g) \cup {None}
    /\ left[g] \subseteq Template[g] /\ batch[g] \subseteq left[g]
    /\ rollback[g] \subseteq Template[g]
    /\ pc[g] \in {"idle", "next", "launching", "wait", "inject"}
    /\ pc[g] # "idle" => file[g] # None /\ runtime[g] # None
    /\ pc[g] = "idle" => rollback[g] = {}

\* Members a run has not got to are pending, it closes what is active, it has got to
\* the members it depends on, and it knows of all living agents it has launched.
Running(g) ==
    pc[g] # "idle" =>
        /\ runtime[g].status = "starting"
        /\ left[g] # {} => batch[g] # {}
        /\ pc[g] # "next" => left[g] # {}
        /\ \A m \in left[g] : Status(g, m) = "pending"
        /\ \A m \in left[g] : \/ runtime[g].member[m].status = "pending"
                              \/ pc[g] \in {"wait", "inject"} /\ m = Item(g)
        /\ pc[g] \in {"wait", "inject"} => Record(g).status \in {"active", "reused"}
        /\ \A m \in Template[g] : m \in rollback[g] <=> runtime[g].member[m].status = "active"
        /\ \A m \in rollback[g] : runtime[g].member[m].agent = <<g, m>>
        /\ pc[g] = "launching" /\ StrategyOf(g) \in InArguments \cup {"ucode-bootstrap-file"}
              => <<g, <<g, Item(g)>>>> \in told
        /\ \A m \in batch[g] : DependsOn[g][m] \cap left[g] = {}
        /\ \A m \in Template[g] \ left[g] : InPlace(g, m)
        /\ \A m \in Template[g] : <<g, m>> \in alive =>
              m \in rollback[g] \/ (pc[g] = "launching" /\ m = Item(g))

\* A living agent of the group is listed, unless a crash came first.
Filed(g) ==
    /\ file[g] = None => \A m \in Template[g] : <<g, m>> \notin alive
    /\ file[g] # None => \A m \in Template[g] :
        /\ Status(g, m) = "active" => /\ file[g].member[m].agent = <<g, m>>
                                      /\ file[g].status \in {"starting", "active"}
        /\ <<g, m>> \in alive =>
              Status(g, m) \in {"pending", "active", "rollback_failed", "stop_failed"}
        /\ <<g, m>> \in alive /\ pc[g] = "idle" /\ Status(g, m) = "pending" => <<g, m>> \in lost

Known == /\ alive \subseteq Agents
         /\ \A a \in alive : Listed(a)

GroupInv ==
    /\ DOMAIN file = Groups /\ DOMAIN runtime = Groups /\ DOMAIN pc = Groups
    /\ DOMAIN left = Groups /\ DOMAIN batch = Groups /\ DOMAIN rollback = Groups
    /\ entry \in [Agents -> {"none", "starting", "ready", "inactive"}]
    /\ Known
    /\ GroupsCloseTheirOwn
    /\ \A g \in Groups : Files(g) /\ Running(g) /\ Filed(g)
-----------------------------------------------------------------------------
(* The operators of the model.                                             *)

LEMMA FirstIsIn ==
    ASSUME NEW g \in Groups, NEW S \in SUBSET Template[g], S # {}
    PROVE  First(g, S) \in S
<1>1. \E m \in S : \A n \in S : NotAfter(g, m, n)
  BY GroupConstants
<1> QED
  BY <1>1 DEF First

LEMMA ReadyOnes ==
    ASSUME NEW g \in Groups, NEW S \in SUBSET Template[g]
    PROVE  /\ Ready(g, S) \subseteq S
           /\ S # {} => Ready(g, S) # {}
           /\ \A m \in Ready(g, S) : DependsOn[g][m] \cap S = {}
BY GroupConstants DEF Ready

LEMMA UpdatedIs ==
    ASSUME NEW g \in Groups, runtime[g] \in Group(g), Item(g) \in Template[g],
           NEW r \in MemberRecord
    PROVE  /\ Updated(g, r) \in Group(g) /\ Updated(g, r).status = runtime[g].status
           /\ \A n \in Template[g] :
                 Updated(g, r).member[n] = IF n = Item(g) THEN r ELSE runtime[g].member[n]
BY DEF Group, Updated

LEMMA FailedIs ==
    ASSUME NEW g \in Groups, runtime[g] \in Group(g), Item(g) \in Template[g],
           NEW r \in MemberRecord
    PROVE  /\ Failed(g, r) \in Group(g) /\ Failed(g, r).status = "failed"
           /\ \A n \in Template[g] :
                 Failed(g, r).member[n] = IF n = Item(g) THEN r ELSE runtime[g].member[n]
<1>1. Updated(g, r) \in Group(g)
  BY UpdatedIs
<1>2. /\ Failed(g, r) \in Group(g) /\ Failed(g, r).status = "failed"
      /\ Failed(g, r).member = Updated(g, r).member
  BY <1>1 DEF Group, Failed
<1> QED
  BY <1>2, UpdatedIs

LEMMA OutcomeIs ==
    ASSUME NEW g \in Groups, NEW group \in Group(g), NEW M, NEW refused,
           NEW good \in {"rolled_back", "stopped"}, NEW bad \in {"rollback_failed", "stop_failed"},
           NEW new, new = Outcome(group, M, refused, good, bad)
    PROVE  /\ new \in Group(g) /\ new.status = group.status
           /\ \A n \in Template[g] :
                /\ new.member[n].agent = group.member[n].agent
                /\ n \notin M => new.member[n] = group.member[n]
                /\ n \in M => new.member[n].status =
                                IF group.member[n].agent \in refused THEN bad ELSE good
<1> DEFINE rec(n) == IF n \notin M THEN group.member[n]
                     ELSE [group.member[n] EXCEPT !.status =
                             IF group.member[n].agent \in refused THEN bad ELSE good]
<1>1. DOMAIN group.member = Template[g] /\ \A n \in Template[g] : group.member[n] \in MemberRecord
  BY DEF Group
<1>2. new = [group EXCEPT !.member = [n \in Template[g] |-> rec(n)]]
  BY <1>1 DEF Outcome
<1>3. \A n \in Template[g] : rec(n) \in MemberRecord
  BY <1>1 DEF MemberRecord
<1>4. [n \in Template[g] |-> rec(n)] \in [Template[g] -> MemberRecord]
  BY <1>3
<1>5. new \in Group(g) /\ new.status = group.status
  BY <1>2, <1>4 DEF Group
<1>6. new.member = [n \in Template[g] |-> rec(n)]
  BY <1>2 DEF Group
<1>7. \A n \in Template[g] : new.member[n] = rec(n)
  BY <1>6
<1> QED
  BY <1>1, <1>5, <1>7 DEF MemberRecord

\* A group that no step touches stays as it is.
LEMMA Frame ==
    ASSUME NEW h \in Groups, Files(h), Running(h), Filed(h),
           file'[h] = file[h], runtime'[h] = runtime[h], pc'[h] = pc[h],
           left'[h] = left[h], batch'[h] = batch[h], rollback'[h] = rollback[h],
           told \subseteq told', lost \subseteq lost',
           \A m \in Template[h] : <<h, m>> \in alive' => <<h, m>> \in alive
    PROVE  Files(h)' /\ Running(h)' /\ Filed(h)'
<1>1. Files(h)'
  BY DEF Files
<1>2. Filed(h)'
  BY DEF Filed, Status
<1>3. Running(h)'
  BY DEF Running, Status, Record, StrategyOf, Item, InPlace
<1> QED
  BY <1>1, <1>2, <1>3

\* Closing agents of its own.
LEMMA CloseOwn ==
    ASSUME GroupInv, NEW g \in Groups, NEW A, NEW refused,
           \A a \in A : \E m \in Template[g] : a = <<g, m>>,
           Close(g, A, refused)
    PROVE  /\ alive' \subseteq alive
           /\ \A a \in A : a \in alive' => a \in refused
           /\ entry' \in [Agents -> {"none", "starting", "ready", "inactive"}]
           /\ Known' /\ GroupsCloseTheirOwn'
<1>1. A \subseteq Agents
  BY GroupConstants DEF Agents
<1>2. alive' \subseteq alive /\ \A a \in A : a \in alive' => a \in refused
  BY <1>1 DEF GroupInv, Known, Listed, Close
<1>3. entry' \in [Agents -> {"none", "starting", "ready", "inactive"}] /\ Known'
  BY <1>2 DEF GroupInv, Known, Listed, Close
<1>4. GroupsCloseTheirOwn'
  BY DEF GroupInv, GroupsCloseTheirOwn, Close
<1> QED
  BY <1>2, <1>3, <1>4
-----------------------------------------------------------------------------
(* The steps of a run.                                                     *)

\* The other groups stay as they are.
Apart(g) ==
    /\ DOMAIN file' = Groups /\ DOMAIN runtime' = Groups /\ DOMAIN pc' = Groups
    /\ DOMAIN left' = Groups /\ DOMAIN batch' = Groups /\ DOMAIN rollback' = Groups
    /\ \A h \in Groups \ {g} :
        /\ file'[h] = file[h] /\ runtime'[h] = runtime[h] /\ pc'[h] = pc[h]
        /\ left'[h] = left[h] /\ batch'[h] = batch[h] /\ rollback'[h] = rollback[h]

\* What a step on group g has to show.
LEMMA OneGroup ==
    ASSUME GroupInv, NEW g \in Groups, Apart(g),
           told \subseteq told', lost \subseteq lost',
           \A a \in alive' : a \in alive \/ \E m \in Members : a = <<g, m>>,
           entry' \in [Agents -> {"none", "starting", "ready", "inactive"}],
           Known', GroupsCloseTheirOwn',
           Files(g)', Running(g)', Filed(g)'
    PROVE  GroupInv'
<1>1. /\ DOMAIN file' = Groups /\ DOMAIN runtime' = Groups /\ DOMAIN pc' = Groups
      /\ DOMAIN left' = Groups /\ DOMAIN batch' = Groups /\ DOMAIN rollback' = Groups
  BY DEF Apart
<1>2. ASSUME NEW h \in Groups, h # g
      PROVE  Files(h)' /\ Running(h)' /\ Filed(h)'
  <2>1. /\ file'[h] = file[h] /\ runtime'[h] = runtime[h] /\ pc'[h] = pc[h]
        /\ left'[h] = left[h] /\ batch'[h] = batch[h] /\ rollback'[h] = rollback[h]
    BY <1>2 DEF Apart
  <2>2. \A m \in Template[h] : <<h, m>> \in alive' => <<h, m>> \in alive
    BY <1>2
  <2> QED
    BY <2>1, <2>2, Frame DEF GroupInv
<1> QED
  BY <1>1, <1>2 DEF GroupInv

\* A run fails: what it has launched is closed or reported.
LEMMA FailKeeps ==
    ASSUME GroupInv, NEW g \in Groups, left[g] # {}, pc[g] \in {"next", "wait", "inject"},
           NEW r \in MemberRecord, r.status = "failed",
           Item(g) \in rollback[g] => r.agent = Record(g).agent,
           Fail(g, r), told' = told
    PROVE  GroupInv'
<1>0. Files(g) /\ Running(g) /\ Filed(g)
  BY DEF GroupInv
<1>1. batch[g] # {} /\ Item(g) \in batch[g] /\ Item(g) \in Template[g] /\ Item(g) \in left[g]
  BY <1>0, FirstIsIn DEF Files, Running, Item
<1> DEFINE group == Failed(g, r)
           targets == AgentsOf(group, rollback[g])
<1>2. /\ group \in Group(g) /\ group.status = "failed"
      /\ \A n \in Template[g] :
            group.member[n] = IF n = Item(g) THEN r ELSE runtime[g].member[n]
  BY <1>0, <1>1, FailedIs DEF Files
<1>3. PICK refused : /\ Close(g, targets, refused)
                     /\ file' = [file EXCEPT ![g] = Outcome(group, rollback[g], refused,
                                                  "rolled_back", "rollback_failed")]
  BY DEF Fail
<1> DEFINE new == Outcome(group, rollback[g], refused, "rolled_back", "rollback_failed")
<1> HIDE DEF group
<1>4. \A m \in rollback[g] : m \in Template[g] /\ group.member[m].agent = <<g, m>>
  BY <1>0, <1>1, <1>2 DEF Files, Running, Record
<1>5. \A a : a \in targets <=> \E m \in rollback[g] : a = <<g, m>>
  BY <1>4 DEF AgentsOf
<1> HIDE DEF targets
<1>7. /\ alive' \subseteq alive /\ \A a \in targets : a \in alive' => a \in refused
      /\ entry' \in [Agents -> {"none", "starting", "ready", "inactive"}]
      /\ Known' /\ GroupsCloseTheirOwn'
  BY <1>3, <1>4, <1>5, CloseOwn
<1>8. /\ new \in Group(g) /\ new.status = "failed"
      /\ \A n \in Template[g] :
            /\ n \notin rollback[g] => new.member[n] = group.member[n]
            /\ n \in rollback[g] => new.member[n].status =
                   IF group.member[n].agent \in refused THEN "rollback_failed" ELSE "rolled_back"
  BY <1>2, OutcomeIs
<1>9. /\ runtime' = [runtime EXCEPT ![g] = None] /\ pc' = [pc EXCEPT ![g] = "idle"]
      /\ left' = [left EXCEPT ![g] = {}] /\ batch' = [batch EXCEPT ![g] = {}]
      /\ rollback' = [rollback EXCEPT ![g] = {}] /\ lost' = lost
  BY DEF Fail
<1>10. /\ file'[g] = new /\ runtime'[g] = None /\ pc'[g] = "idle"
       /\ left'[g] = {} /\ batch'[g] = {} /\ rollback'[g] = {}
  BY <1>3, <1>9 DEF GroupInv
<1>11. Files(g)' /\ Running(g)'
  BY <1>8, <1>10 DEF Files, Running
<1>12. Filed(g)'
  <2>1. new # None
    BY <1>8, GroupConstants
  <2>2. ASSUME NEW m \in Template[g]
        PROVE  /\ new.member[m].status # "active"
               /\ <<g, m>> \in alive' => new.member[m].status = "rollback_failed"
    <3>1. CASE m \in rollback[g]
      <4>1. <<g, m>> \in targets
        BY <1>5, <3>1
      <4> QED
        BY <1>4, <1>7, <1>8, <3>1, <4>1
    <3>2. CASE m \notin rollback[g]
      <4>1. <<g, m>> \notin alive
        BY <1>0, <3>2 DEF Running
      <4>2. new.member[m].status # "active"
        BY <1>0, <1>2, <1>8, <3>2 DEF Running
      <4> QED
        BY <1>7, <4>1, <4>2
    <3> QED
      BY <3>1, <3>2
  <2> QED
    BY <1>10, <2>1, <2>2 DEF Filed, Status
<1>13. \A a \in alive' : a \in alive \/ \E m \in Members : a = <<g, m>>
  BY <1>7
<1>14. Apart(g)
  BY <1>3, <1>9 DEF Apart, GroupInv
<1> QED
  BY <1>7, <1>9, <1>11, <1>12, <1>13, <1>14, OneGroup

\* A run is done with a member whose agent it has.
LEMMA GoOnKeeps ==
    ASSUME GroupInv, NEW g \in Groups, pc[g] # "idle", left[g] # {},
           NEW r \in MemberRecord, r.status \in {"active", "reused"},
           r.status = "active" => r.agent = <<g, Item(g)>>,
           r.status # "active" => pc[g] # "launching" /\ <<g, Item(g)>> \notin alive,
           NEW rb, rollback'[g] = rb, DOMAIN rollback' = Groups,
           \A h \in Groups \ {g} : rollback'[h] = rollback[h],
           \A m : m \in rb <=> \/ m \in rollback[g] /\ m # Item(g)
                               \/ m = Item(g) /\ r.status = "active",
           GoOn(g, r), UNCHANGED <<agents, closed, lost>>,
           told \subseteq told',
           \/ <<g, r.agent>> \in told'
           \/ Strategy[g][Item(g)] = "none"
           \/ r.status = "reused" /\ Strategy[g][Item(g)] \in InArguments
    PROVE  GroupInv'
<1>0. Files(g) /\ Running(g) /\ Filed(g)
  BY DEF GroupInv
<1>1. batch[g] # {} /\ Item(g) \in batch[g] /\ Item(g) \in Template[g] /\ Item(g) \in left[g]
  BY <1>0, FirstIsIn DEF Files, Running, Item
<1> DEFINE group == Updated(g, r)
           rest == left[g] \ {Item(g)}
           next == IF batch[g] = {Item(g)} THEN Ready(g, rest) ELSE batch[g] \ {Item(g)}
<1>2. /\ group \in Group(g) /\ group.status = "starting"
      /\ \A n \in Template[g] :
            group.member[n] = IF n = Item(g) THEN r ELSE runtime[g].member[n]
  BY <1>0, <1>1, UpdatedIs DEF Files, Running
<1>3. /\ file' = [file EXCEPT ![g] = group] /\ runtime' = [runtime EXCEPT ![g] = group]
      /\ pc' = [pc EXCEPT ![g] = "next"]
      /\ left' = [left EXCEPT ![g] = rest] /\ batch' = [batch EXCEPT ![g] = next]
  BY DEF GoOn, GroupInv
<1> HIDE DEF group
<1>4. /\ file'[g] = group /\ runtime'[g] = group /\ pc'[g] = "next"
      /\ left'[g] = rest /\ batch'[g] = next /\ rollback'[g] = rb
      /\ alive' = alive /\ entry' = entry /\ lost' = lost /\ closed' = closed
  BY <1>3 DEF GroupInv, agents
<1>5. rest \subseteq Template[g]
  BY <1>0 DEF Files
<1>6. /\ next \subseteq rest /\ (rest # {} => next # {})
      /\ \A m \in next : DependsOn[g][m] \cap rest = {}
  <2>1. CASE batch[g] = {Item(g)}
    BY <1>5, <2>1, ReadyOnes
  <2>2. CASE batch[g] # {Item(g)}
    BY <1>0, <1>1, <2>2 DEF Files, Running
  <2> QED
    BY <2>1, <2>2
<1> HIDE DEF next
<1>7. None # group /\ rb \subseteq Template[g]
  BY <1>0, <1>1, <1>2, GroupConstants DEF Files
<1>8. Files(g)'
  BY <1>2, <1>4, <1>5, <1>6, <1>7 DEF Files
<1>9. \A m \in Template[g] : m \in rb <=> group.member[m].status = "active"
  <2>1. \A m \in Template[g] : m \in rollback[g] <=> runtime[g].member[m].status = "active"
    BY <1>0 DEF Running
  <2> QED
    BY <1>2, <2>1
<1>10. \A m \in rb : group.member[m].agent = <<g, m>>
  BY <1>0, <1>1, <1>2, <1>7 DEF Running
<1>11. \A m \in Template[g] : <<g, m>> \in alive => m \in rb
  <2>1. \A m \in Template[g] : <<g, m>> \in alive =>
          m \in rollback[g] \/ (pc[g] = "launching" /\ m = Item(g))
    BY <1>0 DEF Running
  <2> QED
    BY <2>1
<1>12. \A m \in rest : group.member[m].status = "pending"
  BY <1>0, <1>2, <1>5 DEF Running
<1>13. \A m \in Template[g] \ rest : InPlace(g, m)'
  <2> SUFFICES ASSUME NEW m \in Template[g] \ rest PROVE InPlace(g, m)'
    OBVIOUS
  <2>1. CASE m = Item(g)
    BY <1>2, <1>4, <2>1 DEF InPlace
  <2>2. CASE m # Item(g)
    BY <1>0, <1>2, <1>4, <2>2 DEF InPlace, Running
  <2> QED
    BY <2>1, <2>2
<1>14. Running(g)'
  BY <1>2, <1>4, <1>5, <1>6, <1>9, <1>10, <1>11, <1>12, <1>13 DEF Running, Status
<1>15. Filed(g)'
  BY <1>2, <1>4, <1>7, <1>9, <1>10, <1>11 DEF Filed, Status
<1>16. /\ entry' \in [Agents -> {"none", "starting", "ready", "inactive"}]
       /\ Known' /\ GroupsCloseTheirOwn'
  BY <1>4 DEF GroupInv, Known, Listed, GroupsCloseTheirOwn
<1>17. Apart(g)
  BY <1>3 DEF Apart, GroupInv
<1> QED
  BY <1>4, <1>8, <1>14, <1>15, <1>16, <1>17, OneGroup

\* A run waits for an agent it has launched or found.
LEMMA WaitKeeps ==
    ASSUME GroupInv, NEW g \in Groups, pc[g] # "idle", left[g] # {},
           NEW r \in MemberRecord, r.status \in {"active", "reused"},
           r.status = "active" => r.agent = <<g, Item(g)>>,
           r.status # "active" => pc[g] # "launching" /\ <<g, Item(g)>> \notin alive,
           NEW rb, rollback'[g] = rb, DOMAIN rollback' = Groups,
           \A h \in Groups \ {g} : rollback'[h] = rollback[h],
           \A m : m \in rb <=> \/ m \in rollback[g] /\ m # Item(g)
                               \/ m = Item(g) /\ r.status = "active",
           Wait(g, r), UNCHANGED <<agents, told, closed, lost>>
    PROVE  GroupInv'
<1>0. Files(g) /\ Running(g) /\ Filed(g)
  BY DEF GroupInv
<1>1. batch[g] # {} /\ Item(g) \in batch[g] /\ Item(g) \in Template[g] /\ Item(g) \in left[g]
  BY <1>0, FirstIsIn DEF Files, Running, Item
<1> DEFINE group == Updated(g, r)
<1>2. /\ group \in Group(g) /\ group.status = "starting"
      /\ \A n \in Template[g] :
            group.member[n] = IF n = Item(g) THEN r ELSE runtime[g].member[n]
  BY <1>0, <1>1, UpdatedIs DEF Files, Running
<1>3. /\ runtime' = [runtime EXCEPT ![g] = group] /\ pc' = [pc EXCEPT ![g] = "wait"]
      /\ file' = file /\ left' = left /\ batch' = batch
  BY DEF Wait, plan
<1> HIDE DEF group
<1>4. /\ file'[g] = file[g] /\ runtime'[g] = group /\ pc'[g] = "wait"
      /\ left'[g] = left[g] /\ batch'[g] = batch[g] /\ rollback'[g] = rb
      /\ alive' = alive /\ entry' = entry /\ lost' = lost /\ closed' = closed
      /\ told' = told /\ Item(g)' = Item(g)
  BY <1>3 DEF GroupInv, agents, Item
<1>7. None # group /\ rb \subseteq Template[g]
  BY <1>0, <1>1, <1>2, GroupConstants DEF Files
<1>8. Files(g)'
  BY <1>0, <1>2, <1>4, <1>7 DEF Files
<1>9. \A m \in Template[g] : m \in rb <=> group.member[m].status = "active"
  <2>1. \A m \in Template[g] : m \in rollback[g] <=> runtime[g].member[m].status = "active"
    BY <1>0 DEF Running
  <2> QED
    BY <1>2, <2>1
<1>10. \A m \in rb : group.member[m].agent = <<g, m>>
  BY <1>0, <1>1, <1>2, <1>7 DEF Running
<1>11. \A m \in Template[g] : <<g, m>> \in alive => m \in rb
  <2>1. \A m \in Template[g] : <<g, m>> \in alive =>
          m \in rollback[g] \/ (pc[g] = "launching" /\ m = Item(g))
    BY <1>0 DEF Running
  <2> QED
    BY <2>1
<1>12. \A m \in left[g] : group.member[m].status = "pending" \/ m = Item(g)
  <2>1. \A m \in left[g] : runtime[g].member[m].status = "pending" \/ m = Item(g)
    BY <1>0 DEF Running
  <2>2. left[g] \subseteq Template[g]
    BY <1>0 DEF Files
  <2> QED
    BY <1>2, <2>1, <2>2
<1>13. \A m \in Template[g] \ left[g] : InPlace(g, m)'
  <2>1. \A m \in Template[g] \ left[g] : InPlace(g, m) /\ m # Item(g)
    BY <1>0, <1>1 DEF Running
  <2> QED
    BY <1>2, <1>4, <2>1 DEF InPlace
<1>14. \A m \in left[g] : Status(g, m)' = "pending"
  BY <1>0, <1>4 DEF Running, Status
<1>15. Record(g)' = r
  BY <1>1, <1>2, <1>4 DEF Record
<1>16. Running(g)'
  BY <1>0, <1>2, <1>4, <1>9, <1>10, <1>11, <1>12, <1>13, <1>14, <1>15 DEF Running
<1>17. Filed(g)'
  BY <1>0, <1>4 DEF Filed, Status
<1>18. /\ entry' \in [Agents -> {"none", "starting", "ready", "inactive"}]
       /\ Known' /\ GroupsCloseTheirOwn'
  BY <1>4 DEF GroupInv, Known, Listed, GroupsCloseTheirOwn
<1>19. Apart(g)
  BY <1>3 DEF Apart, GroupInv
<1> QED
  BY <1>4, <1>8, <1>16, <1>17, <1>18, <1>19, OneGroup
-----------------------------------------------------------------------------
(* The actions.                                                            *)

\* The member a run is at.
LEMMA AtItem ==
    ASSUME GroupInv, NEW g \in Groups, pc[g] # "idle", left[g] # {}
    PROVE  /\ Files(g) /\ Running(g) /\ Filed(g)
           /\ Item(g) \in batch[g] /\ Item(g) \in left[g] /\ Item(g) \in Template[g]
           /\ Item(g) \in Members
           /\ Record(g) \in MemberRecord
           /\ Item(g) \in rollback[g] <=> Record(g).status = "active"
           /\ Item(g) \in rollback[g] => Record(g).agent = <<g, Item(g)>>
           /\ <<g, Item(g)>> \in alive => Item(g) \in rollback[g] \/ pc[g] = "launching"
           /\ pc[g] \in {"next", "launching"} => Record(g).status = "pending"
<1>1. Files(g) /\ Running(g) /\ Filed(g)
  BY DEF GroupInv
<1>2. /\ Item(g) \in batch[g] /\ Item(g) \in left[g] /\ Item(g) \in Template[g]
      /\ Item(g) \in Members
  BY <1>1, FirstIsIn, GroupConstants DEF Files, Running, Item
<1>3. runtime[g] \in Group(g)
  BY <1>1 DEF Files
<1>4. Record(g) \in MemberRecord
  BY <1>2, <1>3 DEF Record, Group
<1> QED
  BY <1>1, <1>2, <1>4 DEF Running, Record

LEMMA FailingKeeps ==
    ASSUME GroupInv, NEW g \in Groups,
           PrepareFails(g) \/ LaunchFails(g) \/ WaitFails(g) \/ InjectFails(g)
    PROVE  GroupInv'
<1>1. pc[g] \in {"next", "wait", "inject"} /\ left[g] # {}
  BY DEF GroupInv, Running, PrepareFails, LaunchFails, WaitFails, InjectFails, Due
<1>2. PICK r \in {[Record(g) EXCEPT !.status = "failed", !.boot = "failed"],
                  [Record(g) EXCEPT !.status = "failed"]} : Fail(g, r) /\ told' = told
  BY DEF PrepareFails, LaunchFails, WaitFails, InjectFails
<1>3. r \in MemberRecord /\ r.status = "failed" /\ r.agent = Record(g).agent
  BY <1>1, <1>2, AtItem DEF MemberRecord
<1> QED
  BY <1>1, <1>2, <1>3, FailKeeps

LEMMA ReuseKeeps ==
    ASSUME GroupInv, NEW g \in Groups, Reuse(g)
    PROVE  GroupInv'
<1>1. pc[g] = "next" /\ left[g] # {}
  BY DEF Reuse, Due
<1>2. /\ Record(g) \in MemberRecord /\ Item(g) \notin rollback[g]
      /\ <<g, Item(g)>> \notin alive /\ DOMAIN rollback = Groups
  BY <1>1, AtItem DEF GroupInv
<1>3. PICK a \in Holders(Item(g)) :
        LET r == [Record(g) EXCEPT !.status = "reused", !.agent = a]
        IN  \/ Wait(g, r) /\ UNCHANGED <<agents, rollback, history>>
            \/ /\ StrategyOf(g) \in InArguments
               /\ GoOn(g, [r EXCEPT !.boot = "applied"])
               /\ UNCHANGED <<agents, rollback, history>>
            \/ Fail(g, [r EXCEPT !.status = "failed", !.boot = "failed"]) /\ told' = told
  BY DEF Reuse
<1> DEFINE r == [Record(g) EXCEPT !.status = "reused", !.agent = a]
           rApplied == [r EXCEPT !.boot = "applied"]
           rFailed == [r EXCEPT !.status = "failed", !.boot = "failed"]
<1>4. /\ r \in MemberRecord /\ r.status = "reused"
      /\ rApplied \in MemberRecord /\ rApplied.status = "reused"
      /\ rFailed \in MemberRecord /\ rFailed.status = "failed"
  BY <1>2 DEF MemberRecord, Holders
<1>5. CASE Wait(g, r) /\ UNCHANGED <<agents, rollback, history>>
  <2> HIDE DEF r
  <2> QED
    BY <1>1, <1>2, <1>4, <1>5, WaitKeeps DEF history
<1>6. CASE /\ StrategyOf(g) \in InArguments /\ GoOn(g, rApplied)
           /\ UNCHANGED <<agents, rollback, history>>
  <2> HIDE DEF rApplied
  <2> QED
    BY <1>1, <1>2, <1>4, <1>6, GoOnKeeps DEF history, StrategyOf
<1>7. CASE Fail(g, rFailed) /\ told' = told
  <2> HIDE DEF rFailed
  <2> QED
    BY <1>1, <1>2, <1>4, <1>7, FailKeeps
<1> QED
  BY <1>3, <1>5, <1>6, <1>7

LEMMA LaunchReturnsKeeps ==
    ASSUME GroupInv, NEW g \in Groups, LaunchReturns(g)
    PROVE  GroupInv'
<1>1. pc[g] = "launching" /\ left[g] # {}
  BY DEF LaunchReturns, GroupInv, Running
<1> DEFINE r == [Record(g) EXCEPT !.status = "active", !.agent = <<g, Item(g)>>]
           rApplied == [r EXCEPT !.boot = "applied"]
           rb == rollback[g] \cup {Item(g)}
<1>2. /\ r \in MemberRecord /\ r.status = "active" /\ r.agent = <<g, Item(g)>>
      /\ rApplied \in MemberRecord /\ rApplied.status = "active"
      /\ rApplied.agent = <<g, Item(g)>>
  BY <1>1, AtItem DEF MemberRecord, Agents
<1>3. /\ rollback'[g] = rb /\ DOMAIN rollback' = Groups
      /\ \A h \in Groups \ {g} : rollback'[h] = rollback[h]
      /\ UNCHANGED <<agents, told, closed, lost>>
  BY DEF LaunchReturns, GroupInv, history
<1>4. \A m : m \in rb <=> \/ m \in rollback[g] /\ m # Item(g)
                          \/ m = Item(g)
  OBVIOUS
<1>5. \/ Wait(g, r)
      \/ StrategyOf(g) = "none" /\ GoOn(g, r)
      \/ StrategyOf(g) \in InArguments \cup {"ucode-bootstrap-file"} /\ GoOn(g, rApplied)
  BY DEF LaunchReturns
<1>6. StrategyOf(g) \in InArguments \cup {"ucode-bootstrap-file"} =>
         <<g, <<g, Item(g)>>>> \in told
  BY <1>1 DEF GroupInv, Running
<1> HIDE DEF r, rApplied, rb
<1>7. CASE Wait(g, r)
  BY <1>1, <1>2, <1>3, <1>4, <1>7, WaitKeeps
<1>8. CASE StrategyOf(g) = "none" /\ GoOn(g, r)
  BY <1>1, <1>2, <1>3, <1>4, <1>8, GoOnKeeps DEF StrategyOf
<1>9. CASE StrategyOf(g) \in InArguments \cup {"ucode-bootstrap-file"} /\ GoOn(g, rApplied)
  BY <1>1, <1>2, <1>3, <1>4, <1>6, <1>9, GoOnKeeps
<1> QED
  BY <1>5, <1>7, <1>8, <1>9

LEMMA InjectResolvesKeeps ==
    ASSUME GroupInv, NEW g \in Groups, InjectResolves(g)
    PROVE  GroupInv'
<1>1. pc[g] = "inject" /\ left[g] # {} /\ Record(g).status \in {"active", "reused"}
  BY DEF InjectResolves, GroupInv, Running
<1> DEFINE r == [Record(g) EXCEPT !.boot = "applied"]
<1>2. /\ r \in MemberRecord /\ r.status = Record(g).status /\ r.agent = Record(g).agent
  BY <1>1, AtItem DEF MemberRecord
<1>3. /\ Item(g) \in rollback[g] <=> Record(g).status = "active"
      /\ Item(g) \in rollback[g] => Record(g).agent = <<g, Item(g)>>
      /\ <<g, Item(g)>> \in alive => Item(g) \in rollback[g]
  BY <1>1, AtItem
<1>4. /\ rollback' = rollback /\ UNCHANGED <<agents, closed, lost>> /\ GoOn(g, r)
      /\ told \subseteq told' /\ <<g, r.agent>> \in told'
  BY <1>2 DEF InjectResolves
<1>5. DOMAIN rollback = Groups
  BY DEF GroupInv
<1> HIDE DEF r
<1> QED
  BY <1>1, <1>2, <1>3, <1>4, <1>5, GoOnKeeps

LEMMA RunGroupKeeps ==
    ASSUME GroupInv, NEW g \in Groups, RunGroup(g)
    PROVE  GroupInv'
<1> DEFINE group == DefaultRuntime(g)
<1>1. /\ Files(g) /\ Filed(g) /\ file[g] = None /\ pc[g] = "idle" /\ rollback[g] = {}
      /\ Template[g] \in SUBSET Template[g]
  BY DEF GroupInv, RunGroup, Files
<1>2. /\ group \in Group(g) /\ group # None /\ group.status = "starting"
      /\ \A m \in Template[g] : group.member[m].status = "pending"
  <2>1. group \in Group(g)
    BY DEF DefaultRuntime, Group, MemberRecord
  <2> QED
    BY <2>1, GroupConstants DEF DefaultRuntime
<1>3. /\ file' = [file EXCEPT ![g] = group] /\ runtime' = [runtime EXCEPT ![g] = group]
      /\ pc' = [pc EXCEPT ![g] = "next"] /\ left' = [left EXCEPT ![g] = Template[g]]
      /\ batch' = [batch EXCEPT ![g] = Ready(g, Template[g])]
      /\ rollback' = rollback /\ alive' = alive /\ entry' = entry
      /\ told' = told /\ closed' = closed /\ lost' = lost
  BY DEF RunGroup, agents, history
<1> HIDE DEF group
<1>4. /\ file'[g] = group /\ runtime'[g] = group /\ pc'[g] = "next"
      /\ left'[g] = Template[g] /\ batch'[g] = Ready(g, Template[g]) /\ rollback'[g] = {}
  BY <1>1, <1>3 DEF GroupInv
<1>5. Files(g)'
  BY <1>1, <1>2, <1>4, ReadyOnes DEF Files
<1>6. Running(g)'
  <2>1. \A m \in Template[g] : <<g, m>> \notin alive'
    BY <1>1, <1>3 DEF Filed
  <2> QED
    BY <1>1, <1>2, <1>4, <2>1, ReadyOnes DEF Running, Status
<1>7. Filed(g)'
  BY <1>1, <1>2, <1>3, <1>4 DEF Filed, Status
<1>8. Apart(g)
  BY <1>3 DEF Apart, GroupInv
<1>9. /\ entry' \in [Agents -> {"none", "starting", "ready", "inactive"}]
      /\ Known' /\ GroupsCloseTheirOwn'
  BY <1>3 DEF GroupInv, Known, Listed, GroupsCloseTheirOwn
<1> QED
  BY <1>3, <1>5, <1>6, <1>7, <1>8, <1>9, OneGroup

LEMMA SpawnKeeps ==
    ASSUME GroupInv, NEW g \in Groups, Spawn(g)
    PROVE  GroupInv'
<1> DEFINE new == <<g, Item(g)>>
<1>1. /\ pc[g] = "next" /\ left[g] # {} /\ Holders(Item(g)) = {}
      /\ entry' = [a \in Agents |-> IF a = new THEN "starting"
                                    ELSE IF NameOf(a) = Item(g) THEN "none" ELSE entry[a]]
      /\ alive' = alive \cup {new}
      /\ StrategyOf(g) \in InArguments \cup {"ucode-bootstrap-file"} => <<g, new>> \in told'
      /\ told \subseteq told' /\ pc' = [pc EXCEPT ![g] = "launching"]
      /\ file' = file /\ runtime' = runtime /\ left' = left /\ batch' = batch
      /\ rollback' = rollback /\ closed' = closed /\ lost' = lost
  BY DEF Spawn, Due, plan
<1>2. /\ Files(g) /\ Running(g) /\ Filed(g)
      /\ Item(g) \in batch[g] /\ Item(g) \in left[g] /\ Item(g) \in Template[g]
      /\ Item(g) \in Members
  BY <1>1, AtItem
<1>3. new \in Agents
  BY <1>2 DEF Agents
<1>4. /\ file'[g] = file[g] /\ runtime'[g] = runtime[g] /\ pc'[g] = "launching"
      /\ left'[g] = left[g] /\ batch'[g] = batch[g] /\ rollback'[g] = rollback[g]
      /\ Item(g)' = Item(g)
  BY <1>1 DEF GroupInv, Item
<1>5. Files(g)'
  BY <1>1, <1>2, <1>4 DEF Files
<1>6. Running(g)'
  <2>1. \A m \in Template[g] : <<g, m>> \in alive' => m \in rollback[g] \/ m = Item(g)
    BY <1>1, <1>2 DEF Running
  <2>2. \A m \in Template[g] \ left[g] : InPlace(g, m)'
    BY <1>1, <1>2, <1>4 DEF InPlace, Running
  <2>3. /\ runtime[g].status = "starting" /\ batch[g] # {}
        /\ \A m \in left[g] : Status(g, m)' = "pending"
        /\ \A m \in left[g] : runtime[g].member[m].status = "pending"
        /\ \A m \in Template[g] : m \in rollback[g] <=> runtime[g].member[m].status = "active"
        /\ \A m \in rollback[g] : runtime[g].member[m].agent = <<g, m>>
        /\ \A m \in batch[g] : DependsOn[g][m] \cap left[g] = {}
    BY <1>1, <1>2, <1>4 DEF Running, Status
  <2>4. StrategyOf(g)' = StrategyOf(g)
    BY <1>4 DEF StrategyOf
  <2> QED
    BY <1>1, <1>4, <2>1, <2>2, <2>3, <2>4 DEF Running
<1>7. Filed(g)'
  <2>1. file[g] # None /\ Status(g, Item(g)) = "pending"
    BY <1>1, <1>2 DEF Files, Running
  <2> QED
    BY <1>1, <1>2, <1>4, <2>1 DEF Filed, Status
<1>8. Known'
  <2>1. ASSUME NEW a \in alive, a # new PROVE entry'[a] = entry[a] /\ Listed(a)
    <3>1. a \in Agents /\ Listed(a)
      BY DEF GroupInv, Known
    <3>2. NameOf(a) # Item(g)
      BY <1>1, <3>1 DEF Holders
    <3> QED
      BY <1>1, <2>1, <3>1, <3>2
  <2>2. entry'[new] = "starting"
    BY <1>1, <1>3
  <2>3. alive' \subseteq Agents
    BY <1>1, <1>3 DEF GroupInv, Known
  <2> QED
    BY <1>1, <2>1, <2>2, <2>3 DEF Known, Listed
<1>9. entry' \in [Agents -> {"none", "starting", "ready", "inactive"}]
  BY <1>1 DEF GroupInv
<1>10. Apart(g) /\ GroupsCloseTheirOwn'
  BY <1>1 DEF Apart, GroupInv, GroupsCloseTheirOwn
<1>11. \A a \in alive' : a \in alive \/ \E m \in Members : a = <<g, m>>
  BY <1>1, <1>2
<1> QED
  BY <1>1, <1>5, <1>6, <1>7, <1>8, <1>9, <1>10, <1>11, OneGroup

LEMMA WaitOverKeeps ==
    ASSUME GroupInv, NEW g \in Groups, WaitOver(g)
    PROVE  GroupInv'
<1>1. /\ pc[g] = "wait" /\ pc' = [pc EXCEPT ![g] = "inject"]
      /\ file' = file /\ runtime' = runtime /\ left' = left /\ batch' = batch
      /\ rollback' = rollback /\ closed' = closed /\ lost' = lost /\ told' = told
      /\ alive' = alive /\ entry' = entry
  BY DEF WaitOver, agents, plan, history
<1>2. Files(g) /\ Running(g) /\ Filed(g)
  BY DEF GroupInv
<1>3. pc'[g] = "inject"
  BY <1>1 DEF GroupInv
<1>4. Files(g)' /\ Filed(g)'
  BY <1>1, <1>2, <1>3 DEF Files, Filed, Status
<1>5. Running(g)'
  BY <1>1, <1>2, <1>3 DEF Running, Status, Record, StrategyOf, Item, InPlace
<1>6. /\ entry' \in [Agents -> {"none", "starting", "ready", "inactive"}]
      /\ Known' /\ GroupsCloseTheirOwn' /\ Apart(g)
  BY <1>1 DEF GroupInv, Known, Listed, GroupsCloseTheirOwn, Apart
<1> QED
  BY <1>1, <1>4, <1>5, <1>6, OneGroup

LEMMA FinishKeeps ==
    ASSUME GroupInv, NEW g \in Groups, Finish(g)
    PROVE  GroupInv'
<1> DEFINE group == [runtime[g] EXCEPT !.status = "active"]
<1>1. /\ pc[g] = "next" /\ left[g] = {} /\ file' = [file EXCEPT ![g] = group]
      /\ runtime' = [runtime EXCEPT ![g] = None] /\ pc' = [pc EXCEPT ![g] = "idle"]
      /\ rollback' = [rollback EXCEPT ![g] = {}] /\ left' = left /\ batch' = batch
      /\ closed' = closed /\ lost' = lost /\ told' = told
      /\ alive' = alive /\ entry' = entry
  BY DEF Finish, agents, plan, history
<1>2. Files(g) /\ Running(g)
  BY DEF GroupInv
<1>3. /\ group \in Group(g) /\ group # None
      /\ group.status = "active" /\ group.member = runtime[g].member
  <2>1. runtime[g] \in Group(g)
    BY <1>1, <1>2 DEF Files
  <2> QED
    BY <2>1, GroupConstants DEF Group
<1> HIDE DEF group
<1>4. /\ file'[g] = group /\ runtime'[g] = None /\ pc'[g] = "idle" /\ rollback'[g] = {}
  BY <1>1 DEF GroupInv
<1>5. Files(g)' /\ Running(g)'
  BY <1>1, <1>2, <1>3, <1>4 DEF Files, Running
<1>6. Filed(g)'
  <2>1. \A m \in Template[g] : InPlace(g, m)
    BY <1>1, <1>2 DEF Running
  <2>2. \A m \in Template[g] :
          /\ runtime[g].member[m].status = "active" => runtime[g].member[m].agent = <<g, m>>
          /\ <<g, m>> \in alive => runtime[g].member[m].status = "active"
    BY <1>1, <1>2 DEF Running
  <2> QED
    BY <1>1, <1>3, <1>4, <2>2 DEF Filed, Status
<1>7. /\ entry' \in [Agents -> {"none", "starting", "ready", "inactive"}]
      /\ Known' /\ GroupsCloseTheirOwn' /\ Apart(g)
  BY <1>1 DEF GroupInv, Known, Listed, GroupsCloseTheirOwn, Apart
<1> QED
  BY <1>1, <1>5, <1>6, <1>7, OneGroup
-----------------------------------------------------------------------------
(* The rest of the daemon and of the world.                                *)

LEMMA StopKeeps ==
    ASSUME GroupInv, NEW g \in Groups, Stop(g)
    PROVE  GroupInv'
<1>1. /\ Files(g) /\ Running(g) /\ Filed(g) /\ file[g] # None
      /\ runtime' = runtime /\ pc' = pc /\ left' = left /\ batch' = batch
      /\ rollback' = rollback /\ told' = told /\ lost' = lost
  BY DEF GroupInv, Stop, run, plan
<1> DEFINE group == [file[g] EXCEPT !.status = "stopped"]
           targets == AgentsOf(file[g], ToStop(g))
<1>2. /\ group \in Group(g) /\ group.status = "stopped" /\ group.member = file[g].member
  <2>1. file[g] \in Group(g)
    BY <1>1 DEF Files
  <2> QED
    BY <2>1 DEF Group
<1>3. PICK refused : /\ Close(g, targets, refused)
                     /\ file' = [file EXCEPT ![g] = Outcome(group, ToStop(g), refused,
                                                  "stopped", "stop_failed")]
  BY DEF Stop
<1> DEFINE new == Outcome(group, ToStop(g), refused, "stopped", "stop_failed")
<1> HIDE DEF group
<1>4. \A m \in ToStop(g) : m \in Template[g] /\ file[g].member[m].agent = <<g, m>>
  BY <1>1 DEF ToStop, Filed
<1>5. \A a : a \in targets <=> \E m \in ToStop(g) : a = <<g, m>>
  BY <1>4 DEF AgentsOf
<1> HIDE DEF targets
<1>6. /\ alive' \subseteq alive /\ \A a \in targets : a \in alive' => a \in refused
      /\ entry' \in [Agents -> {"none", "starting", "ready", "inactive"}]
      /\ Known' /\ GroupsCloseTheirOwn'
  BY <1>3, <1>4, <1>5, CloseOwn
<1>7. /\ new \in Group(g) /\ new.status = "stopped"
      /\ \A n \in Template[g] :
            /\ n \notin ToStop(g) => new.member[n] = file[g].member[n]
            /\ n \in ToStop(g) => new.member[n].status =
                   IF file[g].member[n].agent \in refused THEN "stop_failed" ELSE "stopped"
  BY <1>2, OutcomeIs
<1>8. /\ file'[g] = new /\ new # None
  BY <1>3, <1>7, GroupConstants DEF GroupInv
<1> HIDE DEF new
<1>9. Files(g)'
  BY <1>1, <1>7, <1>8 DEF Files
<1>10. \A m \in Template[g] : Status(g, m)' =
           IF Status(g, m) # "active" THEN Status(g, m)
           ELSE IF file[g].member[m].agent \in refused THEN "stop_failed" ELSE "stopped"
  BY <1>7, <1>8 DEF Status, ToStop
<1>11. Running(g)'
  <2>1. \A m \in Template[g] : InPlace(g, m)' <=> InPlace(g, m)
    BY <1>1 DEF InPlace
  <2>2. /\ Item(g)' = Item(g) /\ Record(g)' = Record(g) /\ StrategyOf(g)' = StrategyOf(g)
    BY <1>1 DEF Item, Record, StrategyOf
  <2>3. pc[g] # "idle" => \A m \in left[g] : Status(g, m)' = "pending"
    <3>1. left[g] \subseteq Template[g]
      BY <1>1 DEF Files
    <3> QED
      BY <1>1, <1>10, <3>1 DEF Running
  <2> QED
    BY <1>1, <1>6, <2>1, <2>2, <2>3 DEF Running
<1>12. Filed(g)'
  <2>1. ASSUME NEW m \in Template[g]
        PROVE  /\ Status(g, m)' # "active"
               /\ <<g, m>> \in alive' =>
                    /\ Status(g, m)' \in {"pending", "rollback_failed", "stop_failed"}
                    /\ pc[g] = "idle" /\ Status(g, m)' = "pending" => <<g, m>> \in lost
    <3>1. CASE Status(g, m) = "active"
      <4>1. m \in ToStop(g) /\ <<g, m>> \in targets /\ file[g].member[m].agent = <<g, m>>
        BY <1>4, <1>5, <3>1 DEF ToStop
      <4> QED
        BY <1>6, <1>10, <3>1, <4>1
    <3>2. CASE Status(g, m) # "active"
      BY <1>1, <1>6, <1>10, <3>2 DEF Filed
    <3> QED
      BY <3>1, <3>2
  <2> QED
    BY <1>1, <1>8, <2>1 DEF Filed, Status
<1>13. Apart(g)
  BY <1>1, <1>3 DEF Apart, GroupInv
<1> QED
  BY <1>1, <1>6, <1>9, <1>11, <1>12, <1>13, OneGroup

\* What no run takes part in.
LEMMA OutsideKeeps ==
    ASSUME GroupInv, UNCHANGED <<file, run, history>>,
           \A a \in alive' \ alive : a \in Users,
           entry' \in [Agents -> {"none", "starting", "ready", "inactive"}], Known'
    PROVE  GroupInv'
<1>1. /\ file' = file /\ runtime' = runtime /\ pc' = pc /\ left' = left /\ batch' = batch
      /\ rollback' = rollback /\ told' = told /\ lost' = lost /\ closed' = closed
  BY DEF run, plan, history
<1>2. ASSUME NEW h \in Groups PROVE Files(h)' /\ Running(h)' /\ Filed(h)'
  <2>1. \A m \in Template[h] : <<h, m>> \notin Users
    BY GroupConstants
  <2>2. \A m \in Template[h] : <<h, m>> \in alive' => <<h, m>> \in alive
    BY <2>1
  <2> QED
    BY <1>1, <2>2, Frame DEF GroupInv
<1>3. GroupsCloseTheirOwn'
  BY <1>1 DEF GroupInv, GroupsCloseTheirOwn
<1> QED
  BY <1>1, <1>2, <1>3 DEF GroupInv

LEMMA WorldKeeps ==
    ASSUME GroupInv, NEW a \in Agents,
           \/ Die(a)
           \/ \E state \in {"starting", "ready"} : Report(a, state)
           \/ \E state \in {"none", "inactive"} : Notice(a, state)
    PROVE  GroupInv'
<1>1. /\ entry \in [Agents -> {"none", "starting", "ready", "inactive"}]
      /\ alive \subseteq Agents /\ \A b \in alive : Listed(b)
  BY DEF GroupInv, Known
<1>2. /\ UNCHANGED <<file, run, history>> /\ alive' \subseteq alive
      /\ entry' \in [Agents -> {"none", "starting", "ready", "inactive"}]
      /\ \A b \in alive' : entry'[b] \in {"starting", "ready"}
  BY <1>1 DEF Die, Report, Notice, Listed
<1>3. Known'
  BY <1>1, <1>2 DEF Known, Listed
<1> QED
  BY <1>2, <1>3, OutsideKeeps

LEMMA UserStartsKeeps ==
    ASSUME GroupInv, NEW u \in Users, UserStarts(u)
    PROVE  GroupInv'
<1>1. /\ Holders(Name[u]) = {} /\ u \in Agents /\ alive' = alive \cup {u}
      /\ entry' = [a \in Agents |-> IF a = u THEN "starting"
                                    ELSE IF NameOf(a) = Name[u] THEN "none" ELSE entry[a]]
      /\ UNCHANGED <<file, run, history>>
  BY DEF UserStarts, Agents
<1>2. entry' \in [Agents -> {"none", "starting", "ready", "inactive"}]
  BY <1>1 DEF GroupInv
<1>3. ASSUME NEW a \in alive, a # u PROVE entry'[a] = entry[a] /\ Listed(a)
  <2>1. a \in Agents /\ Listed(a)
    BY DEF GroupInv, Known
  <2>2. NameOf(a) # Name[u]
    BY <1>1, <2>1 DEF Holders
  <2> QED
    BY <1>1, <1>3, <2>1, <2>2
<1>4. entry'[u] = "starting"
  BY <1>1
<1>5. alive' \subseteq Agents
  BY <1>1 DEF GroupInv, Known
<1>6. Known'
  BY <1>1, <1>3, <1>4, <1>5 DEF Known, Listed
<1> QED
  BY <1>1, <1>2, <1>6, OutsideKeeps

LEMMA CrashKeeps ==
    ASSUME GroupInv, Crash
    PROVE  GroupInv'
<1>1. /\ lost' = lost \cup {a \in alive \ Users :
                            pc[a[1]] # "idle" /\ Status(a[1], a[2]) = "pending"}
      /\ runtime' = [g \in Groups |-> None] /\ pc' = [g \in Groups |-> "idle"]
      /\ left' = [g \in Groups |-> {}] /\ batch' = [g \in Groups |-> {}]
      /\ rollback' = [g \in Groups |-> {}]
      /\ entry' = entry /\ alive' = alive /\ file' = file /\ closed' = closed
  BY DEF Crash, agents
<1>2. ASSUME NEW h \in Groups PROVE Files(h)' /\ Running(h)' /\ Filed(h)'
  <2>1. /\ runtime'[h] = None /\ pc'[h] = "idle" /\ left'[h] = {} /\ batch'[h] = {}
        /\ rollback'[h] = {}
    BY <1>1
  <2>2. Files(h)' /\ Running(h)'
    BY <1>1, <2>1 DEF GroupInv, Files, Running
  <2>3. Filed(h)
    BY DEF GroupInv
  <2>4. ASSUME NEW m \in Template[h], <<h, m>> \in alive, Status(h, m) = "pending",
               file[h] # None
        PROVE  <<h, m>> \in lost'
    <3>1. <<h, m>> \notin Users
      BY GroupConstants
    <3>2. <<h, m>>[1] = h /\ <<h, m>>[2] = m
      OBVIOUS
    <3> QED
      BY <1>1, <2>3, <2>4, <3>1, <3>2 DEF Filed
  <2> QED
    BY <1>1, <2>1, <2>2, <2>3, <2>4 DEF Filed, Status
<1>3. Known' /\ GroupsCloseTheirOwn'
  BY <1>1 DEF GroupInv, Known, Listed, GroupsCloseTheirOwn
<1> QED
  BY <1>1, <1>2, <1>3 DEF GroupInv
-----------------------------------------------------------------------------
(* The theorems.                                                           *)

LEMMA GroupInvInit == Init => GroupInv
<1> SUFFICES ASSUME Init PROVE GroupInv
  OBVIOUS
<1>1. \A g \in Groups : Files(g) /\ Running(g) /\ Filed(g)
  BY DEF Init, Files, Running, Filed
<1> QED
  BY <1>1 DEF Init, GroupInv, Known, GroupsCloseTheirOwn

LEMMA GroupInvNext == GroupInv /\ [Next]_vars => GroupInv'
<1> SUFFICES ASSUME GroupInv, [Next]_vars PROVE GroupInv'
  OBVIOUS
<1>1. ASSUME NEW g \in Groups, RunGroup(g) \/ RunStep(g) \/ Stop(g) PROVE GroupInv'
  BY <1>1, RunGroupKeeps, FailingKeeps, ReuseKeeps, SpawnKeeps, LaunchReturnsKeeps,
     WaitOverKeeps, InjectResolvesKeeps, FinishKeeps, StopKeeps DEF RunStep
<1>2. ASSUME NEW a \in Agents,
             \/ Die(a)
             \/ \E state \in {"starting", "ready"} : Report(a, state)
             \/ \E state \in {"none", "inactive"} : Notice(a, state)
      PROVE  GroupInv'
  BY <1>2, WorldKeeps
<1>3. ASSUME NEW u \in Users, UserStarts(u) PROVE GroupInv'
  BY <1>3, UserStartsKeeps
<1>4. CASE Crash
  BY <1>4, CrashKeeps
<1>5. CASE UNCHANGED vars
  <2>1. Known'
    BY <1>5 DEF vars, agents, GroupInv, Known, Listed
  <2>2. entry' \in [Agents -> {"none", "starting", "ready", "inactive"}]
    BY <1>5 DEF vars, agents, GroupInv
  <2> QED
    BY <1>5, <2>1, <2>2, OutsideKeeps DEF vars, agents
<1> QED
  BY <1>1, <1>2, <1>3, <1>4, <1>5 DEF Next

\* What the file and a run say of the living agents of a group is never wrong: the
\* invariant of runGroup, failGroupLaunch and stopGroup with everything around them.
THEOREM GroupInvHolds == Spec => []GroupInv
BY GroupInvInit, GroupInvNext, PTL DEF Spec

\* No stop and no rollback ever signals an agent the group did not launch itself, for
\* all templates and however nicknames coincide.
THEOREM GroupsCloseTheirOwnHolds == Spec => []GroupsCloseTheirOwn
<1>1. GroupInv => GroupsCloseTheirOwn
  BY DEF GroupInv
<1> QED
  BY <1>1, GroupInvHolds, PTL

\* No agent launched by a group is left running without its file saying so, but for a
\* daemon that died before the file was written.
THEOREM NobodyForgottenHolds == Spec => []NobodyForgotten
<1>1. GroupInv => NobodyForgotten
  <2> SUFFICES ASSUME GroupInv, NEW g \in Groups, NEW m \in Template[g],
                      <<g, m>> \in alive \ lost, pc[g] = "idle"
               PROVE  \/ Status(g, m) = "active" /\ file[g].status \in {"starting", "active"}
                      \/ Status(g, m) \in {"rollback_failed", "stop_failed"}
    BY DEF NobodyForgotten
  <2> QED
    BY DEF GroupInv, Filed
<1> QED
  BY <1>1, GroupInvHolds, PTL

\* A launch that adds a member's agent.
LEMMA OnlySpawnLaunches ==
    ASSUME Next, NEW g \in Groups, NEW m \in Template[g], <<g, m>> \in alive' \ alive
    PROVE  Spawn(g) /\ m = Item(g)
<1>1. <<g, m>> \notin Users
  BY GroupConstants
<1>2. ASSUME NEW h \in Groups, NEW r, Fail(h, r) PROVE alive' \subseteq alive
  BY <1>2 DEF Fail, Close
<1>3. ASSUME NEW h \in Groups, RunGroup(h) \/ RunStep(h) \/ Stop(h)
      PROVE  Spawn(g) /\ m = Item(g)
  <2>1. CASE Spawn(h)
    BY <2>1 DEF Spawn
  <2>2. CASE PrepareFails(h) \/ LaunchFails(h) \/ WaitFails(h) \/ InjectFails(h)
    BY <1>2, <2>2 DEF PrepareFails, LaunchFails, WaitFails, InjectFails
  <2>3. CASE Reuse(h)
    BY <1>2, <2>3 DEF Reuse, agents
  <2>4. CASE \/ RunGroup(h) \/ LaunchReturns(h) \/ WaitOver(h) \/ InjectResolves(h)
             \/ Finish(h)
    BY <2>4 DEF RunGroup, LaunchReturns, WaitOver, InjectResolves, Finish, agents
  <2>5. CASE Stop(h)
    BY <2>5 DEF Stop, Close
  <2> QED
    BY <1>3, <2>1, <2>2, <2>3, <2>4, <2>5 DEF RunStep
<1>4. CASE \E a \in Agents :
              \/ Die(a)
              \/ \E state \in {"starting", "ready"} : Report(a, state)
              \/ \E state \in {"none", "inactive"} : Notice(a, state)
  BY <1>4 DEF Die, Report, Notice
<1>5. CASE \E u \in Users : UserStarts(u)
  BY <1>1, <1>5 DEF UserStarts
<1>6. CASE Crash
  BY <1>6 DEF Crash, agents
<1> QED
  BY <1>3, <1>4, <1>5, <1>6 DEF Next

\* buildLaunchPlan works in batches, whose order comes from startup_order and the
\* nicknames; still, whatever a member depends on is up and knows its role before it.
THEOREM DependenciesFirstHolds == Spec => DependenciesFirst
<1>1. GroupInv /\ [Next]_vars =>
        [\A g \in Groups : \A m \in Template[g] :
            <<g, m>> \in alive' \ alive => \A d \in DependsOn[g][m] : InPlace(g, d)]_vars
  <2> SUFFICES ASSUME GroupInv, Next, NEW g \in Groups, NEW m \in Template[g],
                      <<g, m>> \in alive' \ alive, NEW d \in DependsOn[g][m]
               PROVE  InPlace(g, d)
    OBVIOUS
  <2>1. Spawn(g) /\ m = Item(g)
    BY OnlySpawnLaunches
  <2>2. /\ pc[g] # "idle" /\ Running(g) /\ m \in batch[g]
    BY <2>1, AtItem DEF Spawn, Due
  <2>3. d \in Template[g] \ left[g]
    BY <2>2, GroupConstants DEF Running
  <2> QED
    BY <2>2, <2>3 DEF Running
<1> QED
  BY <1>1, GroupInvHolds, PTL DEF Spec, DependenciesFirst
=============================================================================
