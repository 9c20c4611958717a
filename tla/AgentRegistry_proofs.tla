------------------------ MODULE AgentRegistry_proofs ------------------------
(***************************************************************************)
(* The registry, for any number of agents and terminals.  While nobody     *)
(* gets in during a join, whoever has joined is known, nicknames are       *)
(* unique and a takeover loses no message; however the commands overlap,   *)
(* no save brings back an older activity.                                  *)
(***************************************************************************)
EXTENDS AgentRegistry, WellFoundedInduction, TLAPS

-----------------------------------------------------------------------------
(***************************************************************************)
(* Entries, and what the commands do to a registry.                        *)
(***************************************************************************)

\* A bounded set of numbers has a largest one.
LEMMA MaxOfNumbers ==
    ASSUME NEW N \in Nat, NEW S \in SUBSET (0 .. N), S # {}
    PROVE  Max(S) \in S /\ \A s \in S : s <= Max(S)
<1> DEFINE Above == {u \in Nat : \A s \in S : s <= u}
<1>1. Above \in SUBSET Nat /\ Above # {}
  <2>1. N \in Above
    OBVIOUS
  <2> QED
    BY <2>1
<1>2. PICK m \in Above : \A u \in Above : <<u, m>> \notin OpToRel(<, Nat)
  BY <1>1, NatLessThanWellFounded, WFMin
<1>3. \A u \in Above : ~ (u < m)
  BY <1>2 DEF OpToRel
<1>4. m \in S
  <2>1. SUFFICES ASSUME m \notin S PROVE FALSE
    OBVIOUS
  <2>2. m \in Nat /\ \A s \in S : s \in Nat /\ s < m
    BY <2>1
  <2>3. PICK s \in S : TRUE
    OBVIOUS
  <2>4. m - 1 \in Nat /\ m - 1 < m /\ \A t \in S : t <= m - 1
    BY <2>2, <2>3
  <2> QED
    BY <1>3, <2>4
<1>5. \E x \in S : \A y \in S : x >= y
  BY <1>4
<1> QED
  BY <1>5 DEF Max

\* The generated nickname is larger than every nickname there is.
LEMMA FreeNickIsLarger ==
    ASSUME NEW reg \in Registry
    PROVE  FreeNick(reg) \in Nat \ {0} /\ \A b \in Known(reg) : reg[b].nick < FreeNick(reg)
<1> DEFINE S == {0} \cup {reg[b].nick : b \in Known(reg)}
<1>1. \A b \in Known(reg) : reg[b].nick \in 1 .. MaxNick
  BY DEF Known, Registry, Entry
<1>2. S \in SUBSET (0 .. MaxNick) /\ S # {} /\ MaxNick \in Nat
  BY <1>1, RegistryConstants
<1>3. Max(S) \in S /\ \A s \in S : s <= Max(S)
  BY <1>2, MaxOfNumbers
<1> HIDE DEF S
<1>4. FreeNick(reg) = 1 + Max(S)
  BY DEF FreeNick, S
<1>5. \A b \in Known(reg) : reg[b].nick \in S
  BY DEF S
<1>6. \A s \in S : s \in Nat
  BY <1>2
<1>7. Max(S) \in Nat
  BY <1>3, <1>6
<1>8. ASSUME NEW b \in Known(reg) PROVE reg[b].nick < FreeNick(reg)
  <2>1. reg[b].nick \in Nat /\ reg[b].nick <= Max(S)
    BY <1>3, <1>5, <1>6
  <2> QED
    BY <1>4, <1>7, <2>1
<1> QED
  BY <1>4, <1>7, <1>8

\* cleanupInactive takes nobody for dead who runs, and changes no nickname.
LEMMA CleanedFacts ==
    ASSUME NEW reg \in Registry
    PROVE  /\ Cleaned(reg) \in Registry
           /\ Known(Cleaned(reg)) \subseteq Known(reg)
           /\ \A a \in Known(Cleaned(reg)) : Cleaned(reg)[a].nick = reg[a].nick
           /\ \A a \in Agents : Stays(a, reg) => Stays(a, Cleaned(reg))
           /\ UniqueIn(reg) => UniqueIn(Cleaned(reg))
<1> DEFINE c(a) == Cleaned(reg)[a]
<1>1. ASSUME NEW a \in Agents
      PROVE  /\ c(a) \in Entry \cup {Absent}
             /\ c(a) # Absent => reg[a] # Absent /\ c(a).nick = reg[a].nick
             /\ Stays(a, reg) => c(a) = reg[a]
  <2>1. c(a) = IF reg[a] = Absent \/ Active(a, reg[a]) THEN reg[a]
               ELSE IF a \in Headless \ Resumable THEN Absent
               ELSE IF reg[a].status = "active"
                    THEN [reg[a] EXCEPT !.status = "inactive", !.act = ""]
                    ELSE reg[a]
    BY DEF Cleaned
  <2> DEFINE marked == [reg[a] EXCEPT !.status = "inactive", !.act = ""]
  <2>2. reg[a] \in Entry \cup {Absent}
    BY DEF Registry
  <2>3. reg[a] # Absent => marked \in Entry /\ marked.nick = reg[a].nick
    BY <2>2 DEF Entry, Activities
  <2> HIDE DEF marked
  <2> QED
    BY <2>1, <2>2, <2>3 DEF Stays, marked
<1>2. Cleaned(reg) \in Registry
  BY <1>1 DEF Cleaned, Registry
<1> QED
  BY <1>1, <1>2 DEF Known, Stays, UniqueIn

\* A save keeps who is in the copy, with their nicknames, and nobody else.
LEMMA SaveFacts ==
    ASSUME NEW reg \in Registry, disk \in Registry, Save(reg)
    PROVE  /\ disk' \in Registry
           /\ Known(disk') = Known(reg)
           /\ \A a \in Known(reg) : /\ disk'[a].nick = reg[a].nick
                                    /\ disk'[a].status = reg[a].status
                                    /\ disk'[a].pid = reg[a].pid
           /\ UniqueIn(reg) => UniqueIn(disk')
           /\ \A a \in Agents : Stays(a, reg) /\ UNCHANGED launched /\ a \in alive'
                                  => Stays(a, disk)'
<1>1. ASSUME NEW a \in Agents
      PROVE  /\ disk'[a] \in Entry \cup {Absent}
             /\ disk'[a] = Absent <=> reg[a] = Absent
             /\ reg[a] # Absent => /\ disk'[a].nick = reg[a].nick
                                   /\ disk'[a].status = reg[a].status
                                   /\ disk'[a].pid = reg[a].pid
  <2> DEFINE merged == MergeActivity(reg[a], disk[a])
  <2>1. disk'[a] = IF reg[a] = Absent THEN Absent ELSE merged
    BY DEF Save
  <2>2. reg[a] \in Entry \cup {Absent} /\ disk[a] \in Entry \cup {Absent}
    BY DEF Registry
  <2>3. reg[a] # Absent =>
           /\ merged \in Entry
           /\ merged.nick = reg[a].nick /\ merged.status = reg[a].status
           /\ merged.pid = reg[a].pid
    BY <2>2 DEF MergeActivity, Entry
  <2> HIDE DEF merged
  <2> QED
    BY <2>1, <2>2, <2>3, AbsentIsNoEntry
<1>2. disk' \in Registry
  BY <1>1 DEF Save, Registry
<1> QED
  BY <1>1, <1>2 DEF Known, UniqueIn, Stays, Active, Lives

\* The name a join gives is held by nobody it leaves in the registry.
LEMMA NamesFacts ==
    ASSUME NEW reg \in Registry, NEW a \in Agents, NEW name \in Names(a, reg),
           name.nick <= MaxNick, name.scoped <= MaxNick
    PROVE  /\ name.nick \in 1 .. MaxNick /\ name.scoped \in 1 .. MaxNick
           /\ UniqueIn(reg) =>
                \A b \in Known(reg) \ ({a} \cup Displaced(a, reg)) : reg[b].nick # name.nick
<1> DEFINE new == {n \in 1 .. MaxNick : ~ Conflict(a, n, reg)}
           free == FreeNick(reg)
           inherited == {reg[b].nick : b \in Displaced(a, reg)}
           taking == IF inherited = {} THEN {free} ELSE inherited
<1>0. name \in IF reg[a] # Absent
              THEN {[nick |-> n, scoped |-> reg[a].scoped] : n \in new \cup {reg[a].nick}}
              ELSE {[nick |-> n, scoped |-> n] : n \in new}
                     \cup {[nick |-> n, scoped |-> free] : n \in taking}
  BY Zenon DEF Names
<1>1. \/ /\ reg[a] # Absent /\ name.scoped = reg[a].scoped
         /\ name.nick \in new \cup {reg[a].nick}
      \/ name.nick \in new /\ name.scoped = name.nick
      \/ name.scoped = free /\ name.nick \in taking
  <2> HIDE DEF new, free, taking
  <2> QED
    BY <1>0
<1>2. MaxNick \in Nat /\ free \in Nat \ {0} /\ \A b \in Known(reg) : reg[b].nick < free
  BY FreeNickIsLarger, RegistryConstants
<1>3. /\ \A b \in Known(reg) : reg[b].nick \in 1 .. MaxNick /\ reg[b].scoped \in 1 .. MaxNick
      /\ Displaced(a, reg) \subseteq Known(reg)
      /\ reg[a] # Absent => a \in Known(reg)
  BY DEF Known, Registry, Entry, Displaced
<1>4. \A n \in new : n \in 1 .. MaxNick /\ \A b \in Known(reg) \ {a} : reg[b].nick # n
  BY DEF Conflict
<1>5. \A n \in inherited : \E b \in Displaced(a, reg) : n = reg[b].nick
  OBVIOUS
<1> HIDE DEF new, free, inherited
<1>6. name.nick \in 1 .. MaxNick /\ name.scoped \in 1 .. MaxNick
  BY <1>1, <1>2, <1>3, <1>4, <1>5
<1>7. ASSUME UniqueIn(reg), NEW b \in Known(reg) \ ({a} \cup Displaced(a, reg))
      PROVE  reg[b].nick # name.nick
  <2>1. reg[b].nick # free
    BY <1>2, <1>3
  <2>2. reg[b].nick \notin new
    BY <1>4
  <2>3. reg[b].nick \notin inherited
    BY <1>3, <1>5, <1>7 DEF UniqueIn
  <2>4. reg[a] # Absent => reg[b].nick # reg[a].nick
    BY <1>3, <1>7 DEF UniqueIn
  <2> QED
    BY <1>1, <2>1, <2>2, <2>3, <2>4
<1> QED
  BY <1>6, <1>7

-----------------------------------------------------------------------------
(***************************************************************************)
(* Types.                                                                  *)
(***************************************************************************)

LEMMA TypeInit == Init => TypeOK
BY RegistryConstants DEF Init, TypeOK, Nobody, Registry

\* The entry a join makes.
LEMMA NewEntryFacts ==
    ASSUME NEW a \in Agents, NEW name, NEW old, now \in Nat, launched[a] \in Nat,
           name.nick \in 1 .. MaxNick, name.scoped \in 1 .. MaxNick
    PROVE  /\ NewEntry(a, name, old) \in Entry
           /\ NewEntry(a, name, old).nick = name.nick
           /\ NewEntry(a, name, old).status = "active"
           /\ NewEntry(a, name, old).pid = launched[a]
BY DEF NewEntry, Entry, Activities

\* What a join begins with: the copy it will save.
LEMMA BeginFacts ==
    ASSUME TypeOK, NEW a \in Agents, BeginJoin(a)
    PROVE  \E copy \in Registry :
              /\ mem' = [mem EXCEPT ![a] = copy]
              /\ copy[a] # Absent /\ copy[a].status = "active" /\ copy[a].pid = launched[a]
              /\ \A b \in Agents \ {a} :
                    copy[b] = IF b \in Displaced(a, Cleaned(disk)) THEN Absent
                              ELSE Cleaned(disk)[b]
              /\ UniqueIn(disk) => UniqueIn(copy)
<1> DEFINE reg == Cleaned(disk)
<1>1. PICK name \in Names(a, reg) :
        /\ name.nick <= MaxNick /\ name.scoped <= MaxNick
        /\ mem' = [mem EXCEPT ![a] =
             [b \in Agents |->
                IF b = a THEN NewEntry(a, name, reg[a])
                ELSE IF b \in Displaced(a, reg) THEN Absent
                ELSE reg[b]]]
  BY DEF BeginJoin
<1>2. reg \in Registry /\ (UniqueIn(disk) => UniqueIn(reg))
  BY CleanedFacts DEF TypeOK
<1> DEFINE entry == NewEntry(a, name, reg[a])
           copy == [b \in Agents |->
                      IF b = a THEN entry
                      ELSE IF b \in Displaced(a, reg) THEN Absent
                      ELSE reg[b]]
<1> HIDE DEF reg
<1>3. /\ name.nick \in 1 .. MaxNick /\ name.scoped \in 1 .. MaxNick
      /\ UniqueIn(reg) =>
           \A b \in Known(reg) \ ({a} \cup Displaced(a, reg)) : reg[b].nick # name.nick
  BY <1>1, <1>2, NamesFacts
<1>4. now \in Nat /\ launched[a] \in Nat
  BY RegistryConstants DEF TypeOK
<1>5. /\ entry \in Entry /\ entry.nick = name.nick
      /\ entry.status = "active" /\ entry.pid = launched[a]
  BY <1>3, <1>4, NewEntryFacts
<1> HIDE DEF entry
<1>6. copy \in Registry
  BY <1>2, <1>5 DEF Registry
<1>7. /\ mem' = [mem EXCEPT ![a] = copy] /\ copy[a] = entry
      /\ \A b \in Agents \ {a} :
            copy[b] = IF b \in Displaced(a, reg) THEN Absent ELSE reg[b]
  BY <1>1 DEF entry
<1> HIDE DEF copy
<1>8. ASSUME UniqueIn(disk) PROVE UniqueIn(copy)
  <2>1. \A b \in Known(copy) \ {a} : /\ b \in Known(reg) \ ({a} \cup Displaced(a, reg))
                                     /\ copy[b] = reg[b]
    BY <1>7 DEF Known
  <2>2. UniqueIn(reg) /\ \A b \in Known(copy) \ {a} : copy[b].nick # copy[a].nick
    BY <1>2, <1>3, <1>5, <1>7, <1>8, <2>1
  <2> QED
    BY <2>1, <2>2 DEF UniqueIn
<1>9. copy[a] # Absent
  BY <1>5, <1>7, AbsentIsNoEntry
<1> QED
  BY <1>5, <1>6, <1>7, <1>8, <1>9 DEF reg

\* A command that loads, cleans up, changes an entry and saves.
LEMMA LeaveFacts ==
    ASSUME TypeOK, NEW a \in Agents, Leave(a)
    PROVE  \E reg \in Registry :
              /\ Save(reg)
              /\ UniqueIn(disk) => UniqueIn(reg)
              /\ \A b \in Agents \ {a} : Stays(b, disk) => Stays(b, reg)
<1> DEFINE old == Cleaned(disk)
           reg == [old EXCEPT ![a].status = "inactive", ![a].act = ""]
           left == [old[a] EXCEPT !.status = "inactive", !.act = ""]
<1>1. /\ old \in Registry
      /\ UniqueIn(disk) => UniqueIn(old)
      /\ \A b \in Agents : Stays(b, disk) => Stays(b, old)
  BY CleanedFacts DEF TypeOK
<1>2. old[a] # Absent /\ Save(reg)
  BY DEF Leave
<1> HIDE DEF old
<1>3. old \in [Agents -> Entry \cup {Absent}] /\ old[a] \in Entry
  BY <1>1, <1>2 DEF Registry
<1>4. left \in Entry /\ left.nick = old[a].nick
  BY <1>3 DEF Entry, Activities
<1>5. reg = [old EXCEPT ![a] = left]
  BY <1>3
<1> HIDE DEF reg, left
<1>6. reg \in Registry /\ reg[a] = left /\ \A b \in Agents \ {a} : reg[b] = old[b]
  BY <1>3, <1>4, <1>5 DEF Registry
<1>7. UniqueIn(old) => UniqueIn(reg)
  <2>1. \A b \in Known(reg) : b \in Known(old) /\ reg[b].nick = old[b].nick
    BY <1>2, <1>4, <1>6 DEF Known
  <2> QED
    BY <2>1 DEF UniqueIn
<1> QED
  BY <1>1, <1>2, <1>6, <1>7 DEF Stays

LEMMA RenameFacts ==
    ASSUME TypeOK, NEW a \in Agents, NEW n \in 1 .. MaxNick, Rename(a, n)
    PROVE  \E reg \in Registry :
              /\ Save(reg)
              /\ UniqueIn(disk) => UniqueIn(reg)
              /\ \A b \in Agents : Stays(b, disk) => Stays(b, reg)
<1> DEFINE old == Cleaned(disk)
           reg == [old EXCEPT ![a].nick = n, ![a].scoped = n]
           named == [old[a] EXCEPT !.nick = n, !.scoped = n]
<1>1. /\ old \in Registry
      /\ UniqueIn(disk) => UniqueIn(old)
      /\ \A b \in Agents : Stays(b, disk) => Stays(b, old)
  BY CleanedFacts DEF TypeOK
<1>2. old[a] # Absent /\ Save(reg) /\ ~ Conflict(a, n, old)
  BY DEF Rename
<1> HIDE DEF old
<1>3. old \in [Agents -> Entry \cup {Absent}] /\ old[a] \in Entry
  BY <1>1, <1>2 DEF Registry
<1>4. /\ named \in Entry /\ named.nick = n
      /\ named.status = old[a].status /\ named.pid = old[a].pid
  BY <1>3 DEF Entry
<1>5. reg = [old EXCEPT ![a] = named]
  BY <1>3
<1> HIDE DEF reg, named
<1>6. reg \in Registry /\ reg[a] = named /\ \A b \in Agents \ {a} : reg[b] = old[b]
  BY <1>3, <1>4, <1>5 DEF Registry
<1>7. UniqueIn(old) => UniqueIn(reg)
  <2>1. \A b \in Known(old) \ {a} : old[b].nick # n
    BY <1>2 DEF Conflict
  <2>2. \A b \in Known(reg) : b \in Known(old) /\ (b # a => reg[b] = old[b])
    BY <1>2, <1>6 DEF Known
  <2> QED
    BY <1>4, <1>6, <2>1, <2>2 DEF UniqueIn
<1>8. named # Absent
  BY <1>4, AbsentIsNoEntry
<1>9. \A b \in Agents : Stays(b, old) => Stays(b, reg)
  BY <1>2, <1>4, <1>6, <1>8 DEF Stays, Active, Lives
<1> QED
  BY <1>1, <1>2, <1>6, <1>7, <1>9

\* An activity report changes one entry of the file, and nothing but its activity.
LEMMA ActivityFacts ==
    ASSUME TypeOK, NEW a \in Agents, NEW state \in {"working", "idle"},
           WriteActivity(a, state)
    PROVE  /\ disk' \in Registry
           /\ UniqueIn(disk) => UniqueIn(disk')
           /\ \A b \in Agents : Stays(b, disk) => Stays(b, disk)'
<1>1. PICK since \in {1, now + 1} :
         disk' = [disk EXCEPT ![a].act = state, ![a].since = since]
  BY DEF WriteActivity
<1> DEFINE told == [disk[a] EXCEPT !.act = state, !.since = since]
<1>2. disk \in [Agents -> Entry \cup {Absent}] /\ disk[a] # Absent /\ disk[a] \in Entry
  BY DEF TypeOK, Registry, WriteActivity
<1>3. since \in Nat
  BY RegistryConstants DEF TypeOK
<1>4. /\ told \in Entry /\ told.nick = disk[a].nick
      /\ told.status = disk[a].status /\ told.pid = disk[a].pid
  BY <1>2, <1>3 DEF Entry, Activities
<1>5. disk' = [disk EXCEPT ![a] = told]
  BY <1>1, <1>2
<1> HIDE DEF told
<1>6. disk' \in Registry /\ disk'[a] = told /\ \A b \in Agents \ {a} : disk'[b] = disk[b]
  BY <1>2, <1>4, <1>5 DEF Registry
<1>7. \A b \in Known(disk') : b \in Known(disk) /\ disk'[b].nick = disk[b].nick
  BY <1>2, <1>4, <1>6 DEF Known
<1>8. UniqueIn(disk) => UniqueIn(disk')
  BY <1>7 DEF UniqueIn
<1>9. told # Absent /\ UNCHANGED <<launched, alive>>
  BY <1>4, AbsentIsNoEntry DEF WriteActivity, process
<1>10. \A b \in Agents : Stays(b, disk) => Stays(b, disk)'
  BY <1>2, <1>4, <1>6, <1>9 DEF Stays, Active, Lives
<1> QED
  BY <1>6, <1>8, <1>10

LEMMA TypeStep == TypeOK /\ [Next]_vars => TypeOK'
<1> SUFFICES ASSUME TypeOK, [Next]_vars PROVE TypeOK'
  OBVIOUS
<1> USE DEF mail, process, joining
<1>1. ASSUME NEW a \in Agents, Launch(a) PROVE TypeOK'
  BY <1>1 DEF Launch, TypeOK
<1>2. ASSUME NEW a \in Agents, Exit(a) PROVE TypeOK'
  <2>1. Nobody \in Registry
    BY DEF Nobody, Registry
  <2> QED
    BY <1>2, <2>1 DEF Exit, TypeOK
<1>3. ASSUME NEW a \in Agents, BeginJoin(a) PROVE TypeOK'
  <2>1. PICK copy \in Registry : mem' = [mem EXCEPT ![a] = copy]
    BY <1>3, BeginFacts
  <2>2. mem' \in [Agents -> Registry]
    BY <2>1 DEF TypeOK
  <2>3. todo' \in [Agents -> SUBSET Agents]
    BY <1>3 DEF BeginJoin, Displaced, Known, TypeOK
  <2>4. /\ pc' \in [Agents -> {"idle", "read", "append", "clear", "save"}]
        /\ now' \in 0 .. MaxTime
        /\ UNCHANGED <<overlap, disk, mail, process, source, taken, member>>
    BY <1>3, RegistryConstants DEF BeginJoin, TypeOK
  <2> QED
    BY <2>2, <2>3, <2>4 DEF TypeOK
<1>4. ASSUME NEW a \in Agents, ReadQueue(a) PROVE TypeOK'
  BY <1>4 DEF ReadQueue, TypeOK
<1>5. ASSUME NEW a \in Agents, AppendQueue(a) PROVE TypeOK'
  BY <1>5 DEF AppendQueue, TypeOK
<1>6. ASSUME NEW a \in Agents, ClearQueue(a) PROVE TypeOK'
  <2>1. queue' \in [Agents -> SUBSET Messages] /\ todo' \in [Agents -> SUBSET Agents]
    BY <1>6 DEF ClearQueue, TypeOK
  <2> QED
    BY <1>6, <2>1 DEF ClearQueue, TypeOK
<1>7. ASSUME NEW a \in Agents, EndJoin(a) PROVE TypeOK'
  <2>1. mem[a] \in Registry /\ Nobody \in Registry
    BY DEF TypeOK, Nobody, Registry
  <2>2. disk' \in Registry
    BY <1>7, <2>1, SaveFacts DEF EndJoin, TypeOK
  <2> QED
    BY <1>7, <2>1, <2>2 DEF EndJoin, TypeOK
<1>8. ASSUME Touch PROVE TypeOK'
  <2>1. disk' \in Registry
    BY <1>8, CleanedFacts, SaveFacts DEF Touch, TypeOK
  <2> QED
    BY <1>8, <2>1 DEF Touch, TypeOK
<1>9. ASSUME NEW a \in Agents, Leave(a) PROVE TypeOK'
  <2>1. disk' \in Registry
    BY <1>9, LeaveFacts, SaveFacts DEF TypeOK
  <2> QED
    BY <1>9, <2>1 DEF Leave, TypeOK
<1>10. ASSUME NEW a \in Agents, NEW n \in 1 .. MaxNick, Rename(a, n) PROVE TypeOK'
  <2>1. disk' \in Registry
    BY <1>10, RenameFacts, SaveFacts DEF TypeOK
  <2> QED
    BY <1>10, <2>1 DEF Rename, TypeOK
<1>11. ASSUME NEW a \in Agents, NEW state \in {"working", "idle"}, WriteActivity(a, state)
       PROVE  TypeOK'
  <2>1. disk' \in Registry
    BY <1>11, ActivityFacts
  <2>2. now' \in 0 .. MaxTime
    BY <1>11, RegistryConstants DEF WriteActivity, TypeOK
  <2> QED
    BY <1>11, <2>1, <2>2 DEF WriteActivity, TypeOK
<1>12. ASSUME NEW a \in Agents, NEW m \in Messages, Send(m, a) \/ Receive(a, m)
       PROVE  TypeOK'
  BY <1>12 DEF Send, Receive, TypeOK
<1>13. CASE UNCHANGED vars
  BY <1>13 DEF vars, TypeOK
<1> QED
  BY <1>1, <1>2, <1>3, <1>4, <1>5, <1>6, <1>7, <1>8, <1>9, <1>10, <1>11, <1>12, <1>13
     DEF Next, Continue

\* Every variable of the registry has its type, however commands overlap.
THEOREM TypeCorrect == Spec => []TypeOK
<1>1. Init => TypeOK
  BY TypeInit
<1>2. TypeOK /\ [Next]_vars => TypeOK'
  BY TypeStep
<1> QED
  BY <1>1, <1>2, PTL DEF Spec

-----------------------------------------------------------------------------
(***************************************************************************)
(* While nobody gets in during a join.                                     *)
(***************************************************************************)

\* No join is under way.
Quiet == \A a \in Agents : pc[a] = "idle"

\* Who stays, stays while the launches and the processes are what they are.
LEMMA StaysKept ==
    ASSUME NEW a, NEW reg, Stays(a, reg), launched'[a] = launched[a], a \in alive'
    PROVE  Stays(a, reg)'
BY DEF Stays, Active, Lives

\* A step outside every join that moves no queue.
LEMMA QuietStep ==
    ASSUME RegistryInv, ~ overlap, Quiet,
           UNCHANGED <<overlap, queue, pc, todo, sent, handled>>,
           member' \subseteq alive',
           \A a \in member' : Stays(a, disk)',
           UniqueIn(disk')
    PROVE  (OneJoin /\ CopyInv /\ MoveInv /\ JoinedIsKnown /\ NicknamesUnique
              /\ TakeoverKeepsMessages)'
<1>1. \A a \in Agents : pc'[a] = "idle"
  BY DEF Quiet
<1>2. OneJoin' /\ CopyInv'
  BY <1>1 DEF OneJoin, CopyInv
<1>3. MoveInv'
  <2>1. \A a \in Agents : a \notin todo'[a]
    BY DEF RegistryInv, MoveInv
  <2> QED
    BY <1>1, <2>1 DEF MoveInv
<1>4. JoinedIsKnown' /\ NicknamesUnique' /\ TakeoverKeepsMessages'
  BY DEF RegistryInv, JoinedIsKnown, NicknamesUnique, TakeoverKeepsMessages
<1> QED
  BY <1>2, <1>3, <1>4

LEMMA RegistryInit == Init => RegistryInv
<1> SUFFICES ASSUME Init PROVE RegistryInv
  OBVIOUS
<1>1. OneJoin /\ CopyInv /\ MoveInv
  BY DEF Init, OneJoin, CopyInv, MoveInv
<1>2. JoinedIsKnown /\ NicknamesUnique /\ TakeoverKeepsMessages
  BY DEF Init, JoinedIsKnown, NicknamesUnique, TakeoverKeepsMessages, UniqueIn, Known, Nobody
<1> QED
  BY <1>1, <1>2, TypeInit DEF RegistryInv

LEMMA RegistryStep ==
    ASSUME RegistryInv, ~ overlap, Next
    PROVE  (OneJoin /\ CopyInv /\ MoveInv /\ JoinedIsKnown /\ NicknamesUnique
              /\ TakeoverKeepsMessages)'
<1> DEFINE Goal == OneJoin /\ CopyInv /\ MoveInv /\ JoinedIsKnown /\ NicknamesUnique
                     /\ TakeoverKeepsMessages
<1> SUFFICES Goal'
  OBVIOUS
<1> USE DEF mail, process, joining
<1>0. /\ TypeOK /\ OneJoin /\ CopyInv /\ MoveInv
      /\ member \subseteq alive /\ member \subseteq Agents
      /\ \A a \in member : Stays(a, disk)
      /\ UniqueIn(disk)
      /\ sent \subseteq handled \cup UNION {queue[a] : a \in Agents}
      /\ Open => Quiet
      /\ disk \in Registry /\ pc \in [Agents -> {"idle", "read", "append", "clear", "save"}]
  BY DEF RegistryInv, JoinedIsKnown, NicknamesUnique, TakeoverKeepsMessages, OneJoin,
         Open, Quiet, TypeOK
<1>1. ASSUME NEW a \in Agents, Launch(a) PROVE Goal'
  <2>1. \A b \in member' : launched'[b] = launched[b] /\ b \in alive' /\ Stays(b, disk)
    BY <1>0, <1>1 DEF Launch, TypeOK
  <2>2. Quiet /\ UNCHANGED <<overlap, queue, pc, todo, sent, handled, disk>>
    BY <1>0, <1>1 DEF Launch
  <2>3. \A b \in member' : Stays(b, disk)'
    BY <2>1, <2>2 DEF Stays, Active, Lives
  <2> QED
    BY <1>0, <2>1, <2>2, <2>3, QuietStep
<1>2. ASSUME NEW a \in Agents, Exit(a) PROVE Goal'
  <2>1. /\ UNCHANGED <<overlap, disk, queue, sent, handled, launched, source>>
        /\ alive' = alive \ {a} /\ member' = member \ {a}
        /\ pc' = [pc EXCEPT ![a] = "idle"]
        /\ \A c \in Agents : c # a => mem'[c] = mem[c] /\ taken'[c] = taken[c]
        /\ \A c \in Agents : c # a => todo'[c] = todo[c]
        /\ todo'[a] = {}
    BY <1>0, <1>2 DEF Exit, TypeOK
  <2>2. \A c \in Agents : pc'[c] # "idle" => c # a /\ pc'[c] = pc[c]
    BY <1>0, <2>1
  <2>3. OneJoin'
    BY <1>0, <2>1, <2>2 DEF OneJoin
  <2>4. \A b \in member' : Stays(b, disk)'
    BY <1>0, <2>1 DEF Stays, Active, Lives
  <2>5. CopyInv'
    <3> SUFFICES ASSUME NEW c \in Agents, pc'[c] # "idle"
                 PROVE  /\ \A b \in (member' \ Displaced(c, disk)') \cup {c} : Stays(b, mem[c])'
                        /\ UniqueIn(mem[c])'
      BY DEF CopyInv
    <3>1. pc[c] # "idle" /\ c # a /\ mem'[c] = mem[c] /\ c \in alive
      BY <1>0, <2>1, <2>2 DEF OneJoin
    <3>2. Displaced(c, disk)' = Displaced(c, disk)
      BY <2>1 DEF Displaced, Known
    <3>3. ASSUME NEW b \in (member' \ Displaced(c, disk)') \cup {c} PROVE Stays(b, mem[c])'
      <4>1. b \in (member \ Displaced(c, disk)) \cup {c} /\ b \in alive'
        BY <1>0, <2>1, <3>1, <3>2, <3>3
      <4>2. Stays(b, mem[c])
        BY <3>1, <4>1, <1>0 DEF CopyInv
      <4> QED
        BY <2>1, <3>1, <4>1, <4>2 DEF Stays, Active, Lives
    <3>4. UniqueIn(mem[c])'
      BY <1>0, <3>1 DEF CopyInv, UniqueIn, Known
    <3> QED
      BY <3>3, <3>4
  <2>6. MoveInv'
    BY <1>0, <2>1, <2>2 DEF MoveInv
  <2>7. JoinedIsKnown' /\ NicknamesUnique' /\ TakeoverKeepsMessages'
    BY <1>0, <2>1, <2>4 DEF JoinedIsKnown, NicknamesUnique, TakeoverKeepsMessages, UniqueIn, Known
  <2> QED
    BY <2>3, <2>5, <2>6, <2>7
<1>3. ASSUME NEW a \in Agents, BeginJoin(a) PROVE Goal'
  <2> DEFINE reg == Cleaned(disk)
  <2>1. PICK copy \in Registry :
              /\ mem' = [mem EXCEPT ![a] = copy]
              /\ copy[a] # Absent /\ copy[a].status = "active" /\ copy[a].pid = launched[a]
              /\ \A b \in Agents \ {a} :
                    copy[b] = IF b \in Displaced(a, reg) THEN Absent ELSE reg[b]
              /\ UniqueIn(disk) => UniqueIn(copy)
    BY <1>0, <1>3, BeginFacts
  <2>2. /\ \A b \in Agents : Stays(b, disk) => Stays(b, reg)
        /\ Known(reg) \subseteq Known(disk)
    BY <1>0, CleanedFacts
  <2>3. /\ Quiet /\ a \in alive
        /\ UNCHANGED <<overlap, disk, queue, sent, handled, launched, alive, source, taken, member>>
        /\ pc' = [pc EXCEPT ![a] = IF Displaced(a, reg) = {} THEN "save" ELSE "read"]
        /\ todo' = [todo EXCEPT ![a] = Displaced(a, reg)]
    BY <1>0, <1>3 DEF BeginJoin
  <2> HIDE DEF reg
  <2>4. /\ \A c \in Agents : c # a => pc'[c] = "idle"
        /\ pc'[a] \in {"save", "read"}
        /\ mem'[a] = copy
    BY <1>0, <2>1, <2>3 DEF Quiet, TypeOK
  <2>5. OneJoin'
    BY <1>0, <2>3, <2>4 DEF OneJoin
  <2>6. CopyInv'
    <3>1. Displaced(a, reg) \subseteq Displaced(a, disk)
      BY <2>2 DEF Displaced
    <3>2. Displaced(a, disk)' = Displaced(a, disk)
      BY <2>3 DEF Displaced, Known
    <3>3. ASSUME NEW b \in (member' \ Displaced(a, disk)') \cup {a} PROVE Stays(b, mem[a])'
      <4>1. CASE b = a
        BY <2>1, <2>3, <2>4, <4>1 DEF Stays, Active, Lives
      <4>2. CASE b # a
        <5>1. b \in member /\ b \in Agents /\ b \notin Displaced(a, reg)
          BY <1>0, <2>3, <3>1, <3>2, <3>3, <4>2
        <5>2. Stays(b, reg) /\ copy[b] = reg[b]
          BY <1>0, <2>1, <2>2, <4>2, <5>1
        <5> QED
          BY <2>3, <2>4, <5>2 DEF Stays, Active, Lives
      <4> QED
        BY <4>1, <4>2
    <3>4. UniqueIn(mem[a])'
      BY <1>0, <2>1, <2>4 DEF UniqueIn, Known
    <3> QED
      BY <2>4, <3>3, <3>4 DEF CopyInv
  <2>7. MoveInv'
    <3>1. a \notin Displaced(a, reg)
      BY DEF Displaced
    <3>2. \A c \in Agents : c \notin todo'[c]
      BY <1>0, <2>3, <3>1 DEF MoveInv, TypeOK
    <3> QED
      BY <2>4, <3>2 DEF MoveInv
  <2>8. JoinedIsKnown' /\ NicknamesUnique' /\ TakeoverKeepsMessages'
    BY <1>0, <2>3 DEF JoinedIsKnown, NicknamesUnique, TakeoverKeepsMessages, UniqueIn, Known,
                      Stays, Active, Lives
  <2> QED
    BY <2>5, <2>6, <2>7, <2>8
<1>4. ASSUME NEW a \in Agents, Continue(a), ~ EndJoin(a) PROVE Goal'
  <2>1. /\ UNCHANGED <<overlap, disk, launched, alive, mem, member, sent, handled>>
        /\ pc[a] # "idle" /\ a \in alive
        /\ \A c \in Agents : c # a => pc[c] = "idle" /\ pc'[c] = "idle"
    BY <1>0, <1>4 DEF Continue, ReadQueue, AppendQueue, ClearQueue, OneJoin
  <2>2. OneJoin' /\ JoinedIsKnown' /\ NicknamesUnique'
    BY <1>0, <2>1 DEF OneJoin, JoinedIsKnown, NicknamesUnique, UniqueIn, Known,
                      Stays, Active, Lives
  <2>3. CopyInv'
    <3>1. Displaced(a, disk)' = Displaced(a, disk)
      BY <2>1 DEF Displaced, Known
    <3>2. /\ \A b \in (member \ Displaced(a, disk)) \cup {a} : Stays(b, mem[a])
          /\ UniqueIn(mem[a])
      BY <1>0, <2>1 DEF CopyInv
    <3>3. \A b \in (member' \ Displaced(a, disk)') \cup {a} : Stays(b, mem[a])'
      BY <2>1, <3>1, <3>2 DEF Stays, Active, Lives
    <3>4. UniqueIn(mem[a])'
      BY <2>1, <3>2 DEF UniqueIn, Known
    <3> QED
      BY <2>1, <3>3, <3>4 DEF CopyInv
  <2>4. MoveInv' /\ TakeoverKeepsMessages'
    <3>1. CASE ReadQueue(a)
      <4>1. PICK b \in todo[a] : /\ source' = [source EXCEPT ![a] = b]
                                 /\ taken' = [taken EXCEPT ![a] = queue[b]]
        BY <3>1 DEF ReadQueue
      <4>2. pc'[a] = "append" /\ source'[a] = b /\ taken'[a] = queue[b] /\ UNCHANGED <<queue, todo>>
        BY <3>1, <4>1, <1>0 DEF ReadQueue, TypeOK
      <4>3. b # a
        BY <1>0 DEF MoveInv
      <4>4. MoveInv'
        BY <1>0, <2>1, <4>2, <4>3 DEF MoveInv
      <4> QED
        BY <1>0, <2>1, <4>2, <4>4 DEF TakeoverKeepsMessages
    <3>2. CASE AppendQueue(a)
      <4>1. /\ pc[a] = "append" /\ pc'[a] = "clear" /\ UNCHANGED <<todo, source>>
            /\ queue'[a] = queue[a] \cup taken[a]
            /\ \A c \in Agents : c # a => queue'[c] = queue[c]
            /\ source[a] \in Agents
        BY <3>2, <1>0 DEF AppendQueue, TypeOK
      <4>2. source[a] # a /\ taken[a] = queue[source[a]]
        BY <1>0, <4>1 DEF MoveInv
      <4>3. MoveInv'
        BY <1>0, <2>1, <4>1, <4>2 DEF MoveInv
      <4>4. \A c \in Agents : queue[c] \subseteq queue'[c]
        BY <4>1
      <4> QED
        BY <1>0, <2>1, <4>3, <4>4 DEF TakeoverKeepsMessages
    <3>3. CASE ClearQueue(a)
      <4>1. /\ pc[a] = "clear" /\ pc'[a] \in {"save", "read"} /\ source[a] \in Agents
            /\ todo' = [todo EXCEPT ![a] = @ \ {source[a]}]
            /\ \A c \in Agents : c # source[a] => queue'[c] = queue[c]
        BY <3>3, <1>0 DEF ClearQueue, TypeOK
      <4>2. source[a] # a /\ queue[source[a]] \subseteq queue[a]
        BY <1>0, <4>1 DEF MoveInv
      <4>3. \A c \in Agents : c \notin todo'[c]
        BY <1>0, <4>1 DEF MoveInv, TypeOK
      <4>4. MoveInv'
        BY <2>1, <4>1, <4>3 DEF MoveInv
      <4>5. queue'[a] = queue[a]
        BY <4>1, <4>2
      <4>6. UNION {queue[c] : c \in Agents} \subseteq UNION {queue'[c] : c \in Agents}
        BY <4>1, <4>2, <4>5
      <4> QED
        BY <1>0, <2>1, <4>4, <4>6 DEF TakeoverKeepsMessages
    <3> QED
      BY <1>4, <3>1, <3>2, <3>3 DEF Continue
  <2> QED
    BY <2>2, <2>3, <2>4
<1>5. ASSUME NEW a \in Agents, EndJoin(a) PROVE Goal'
  <2>1. /\ Save(mem[a]) /\ mem[a] \in Registry
        /\ UNCHANGED <<overlap, queue, launched, alive, todo, sent, handled>>
        /\ member' = (member \ Displaced(a, disk)) \cup {a}
        /\ pc[a] # "idle" /\ pc'[a] = "idle"
        /\ \A c \in Agents : c # a => pc[c] = "idle" /\ pc'[c] = "idle"
    BY <1>0, <1>5 DEF EndJoin, OneJoin, TypeOK
  <2>2. /\ \A b \in member' : Stays(b, mem[a])
        /\ UniqueIn(mem[a])
    BY <1>0, <2>1 DEF CopyInv
  <2>3. member' \subseteq alive'
    BY <1>0, <2>1 DEF OneJoin
  <2>4. /\ \A b \in member' : Stays(b, disk)'
        /\ UniqueIn(disk')
    BY <1>0, <2>1, <2>2, <2>3, SaveFacts
  <2>5. \A c \in Agents : pc'[c] = "idle"
    BY <2>1
  <2>6. OneJoin' /\ CopyInv'
    BY <2>3, <2>5 DEF OneJoin, CopyInv
  <2>7. MoveInv'
    BY <1>0, <2>1, <2>5 DEF MoveInv
  <2>8. JoinedIsKnown' /\ NicknamesUnique' /\ TakeoverKeepsMessages'
    BY <1>0, <2>1, <2>4 DEF JoinedIsKnown, NicknamesUnique, TakeoverKeepsMessages
  <2> QED
    BY <2>6, <2>7, <2>8
<1>6. ASSUME Touch PROVE Goal'
  <2>1. /\ Quiet /\ Save(Cleaned(disk))
        /\ UNCHANGED <<overlap, queue, pc, todo, sent, handled, launched, alive, member>>
    BY <1>0, <1>6 DEF Touch
  <2>2. /\ Cleaned(disk) \in Registry /\ UniqueIn(Cleaned(disk))
        /\ \A a \in member : Stays(a, Cleaned(disk))
    BY <1>0, CleanedFacts
  <2>3. UniqueIn(disk') /\ \A a \in member' : Stays(a, disk)'
    BY <1>0, <2>1, <2>2, SaveFacts
  <2> QED
    BY <1>0, <2>1, <2>3, QuietStep
<1>7. ASSUME NEW a \in Agents, Leave(a) PROVE Goal'
  <2>1. /\ Quiet /\ member' = member \ {a}
        /\ UNCHANGED <<overlap, queue, pc, todo, sent, handled, launched, alive>>
    BY <1>0, <1>7 DEF Leave
  <2>2. PICK reg \in Registry : /\ Save(reg) /\ UniqueIn(reg)
                                /\ \A b \in member' : Stays(b, reg)
    BY <1>0, <1>7, <2>1, LeaveFacts
  <2>3. UniqueIn(disk') /\ \A b \in member' : Stays(b, disk)'
    BY <1>0, <2>1, <2>2, SaveFacts
  <2> QED
    BY <1>0, <2>1, <2>3, QuietStep
<1>8. ASSUME NEW a \in Agents, NEW n \in 1 .. MaxNick, Rename(a, n) PROVE Goal'
  <2>1. /\ Quiet
        /\ UNCHANGED <<overlap, queue, pc, todo, sent, handled, launched, alive, member>>
    BY <1>0, <1>8 DEF Rename
  <2>2. PICK reg \in Registry : /\ Save(reg) /\ UniqueIn(reg)
                                /\ \A b \in member : Stays(b, reg)
    BY <1>0, <1>8, RenameFacts
  <2>3. UniqueIn(disk') /\ \A b \in member' : Stays(b, disk)'
    BY <1>0, <2>1, <2>2, SaveFacts
  <2> QED
    BY <1>0, <2>1, <2>3, QuietStep
<1>9. ASSUME NEW a \in Agents, NEW state \in {"working", "idle"}, WriteActivity(a, state)
      PROVE  Goal'
  <2>1. /\ Quiet
        /\ UNCHANGED <<overlap, queue, pc, todo, sent, handled, launched, alive, member>>
    BY <1>0, <1>9 DEF WriteActivity
  <2>2. UniqueIn(disk') /\ \A b \in member' : Stays(b, disk)'
    BY <1>0, <1>9, <2>1, ActivityFacts
  <2> QED
    BY <1>0, <2>1, <2>2, QuietStep
<1>10. ASSUME NEW a \in Agents, NEW m \in Messages, Send(m, a) \/ Receive(a, m)
       PROVE  Goal'
  <2>1. /\ Quiet
        /\ UNCHANGED <<overlap, disk, pc, todo, launched, alive, member>>
    BY <1>0, <1>10 DEF Send, Receive
  <2>2. OneJoin' /\ CopyInv' /\ JoinedIsKnown' /\ NicknamesUnique'
    BY <1>0, <2>1 DEF OneJoin, CopyInv, Quiet, JoinedIsKnown, NicknamesUnique, UniqueIn, Known,
                      Stays, Active, Lives
  <2>3. MoveInv'
    BY <1>0, <2>1 DEF MoveInv, Quiet
  <2>4. TakeoverKeepsMessages'
    <3>1. CASE Send(m, a)
      <4>1. /\ sent' = sent \cup {m} /\ handled' = handled /\ m \in queue'[a]
            /\ \A c \in Agents : queue[c] \subseteq queue'[c]
        BY <1>0, <3>1 DEF Send, TypeOK
      <4> QED
        BY <1>0, <4>1 DEF TakeoverKeepsMessages
    <3>2. CASE Receive(a, m)
      <4>1. /\ sent' = sent /\ handled' = handled \cup {m}
            /\ \A c \in Agents : queue[c] \ {m} \subseteq queue'[c]
        BY <1>0, <3>2 DEF Receive, TypeOK
      <4> QED
        BY <1>0, <4>1 DEF TakeoverKeepsMessages
    <3> QED
      BY <1>10, <3>1, <3>2
  <2> QED
    BY <2>2, <2>3, <2>4
<1> QED
  BY <1>1, <1>2, <1>3, <1>4, <1>5, <1>6, <1>7, <1>8, <1>9, <1>10 DEF Next, Continue

\* Whether others get in does not change.
LEMMA SameSetting == Next => overlap' = overlap
BY DEF Next, Continue, Touch, Launch, Exit, BeginJoin, ReadQueue, AppendQueue, ClearQueue,
   EndJoin, Leave, Rename, WriteActivity, Send, Receive

\* The inductive invariant.
LEMMA RegistryHolds == Spec => []RegistryInv
<1>1. Init => RegistryInv
  BY RegistryInit
<1>2. RegistryInv /\ [Next]_vars => RegistryInv'
  <2> SUFFICES ASSUME RegistryInv, [Next]_vars PROVE RegistryInv'
    OBVIOUS
  <2>1. TypeOK'
    BY TypeStep DEF RegistryInv
  <2>2. CASE Next
    <3>1. overlap' = overlap
      BY <2>2, SameSetting
    <3>2. CASE overlap
      BY <2>1, <3>1, <3>2
         DEF RegistryInv, JoinedIsKnown, NicknamesUnique, TakeoverKeepsMessages
    <3>3. CASE ~ overlap
      BY <2>1, <2>2, <3>3, RegistryStep DEF RegistryInv
    <3> QED
      BY <3>2, <3>3
  <2>3. CASE UNCHANGED vars
    BY <2>1, <2>3 DEF RegistryInv, vars, mail, process, joining, OneJoin, CopyInv, MoveInv,
       JoinedIsKnown, NicknamesUnique, TakeoverKeepsMessages, Stays, Active, Lives,
       UniqueIn, Known, Displaced
  <2> QED
    BY <2>2, <2>3
<1> QED
  BY <1>1, <1>2, PTL DEF Spec

\* While nobody gets in during a join, an agent that has joined and runs stays in the
\* registry, active and with its own pid, until it leaves or is displaced.
THEOREM JoinedIsKnownHolds == Spec => []JoinedIsKnown
<1>1. RegistryInv => JoinedIsKnown
  BY DEF RegistryInv
<1> QED
  BY <1>1, RegistryHolds, PTL

\* Nor do two agents then have the same nickname, whatever names they ask for,
\* inherit from a terminal or are given.
THEOREM NicknamesUniqueHolds == Spec => []NicknamesUnique
<1>1. RegistryInv => NicknamesUnique
  BY DEF RegistryInv
<1> QED
  BY <1>1, RegistryHolds, PTL

\* And the takeover of any number of agents' queues loses no message, wherever the
\* agent that takes them over dies.
THEOREM TakeoverKeepsMessagesHolds == Spec => []TakeoverKeepsMessages
<1>1. RegistryInv => TakeoverKeepsMessages
  BY DEF RegistryInv
<1> QED
  BY <1>1, RegistryHolds, PTL

-----------------------------------------------------------------------------
(***************************************************************************)
(* Activities, however the commands overlap.                               *)
(***************************************************************************)

LEMMA NatOrder ==
    \A m, n \in Nat : ~ (n < n) /\ (~ (m > n) => ~ (n < m))
OBVIOUS

\* A save takes the later of two activities.
LEMMA SaveMerges ==
    ASSUME NEW reg \in Registry, disk \in Registry, Save(reg), NEW a \in Agents,
           disk[a] # Absent, disk[a].act # "", disk'[a] # Absent
    PROVE  ~ (disk'[a].since < disk[a].since)
<1> DEFINE merged == MergeActivity(reg[a], disk[a])
<1>1. disk'[a] = IF reg[a] = Absent THEN Absent ELSE merged
  BY DEF Save
<1>2. reg[a] # Absent => reg[a] \in Entry
  BY DEF Registry
<1>3. disk[a] \in Entry
  BY DEF Registry
<1>4. ASSUME reg[a] # Absent PROVE ~ (merged.since < disk[a].since)
  <2>1. reg[a].since \in Nat /\ disk[a].since \in Nat
    BY <1>2, <1>3, <1>4 DEF Entry
  <2>2. \/ merged.since = disk[a].since
        \/ merged.since = reg[a].since /\ ~ (disk[a].since > reg[a].since)
    BY <1>2, <1>3, <1>4 DEF MergeActivity, Entry
  <2> QED
    BY <2>1, <2>2, NatOrder, Zenon
<1> HIDE DEF merged
<1> QED
  BY <1>1, <1>4

\* No step but a report of the agent itself makes an activity in the file older.
THEOREM ActivityNeverOlderHolds == Spec => ActivityNeverOlder
<1> DEFINE Kept ==
      \A a \in Agents :
          /\ disk[a] # Absent /\ disk[a].act # ""
          /\ disk'[a] # Absent /\ disk'[a].since < disk[a].since
          => \E state \in Activities : WriteActivity(a, state)
<1>1. TypeOK /\ [Next]_vars => [Kept]_vars
  <2> SUFFICES ASSUME TypeOK, Next, NEW a \in Agents,
                      disk[a] # Absent, disk[a].act # "",
                      disk'[a] # Absent, disk'[a].since < disk[a].since
               PROVE  \E state \in Activities : WriteActivity(a, state)
    OBVIOUS
  <2>0. /\ disk \in Registry
        /\ disk[a].since # disk'[a].since
    <3>1. disk \in Registry /\ disk[a].since \in Nat
      BY DEF TypeOK, Registry, Entry
    <3> QED
      BY <3>1, NatOrder, Zenon
  <2>1. \A reg \in Registry : ~ Save(reg)
    BY <2>0, SaveMerges
  <2>2. disk' # disk
    BY <2>0
  <2>3. ~ Touch
    BY <2>0, <2>1, CleanedFacts DEF Touch
  <2>4. PICK b \in Agents :
           \/ Launch(b) \/ Exit(b) \/ BeginJoin(b) \/ Continue(b) \/ Leave(b)
           \/ \E n \in 1 .. MaxNick : Rename(b, n)
           \/ \E state \in {"working", "idle"} : WriteActivity(b, state)
           \/ \E m \in Messages : Send(m, b) \/ Receive(b, m)
    BY <2>3 DEF Next
  <2>5. ~ Leave(b) /\ \A n \in 1 .. MaxNick : ~ Rename(b, n)
    BY <2>1, LeaveFacts, RenameFacts
  <2>6. ~ EndJoin(b)
    BY <2>1 DEF EndJoin, TypeOK
  <2>7. PICK state \in {"working", "idle"} : WriteActivity(b, state)
    BY <2>2, <2>4, <2>5, <2>6 DEF Continue, Launch, Exit, BeginJoin, ReadQueue, AppendQueue,
                                  ClearQueue, Send, Receive
  <2>8. b = a
    BY <2>0, <2>7 DEF WriteActivity, Registry
  <2> QED
    BY <2>7, <2>8 DEF Activities
<1>2. Spec => []TypeOK
  BY TypeCorrect
<1>3. Spec => [][Kept]_vars
  BY <1>1, <1>2, PTL DEF Spec
<1> QED
  BY <1>3 DEF ActivityNeverOlder
=============================================================================
