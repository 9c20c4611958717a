------------------------ MODULE DeliveryQueue_proofs ------------------------
(***************************************************************************)
(* Proofs about DeliveryQueue, for any number of processes, events and     *)
(* processing files.                                                       *)
(***************************************************************************)
EXTENDS DeliveryQueue, SequenceTheorems, FiniteSetTheorems, TLAPS

\* An arrangement of the positions K of a sequence, read off, is a sequence of
\* the elements at those positions.
LEMMA ReadOff ==
    ASSUME NEW E, NEW K, IsFiniteSet(K), NEW g \in [K -> E],
           NEW o \in Bijection(1 .. Cardinality(K), K)
    PROVE  /\ [i \in DOMAIN o |-> g[o[i]]] \in Seq(E)
           /\ Range([i \in DOMAIN o |-> g[o[i]]]) = {g[k] : k \in K}
<1>1. Cardinality(K) \in Nat
  BY FS_CardinalityType
<1>2. /\ o \in [1 .. Cardinality(K) -> K]
      /\ \A k \in K : \E i \in 1 .. Cardinality(K) : o[i] = k
  BY DEF Bijection, Surjection, Injection
<1>3. [i \in DOMAIN o |-> g[o[i]]] \in [1 .. Cardinality(K) -> E]
  BY <1>2
<1>4. [i \in DOMAIN o |-> g[o[i]]] \in Seq(E)
  BY <1>1, <1>3, SeqDef
<1>5. Range([i \in DOMAIN o |-> g[o[i]]]) = {g[k] : k \in K}
  BY <1>2 DEF Range
<1> QED
  BY <1>4, <1>5

LEMMA KeptFinite ==
    ASSUME NEW s \in Seq(Events)
    PROVE  IsFiniteSet(Kept(s)) /\ Kept(s) \subseteq 1 .. Len(s)
<1>1. IsFiniteSet(1 .. Len(s))
  BY FS_Interval, LenProperties
<1>2. Kept(s) \subseteq 1 .. Len(s)
  BY LenProperties DEF Kept
<1> QED
  BY <1>1, <1>2, FS_Subset

\* mergeAndSort returns a sequence of events it was given.
LEMMA MergeType ==
    ASSUME NEW s \in Seq(Events), NEW m \in MergeAndSort(s)
    PROVE  /\ m \in Seq(Events)
           /\ Range(m) = {s[k] : k \in Kept(s)}
<1> DEFINE g == [k \in Kept(s) |-> s[k]]
<1>1. PICK o \in Bijection(1 .. Cardinality(Kept(s)), Kept(s)) :
         m = [i \in DOMAIN o |-> s[o[i]]]
  BY DEF MergeAndSort, MergeOrders
<1>2. g \in [Kept(s) -> Events]
  BY KeptFinite, ElementOfSeq
<1>3. m = [i \in DOMAIN o |-> g[o[i]]]
  BY <1>1 DEF Bijection, Injection, Surjection
<1>4. {g[k] : k \in Kept(s)} = {s[k] : k \in Kept(s)}
  OBVIOUS
<1> HIDE DEF g
<1>5. IsFiniteSet(Kept(s))
  BY KeptFinite
<1>6. /\ [i \in DOMAIN o |-> g[o[i]]] \in Seq(Events)
      /\ Range([i \in DOMAIN o |-> g[o[i]]]) = {g[k] : k \in Kept(s)}
  BY <1>2, <1>5, ReadOff
<1> QED
  BY <1>3, <1>4, <1>6

\* The processing files of recover() yield the events written in them.
LEMMA ContentsType ==
    ASSUME TypeOK, NEW S \in SUBSET Files, \A f \in S : Exists(f),
           NEW r \in Contents(S)
    PROVE  /\ r \in Seq(Events)
           /\ Range(r) = {file[f].ev : f \in S}
<1> DEFINE g == [f \in S |-> file[f].ev]
<1>1. IsFiniteSet(S)
  BY FS_Subset, QueueConstants
<1>2. g \in [S -> Events]
  BY DEF TypeOK, Claim, Exists
<1>3. PICK o \in Bijection(1 .. Cardinality(S), S) :
         r = [i \in DOMAIN o |-> file[o[i]].ev]
  BY DEF Contents
<1>4. r = [i \in DOMAIN o |-> g[o[i]]]
  BY <1>3 DEF Bijection, Injection, Surjection
<1>5. {g[f] : f \in S} = {file[f].ev : f \in S}
  OBVIOUS
<1> HIDE DEF g
<1>6. /\ [i \in DOMAIN o |-> g[o[i]]] \in Seq(Events)
      /\ Range([i \in DOMAIN o |-> g[o[i]]]) = {g[f] : f \in S}
  BY <1>1, <1>2, ReadOff
<1> QED
  BY <1>4, <1>5, <1>6

-----------------------------------------------------------------------------
\* Type correctness: the initial state, then one step per action.
LEMMA TypeInit == Init => TypeOK
BY QueueConstants, EmptySeq DEF Init, TypeOK, PCs, Exists

LEMMA TypeStep == TypeOK /\ [Next]_vars => TypeOK'
<1> SUFFICES ASSUME TypeOK, [Next]_vars PROVE TypeOK'
  OBVIOUS
<1> USE DEF Goto, disk, procState, history, arrivals, tally, races, Begin, PCs
<1>1. ASSUME NEW e \in Events, AppendEvent(e) PROVE TypeOK'
  BY <1>1, AppendProperties DEF AppendEvent, TypeOK, Exists
<1>2. ASSUME NEW p \in Procs, ReadPending(p) PROVE TypeOK'
  BY <1>2 DEF ReadPending, MayBegin, BeginRecover, Recoverable, TypeOK, Exists
<1>3. ASSUME NEW p \in Procs, ClaimNext(p) PROVE TypeOK'
  BY <1>3 DEF ClaimNext, MayBegin, BeginRecover, Recoverable, TypeOK, Exists
<1>4. ASSUME NEW p \in Procs, RecoverPending(p) PROVE TypeOK'
  BY <1>4 DEF RecoverPending, TypeOK, Exists
<1>5. ASSUME NEW p \in Procs, RecoverFiles(p) PROVE TypeOK'
  <2> DEFINE S == {f \in todo[p] : Exists(f)}
  <2>1. PICK r \in Contents(S) : \E m \in MergeAndSort(buf[p] \o r) :
          buf' = [buf EXCEPT ![p] = m]
    BY <1>5 DEF RecoverFiles
  <2>2. S \in SUBSET Files /\ \A f \in S : Exists(f)
    BY DEF TypeOK
  <2>3. r \in Seq(Events)
    BY <2>1, <2>2, ContentsType
  <2>4. buf[p] \o r \in Seq(Events)
    BY <2>3, ConcatProperties DEF TypeOK
  <2>5. PICK m \in MergeAndSort(buf[p] \o r) : buf' = [buf EXCEPT ![p] = m]
    BY <2>1
  <2>6. m \in Seq(Events)
    BY <2>4, <2>5, MergeType
  <2> QED
    BY <1>5, <2>5, <2>6 DEF RecoverFiles, TypeOK, Exists
<1>6. ASSUME NEW p \in Procs, WriteMerged(p) PROVE TypeOK'
  <2>1. Range(pending) \subseteq Events
    BY ElementOfSeq DEF Range, TypeOK
  <2> QED
    BY <1>6, <2>1, EmptySeq DEF WriteMerged, Rewrite, TypeOK, Exists
<1>7. ASSUME NEW p \in Procs, RemoveFile(p) PROVE TypeOK'
  BY <1>7 DEF RemoveFile, TypeOK, Exists
<1>8. ASSUME NEW p \in Procs, ClaimRead(p) PROVE TypeOK'
  BY <1>8 DEF ClaimRead, TypeOK, Exists
<1>9. ASSUME NEW p \in Procs, ClaimSave(p) PROVE TypeOK'
  <2>1. Head(buf[p]) \in Events /\ Tail(buf[p]) \in Seq(Events)
    BY <1>9, HeadTailProperties DEF ClaimSave, TypeOK
  <2>2. file' \in [Files -> Claim \cup {NoFile}]
    BY <1>9, <2>1 DEF ClaimSave, TypeOK, Claim
  <2>3. todo' \in [Procs -> SUBSET Files]
    BY <1>9 DEF ClaimSave, TypeOK
  <2>4. buf' \in [Procs -> Seq(Events)] /\ pc' = [pc EXCEPT ![p] = "trim"]
    BY <1>9, <2>1 DEF ClaimSave, TypeOK
  <2> QED
    BY <1>9, <2>2, <2>3, <2>4 DEF ClaimSave, TypeOK
<1>10. ASSUME NEW p \in Procs, ClaimTrim(p) PROVE TypeOK'
  <2>1. Range(pending) \subseteq Events
    BY ElementOfSeq DEF Range, TypeOK
  <2> QED
    BY <1>10, <2>1, EmptySeq DEF ClaimTrim, Rewrite, TypeOK, Exists
<1>11. ASSUME NEW p \in Procs, NEW f \in Files, Effect(p, f) PROVE TypeOK'
  BY <1>11 DEF Effect, Holds, TypeOK, Exists, Claim
<1>12. ASSUME NEW p \in Procs, NEW f \in Files, CompleteClaim(p, f) PROVE TypeOK'
  BY <1>12 DEF CompleteClaim, Holds, TypeOK, Exists, Claim
<1>13. ASSUME NEW p \in Procs, NEW f \in Files, RestoreClaim(p, f) PROVE TypeOK'
  <2>1. file[f].ev \in Events
    BY <1>13 DEF RestoreClaim, Holds, Exists, TypeOK, Claim
  <2>2. <<file[f].ev>> \o pending \in Seq(Events)
    BY <2>1, ConcatProperties DEF TypeOK
  <2>3. PICK m \in MergeAndSort(<<file[f].ev>> \o pending) :
          buf' = [buf EXCEPT ![p] = m]
    BY <1>13 DEF RestoreClaim
  <2>4. m \in Seq(Events)
    BY <2>2, <2>3, MergeType
  <2>5. ran' \in SUBSET Files /\ unacked' \in [Events -> Nat]
    BY <1>13, <2>1 DEF RestoreClaim, Undo, TypeOK
  <2>6. buf' \in [Procs -> Seq(Events)] /\ pc' = [pc EXCEPT ![p] = "write"] /\ overlaps' \in Nat
    BY <1>13, <2>3, <2>4 DEF RestoreClaim, MayBegin, TypeOK
  <2>7. /\ UNCHANGED <<pending, file, alive, sent, effects, finished, overwritten>>
        /\ todo' = [todo EXCEPT ![p] = {f}] /\ then' = [then EXCEPT ![p] = "idle"]
    BY <1>13 DEF RestoreClaim
  <2>8. \A q \in Procs : pc'[q] = "save" => buf'[q] # <<>>
    BY <2>3, <2>6 DEF TypeOK
  <2> QED
    BY <2>5, <2>6, <2>7, <2>8 DEF TypeOK
<1>14. ASSUME NEW p \in Procs, Crash(p) PROVE TypeOK'
  <2>1. \A e \in Events : Cardinality(RanFor(p, e)) \in Nat
    BY QueueConstants, FS_Subset, FS_CardinalityType DEF TypeOK, RanFor
  <2> QED
    BY <1>14, <2>1, EmptySeq DEF Crash, TypeOK, Exists
<1>15. CASE UNCHANGED vars
  BY <1>15 DEF vars, TypeOK, Exists
<1> QED
  BY <1>1, <1>2, <1>3, <1>4, <1>5, <1>6, <1>7, <1>8, <1>9, <1>10, <1>11,
     <1>12, <1>13, <1>14, <1>15 DEF Next, Continue

\* In every reachable state the variables have their types, whatever the
\* overlap of operations and the crashes.
THEOREM TypeCorrect == Spec => []TypeOK
<1>1. Init => TypeOK
  BY TypeInit
<1>2. TypeOK /\ [Next]_vars => TypeOK'
  BY TypeStep
<1> QED
  BY <1>1, <1>2, PTL DEF Spec

-----------------------------------------------------------------------------
(***************************************************************************)
(* Ownership is inductive together with TypeOK, also when operations       *)
(* overlap: liveness of a pid is final, and a name is not used again while *)
(* some process still has it on its list.                                  *)
(***************************************************************************)
LEMMA OwnershipInit == Init => Ownership
BY DEF Init, Ownership, Exists

LEMMA OwnershipStep == TypeOK /\ Ownership /\ [Next]_vars => Ownership'
<1> SUFFICES ASSUME TypeOK, Ownership, [Next]_vars PROVE Ownership'
  OBVIOUS
<1> USE DEF Goto, disk, procState, history, arrivals, tally, races, Begin, TypeOK, Ownership, Exists, Claim
<1>1. ASSUME NEW e \in Events, AppendEvent(e) PROVE Ownership'
  BY <1>1 DEF AppendEvent
<1>2. ASSUME NEW p \in Procs, ReadPending(p) PROVE Ownership'
  BY <1>2 DEF ReadPending, MayBegin, BeginRecover, Recoverable
<1>3. ASSUME NEW p \in Procs, ClaimNext(p) PROVE Ownership'
  BY <1>3 DEF ClaimNext, MayBegin, BeginRecover, Recoverable
<1>4. ASSUME NEW p \in Procs, RecoverPending(p) PROVE Ownership'
  BY <1>4 DEF RecoverPending
<1>5. ASSUME NEW p \in Procs, RecoverFiles(p) PROVE Ownership'
  BY <1>5 DEF RecoverFiles
<1>6. ASSUME NEW p \in Procs, WriteMerged(p) PROVE Ownership'
  BY <1>6 DEF WriteMerged, Rewrite
<1>7. ASSUME NEW p \in Procs, RemoveFile(p) PROVE Ownership'
  BY <1>7 DEF RemoveFile
<1>8. ASSUME NEW p \in Procs, ClaimRead(p) PROVE Ownership'
  BY <1>8 DEF ClaimRead
<1>9. ASSUME NEW p \in Procs, ClaimSave(p) PROVE Ownership'
  BY <1>9, QueueConstants, HeadTailProperties DEF ClaimSave, Fresh
<1>10. ASSUME NEW p \in Procs, ClaimTrim(p) PROVE Ownership'
  BY <1>10 DEF ClaimTrim, Rewrite
<1>11. ASSUME NEW p \in Procs, NEW f \in Files, Effect(p, f) PROVE Ownership'
  BY <1>11 DEF Effect, Holds
<1>12. ASSUME NEW p \in Procs, NEW f \in Files, CompleteClaim(p, f)
       PROVE Ownership'
  BY <1>12 DEF CompleteClaim, Holds
<1>13. ASSUME NEW p \in Procs, NEW f \in Files, RestoreClaim(p, f)
       PROVE Ownership'
  BY <1>13 DEF RestoreClaim, Undo, Holds
<1>14. ASSUME NEW p \in Procs, Crash(p) PROVE Ownership'
  BY <1>14 DEF Crash
<1>15. CASE UNCHANGED vars
  BY <1>15 DEF vars
<1> QED
  BY <1>1, <1>2, <1>3, <1>4, <1>5, <1>6, <1>7, <1>8, <1>9, <1>10, <1>11,
     <1>12, <1>13, <1>14, <1>15 DEF Next, Continue

THEOREM OwnershipHolds == Spec => []Ownership
<1>1. Init => TypeOK /\ Ownership
  BY TypeInit, OwnershipInit
<1>2. TypeOK /\ Ownership /\ [Next]_vars => TypeOK' /\ Ownership'
  BY TypeStep, OwnershipStep
<1> QED
  BY <1>1, <1>2, PTL DEF Spec

\* Recovery never touches the claim of a live process, however the operations
\* of the processes overlap.
THEOREM LiveClaimsSafe == Spec => LiveClaimsKept
<1> DEFINE Kept1(f) ==
      Exists(f) /\ file[f].pid \in alive /\ file'[f] # file[f]
      => \/ f \in ran /\ file[f].ev \in finished'
         \/ f \in todo[file[f].pid] /\ pc[file[f].pid] = "remove"
<1>1. ASSUME TypeOK, Ownership, [Next]_vars, NEW f \in Files PROVE Kept1(f)
  <2>1. SUFFICES ASSUME Exists(f), file[f].pid \in alive, file'[f] # file[f]
                 PROVE  \/ f \in ran /\ file[f].ev \in finished'
                        \/ f \in todo[file[f].pid] /\ pc[file[f].pid] = "remove"
    OBVIOUS
  <2>2. \/ \E p \in Procs : RemoveFile(p) \/ ClaimSave(p)
        \/ \E p \in Procs, g \in Files : CompleteClaim(p, g)
    BY <1>1, <2>1 DEF Next, Continue, vars, disk, AppendEvent, ReadPending,
       ClaimNext, BeginRecover, RecoverPending, RecoverFiles, WriteMerged,
       ClaimRead, ClaimTrim, Effect, RestoreClaim, Crash
  <2>3. ASSUME NEW p \in Procs, RemoveFile(p)
        PROVE  f \in todo[file[f].pid] /\ pc[file[f].pid] = "remove"
    BY <1>1, <2>1, <2>3 DEF RemoveFile, Ownership, TypeOK, Exists
  <2>4. ASSUME NEW p \in Procs, ClaimSave(p) PROVE FALSE
    BY <1>1, <2>1, <2>4 DEF ClaimSave, Fresh, TypeOK, Exists
  <2>5. ASSUME NEW p \in Procs, NEW g \in Files, CompleteClaim(p, g)
        PROVE  f \in ran /\ file[f].ev \in finished'
    BY <1>1, <2>1, <2>5 DEF CompleteClaim, TypeOK, Exists
  <2> QED
    BY <2>2, <2>3, <2>4, <2>5
<1>2. TypeOK /\ Ownership /\ [Next]_vars =>
        [\A f \in Files : Exists(f) /\ file[f].pid \in alive /\ file'[f] # file[f]
          => \/ f \in ran /\ file[f].ev \in finished'
             \/ f \in todo[file[f].pid] /\ pc[file[f].pid] = "remove"]_vars
  BY <1>1
<1> QED
  BY <1>2, TypeCorrect, OwnershipHolds, PTL DEF Spec, LiveClaimsKept

-----------------------------------------------------------------------------
(***************************************************************************)
(* An event disappears in one way only, when no two sequenced events have  *)
(* the same seq: a rewrite of pending.jsonl by a process that had read it   *)
(* before the event came, which takes two operations that overlap.         *)
(***************************************************************************)
UniqueSeqs ==
    \A d, e \in Events : Sequenced(d) /\ SeqOf[d] = SeqOf[e] => d = e

\* A set of positions has a first one.
LEMMA FirstPosition ==
    ASSUME NEW T \in SUBSET Nat, T # {}
    PROVE  \E i \in T : \A j \in T : ~ (j < i)
<1>1. PICK i \in T : \A j \in T : <<j, i>> \notin OpToRel(<, Nat)
  BY NatLessThanWellFounded, WFMin
<1> QED
  BY <1>1 DEF OpToRel

\* With unique seqs mergeAndSort drops repetitions only: no event disappears.
LEMMA MergeKeeps ==
    ASSUME UniqueSeqs, NEW s \in Seq(Events), NEW m \in MergeAndSort(s)
    PROVE  Range(m) = Range(s)
<1>1. ASSUME NEW i \in DOMAIN s PROVE \E k \in Kept(s) : s[k] = s[i]
  <2>1. DOMAIN s = 1 .. Len(s) /\ \A j \in DOMAIN s : s[j] \in Events
    BY LenProperties, ElementOfSeq
  <2> DEFINE T == {j \in DOMAIN s : s[j] = s[i]}
  <2>2. T \in SUBSET Nat /\ T # {}
    BY <2>1, <1>1
  <2>3. PICK k \in T : \A j \in T : ~ (j < k)
    BY <2>2, FirstPosition
  <2>4. k \in Kept(s)
    BY <2>1, <2>3 DEF Kept, UniqueSeqs
  <2> QED
    BY <2>3, <2>4
<1>2. \A k \in Kept(s) : k \in DOMAIN s
  BY DEF Kept
<1>3. Range(m) = {s[k] : k \in Kept(s)}
  BY MergeType
<1>4. Range(s) = {s[i] : i \in DOMAIN s}
  BY DEF Range
<1> QED
  BY <1>1, <1>2, <1>3, <1>4

LEMMA ConsRange ==
    ASSUME NEW e \in Events, NEW s \in Seq(Events)
    PROVE  <<e>> \o s \in Seq(Events) /\ Range(<<e>> \o s) = {e} \cup Range(s)
<1> DEFINE one == <<e>>
<1>1. one \in Seq(Events) /\ Range(one) = {e}
  BY DEF Range
<1> HIDE DEF one
<1>2. one \o s \in Seq(Events)
  BY <1>1, ConcatProperties
<1>3. Range(one \o s) = Range(one) \cup Range(s)
  BY <1>1, RangeConcatenation
<1> QED
  BY <1>1, <1>2, <1>3 DEF one

LEMMA HeadTailRange ==
    ASSUME NEW s \in Seq(Events), s # <<>>
    PROVE  Range(s) \subseteq {Head(s)} \cup Range(Tail(s))
<1>1. s = <<Head(s)>> \o Tail(s) /\ Head(s) \in Events /\ Tail(s) \in Seq(Events)
  BY HeadTailProperties, ConcatProperties
<1>2. <<Head(s)>> \in Seq(Events) /\ Range(<<Head(s)>>) = {Head(s)}
  BY <1>1 DEF Range
<1> QED
  BY <1>1, <1>2, RangeConcatenation

\* What goes from one place is in another, however operations overlap.
LEMMA LossInit == Init => (\A p \in Procs : Carries(p)) /\ sent \subseteq Safe
BY DEF Init, Carries, Safe

\* A rewrite of pending.jsonl keeps what the writer knew of; the rest is accounted
\* for as overwritten.
LEMMA RewriteKeeps ==
    ASSUME TypeOK, NEW p \in Procs, NEW K, Rewrite(p, K)
    PROVE  Range(pending) \subseteq K \cup overwritten' /\ overwritten \subseteq overwritten'
BY DEF Rewrite

LEMMA LossStep ==
    ASSUME UniqueSeqs, TypeOK, Ownership, \A p \in Procs : Carries(p),
           sent \subseteq Safe, [Next]_vars
    PROVE  (\A p \in Procs : Carries(p)') /\ sent' \subseteq Safe'
<1> USE DEF Goto, disk, procState, history, arrivals, tally, races, Begin
<1> DEFINE Goal == (\A p \in Procs : Carries(p)') /\ sent' \subseteq Safe'
<1>1. ASSUME NEW e \in Events, AppendEvent(e) PROVE Goal
  <2>1. Range(pending') = Range(pending) \cup {e}
    <3>1. <<e>> \in Seq(Events) /\ Range(<<e>>) = {e}
      BY DEF Range
    <3>2. pending' = pending \o <<e>> /\ pending \in Seq(Events)
      BY <1>1, AppendIsConcat DEF AppendEvent, TypeOK
    <3>3. Range(pending \o <<e>>) = Range(pending) \cup Range(<<e>>)
      BY <3>1, <3>2, RangeConcatenation
    <3> QED
      BY <3>1, <3>2, <3>3
  <2>2. sent' \subseteq Safe'
    BY <1>1, <2>1 DEF AppendEvent, Safe, Exists, Condemned
  <2>3. ASSUME NEW q \in Procs PROVE Carries(q)'
    BY <1>1 DEF AppendEvent, Carries, TodoEvents, Exists
  <2> QED
    BY <2>2, <2>3
<1>f. ASSUME NEW p \in Procs, MayBegin(p), NEW next \in {"idle", "claim"}, BeginRecover(p, next)
      PROVE  Goal
  <2>1. \A q \in Procs : (pc[q] = "remove") = (pc'[q] = "remove") /\ (q # p => todo'[q] = todo[q])
    BY <1>f DEF MayBegin, BeginRecover, TypeOK
  <2>2. Condemned' = Condemned
    BY <1>f, <2>1 DEF MayBegin, Condemned
  <2>3. Safe' = Safe /\ sent' = sent
    BY <1>f, <2>2 DEF BeginRecover, Safe, Exists
  <2>4. ASSUME NEW q \in Procs PROVE Carries(q)'
    BY <1>f DEF MayBegin, BeginRecover, Carries, TodoEvents, Exists, TypeOK
  <2> QED
    BY <2>3, <2>4
<1>2. ASSUME NEW p \in Procs, ReadPending(p) PROVE Goal
  BY <1>2, <1>f DEF ReadPending
<1>3. ASSUME NEW p \in Procs, ClaimNext(p) PROVE Goal
  BY <1>3, <1>f DEF ClaimNext
<1>4. ASSUME NEW p \in Procs, RecoverPending(p) PROVE Goal
  <2>1. Condemned' = Condemned
    BY <1>4 DEF RecoverPending, Condemned, TypeOK
  <2> QED
    BY <1>4, <2>1 DEF RecoverPending, Carries, TodoEvents, Exists, Safe, TypeOK
<1>5. ASSUME NEW p \in Procs, RecoverFiles(p) PROVE Goal
  <2> DEFINE S == {f \in todo[p] : Exists(f)}
  <2>1. PICK r \in Contents(S) : \E m \in MergeAndSort(buf[p] \o r) :
          buf' = [buf EXCEPT ![p] = m]
    BY <1>5 DEF RecoverFiles
  <2>2. PICK m \in MergeAndSort(buf[p] \o r) : buf' = [buf EXCEPT ![p] = m]
    BY <2>1
  <2>3. r \in Seq(Events) /\ Range(r) = {file[f].ev : f \in S}
    <3>1. S \in SUBSET Files /\ \A f \in S : Exists(f)
      BY DEF TypeOK
    <3> QED
      BY <3>1, ContentsType
  <2>4. buf[p] \o r \in Seq(Events) /\ Range(buf[p] \o r) = Range(buf[p]) \cup Range(r)
    BY <2>3, ConcatProperties, RangeConcatenation DEF TypeOK
  <2>5. TodoEvents(p) \subseteq Range(m)
    BY <2>2, <2>3, <2>4, MergeKeeps DEF TodoEvents
  <2>6. Condemned' = Condemned
    BY <1>5 DEF RecoverFiles, Condemned, TypeOK
  <2>7. buf'[p] = m
    BY <2>2 DEF TypeOK
  <2>8. Safe' = Safe /\ sent' = sent
    BY <1>5, <2>6 DEF RecoverFiles, Safe, Exists
  <2>9. ASSUME NEW q \in Procs PROVE Carries(q)'
    BY <1>5, <2>5, <2>7 DEF RecoverFiles, Carries, TodoEvents, Exists, TypeOK
  <2> QED
    BY <2>8, <2>9
<1>6. ASSUME NEW p \in Procs, WriteMerged(p) PROVE Goal
  <2>1. Range(pending) \subseteq Range(pending') \cup overwritten' /\ overwritten \subseteq overwritten'
    BY <1>6, RewriteKeeps DEF WriteMerged, Rewrite
  <2>2. TodoEvents(p) \subseteq Range(pending')
    BY <1>6 DEF WriteMerged, Rewrite, Carries
  <2>3. Condemned' \subseteq Condemned \cup todo[p]
    BY <1>6 DEF WriteMerged, Condemned, TypeOK
  <2>4. {file[f].ev : f \in {g \in Files \ Condemned : Exists(g)}}
          \subseteq {file'[f].ev : f \in {g \in Files \ Condemned' : Exists(g)'}} \cup TodoEvents(p)
    BY <1>6, <2>3 DEF WriteMerged, TodoEvents, Exists
  <2>5. sent' \subseteq Safe'
    BY <1>6, <2>1, <2>2, <2>4 DEF WriteMerged, Safe
  <2>6. ASSUME NEW q \in Procs PROVE Carries(q)'
    BY <1>6 DEF WriteMerged, Rewrite, Carries, TodoEvents, Exists, TypeOK
  <2> QED
    BY <2>5, <2>6
<1>7. ASSUME NEW p \in Procs, RemoveFile(p) PROVE Goal
  <2>1. PICK f \in todo[p] :
          /\ file' = [file EXCEPT ![f] = NoFile]
          /\ todo' = [todo EXCEPT ![p] = @ \ {f}]
          /\ pc' = [pc EXCEPT ![p] = IF todo[p] = {f} THEN then[p] ELSE "remove"]
    BY <1>7 DEF RemoveFile
  <2>2. f \in Files /\ then[p] \in {"idle", "claim"} /\ pc[p] = "remove"
    BY <1>7 DEF RemoveFile, TypeOK
  <2>3. f \in Condemned /\ Condemned' \subseteq Condemned
    BY <2>1, <2>2 DEF Condemned, TypeOK
  <2>4. \A g \in Files \ Condemned : file'[g] = file[g]
    BY <2>1, <2>2, <2>3 DEF TypeOK
  <2>5. sent' \subseteq Safe'
    BY <1>7, <2>3, <2>4 DEF RemoveFile, Safe, Exists
  <2>6. ASSUME NEW q \in Procs PROVE Carries(q)'
    <3>1. Carries(q)
      OBVIOUS
    <3>2. CASE q = p
      BY <1>7, <2>1, <2>2, <3>1, <3>2 DEF RemoveFile, Carries, TypeOK
    <3>3. CASE q # p
      <4>1. pc'[q] = pc[q] /\ todo'[q] = todo[q] /\ buf'[q] = buf[q] /\ alive' = alive
        BY <1>7, <2>1, <3>3 DEF RemoveFile, TypeOK
      <4>2. \A g \in Files : file'[g] = file[g] \/ (file'[g] = NoFile /\ g = f)
        BY <2>1, <2>2 DEF TypeOK
      <4>3. TodoEvents(q)' \subseteq TodoEvents(q)
        BY <4>1, <4>2 DEF TodoEvents, Exists, TypeOK
      <4>4. ASSUME pc[q] = "trim", f \in todo[q] PROVE FALSE
        <5>1. Exists(f) /\ file[f].pid = q /\ q \in alive /\ p \in alive
          BY <4>4, <3>1, <2>2, <1>7 DEF Carries
        <5> QED
          BY <5>1, <3>3, <2>1, <2>2 DEF Ownership
      <4> QED
        BY <3>1, <4>1, <4>2, <4>3, <4>4 DEF Carries, Exists, TypeOK
    <3> QED
      BY <3>2, <3>3
  <2> QED
    BY <2>5, <2>6
<1>8. ASSUME NEW p \in Procs, ClaimRead(p) PROVE Goal
  <2>1. Condemned' = Condemned
    BY <1>8 DEF ClaimRead, Condemned, TypeOK
  <2> QED
    BY <1>8, <2>1 DEF ClaimRead, Carries, TodoEvents, Exists, Safe, TypeOK
<1>9. ASSUME NEW p \in Procs, ClaimSave(p) PROVE Goal
  <2>1. PICK f \in Files :
          /\ Fresh(f)
          /\ file' = [file EXCEPT ![f] = [pid |-> p, ev |-> Head(buf[p])]]
          /\ todo' = [todo EXCEPT ![p] = {f}]
    BY <1>9 DEF ClaimSave
  <2>2. Head(buf[p]) \in Events
    BY <1>9, HeadTailProperties DEF ClaimSave, TypeOK
  <2>3. [pid |-> p, ev |-> Head(buf[p])] # NoFile
    BY <2>2, QueueConstants
  <2>4. \A q \in Procs : pc[q] = "remove" => q # p /\ pc'[q] = "remove" /\ todo'[q] = todo[q]
    BY <1>9, <2>1 DEF ClaimSave, TypeOK
  <2>5. \A q \in Procs : pc'[q] = "remove" => pc[q] = "remove"
    BY <1>9 DEF ClaimSave, TypeOK
  <2>6. Condemned' = Condemned
    BY <2>4, <2>5 DEF Condemned
  <2>7. \A g \in Files : Exists(g) => file'[g] = file[g]
    BY <2>1 DEF Fresh, Exists, TypeOK
  <2>8. sent' \subseteq Safe'
    BY <1>9, <2>6, <2>7 DEF ClaimSave, Safe, Exists
  <2>9. ASSUME NEW q \in Procs PROVE Carries(q)'
    <3>1. Carries(q)
      OBVIOUS
    <3>2. CASE q = p
      BY <1>9, <2>1, <2>3, <3>1, <3>2 DEF ClaimSave, Carries, Exists, TypeOK
    <3>3. CASE q # p
      <4>1. pc'[q] = pc[q] /\ todo'[q] = todo[q] /\ buf'[q] = buf[q] /\ alive' = alive
        BY <1>9, <2>1, <3>3 DEF ClaimSave, TypeOK
      <4>2. \A g \in todo[q] : file'[g] = file[g]
        BY <2>1 DEF Fresh, TypeOK
      <4> QED
        BY <3>1, <4>1, <4>2 DEF Carries, TodoEvents, Exists, TypeOK
    <3> QED
      BY <3>2, <3>3
  <2> QED
    BY <2>8, <2>9
<1>10. ASSUME NEW p \in Procs, ClaimTrim(p) PROVE Goal
  <2>1. Range(pending) \subseteq Range(pending') \cup TodoEvents(p) \cup overwritten'
        /\ overwritten \subseteq overwritten'
    BY <1>10, RewriteKeeps DEF ClaimTrim, Rewrite
  <2>2. \A f \in todo[p] : Exists(f) /\ file[f].pid = p /\ p \in alive
    BY <1>10 DEF ClaimTrim, Carries
  <2>3. \A f \in todo[p] : f \in Files \ Condemned
    <3> SUFFICES ASSUME NEW f \in todo[p], NEW q \in Procs, pc[q] = "remove", f \in todo[q]
                 PROVE  FALSE
      BY DEF Condemned, TypeOK
    <3> QED
      BY <1>10, <2>2 DEF ClaimTrim, Ownership
  <2>4. \A q \in Procs : (pc[q] = "remove") = (pc'[q] = "remove") /\ (q # p => todo'[q] = todo[q])
    BY <1>10 DEF ClaimTrim, TypeOK
  <2>5. Condemned' = Condemned
    BY <1>10, <2>4 DEF ClaimTrim, Condemned
  <2>6. file' = file /\ sent' = sent /\ finished' = finished
    BY <1>10 DEF ClaimTrim
  <2>7. TodoEvents(p) \subseteq {file[f].ev : f \in {g \in Files \ Condemned : Exists(g)}}
    BY <2>3 DEF TodoEvents
  <2>8. sent' \subseteq Safe'
    BY <2>1, <2>5, <2>6, <2>7 DEF Safe, Exists
  <2>9. ASSUME NEW q \in Procs PROVE Carries(q)'
    BY <1>10 DEF ClaimTrim, Rewrite, Carries, TodoEvents, Exists, TypeOK
  <2> QED
    BY <2>8, <2>9
<1>11. ASSUME NEW p \in Procs, NEW f \in Files, Effect(p, f) PROVE Goal
  BY <1>11 DEF Effect, Carries, TodoEvents, Exists, Safe, Condemned
<1>12. ASSUME NEW p \in Procs, NEW f \in Files, CompleteClaim(p, f) PROVE Goal
  <2>1. \A q \in Procs : f \notin todo[q]
    BY <1>12 DEF CompleteClaim, Ownership
  <2>2. \A g \in Files : g # f => file'[g] = file[g]
    BY <1>12 DEF CompleteClaim, TypeOK
  <2>3. Condemned' = Condemned /\ finished' = finished \cup {file[f].ev}
    BY <1>12 DEF CompleteClaim, Condemned
  <2>4. sent' \subseteq Safe'
    BY <1>12, <2>2, <2>3 DEF CompleteClaim, Safe, Exists
  <2>5. ASSUME NEW q \in Procs PROVE Carries(q)'
    <3>1. Carries(q) /\ \A g \in todo[q] : g \in Files /\ file'[g] = file[g]
      BY <2>1, <2>2 DEF TypeOK
    <3> QED
      BY <1>12, <3>1 DEF CompleteClaim, Carries, TodoEvents, Exists
  <2> QED
    BY <2>4, <2>5
<1>13. ASSUME NEW p \in Procs, NEW f \in Files, RestoreClaim(p, f) PROVE Goal
  <2>1. PICK m \in MergeAndSort(<<file[f].ev>> \o pending) :
          buf' = [buf EXCEPT ![p] = m]
    BY <1>13 DEF RestoreClaim
  <2>2. file[f].ev \in Events /\ pending \in Seq(Events)
    BY <1>13 DEF RestoreClaim, Holds, Exists, TypeOK, Claim
  <2>3. /\ <<file[f].ev>> \o pending \in Seq(Events)
        /\ Range(<<file[f].ev>> \o pending) = {file[f].ev} \cup Range(pending)
    BY <2>2, ConsRange
  <2>4. file[f].ev \in Range(m)
    BY <2>1, <2>3, MergeKeeps
  <2>5. buf'[p] = m /\ TodoEvents(p)' \subseteq {file[f].ev}
    BY <1>13, <2>1 DEF RestoreClaim, TodoEvents, Exists, TypeOK
  <2>6. \A q \in Procs : (pc[q] = "remove") = (pc'[q] = "remove") /\ (q # p => todo'[q] = todo[q])
    BY <1>13 DEF RestoreClaim, MayBegin, TypeOK
  <2>7. Condemned' = Condemned
    BY <1>13, <2>6 DEF RestoreClaim, MayBegin, Condemned
  <2>8. sent' \subseteq Safe'
    BY <1>13, <2>7 DEF RestoreClaim, Safe, Exists
  <2>9. ASSUME NEW q \in Procs PROVE Carries(q)'
    <3>1. Carries(q)
      OBVIOUS
    <3>2. CASE q = p
      BY <1>13, <2>4, <2>5, <3>1, <3>2 DEF RestoreClaim, MayBegin, Carries, TypeOK
    <3>3. CASE q # p
      BY <1>13, <3>1, <3>3 DEF RestoreClaim, Carries, TodoEvents, Exists, TypeOK
    <3> QED
      BY <3>2, <3>3
  <2> QED
    BY <2>8, <2>9
<1>14. ASSUME NEW p \in Procs, Crash(p) PROVE Goal
  <2>1. Condemned' \subseteq Condemned
    BY <1>14 DEF Crash, Condemned, TypeOK
  <2>2. sent' \subseteq Safe'
    BY <1>14, <2>1 DEF Crash, Safe, Exists
  <2>3. ASSUME NEW q \in Procs PROVE Carries(q)'
    BY <1>14 DEF Crash, Carries, TodoEvents, Exists, TypeOK
  <2> QED
    BY <2>2, <2>3
<1>15. CASE UNCHANGED vars
  BY <1>15 DEF vars, Carries, TodoEvents, Exists, Safe, Condemned
<1> QED
  BY <1>1, <1>2, <1>3, <1>4, <1>5, <1>6, <1>7, <1>8, <1>9, <1>10, <1>11,
     <1>12, <1>13, <1>14, <1>15 DEF Next, Continue

\* The part of QueueInv about operations that have not overlapped.
UnderWay == OneAtATime /\ (\A p \in Procs : Snapshot(p)) /\ overwritten = {}

LEMMA UnderWayStep ==
    ASSUME UniqueSeqs, overlaps' = 0, TypeOK, Ownership, UnderWay, [Next]_vars
    PROVE  UnderWay'
<1> USE DEF Goto, disk, procState, history, arrivals, tally, races, Begin
<1>r. \A q \in Procs : q \notin alive => pc[q] = "idle"
  BY DEF UnderWay, OneAtATime
<1>1. ASSUME NEW e \in Events, AppendEvent(e) PROVE UnderWay'
  <2>1. \A q \in Procs : pc[q] = "idle"
    BY <1>1, <1>r DEF AppendEvent, Busy, TypeOK
  <2>2. Range(pending') = Range(pending) \cup {e}
    <3>1. <<e>> \in Seq(Events) /\ Range(<<e>>) = {e}
      BY DEF Range
    <3>2. pending' = pending \o <<e>>
      BY <1>1, AppendIsConcat DEF AppendEvent, TypeOK
    <3>3. pending \in Seq(Events)
      BY DEF TypeOK
    <3>4. Range(pending \o <<e>>) = Range(pending) \cup Range(<<e>>)
      BY <3>1, <3>3, RangeConcatenation
    <3> QED
      BY <3>1, <3>2, <3>4
  <2> QED
    BY <1>1, <2>1, <2>2 DEF AppendEvent, UnderWay, OneAtATime, Snapshot, Exists
<1>2. ASSUME NEW p \in Procs, ReadPending(p) PROVE UnderWay'
  <2>1. \A q \in Procs : pc[q] = "idle"
    BY <1>2, <1>r DEF ReadPending, MayBegin, Busy, TypeOK
  <2> QED
    BY <1>2, <2>1 DEF ReadPending, MayBegin, BeginRecover, UnderWay, OneAtATime,
       Snapshot, Exists, TypeOK
<1>3. ASSUME NEW p \in Procs, ClaimNext(p) PROVE UnderWay'
  <2>1. \A q \in Procs : pc[q] = "idle"
    BY <1>3, <1>r DEF ClaimNext, MayBegin, Busy, TypeOK
  <2> QED
    BY <1>3, <2>1 DEF ClaimNext, MayBegin, BeginRecover, UnderWay, OneAtATime,
       Snapshot, Exists, TypeOK
\* A step of an operation under way: p is the only process that is not idle.
<1>4. ASSUME NEW p \in Procs, pc[p] # "idle", NEW q \in Procs, q # p
      PROVE  pc[q] = "idle"
  BY <1>4 DEF UnderWay, OneAtATime
<1>5. ASSUME NEW p \in Procs, RecoverPending(p) PROVE UnderWay'
  BY <1>4, <1>5 DEF RecoverPending, UnderWay, OneAtATime, Snapshot, Exists, TypeOK
<1>6. ASSUME NEW p \in Procs, RecoverFiles(p) PROVE UnderWay'
  <2> DEFINE S == {f \in todo[p] : Exists(f)}
  <2>1. PICK r \in Contents(S) : \E m \in MergeAndSort(buf[p] \o r) :
          buf' = [buf EXCEPT ![p] = m]
    BY <1>6 DEF RecoverFiles
  <2>2. PICK m \in MergeAndSort(buf[p] \o r) : buf' = [buf EXCEPT ![p] = m]
    BY <2>1
  <2>3. r \in Seq(Events) /\ Range(r) = {file[f].ev : f \in S}
    <3>1. S \in SUBSET Files /\ \A f \in S : Exists(f)
      BY DEF TypeOK
    <3> QED
      BY <3>1, ContentsType
  <2>4. buf[p] = pending /\ pending \in Seq(Events)
    BY <1>6 DEF RecoverFiles, UnderWay, Snapshot, TypeOK
  <2>5. buf[p] \o r \in Seq(Events) /\ Range(buf[p] \o r) = Range(pending) \cup Range(r)
    BY <2>3, <2>4, ConcatProperties, RangeConcatenation
  <2>6. Range(m) = Range(pending) \cup TodoEvents(p)
    BY <2>2, <2>3, <2>5, MergeKeeps DEF TodoEvents
  <2>7. Range(buf'[p]) = Range(pending) \cup TodoEvents(p)
    BY <2>2, <2>6 DEF TypeOK
  <2> QED
    BY <1>4, <1>6, <2>7 DEF RecoverFiles, UnderWay, OneAtATime, Snapshot, TodoEvents, Exists, TypeOK
<1>7. ASSUME NEW p \in Procs, WriteMerged(p) PROVE UnderWay'
  BY <1>4, <1>7 DEF WriteMerged, Rewrite, UnderWay, OneAtATime, Snapshot, TodoEvents, Exists, TypeOK
<1>8. ASSUME NEW p \in Procs, RemoveFile(p) PROVE UnderWay'
  <2>1. PICK f \in todo[p] :
          /\ file' = [file EXCEPT ![f] = NoFile]
          /\ todo' = [todo EXCEPT ![p] = @ \ {f}]
          /\ Goto(p, IF todo[p] = {f} THEN then[p] ELSE "remove")
    BY <1>8 DEF RemoveFile
  <2>2. f \in Files /\ then[p] \in {"idle", "claim"}
    BY DEF TypeOK
  <2>3. TodoEvents(p) \subseteq Range(pending)
    BY <1>8 DEF RemoveFile, UnderWay, Snapshot
  <2>4. TodoEvents(p)' \subseteq TodoEvents(p)
    BY <2>1, <2>2 DEF TodoEvents, Exists, TypeOK
  <2> QED
    BY <1>4, <1>8, <2>1, <2>2, <2>3, <2>4 DEF RemoveFile, UnderWay, OneAtATime,
       Snapshot, TypeOK
<1>9. ASSUME NEW p \in Procs, ClaimRead(p) PROVE UnderWay'
  BY <1>4, <1>9 DEF ClaimRead, UnderWay, OneAtATime, Snapshot, TodoEvents, Exists, TypeOK
<1>10. ASSUME NEW p \in Procs, ClaimSave(p) PROVE UnderWay'
  <2>1. PICK f \in Files :
          /\ Fresh(f)
          /\ file' = [file EXCEPT ![f] = [pid |-> p, ev |-> Head(buf[p])]]
          /\ todo' = [todo EXCEPT ![p] = {f}]
    BY <1>10 DEF ClaimSave
  <2>2. buf[p] = pending /\ pending \in Seq(Events) /\ pending # <<>>
    BY <1>10 DEF ClaimSave, UnderWay, Snapshot, TypeOK
  <2>3. Range(pending) \subseteq {Head(pending)} \cup Range(Tail(pending))
    BY <2>2, HeadTailRange
  <2>4. Head(pending) \in Events
    BY <2>2, HeadTailProperties
  <2>5. [pid |-> p, ev |-> Head(pending)] # NoFile
    BY <2>4, QueueConstants
  <2>6. TodoEvents(p)' = {Head(pending)} /\ \A g \in todo'[p] : file'[g].pid = p
    BY <2>1, <2>2, <2>5 DEF TodoEvents, Exists, TypeOK
  <2>7. Snapshot(p)'
    BY <1>10, <2>2, <2>3, <2>6 DEF ClaimSave, Snapshot, TypeOK
  <2> QED
    BY <1>4, <1>10, <2>7 DEF ClaimSave, UnderWay, OneAtATime, Snapshot, TypeOK
<1>11. ASSUME NEW p \in Procs, ClaimTrim(p) PROVE UnderWay'
  <2>1. Range(pending) \subseteq Range(buf[p]) \cup TodoEvents(p)
    BY <1>11 DEF ClaimTrim, UnderWay, Snapshot
  <2> QED
    BY <1>4, <1>11, <2>1 DEF ClaimTrim, Rewrite, UnderWay, OneAtATime, Snapshot, TypeOK
<1>12. ASSUME NEW p \in Procs, NEW f \in Files, Effect(p, f) PROVE UnderWay'
  BY <1>12 DEF Effect, UnderWay, OneAtATime, Snapshot,
     TodoEvents, Exists
<1>13. ASSUME NEW p \in Procs, NEW f \in Files, CompleteClaim(p, f)
       PROVE UnderWay'
  <2>3. ASSUME NEW q \in Procs PROVE TodoEvents(q)' = TodoEvents(q)
    BY <1>13 DEF CompleteClaim, Ownership, TodoEvents, Exists, TypeOK
  <2>4. ASSUME NEW q \in Procs PROVE Snapshot(q)'
    <3>1. \A g \in todo[q] : file'[g] = file[g]
      BY <1>13 DEF CompleteClaim, Ownership, TypeOK
    <3> QED
      BY <1>13, <2>3, <3>1 DEF CompleteClaim, UnderWay, Snapshot, Exists
  <2> QED
    BY <1>13, <2>4 DEF CompleteClaim, UnderWay, OneAtATime
<1>14. ASSUME NEW p \in Procs, NEW f \in Files, RestoreClaim(p, f)
       PROVE UnderWay'
  <2>1. \A q \in Procs : pc[q] = "idle"
    BY <1>14, <1>r DEF RestoreClaim, MayBegin, Busy, TypeOK
  <2>2. PICK m \in MergeAndSort(<<file[f].ev>> \o pending) :
          buf' = [buf EXCEPT ![p] = m]
    BY <1>14 DEF RestoreClaim
  <2>3. file[f].ev \in Events /\ pending \in Seq(Events)
    BY <1>14 DEF RestoreClaim, Holds, Exists, TypeOK, Claim
  <2>5. /\ <<file[f].ev>> \o pending \in Seq(Events)
        /\ Range(<<file[f].ev>> \o pending) = {file[f].ev} \cup Range(pending)
    BY <2>3, ConsRange
  <2>6. Range(m) = {file[f].ev} \cup Range(pending)
    BY <2>2, <2>5, MergeKeeps
  <2>7. TodoEvents(p)' \subseteq {file[f].ev} /\ Range(buf'[p]) = Range(m)
    BY <1>14, <2>2 DEF RestoreClaim, TodoEvents, Exists, TypeOK
  <2>9. Snapshot(p)'
    BY <1>14, <2>6, <2>7 DEF RestoreClaim, Snapshot, TypeOK
  <2> QED
    BY <1>14, <2>1, <2>9 DEF RestoreClaim, Undo, MayBegin, UnderWay, OneAtATime,
       Snapshot, TypeOK
<1>15. ASSUME NEW p \in Procs, Crash(p) PROVE UnderWay'
  BY <1>15 DEF Crash, UnderWay, OneAtATime, Snapshot,
     TodoEvents, Exists, TypeOK
<1>16. CASE UNCHANGED vars
  BY <1>16 DEF vars, UnderWay, OneAtATime, Snapshot,
     TodoEvents, Exists
<1> QED
  BY <1>1, <1>2, <1>3, <1>5, <1>6, <1>7, <1>8, <1>9, <1>10, <1>11, <1>12,
     <1>13, <1>14, <1>15, <1>16 DEF Next, Continue

LEMMA UnderWayInit == Init => UnderWay
BY DEF Init, UnderWay, OneAtATime, Snapshot

\* A step after which nothing has overlapped started where nothing had.
LEMMA Counted ==
    ASSUME TypeOK, [Next]_vars, overlaps' = 0
    PROVE  overlaps = 0
<1> USE DEF tally, races, Begin, TypeOK
<1>1. overlaps \in Nat
  OBVIOUS
<1>2. overlaps' = overlaps \/ overlaps' = overlaps + 1
  BY DEF Next, vars, Continue, AppendEvent, ReadPending, ClaimNext, MayBegin,
     RecoverPending, RecoverFiles, WriteMerged, RemoveFile, ClaimRead, ClaimSave,
     ClaimTrim, Effect, CompleteClaim, RestoreClaim, Crash
<1> QED
  BY <1>1, <1>2

\* Between any two file-system calls, however many processes have died and however
\* operations overlap, an event that was sent and not completed is on disk unless
\* a rewrite dropped it that had not read it, and that takes an overlap; provided
\* no two sequenced events share a seq.
THEOREM NothingLost ==
    ASSUME UniqueSeqs
    PROVE  Spec => []NoLoss
<1>1. Init => QueueInv
  BY TypeInit, OwnershipInit, LossInit, UnderWayInit DEF QueueInv, LossInv, UnderWay
<1>2. QueueInv /\ [Next]_vars => QueueInv'
  <2> SUFFICES ASSUME QueueInv, [Next]_vars PROVE QueueInv'
    OBVIOUS
  <2>1. LossInv'
    BY TypeStep, OwnershipStep, LossStep DEF QueueInv, LossInv
  <2>2. ASSUME overlaps' = 0 PROVE UnderWay'
    BY <2>2, Counted, UnderWayStep DEF QueueInv, LossInv, UnderWay
  <2> QED
    BY <2>1, <2>2 DEF QueueInv, UnderWay
<1>3. QueueInv => NoLoss
  BY DEF QueueInv, LossInv, Safe, NoLoss, InFiles
<1> QED
  BY <1>1, <1>2, <1>3, PTL DEF Spec

-----------------------------------------------------------------------------
(***************************************************************************)
(* DeliveryQueue implements QueueContract until operations overlap. What is*)
(* needed besides UnderWay: a sequenced event is in one processing file at *)
(* most, and in pending.jsonl at most once; it is in both only while it is *)
(* being moved, or after its mover has died and before recovery.           *)
(***************************************************************************)
\* Events that can be told apart: by their seq, or because no crash has left copies.
Tracked(e) == Sequenced(e) \/ alive = Procs

NoRepeat(s) ==
    \A i, j \in 1 .. Len(s) : Tracked(s[i]) /\ s[i] = s[j] => i = j

OnlySent ==
    /\ Range(pending) \cup InFiles \cup finished \subseteq sent
    /\ \A p \in Procs : Range(buf[p]) \subseteq sent

OneFile ==
    \A f, g \in Files :
        Exists(f) /\ Exists(g) /\ Tracked(file[f].ev) /\ file[f].ev = file[g].ev => f = g

\* The claims of live processes are not in pending.jsonl, unless they are on their
\* way out of it or back into it.
ClaimsApart ==
    \A f \in Files :
        Exists(f) /\ file[f].pid \in alive /\ Tracked(file[f].ev)
          /\ file[f].ev \in Range(pending)
        => f \in todo[file[f].pid] /\ pc[file[f].pid] \in {"remove", "trim"}

\* From the listing of its recover() on, claimNext finds no other event twice.
RecoveredApart(p) ==
    pc[p] # "idle" /\ then[p] = "claim" =>
        \A f \in Files \ todo[p] :
            Exists(f) /\ Tracked(file[f].ev) => file[f].ev \notin Range(pending)

\* What an operation has on its list and in its buffer.
Lists(p) ==
    /\ pc[p] \in {"idle", "claim", "save"} => todo[p] = {}
    /\ pc[p] \in {"claim", "save", "trim"} => then[p] = "claim"
    /\ pc[p] \in {"recoverPending", "recoverFiles"} =>
          /\ alive # Procs
          /\ \A f \in todo[p] : Exists(f) => file[f].pid \notin alive
    /\ pc[p] = "write" =>
          /\ \A f \in todo[p] : Exists(f) /\ file[f].pid \in alive => todo[p] = {f}
          /\ NoRepeat(buf[p])
          /\ Range(buf[p]) \subseteq Range(pending) \cup TodoEvents(p)
    /\ pc[p] = "trim" =>
          /\ NoRepeat(buf[p])
          /\ \E f \in Files :
                /\ todo[p] = {f} /\ Exists(f) /\ file[f].pid = p
                /\ Range(pending) = {file[f].ev} \cup Range(buf[p])
                /\ Tracked(file[f].ev) => file[f].ev \notin Range(buf[p])

Singly ==
    /\ OnlySent
    /\ NoRepeat(pending)
    /\ OneFile
    /\ ClaimsApart
    /\ \A p \in Procs : RecoveredApart(p) /\ Lists(p)

\* mergeAndSort returns a sequenced event once, and repeats no other it was given once.
LEMMA MergeOnce ==
    ASSUME NEW s \in Seq(Events), NEW m \in MergeAndSort(s), alive = Procs => NoRepeat(s)
    PROVE  NoRepeat(m)
<1>1. PICK o \in Bijection(1 .. Cardinality(Kept(s)), Kept(s)) :
         m = [i \in DOMAIN o |-> s[o[i]]]
  BY DEF MergeAndSort, MergeOrders
<1>2. Cardinality(Kept(s)) \in Nat
  BY KeptFinite, FS_CardinalityType
<1>3. /\ DOMAIN o = 1 .. Cardinality(Kept(s))
      /\ \A i \in DOMAIN o : o[i] \in Kept(s)
      /\ \A i, j \in DOMAIN o : o[i] = o[j] => i = j
  BY DEF Bijection, Injection, Surjection, IsInjective
<1>4. m \in Seq(Events) /\ DOMAIN m = DOMAIN o /\ DOMAIN m = 1 .. Len(m)
  <2>1. m \in Seq(Events)
    BY MergeType
  <2> QED BY <1>1, <2>1, LenProperties
<1>5. \A k \in Kept(s) : k \in Nat
  BY KeptFinite, LenProperties
<1>6. SUFFICES ASSUME NEW i \in 1 .. Len(m), NEW j \in 1 .. Len(m),
                      Tracked(m[i]), m[i] = m[j], i # j
               PROVE  FALSE
  BY DEF NoRepeat
<1>7. /\ m[i] = s[o[i]] /\ m[j] = s[o[j]] /\ o[i] # o[j]
      /\ o[i] \in Kept(s) /\ o[j] \in Kept(s)
  BY <1>1, <1>3, <1>4, <1>6
<1>8. \A a, b \in Kept(s) : ~ (a < b /\ s[a] = s[b] /\ Sequenced(s[a]))
  BY DEF Kept
<1>9. o[i] < o[j] \/ o[j] < o[i]
  BY <1>5, <1>7
<1>10. \A a \in Kept(s) : a \in 1 .. Len(s)
  BY KeptFinite
<1>11. CASE Sequenced(m[i])
  BY <1>7, <1>8, <1>9, <1>6, <1>11
<1>12. CASE alive = Procs
  BY <1>6, <1>7, <1>10, <1>12 DEF NoRepeat, Tracked
<1> QED BY <1>6, <1>11, <1>12 DEF Tracked

LEMMA ConsOnce ==
    ASSUME NEW s \in Seq(Events), NEW e \in Events, NoRepeat(s), e \notin Range(s)
    PROVE  NoRepeat(<<e>> \o s)
<1>1. /\ Len(<<e>>) = 1 /\ <<e>>[1] = e /\ Len(s) \in Nat /\ <<e>> \in Seq(Events)
  BY LenProperties
<1>2. /\ Len(<<e>> \o s) = 1 + Len(s)
      /\ \A i \in 1 .. 1 + Len(s) : (<<e>> \o s)[i] = IF i <= 1 THEN e ELSE s[i - 1]
  BY <1>1, ConcatProperties
<1>3. \A i \in 1 .. Len(s) : s[i] # e
  BY LenProperties DEF Range
<1>4. ASSUME NEW i \in 1 .. 1 + Len(s), NEW j \in 1 .. 1 + Len(s), Tracked((<<e>> \o s)[i]),
             (<<e>> \o s)[i] = (<<e>> \o s)[j]
      PROVE  i = j
  <2>1. CASE i = 1
    BY <1>1, <1>2, <1>3, <1>4, <2>1
  <2>2. CASE j = 1
    BY <1>1, <1>2, <1>3, <1>4, <2>2
  <2>3. CASE i # 1 /\ j # 1
    <3>1. i - 1 \in 1 .. Len(s) /\ j - 1 \in 1 .. Len(s)
      BY <1>1, <2>3
    <3>2. Tracked(s[i - 1]) /\ s[i - 1] = s[j - 1]
      BY <1>1, <1>2, <1>4, <2>3
    <3> QED BY <1>1, <3>1, <3>2 DEF NoRepeat
  <2> QED BY <2>1, <2>2, <2>3
<1> QED BY <1>2, <1>4 DEF NoRepeat

LEMMA TailOnce ==
    ASSUME NEW s \in Seq(Events), s # <<>>, NoRepeat(s)
    PROVE  /\ NoRepeat(Tail(s)) /\ Range(s) = {Head(s)} \cup Range(Tail(s))
           /\ Tracked(Head(s)) => Head(s) \notin Range(Tail(s))
<1>1. /\ Tail(s) \in Seq(Events) /\ Head(s) = s[1] /\ Len(s) \in Nat \ {0}
      /\ Len(Tail(s)) = Len(s) - 1
      /\ \A i \in 1 .. Len(s) - 1 : Tail(s)[i] = s[i + 1]
  BY HeadTailProperties, EmptySeq
<1>2. /\ Range(s) = {s[i] : i \in 1 .. Len(s)}
      /\ Range(Tail(s)) = {Tail(s)[i] : i \in 1 .. Len(s) - 1}
  BY <1>1, LenProperties DEF Range
<1>3. NoRepeat(Tail(s))
  <2>1. SUFFICES ASSUME NEW i \in 1 .. Len(s) - 1, NEW j \in 1 .. Len(s) - 1,
                        Tracked(Tail(s)[i]), Tail(s)[i] = Tail(s)[j]
                 PROVE  i = j
    BY <1>1 DEF NoRepeat
  <2>2. i + 1 \in 1 .. Len(s) /\ j + 1 \in 1 .. Len(s)
    BY <1>1
  <2> QED BY <1>1, <2>1, <2>2 DEF NoRepeat
<1>4. Range(Tail(s)) \cup {Head(s)} \subseteq Range(s)
  <2>1. \A i \in 1 .. Len(s) - 1 : i + 1 \in 1 .. Len(s)
    BY <1>1
  <2> QED BY <1>1, <1>2, <2>1
<1>5. Range(s) \subseteq {Head(s)} \cup Range(Tail(s))
  BY HeadTailRange
<1>6. ASSUME Tracked(Head(s)), Head(s) \in Range(Tail(s)) PROVE FALSE
  <2>1. PICK i \in 1 .. Len(s) - 1 : Tail(s)[i] = Head(s)
    BY <1>2, <1>6
  <2>2. i + 1 \in 1 .. Len(s) /\ 1 \in 1 .. Len(s) /\ i + 1 # 1
    BY <1>1
  <2> QED BY <1>1, <1>6, <2>1, <2>2 DEF NoRepeat
<1> QED BY <1>3, <1>4, <1>5, <1>6

LEMMA AppendOnce ==
    ASSUME NEW s \in Seq(Events), NEW e \in Events, NoRepeat(s), e \notin Range(s)
    PROVE  NoRepeat(Append(s, e)) /\ Range(Append(s, e)) = Range(s) \cup {e}
<1>1. /\ Append(s, e) \in Seq(Events) /\ Len(s) \in Nat
      /\ Len(Append(s, e)) = Len(s) + 1
      /\ \A i \in 1 .. Len(s) : Append(s, e)[i] = s[i]
      /\ Append(s, e)[Len(s) + 1] = e
  BY AppendProperties, LenProperties
<1>2. /\ Range(s) = {s[i] : i \in 1 .. Len(s)}
      /\ Range(Append(s, e)) = {Append(s, e)[i] : i \in 1 .. Len(s) + 1}
  BY <1>1, LenProperties DEF Range
<1>3. NoRepeat(Append(s, e))
  BY <1>1, <1>2 DEF NoRepeat
<1>4. Range(s) \cup {e} \subseteq Range(Append(s, e))
  <2>1. 1 .. Len(s) \subseteq 1 .. Len(s) + 1 /\ Len(s) + 1 \in 1 .. Len(s) + 1
    BY <1>1
  <2> QED BY <1>1, <1>2, <2>1
<1>5. Range(Append(s, e)) \subseteq Range(s) \cup {e}
  BY <1>1, <1>2
<1> QED BY <1>3, <1>4, <1>5

LEMMA SinglyInit == Init => Singly
<1> SUFFICES ASSUME Init PROVE Singly
  OBVIOUS
<1>1. pending = <<>> /\ Range(pending) = {} /\ Len(pending) = 0
  BY DEF Init, Range
<1>2. \A f \in Files : ~ Exists(f)
  BY DEF Init, Exists
<1>3. \A p \in Procs : pc[p] = "idle" /\ todo[p] = {} /\ Range(buf[p]) = {}
  BY DEF Init, Range
<1>4. InFiles = {} /\ finished = {}
  BY <1>2 DEF InFiles, Init
<1> QED BY <1>1, <1>2, <1>3, <1>4 DEF Singly, OnlySent, NoRepeat, OneFile, ClaimsApart,
           RecoveredApart, Lists

\* Steps that begin or end nothing and leave pending.jsonl and the files alone, or
\* remove a file on nobody's list.
LEMMA SinglyQuiet ==
    ASSUME TypeOK, Singly, NEW F \in SUBSET Files,
           \A q \in Procs : todo[q] \cap F = {},
           UNCHANGED <<pending, alive, pc, then, todo, buf, sent>>,
           file' = [f \in Files |-> IF f \in F THEN NoFile ELSE file[f]],
           finished' \subseteq finished \cup InFiles
    PROVE  Singly'
<1> USE DEF Tracked
<1>1. \A f \in Files : Exists(f)' => Exists(f) /\ f \notin F /\ file'[f] = file[f]
  BY DEF Exists
<1>2. \A q \in Procs : \A f \in todo[q] : f \in Files /\ file'[f] = file[f]
  BY DEF TypeOK
<1>3. InFiles' \subseteq InFiles
  BY <1>1 DEF InFiles
<1>4. \A q \in Procs : TodoEvents(q)' = TodoEvents(q)
  BY <1>2 DEF TodoEvents, Exists
<1>5. OnlySent' /\ NoRepeat(pending)'
  BY <1>3 DEF Singly, OnlySent, NoRepeat
<1>6. OneFile' /\ ClaimsApart'
  BY <1>1 DEF Singly, OneFile, ClaimsApart
<1>7. ASSUME NEW q \in Procs PROVE RecoveredApart(q)' /\ Lists(q)'
  <2>1. RecoveredApart(q)'
    BY <1>1 DEF Singly, RecoveredApart
  <2>2. Lists(q)'
    BY <1>2, <1>4 DEF Singly, Lists, NoRepeat, Exists
  <2> QED BY <2>1, <2>2
<1> QED BY <1>5, <1>6, <1>7 DEF Singly

\* The calls of an operation that neither write nor remove a file: p is the only
\* process with one under way.
LEMMA SinglyReading ==
    ASSUME TypeOK, OneAtATime, Singly, NEW p \in Procs,
           UNCHANGED <<disk, alive, sent, finished>>,
           \A q \in Procs \ {p} : /\ pc[q] = "idle" /\ pc'[q] = "idle"
                                  /\ todo'[q] = todo[q] /\ buf'[q] = buf[q],
           \A f \in Files : Exists(f) /\ file[f].pid = p /\ p \in alive
                            /\ Tracked(file[f].ev)
                            => file[f].ev \notin Range(pending),
           Range(buf'[p]) \subseteq sent, RecoveredApart(p)', Lists(p)'
    PROVE  Singly'
<1> USE DEF disk, history, arrivals, Tracked
<1>1. OnlySent'
  BY DEF Singly, OnlySent, InFiles, Exists
<1>2. NoRepeat(pending)' /\ OneFile'
  BY DEF Singly, NoRepeat, OneFile, Exists
<1>3. ClaimsApart'
  <2>1. ASSUME NEW f \in Files, Exists(f), file[f].pid \in alive, Tracked(file[f].ev),
               file[f].ev \in Range(pending)
        PROVE  FALSE
    <3>1. file[f].pid \in Procs
      BY <2>1 DEF TypeOK, Exists, Claim
    <3>2. CASE file[f].pid = p
      BY <2>1, <3>2
    <3>3. CASE file[f].pid # p
      BY <2>1, <3>1, <3>3 DEF Singly, ClaimsApart
    <3> QED BY <3>2, <3>3
  <2> QED BY <2>1 DEF ClaimsApart, Exists
<1>4. ASSUME NEW q \in Procs, q # p PROVE RecoveredApart(q)' /\ Lists(q)'
  BY <1>4 DEF Singly, RecoveredApart, Lists
<1> QED BY <1>1, <1>2, <1>3, <1>4 DEF Singly

LEMMA SinglyStep ==
    ASSUME UniqueSeqs, overlaps' = 0, TypeOK, Ownership, UnderWay, Singly, [Next]_vars
    PROVE  Singly'
<1> USE DEF Goto, Tracked
<1>a. /\ \A q \in Procs : q \notin alive => pc[q] = "idle"
      /\ \A p, q \in Procs : pc[p] # "idle" /\ pc[q] # "idle" => p = q
      /\ OneAtATime
  BY DEF UnderWay, OneAtATime
<1>b. \A q \in Procs : pc[q] \in PCs /\ then[q] \in {"idle", "claim"} /\ todo[q] \in SUBSET Files
                       /\ buf[q] \in Seq(Events)
  BY DEF TypeOK
<1>c. pending \in Seq(Events) /\ \A f \in Files : Exists(f) => file[f].pid \in Procs
                                                              /\ file[f].ev \in Events
  BY DEF TypeOK, Exists, Claim
\* While nobody is in "remove" or "trim", no claim of a live process is pending.
<1>d. ASSUME \A q \in Procs : pc[q] \notin {"remove", "trim"}, NEW f \in Files, Exists(f),
             file[f].pid \in alive, Tracked(file[f].ev)
      PROVE  file[f].ev \notin Range(pending)
  BY <1>c, <1>d DEF Singly, ClaimsApart
<1>e. ASSUME NEW p \in Procs, MayBegin(p) PROVE \A q \in Procs : pc[q] = "idle"
  BY <1>a, <1>e DEF MayBegin, Begin, Busy, TypeOK
<1>1. ASSUME NEW e \in Events, AppendEvent(e) PROVE Singly'
  <2>1. /\ \A q \in Procs : pc[q] = "idle" /\ todo[q] = {}
        /\ e \notin sent /\ sent' = sent \cup {e} /\ pending' = Append(pending, e)
        /\ UNCHANGED <<file, alive, pc, then, todo, buf, finished>>
    BY <1>1, <1>a DEF AppendEvent, Begin, Busy, TypeOK, procState, Singly, Lists
  <2>2. NoRepeat(pending') /\ Range(pending') = Range(pending) \cup {e}
    BY <1>c, <2>1, AppendOnce DEF Singly, OnlySent
  <2>3. OnlySent' /\ OneFile'
    BY <2>1, <2>2 DEF Singly, OnlySent, OneFile, InFiles, Exists
  <2>4. ClaimsApart'
    <3>1. ASSUME NEW f \in Files, Exists(f) PROVE file[f].ev # e
      BY <2>1, <3>1 DEF Singly, OnlySent, InFiles
    <3> QED BY <2>1, <2>2, <3>1 DEF Singly, ClaimsApart, Exists
  <2>5. \A q \in Procs : RecoveredApart(q)' /\ Lists(q)'
    BY <2>1 DEF RecoveredApart, Lists
  <2>6. NoRepeat(pending)'
    BY <2>1, <2>2 DEF NoRepeat
  <2> QED BY <2>3, <2>4, <2>5, <2>6 DEF Singly
\* The listing of recover().
<1>f. ASSUME NEW p \in Procs, MayBegin(p), NEW next \in {"idle", "claim"}, BeginRecover(p, next)
      PROVE  Singly'
  <2>1. /\ \A q \in Procs : pc[q] = "idle" /\ todo[q] = {}
        /\ todo'[p] = Recoverable /\ then'[p] = next /\ buf'[p] = buf[p]
        /\ pc'[p] = IF Recoverable = {} THEN next ELSE "recoverPending"
        /\ \A q \in Procs \ {p} : /\ pc'[q] = "idle" /\ todo'[q] = todo[q]
                                  /\ buf'[q] = buf[q]
        /\ UNCHANGED <<disk, alive, history>>
    BY <1>e, <1>f DEF BeginRecover, TypeOK, Singly, Lists
  <2>2. \A f \in Files : Exists(f)' = Exists(f) /\ file'[f] = file[f]
    BY <2>1 DEF Exists, disk
  <2>3. RecoveredApart(p)'
    BY <1>d, <2>1, <2>2 DEF RecoveredApart, Recoverable, disk
  <2>4. Lists(p)'
    <3>1. Recoverable # {} => alive # Procs
      BY <1>c DEF Recoverable
    <3> QED BY <2>1, <2>2, <3>1 DEF Lists, Recoverable
  <2>5. Range(buf'[p]) \subseteq sent
    BY <2>1 DEF Singly, OnlySent
  <2> QED BY <1>a, <1>d, <2>1, <2>3, <2>4, <2>5, SinglyReading DEF history, arrivals
<1>2. ASSUME NEW p \in Procs, ReadPending(p) PROVE Singly'
  BY <1>2, <1>f DEF ReadPending
<1>3. ASSUME NEW p \in Procs, ClaimNext(p) PROVE Singly'
  BY <1>3, <1>f DEF ClaimNext
\* A step of an operation under way: p is the only process that is not idle.
<1>g. ASSUME NEW p \in Procs, pc[p] # "idle", NEW q \in Procs, q # p
      PROVE  pc[q] = "idle" /\ todo[q] = {}
  BY <1>a, <1>g DEF Singly, Lists
<1>4. ASSUME NEW p \in Procs, RecoverPending(p) PROVE Singly'
  <2>1. /\ pc[p] = "recoverPending" /\ pc'[p] = "recoverFiles"
        /\ buf'[p] = pending /\ UNCHANGED <<disk, alive, then, todo, history>>
        /\ \A q \in Procs \ {p} : pc'[q] = "idle" /\ buf'[q] = buf[q]
    BY <1>4, <1>g DEF RecoverPending, TypeOK
  <2>2. RecoveredApart(p)' /\ Lists(p)'
    BY <2>1 DEF Singly, RecoveredApart, Lists, disk, Exists
  <2>3. Range(buf'[p]) \subseteq sent
    BY <2>1 DEF Singly, OnlySent
  <2> QED BY <1>a, <1>d, <1>g, <2>1, <2>2, <2>3, SinglyReading DEF history, arrivals
<1>5. ASSUME NEW p \in Procs, RecoverFiles(p) PROVE Singly'
  <2> DEFINE S == {f \in todo[p] : Exists(f)}
  <2>1. PICK r \in Contents(S) : \E m \in MergeAndSort(buf[p] \o r) :
          buf' = [buf EXCEPT ![p] = m]
    BY <1>5 DEF RecoverFiles
  <2>2. PICK m \in MergeAndSort(buf[p] \o r) : buf' = [buf EXCEPT ![p] = m]
    BY <2>1
  <2>3. r \in Seq(Events) /\ Range(r) = TodoEvents(p)
    <3>1. S \in SUBSET Files /\ \A f \in S : Exists(f)
      BY DEF TypeOK
    <3> QED BY <3>1, ContentsType DEF TodoEvents
  <2>4. buf[p] = pending
    BY <1>5 DEF RecoverFiles, UnderWay, Snapshot
  <2>5. pending \o r \in Seq(Events) /\ Range(pending \o r) = Range(pending) \cup Range(r)
    BY <1>c, <2>3, ConcatProperties, RangeConcatenation
  <2>6. Range(m) = Range(pending) \cup TodoEvents(p) /\ NoRepeat(m)
    <3>1. alive # Procs
      BY <1>5 DEF RecoverFiles, Singly, Lists
    <3> QED BY <2>2, <2>3, <2>4, <2>5, <3>1, MergeKeeps, MergeOnce
  <2>7. /\ pc[p] = "recoverFiles" /\ pc'[p] = "write" /\ buf'[p] = m
        /\ UNCHANGED <<disk, alive, then, todo, history>>
        /\ \A q \in Procs \ {p} : pc'[q] = "idle" /\ buf'[q] = buf[q]
    BY <1>5, <1>g, <2>2 DEF RecoverFiles, TypeOK
  <2>8. RecoveredApart(p)' /\ Lists(p)'
    <3>1. NoRepeat(buf[p])'
      BY <2>6, <2>7 DEF NoRepeat
    <3> QED BY <2>6, <2>7, <3>1 DEF Singly, RecoveredApart, Lists, disk, TodoEvents, Exists
  <2>9. Range(buf'[p]) \subseteq sent
    BY <1>b, <2>6, <2>7 DEF Singly, OnlySent, TodoEvents, InFiles
  <2> QED BY <1>a, <1>d, <1>g, <2>7, <2>8, <2>9, SinglyReading DEF history, arrivals
<1>6. ASSUME NEW p \in Procs, WriteMerged(p) PROVE Singly'
  <2>1. /\ pc[p] = "write" /\ pc'[p] = "remove" /\ pending' = buf[p] /\ Range(buf'[p]) = {}
        /\ UNCHANGED <<file, alive, then, todo, sent, finished>>
        /\ \A q \in Procs \ {p} : pc'[q] = pc[q] /\ buf'[q] = buf[q]
    BY <1>6 DEF WriteMerged, Rewrite, TypeOK, history, arrivals, Range
  <2>2. NoRepeat(buf[p]) /\ Range(buf[p]) \subseteq Range(pending) \cup TodoEvents(p)
    BY <2>1 DEF Singly, Lists
  <2>3. OnlySent'
    BY <2>1, <2>2 DEF Singly, OnlySent, InFiles, Exists
  <2>4. OneFile' /\ NoRepeat(pending)'
    BY <2>1, <2>2 DEF Singly, OneFile, NoRepeat, Exists
  \* An event that is pending only now is that of a file on the list.
  <2>5. ASSUME NEW f \in Files, Exists(f), Tracked(file[f].ev), file[f].ev \in Range(buf[p]),
               file[f].ev \notin Range(pending)
        PROVE  f \in todo[p]
    <3>1. PICK g \in todo[p] : Exists(g) /\ file[g].ev = file[f].ev
      BY <2>2, <2>5 DEF TodoEvents
    <3>2. g = f
      BY <1>b, <2>5, <3>1 DEF Singly, OneFile
    <3> QED BY <3>1, <3>2
  <2>6. ClaimsApart'
    <3>1. SUFFICES ASSUME NEW f \in Files, Exists(f), file[f].pid \in alive,
                          Tracked(file[f].ev), file[f].ev \in Range(buf[p])
                   PROVE  f \in todo[file[f].pid] /\ pc'[file[f].pid] = "remove"
      BY <2>1 DEF ClaimsApart, Exists
    <3>2. file[f].ev \notin Range(pending)
      BY <1>d, <1>g, <2>1, <3>1
    <3>3. f \in todo[p]
      BY <2>5, <3>1, <3>2
    <3>4. file[f].pid = p
      BY <3>1, <3>3 DEF Ownership
    <3> QED BY <2>1, <3>3, <3>4
  <2>7. ASSUME NEW q \in Procs PROVE RecoveredApart(q)' /\ Lists(q)'
    <3>1. CASE q = p
      <4>1. RecoveredApart(p)'
        BY <2>1, <2>5 DEF Singly, RecoveredApart, Exists
      <4>2. Lists(p)'
        BY <2>1 DEF Lists
      <4> QED BY <3>1, <4>1, <4>2
    <3>2. CASE q # p
      BY <1>g, <2>1, <3>2 DEF RecoveredApart, Lists
    <3> QED BY <3>1, <3>2
  <2> QED BY <2>3, <2>4, <2>6, <2>7 DEF Singly
<1>7. ASSUME NEW p \in Procs, RemoveFile(p) PROVE Singly'
  <2>1. PICK f \in todo[p] :
          /\ file' = [file EXCEPT ![f] = NoFile]
          /\ todo' = [todo EXCEPT ![p] = @ \ {f}]
          /\ pc' = [pc EXCEPT ![p] = IF todo[p] = {f} THEN then[p] ELSE "remove"]
    BY <1>7 DEF RemoveFile
  <2>2. /\ f \in Files /\ pc[p] = "remove" /\ todo'[p] = todo[p] \ {f}
        /\ pc'[p] = IF todo[p] = {f} THEN then[p] ELSE "remove"
        /\ \A g \in Files : Exists(g)' => Exists(g) /\ g # f /\ file'[g] = file[g]
        /\ UNCHANGED <<pending, alive, then, buf, sent, finished>>
        /\ \A q \in Procs \ {p} : pc'[q] = pc[q] /\ todo'[q] = todo[q]
    BY <1>7, <1>b, <2>1 DEF RemoveFile, TypeOK, Exists, history, arrivals
  <2>3. OnlySent' /\ NoRepeat(pending)' /\ OneFile'
    <3>1. InFiles' \subseteq InFiles
      BY <2>2 DEF InFiles
    <3> QED BY <2>2, <3>1 DEF Singly, OnlySent, NoRepeat, OneFile
  <2>4. ClaimsApart'
    <3>1. SUFFICES ASSUME NEW g \in Files, Exists(g), g # f, file[g].pid \in alive,
                          Tracked(file[g].ev), file[g].ev \in Range(pending)
                   PROVE  g \in todo'[file[g].pid] /\ pc'[file[g].pid] \in {"remove", "trim"}
      BY <2>2 DEF ClaimsApart
    <3>2. g \in todo[file[g].pid] /\ pc[file[g].pid] \in {"remove", "trim"}
      BY <3>1 DEF Singly, ClaimsApart
    <3>3. file[g].pid = p
      BY <1>a, <1>c, <2>2, <3>1, <3>2
    <3> QED BY <2>2, <3>1, <3>2, <3>3
  <2>5. ASSUME NEW q \in Procs PROVE RecoveredApart(q)' /\ Lists(q)'
    <3>1. CASE q = p
      <4>1. RecoveredApart(p)'
        BY <2>2 DEF Singly, RecoveredApart
      <4>2. Lists(p)'
        BY <1>b, <2>2 DEF Lists
      <4> QED BY <3>1, <4>1, <4>2
    <3>2. CASE q # p
      BY <1>g, <2>2, <3>2 DEF RecoveredApart, Lists
    <3> QED BY <3>1, <3>2
  <2> QED BY <2>3, <2>4, <2>5 DEF Singly
<1>8. ASSUME NEW p \in Procs, ClaimRead(p) PROVE Singly'
  <2>1. /\ pc[p] = "claim" /\ pc'[p] \in {"idle", "save"}
        /\ buf'[p] = pending /\ UNCHANGED <<disk, alive, then, todo, history>>
        /\ \A q \in Procs \ {p} : pc'[q] = "idle" /\ buf'[q] = buf[q]
    BY <1>8, <1>g DEF ClaimRead, TypeOK
  <2>2. RecoveredApart(p)' /\ Lists(p)'
    BY <2>1 DEF Singly, RecoveredApart, Lists, disk, Exists
  <2>3. Range(buf'[p]) \subseteq sent
    BY <2>1 DEF Singly, OnlySent
  <2> QED BY <1>a, <1>d, <1>g, <2>1, <2>2, <2>3, SinglyReading DEF history, arrivals
<1>9. ASSUME NEW p \in Procs, ClaimSave(p) PROVE Singly'
  <2> DEFINE e == Head(pending)
  <2>1. PICK f \in Files :
          /\ Fresh(f)
          /\ file' = [file EXCEPT ![f] = [pid |-> p, ev |-> Head(buf[p])]]
          /\ todo' = [todo EXCEPT ![p] = {f}]
    BY <1>9 DEF ClaimSave
  <2>2. buf[p] = pending /\ pending # <<>> /\ then[p] = "claim" /\ todo[p] = {}
    BY <1>9 DEF ClaimSave, UnderWay, Snapshot, TypeOK, Singly, Lists
  <2>3. /\ e \in Events /\ e \in Range(pending)
        /\ NoRepeat(Tail(pending)) /\ Range(pending) = {e} \cup Range(Tail(pending))
        /\ Tracked(e) => e \notin Range(Tail(pending))
    BY <1>c, <2>2, TailOnce, HeadTailProperties DEF Singly
  <2>4. /\ pc[p] = "save" /\ pc'[p] = "trim" /\ todo'[p] = {f} /\ buf'[p] = Tail(pending)
        /\ ~ Exists(f) /\ Exists(f)' /\ file'[f] = [pid |-> p, ev |-> e]
        /\ \A g \in Files : g # f => file'[g] = file[g]
        /\ UNCHANGED <<pending, alive, then, sent, finished>>
        /\ \A q \in Procs \ {p} : pc'[q] = pc[q] /\ todo'[q] = todo[q] /\ buf'[q] = buf[q]
    BY <1>9, <2>1, <2>2, <2>3, QueueConstants DEF ClaimSave, TypeOK, Exists, Fresh, history,
       arrivals
  <2>5. OnlySent' /\ NoRepeat(pending)'
    <3>1. InFiles' \subseteq InFiles \cup {e}
      BY <2>4 DEF InFiles, Exists
    <3> QED BY <2>3, <2>4, <3>1 DEF Singly, OnlySent, NoRepeat
  <2>6. OneFile'
    <3>1. ASSUME NEW g \in Files, Exists(g), Tracked(file[g].ev) PROVE file[g].ev # e
      BY <2>2, <2>3, <2>4, <3>1 DEF Singly, RecoveredApart
    <3> QED BY <2>4, <3>1 DEF Singly, OneFile, Exists
  <2>7. ClaimsApart'
    BY <1>d, <1>g, <2>4 DEF ClaimsApart, Exists
  <2>8. ASSUME NEW q \in Procs PROVE RecoveredApart(q)' /\ Lists(q)'
    <3>1. CASE q = p
      <4>1. RecoveredApart(p)'
        BY <2>2, <2>4 DEF Singly, RecoveredApart, Exists
      <4>2. Lists(p)'
        <5>1. NoRepeat(buf[p])'
          BY <2>3, <2>4 DEF NoRepeat
        <5> QED BY <2>2, <2>3, <2>4, <5>1 DEF Lists, Exists
      <4> QED BY <3>1, <4>1, <4>2
    <3>2. CASE q # p
      BY <1>g, <2>4, <3>2 DEF RecoveredApart, Lists
    <3> QED BY <3>1, <3>2
  <2> QED BY <2>5, <2>6, <2>7, <2>8 DEF Singly
<1>10. ASSUME NEW p \in Procs, ClaimTrim(p) PROVE Singly'
  <2>1. /\ pc[p] = "trim" /\ pc'[p] = "idle" /\ todo'[p] = {} /\ pending' = buf[p]
        /\ Range(buf'[p]) = {} /\ UNCHANGED <<file, alive, then, sent, finished>>
        /\ \A q \in Procs \ {p} : pc'[q] = pc[q] /\ todo'[q] = todo[q] /\ buf'[q] = buf[q]
    BY <1>10 DEF ClaimTrim, Rewrite, TypeOK, history, arrivals, Range
  <2>2. PICK f \in Files :
                /\ todo[p] = {f} /\ Exists(f) /\ file[f].pid = p
                /\ Range(pending) = {file[f].ev} \cup Range(buf[p])
                /\ Tracked(file[f].ev) => file[f].ev \notin Range(buf[p])
    BY <2>1 DEF Singly, Lists
  <2>3. OnlySent' /\ NoRepeat(pending)' /\ OneFile'
    BY <2>1, <2>2 DEF Singly, OnlySent, NoRepeat, OneFile, InFiles, Exists, Lists
  <2>4. ClaimsApart'
    <3>1. SUFFICES ASSUME NEW g \in Files, Exists(g), file[g].pid \in alive,
                          Tracked(file[g].ev), file[g].ev \in Range(buf[p])
                   PROVE  FALSE
      BY <2>1 DEF ClaimsApart, Exists
    <3>2. g \in todo[file[g].pid] /\ pc[file[g].pid] # "idle"
      BY <2>2, <3>1 DEF Singly, ClaimsApart
    <3>3. file[g].pid = p
      BY <1>a, <1>c, <2>1, <3>1, <3>2
    <3> QED BY <2>2, <3>1, <3>2, <3>3
  <2>5. \A q \in Procs : RecoveredApart(q)' /\ Lists(q)'
    BY <1>g, <2>1 DEF RecoveredApart, Lists
  <2> QED BY <2>3, <2>4, <2>5 DEF Singly
<1>11. ASSUME NEW p \in Procs, NEW f \in Files, Effect(p, f) PROVE Singly'
  <2>1. /\ {} \in SUBSET Files /\ \A q \in Procs : todo[q] \cap {} = {}
        /\ file' = [g \in Files |-> IF g \in {} THEN NoFile ELSE file[g]]
        /\ finished' \subseteq finished \cup InFiles
        /\ UNCHANGED <<pending, alive, pc, then, todo, buf, sent>>
    BY <1>11 DEF Effect, disk, procState, arrivals, TypeOK
  <2> QED BY <2>1, SinglyQuiet
<1>12. ASSUME NEW p \in Procs, NEW f \in Files, CompleteClaim(p, f) PROVE Singly'
  <2>1. /\ {f} \in SUBSET Files /\ \A q \in Procs : todo[q] \cap {f} = {}
        /\ file' = [g \in Files |-> IF g \in {f} THEN NoFile ELSE file[g]]
        /\ UNCHANGED <<pending, alive, pc, then, todo, buf, sent>>
    BY <1>12 DEF CompleteClaim, procState, arrivals, TypeOK, Ownership
  <2>2. finished' \subseteq finished \cup InFiles
    BY <1>12 DEF CompleteClaim, Holds, InFiles
  <2> QED BY <2>1, <2>2, SinglyQuiet
<1>13. ASSUME NEW p \in Procs, NEW f \in Files, RestoreClaim(p, f) PROVE Singly'
  <2>1. PICK m \in MergeAndSort(<<file[f].ev>> \o pending) : buf' = [buf EXCEPT ![p] = m]
    BY <1>13 DEF RestoreClaim
  <2>2. Exists(f) /\ file[f].pid = p /\ MayBegin(p)
    BY <1>13 DEF RestoreClaim, Holds
  <2>3. /\ <<file[f].ev>> \o pending \in Seq(Events)
        /\ Range(<<file[f].ev>> \o pending) = {file[f].ev} \cup Range(pending)
    BY <1>c, <2>2, ConsRange
  <2>4. Range(m) = {file[f].ev} \cup Range(pending) /\ NoRepeat(m)
    <3>1. ASSUME alive = Procs PROVE NoRepeat(<<file[f].ev>> \o pending)
      <4>1. file[f].ev \notin Range(pending) /\ file[f].ev \in Events
        BY <1>c, <1>d, <1>e, <2>2, <3>1
      <4> QED BY <1>c, <4>1, ConsOnce DEF Singly
    <3> QED BY <2>1, <2>3, <3>1, MergeKeeps, MergeOnce
  <2>5. /\ \A q \in Procs : pc[q] = "idle" /\ todo[q] = {}
        /\ pc'[p] = "write" /\ then'[p] = "idle" /\ todo'[p] = {f} /\ buf'[p] = m
        /\ UNCHANGED <<disk, alive, sent, finished>>
        /\ \A q \in Procs \ {p} : pc'[q] = "idle" /\ todo'[q] = todo[q] /\ buf'[q] = buf[q]
    BY <1>13, <1>e, <2>1, <2>2 DEF RestoreClaim, arrivals, TypeOK, Singly, Lists
  <2>6. TodoEvents(p)' = {file[f].ev}
    BY <2>2, <2>5 DEF TodoEvents, Exists, disk
  <2>7. RecoveredApart(p)' /\ Lists(p)'
    <3>1. NoRepeat(buf[p])'
      BY <2>4, <2>5 DEF NoRepeat
    <3> QED BY <2>4, <2>5, <2>6, <3>1 DEF RecoveredApart, Lists, disk
  <2>8. Range(buf'[p]) \subseteq sent
    BY <2>2, <2>4, <2>5 DEF Singly, OnlySent, InFiles
  <2> QED BY <1>a, <1>d, <2>5, <2>7, <2>8, SinglyReading
<1>14. ASSUME NEW p \in Procs, Crash(p) PROVE Singly'
  <2>1. /\ alive' = alive \ {p} /\ pc'[p] = "idle" /\ todo'[p] = {} /\ Range(buf'[p]) = {}
        /\ UNCHANGED <<pending, file, sent, finished>>
        /\ \A q \in Procs \ {p} : /\ pc'[q] = pc[q] /\ then'[q] = then[q]
                                  /\ todo'[q] = todo[q] /\ buf'[q] = buf[q]
    BY <1>14 DEF Crash, disk, arrivals, TypeOK, Range
  <2>2. \A f \in Files : Exists(f)' = Exists(f) /\ file'[f] = file[f]
    BY <2>1 DEF Exists
  <2>3. OnlySent' /\ NoRepeat(pending)' /\ OneFile'
    BY <2>1, <2>2 DEF Singly, OnlySent, NoRepeat, OneFile, InFiles
  <2>4. ClaimsApart'
    BY <1>c, <2>1, <2>2 DEF Singly, ClaimsApart
  <2>5. ASSUME NEW q \in Procs PROVE RecoveredApart(q)' /\ Lists(q)'
    <3>1. CASE q = p
      BY <2>1, <3>1 DEF RecoveredApart, Lists
    <3>2. CASE q # p
      <4>1. /\ pc'[q] = pc[q] /\ then'[q] = then[q] /\ todo'[q] = todo[q] /\ buf'[q] = buf[q]
            /\ todo[q] \in SUBSET Files
        BY <1>b, <2>1, <3>2
      <4>2. TodoEvents(q)' = TodoEvents(q)
        BY <2>2, <4>1 DEF TodoEvents
      <4>3. RecoveredApart(q)'
        BY <2>1, <2>2, <4>1 DEF Singly, RecoveredApart
      <4>4. Lists(q)'
        BY <2>1, <2>2, <4>1, <4>2 DEF Singly, Lists, NoRepeat
      <4> QED BY <4>3, <4>4
    <3> QED BY <3>1, <3>2
  <2> QED BY <2>3, <2>4, <2>5 DEF Singly
<1>15. CASE UNCHANGED vars
  <2>1. /\ {} \in SUBSET Files /\ \A q \in Procs : todo[q] \cap {} = {}
        /\ file' = [g \in Files |-> IF g \in {} THEN NoFile ELSE file[g]]
        /\ finished' \subseteq finished \cup InFiles
        /\ UNCHANGED <<pending, alive, pc, then, todo, buf, sent>>
    BY <1>15 DEF vars, history, disk, procState, arrivals, TypeOK
  <2> QED BY <2>1, SinglyQuiet
<1> QED
  BY <1>1, <1>2, <1>3, <1>4, <1>5, <1>6, <1>7, <1>8, <1>9, <1>10, <1>11, <1>12,
     <1>13, <1>14, <1>15 DEF Next, Continue

-----------------------------------------------------------------------------
\* The variables of QueueContract in the state of DeliveryQueue.
DeadEvents == {file[f].ev : f \in {g \in Files : Exists(g) /\ file[g].pid \notin alive}}
WaitingNow == SequencedEvents \cap (Range(pending) \cup DeadEvents)
HeldBy(p) == SequencedEvents \cap
    {file[f].ev : f \in {g \in Files : Holds(p, g) \/ Restoring(p, g)}}
HeldNow == [p \in Procs |-> HeldBy(p)]
DoneNow == SequencedEvents \cap finished

LEMMA MapStutter ==
    ASSUME WaitingNow' = WaitingNow, \A p \in Procs : HeldBy(p)' = HeldBy(p), DoneNow' = DoneNow
    PROVE  UNCHANGED Contract!cvars
<1>1. HeldNow' = HeldNow
  BY DEF HeldNow
<1> QED BY <1>1 DEF Contract!cvars, WaitingNow, DeadEvents, HeldNow, HeldBy, DoneNow

LEMMA MapSend ==
    ASSUME NEW e \in SequencedEvents, e \notin WaitingNow \cup DoneNow,
           \A p \in Procs : e \notin HeldBy(p),
           WaitingNow' = WaitingNow \cup {e}, \A p \in Procs : HeldBy(p)' = HeldBy(p),
           DoneNow' = DoneNow
    PROVE  Contract!Next
<1>1. HeldNow' = HeldNow
  BY DEF HeldNow
<1>2. e \notin UNION {HeldNow[p] : p \in Procs}
  BY DEF HeldNow
<1>3. Contract!Send(e)
  BY <1>1, <1>2 DEF Contract!Send, Contract!Held, WaitingNow, DeadEvents, HeldNow, HeldBy, DoneNow
<1> QED BY <1>3 DEF Contract!Next

LEMMA MapTake ==
    ASSUME NEW p \in Procs, NEW e \in SequencedEvents, e \in WaitingNow,
           WaitingNow' = WaitingNow \ {e}, HeldBy(p)' = HeldBy(p) \cup {e},
           \A q \in Procs \ {p} : HeldBy(q)' = HeldBy(q), DoneNow' = DoneNow
    PROVE  Contract!Next
<1>1. HeldNow' = [HeldNow EXCEPT ![p] = @ \cup {e}]
  BY DEF HeldNow
<1>2. Contract!Take(p, e)
  BY <1>1 DEF Contract!Take, WaitingNow, DeadEvents, HeldNow, HeldBy, DoneNow
<1> QED BY <1>2 DEF Contract!Next

LEMMA MapFinish ==
    ASSUME NEW p \in Procs, NEW e \in SequencedEvents, e \in HeldBy(p),
           WaitingNow' = WaitingNow, HeldBy(p)' = HeldBy(p) \ {e},
           \A q \in Procs \ {p} : HeldBy(q)' = HeldBy(q), DoneNow' = DoneNow \cup {e}
    PROVE  Contract!Next
<1>1. HeldNow' = [HeldNow EXCEPT ![p] = @ \ {e}] /\ e \in HeldNow[p]
  BY DEF HeldNow
<1>2. Contract!Finish(p, e)
  BY <1>1 DEF Contract!Finish, WaitingNow, DeadEvents, HeldNow, HeldBy, DoneNow
<1> QED BY <1>2 DEF Contract!Next

LEMMA MapGiveBackOne ==
    ASSUME NEW p \in Procs, NEW e \in SequencedEvents, e \in HeldBy(p),
           WaitingNow' = WaitingNow \cup {e}, HeldBy(p)' = HeldBy(p) \ {e},
           \A q \in Procs \ {p} : HeldBy(q)' = HeldBy(q), DoneNow' = DoneNow
    PROVE  Contract!Next
<1>1. /\ HeldNow' = [HeldNow EXCEPT ![p] = @ \ {e}] /\ {e} \subseteq HeldNow[p] /\ {e} # {}
  BY DEF HeldNow
<1>2. Contract!GiveBack(p, {e})
  BY <1>1 DEF Contract!GiveBack, WaitingNow, DeadEvents, HeldNow, HeldBy, DoneNow
<1> QED BY <1>2 DEF Contract!Next

LEMMA MapGiveBackAll ==
    ASSUME NEW p \in Procs, HeldBy(p) # {}, WaitingNow' = WaitingNow \cup HeldBy(p),
           HeldBy(p)' = {}, \A q \in Procs \ {p} : HeldBy(q)' = HeldBy(q), DoneNow' = DoneNow
    PROVE  Contract!Next
<1>1. \E c \in Procs :
          /\ HeldNow[c] # {} /\ HeldNow[c] \subseteq HeldNow[c]
          /\ HeldNow' = [HeldNow EXCEPT ![c] = @ \ HeldNow[c]]
          /\ WaitingNow' = WaitingNow \cup HeldNow[c]
          /\ DoneNow' = DoneNow
  BY DEF HeldNow
<1> QED BY <1>1 DEF Contract!Next, Contract!GiveBack, WaitingNow, DeadEvents, HeldNow, HeldBy,
           DoneNow

LEMMA MapInit == Init => Contract!Init
<1> SUFFICES ASSUME Init PROVE Contract!Init
  OBVIOUS
<1>1. \A f \in Files : ~ Exists(f)
  BY DEF Init, Exists
<1>2. /\ Range(pending) = {} /\ DeadEvents = {} /\ finished = {}
      /\ \A p \in Procs, f \in Files : ~ Holds(p, f) /\ ~ Restoring(p, f)
  BY <1>1 DEF Init, Range, DeadEvents, Holds, Restoring
<1>3. WaitingNow = {} /\ HeldNow = [p \in Procs |-> {}] /\ DoneNow = {}
  BY <1>2 DEF WaitingNow, HeldNow, HeldBy, DoneNow
<1> QED BY <1>3 DEF Contract!Init, WaitingNow, DeadEvents, HeldNow, HeldBy, DoneNow

\* The files a process holds, or is giving back without having written them yet.
OwnFiles(p) == {g \in Files : Holds(p, g) \/ Restoring(p, g)}

\* Steps that move no event: the files that exist before and after hold the same
\* events for the same owners, and those that come or go are held by nobody.
LEMMA MapQuiet ==
    ASSUME UNCHANGED <<alive, finished>>,
           Range(pending') \cup DeadEvents' = Range(pending) \cup DeadEvents,
           \A p \in Procs : /\ OwnFiles(p)' = OwnFiles(p)
                            /\ \A g \in OwnFiles(p) : file'[g] = file[g]
    PROVE  UNCHANGED Contract!cvars
<1>1. \A p \in Procs : HeldBy(p)' = HeldBy(p)
  BY DEF HeldBy, OwnFiles
<1>2. WaitingNow' = WaitingNow /\ DoneNow' = DoneNow
  <2>1. Range(pending)' = Range(pending')
    BY DEF Range
  <2> QED BY <2>1 DEF WaitingNow, DoneNow
<1> QED BY <1>1, <1>2, MapStutter

\* Every step of the queue is a step of the contract or changes nothing in it.
LEMMA MapStep ==
    ASSUME UniqueSeqs, overlaps' = 0, TypeOK, Ownership, UnderWay, Singly, [Next]_vars
    PROVE  [Contract!Next]_(Contract!cvars)
<1> USE DEF Goto
<1>a. /\ \A q \in Procs : q \notin alive => pc[q] = "idle"
      /\ \A p, q \in Procs : pc[p] # "idle" /\ pc[q] # "idle" => p = q
  BY DEF UnderWay, OneAtATime
<1>b. \A q \in Procs : pc[q] \in PCs /\ then[q] \in {"idle", "claim"} /\ todo[q] \in SUBSET Files
                       /\ buf[q] \in Seq(Events)
  BY DEF TypeOK
<1>c. pending \in Seq(Events) /\ \A f \in Files : Exists(f) => file[f].pid \in Procs
                                                              /\ file[f].ev \in Events
  BY DEF TypeOK, Exists, Claim
<1>e. ASSUME NEW p \in Procs, MayBegin(p)
      PROVE  \A q \in Procs : pc[q] = "idle" /\ todo[q] = {}
  BY <1>a, <1>e DEF MayBegin, Begin, Busy, TypeOK, Singly, Lists
<1>g. ASSUME NEW p \in Procs, pc[p] # "idle", NEW q \in Procs, q # p
      PROVE  pc[q] = "idle" /\ todo[q] = {}
  BY <1>a, <1>g DEF Singly, Lists
\* The files of a live process that are on no list are held.
<1>h. \A p \in Procs :
         /\ OwnFiles(p) \subseteq Files
         /\ \A g \in Files : g \in OwnFiles(p) <=>
               /\ Exists(g) /\ file[g].pid = p /\ p \in alive
               /\ g \in todo[p] => pc[p] = "write"
  BY DEF OwnFiles, Holds, Restoring
<1>i. \A p \in Procs :
         /\ OwnFiles(p)' \subseteq Files
         /\ \A g \in Files : g \in OwnFiles(p)' <=>
               /\ Exists(g)' /\ file'[g].pid = p /\ p \in alive'
               /\ g \in todo'[p] => pc'[p] = "write"
  BY DEF OwnFiles, Holds, Restoring
<1>1. ASSUME NEW e \in Events, AppendEvent(e) PROVE [Contract!Next]_(Contract!cvars)
  <2>1. /\ e \notin sent /\ pending' = Append(pending, e)
        /\ UNCHANGED <<file, alive, pc, todo, finished>>
    BY <1>1 DEF AppendEvent, procState
  <2>2. Range(pending') = Range(pending) \cup {e}
    BY <1>c, <2>1, AppendOnce DEF Singly, OnlySent
  <2>3. DeadEvents' = DeadEvents /\ \A p \in Procs : HeldBy(p)' = HeldBy(p)
    BY <2>1 DEF DeadEvents, HeldBy, Holds, Restoring, Exists
  <2>4. DoneNow' = DoneNow /\ WaitingNow' = SequencedEvents \cap (Range(pending') \cup DeadEvents)
    BY <2>1, <2>3 DEF DoneNow, WaitingNow, Range
  <2>5. /\ e \notin WaitingNow \cup DoneNow
        /\ \A p \in Procs : e \notin HeldBy(p)
    <3>1. DeadEvents \subseteq InFiles /\ \A p \in Procs : HeldBy(p) \subseteq InFiles
      BY DEF DeadEvents, InFiles, HeldBy, Holds, Restoring
    <3> QED BY <2>1, <3>1 DEF Singly, OnlySent, WaitingNow, DoneNow
  <2>6. CASE e \in SequencedEvents
    <3>1. WaitingNow' = WaitingNow \cup {e}
      BY <2>2, <2>4, <2>6 DEF WaitingNow
    <3> QED BY <2>3, <2>4, <2>5, <2>6, <3>1, MapSend
  <2>7. CASE e \notin SequencedEvents
    <3>1. WaitingNow' = WaitingNow
      BY <2>2, <2>4, <2>7 DEF WaitingNow
    <3> QED BY <2>3, <2>4, <3>1, MapStutter
  <2> QED BY <2>6, <2>7
\* The listing of recover(), and the calls that only read.
<1>f. ASSUME NEW p \in Procs, MayBegin(p), NEW next \in {"idle", "claim"}, BeginRecover(p, next)
      PROVE  UNCHANGED Contract!cvars
  <2>1. /\ todo[p] = {} /\ todo'[p] = Recoverable /\ pc[p] = "idle"
        /\ \A q \in Procs \ {p} : pc'[q] = pc[q] /\ todo'[q] = todo[q]
        /\ UNCHANGED <<pending, file, alive, finished>>
    BY <1>e, <1>f DEF BeginRecover, TypeOK, disk, history
  <2>2. ASSUME NEW q \in Procs PROVE OwnFiles(q)' = OwnFiles(q)
    <3>1. \A g \in Files : Exists(g)' = Exists(g) /\ file'[g] = file[g]
      BY <2>1 DEF Exists
    <3>2. CASE q = p
      <4>1. OwnFiles(p)' \subseteq OwnFiles(p)
        BY <1>h, <1>i, <2>1, <3>1
      <4>2. OwnFiles(p) \subseteq OwnFiles(p)'
        BY <1>h, <1>i, <2>1, <3>1 DEF Recoverable
      <4> QED BY <3>2, <4>1, <4>2
    <3>3. CASE q # p
      <4>1. \A g \in Files : g \in OwnFiles(q)' <=> g \in OwnFiles(q)
        BY <1>h, <1>i, <2>1, <3>1, <3>3
      <4> QED BY <4>1 DEF OwnFiles
    <3> QED BY <3>2, <3>3
  <2>3. Range(pending') \cup DeadEvents' = Range(pending) \cup DeadEvents
    BY <2>1 DEF DeadEvents, Exists
  <2> QED BY <2>1, <2>2, <2>3, MapQuiet
<1>r. ASSUME NEW p \in Procs, UNCHANGED <<disk, alive, todo, finished>>,
             \A q \in Procs \ {p} : pc'[q] = pc[q],
             \A g \in todo[p] : Exists(g) => file[g].pid # p \/ p \notin alive
      PROVE  UNCHANGED Contract!cvars
  <2>2. ASSUME NEW q \in Procs PROVE OwnFiles(q)' = OwnFiles(q)
    <3>1. \A g \in Files : Exists(g)' = Exists(g) /\ file'[g] = file[g]
      BY <1>r DEF Exists, disk
    <3>2. CASE q = p
      <4>1. \A g \in Files : g \in OwnFiles(p) => ~ g \in todo[p]
        BY <1>h, <1>r
      <4>2. \A g \in Files : g \in OwnFiles(p)' => ~ g \in todo[p]
        BY <1>i, <1>r, <3>1 DEF disk
      <4>3. \A g \in Files : g \in OwnFiles(p)' <=> g \in OwnFiles(p)
        BY <1>h, <1>i, <1>r, <3>1, <4>1, <4>2 DEF disk
      <4> QED BY <3>2, <4>3 DEF OwnFiles
    <3>3. CASE q # p
      <4>1. \A g \in Files : g \in OwnFiles(q)' <=> g \in OwnFiles(q)
        BY <1>h, <1>i, <1>r, <3>1, <3>3 DEF disk
      <4> QED BY <4>1 DEF OwnFiles
    <3> QED BY <3>2, <3>3
  <2>3. Range(pending') \cup DeadEvents' = Range(pending) \cup DeadEvents
    BY <1>r DEF DeadEvents, Exists, disk
  <2> QED BY <1>r, <2>2, <2>3, MapQuiet DEF disk
<1>2. ASSUME NEW p \in Procs, ReadPending(p) PROVE UNCHANGED Contract!cvars
  BY <1>2, <1>f DEF ReadPending
<1>3. ASSUME NEW p \in Procs, ClaimNext(p) PROVE UNCHANGED Contract!cvars
  BY <1>3, <1>f DEF ClaimNext
<1>4. ASSUME NEW p \in Procs, RecoverPending(p) PROVE UNCHANGED Contract!cvars
  <2>1. \A g \in todo[p] : Exists(g) => file[g].pid # p \/ p \notin alive
    BY <1>4 DEF RecoverPending, Singly, Lists
  <2> QED BY <1>4, <1>r, <2>1 DEF RecoverPending, TypeOK, history
<1>5. ASSUME NEW p \in Procs, RecoverFiles(p) PROVE UNCHANGED Contract!cvars
  <2>1. \A g \in todo[p] : Exists(g) => file[g].pid # p \/ p \notin alive
    BY <1>5 DEF RecoverFiles, Singly, Lists
  <2> QED BY <1>5, <1>r, <2>1 DEF RecoverFiles, TypeOK, history
<1>8. ASSUME NEW p \in Procs, ClaimRead(p) PROVE UNCHANGED Contract!cvars
  <2>1. todo[p] = {}
    BY <1>8 DEF ClaimRead, Singly, Lists
  <2> QED BY <1>8, <1>r, <2>1 DEF ClaimRead, TypeOK, history
<1>11. ASSUME UNCHANGED <<pending, file, alive, pc, todo, finished>>
       PROVE  UNCHANGED Contract!cvars
  <2>1. ASSUME NEW q \in Procs PROVE OwnFiles(q)' = OwnFiles(q)
    <3>1. \A g \in Files : g \in OwnFiles(q)' <=> g \in OwnFiles(q)
      BY <1>h, <1>i, <1>11 DEF Exists
    <3> QED BY <3>1 DEF OwnFiles
  <2>2. Range(pending') \cup DeadEvents' = Range(pending) \cup DeadEvents
    BY <1>11 DEF DeadEvents, Exists
  <2> QED BY <1>11, <2>1, <2>2, MapQuiet
<1>6. ASSUME NEW p \in Procs, WriteMerged(p) PROVE [Contract!Next]_(Contract!cvars)
  <2>1. /\ pc[p] = "write" /\ pc'[p] = "remove" /\ pending' = buf[p]
        /\ UNCHANGED <<file, alive, todo, finished>>
        /\ \A q \in Procs \ {p} : pc'[q] = pc[q]
    BY <1>6 DEF WriteMerged, Rewrite, TypeOK, history
  <2>2. Range(pending') = Range(pending) \cup TodoEvents(p)
    BY <2>1 DEF Singly, Lists, UnderWay, Snapshot
  <2>3. ASSUME NEW q \in Procs
        PROVE  OwnFiles(q)' = IF q = p THEN OwnFiles(p) \ todo[p] ELSE OwnFiles(q)
    <3>1. \A g \in Files : g \in OwnFiles(q)' <=> g \in OwnFiles(q) /\ (q = p => g \notin todo[p])
      BY <1>h, <1>i, <2>1 DEF Exists
    <3>2. CASE q = p
      BY <3>1, <3>2 DEF OwnFiles
    <3>3. CASE q # p
      BY <3>1, <3>3 DEF OwnFiles
    <3> QED BY <3>2, <3>3
  <2>4. DeadEvents' = DeadEvents
    BY <2>1 DEF DeadEvents, Exists
  <2>5. CASE \A g \in todo[p] : Exists(g) => file[g].pid \notin alive
    <3>1. TodoEvents(p) \subseteq DeadEvents
      BY <1>b, <2>5 DEF TodoEvents, DeadEvents
    <3>2. OwnFiles(p) \cap todo[p] = {}
      BY <1>h, <2>5
    <3>3. \A q \in Procs : OwnFiles(q)' = OwnFiles(q)
      BY <2>3, <3>2
    <3>4. Range(pending') \cup DeadEvents' = Range(pending) \cup DeadEvents
      BY <2>2, <2>4, <3>1
    <3> QED BY <2>1, <3>3, <3>4, MapQuiet
  <2>6. ASSUME NEW f \in todo[p], Exists(f), file[f].pid \in alive
        PROVE  [Contract!Next]_(Contract!cvars)
    <3> DEFINE e == file[f].ev
    <3>1. f \in Files /\ todo[p] = {f} /\ file[f].pid = p /\ f \in OwnFiles(p) /\ e \in Events
      BY <1>b, <1>c, <1>h, <2>1, <2>6 DEF Singly, Lists, Ownership
    <3>2. TodoEvents(p) = {e}
      BY <2>6, <3>1 DEF TodoEvents
    <3>3. /\ \A q \in Procs \ {p} : HeldBy(q)' = HeldBy(q)
          /\ HeldBy(p)' = SequencedEvents \cap {file[g].ev : g \in OwnFiles(p) \ {f}}
          /\ HeldBy(p) = SequencedEvents \cap {file[g].ev : g \in OwnFiles(p)}
      BY <2>1, <2>3, <3>1 DEF HeldBy, OwnFiles
    <3>4. /\ DoneNow' = DoneNow
          /\ WaitingNow' = SequencedEvents \cap (Range(pending') \cup DeadEvents)
      BY <2>1, <2>4 DEF DoneNow, WaitingNow, Range
    <3>5. CASE e \in SequencedEvents
      <4>1. \A g \in OwnFiles(p) : file[g].ev = e => g = f
        BY <1>h, <2>6, <3>1, <3>5 DEF Singly, OneFile, SequencedEvents, Tracked
      <4>2. HeldBy(p)' = HeldBy(p) \ {e} /\ e \in HeldBy(p)
        BY <3>1, <3>3, <3>5, <4>1
      <4>3. WaitingNow' = WaitingNow \cup {e}
        BY <2>2, <3>2, <3>4, <3>5 DEF WaitingNow
      <4>4. Contract!Next
        BY <3>3, <3>4, <3>5, <4>2, <4>3, MapGiveBackOne
      <4> QED BY <4>4
    <3>6. CASE e \notin SequencedEvents
      <4>1. HeldBy(p)' = HeldBy(p) /\ WaitingNow' = WaitingNow
        BY <2>2, <3>2, <3>3, <3>4, <3>6 DEF WaitingNow
      <4> QED BY <3>3, <3>4, <4>1, MapStutter
    <3> QED BY <3>5, <3>6
  <2> QED BY <2>5, <2>6
<1>7. ASSUME NEW p \in Procs, RemoveFile(p) PROVE UNCHANGED Contract!cvars
  <2>1. PICK f \in todo[p] :
          /\ file' = [file EXCEPT ![f] = NoFile]
          /\ todo' = [todo EXCEPT ![p] = @ \ {f}]
          /\ pc' = [pc EXCEPT ![p] = IF todo[p] = {f} THEN then[p] ELSE "remove"]
    BY <1>7 DEF RemoveFile
  <2>2. /\ f \in Files /\ pc[p] = "remove" /\ todo'[p] = todo[p] \ {f}
        /\ pc'[p] \in {"idle", "claim", "remove"}
        /\ \A g \in Files : Exists(g)' <=> Exists(g) /\ g # f
        /\ \A g \in Files : g # f => file'[g] = file[g]
        /\ UNCHANGED <<pending, alive, finished>>
        /\ \A q \in Procs \ {p} : pc'[q] = pc[q] /\ todo'[q] = todo[q]
    BY <1>7, <1>b, <2>1 DEF RemoveFile, TypeOK, Exists, history
  <2>3. Exists(f) => file[f].pid \notin alive \/ file[f].pid = p
    BY <2>2 DEF Ownership
  <2>4. \A q \in Procs : f \notin OwnFiles(q)
    BY <1>h, <2>2, <2>3
  <2>5. ASSUME NEW q \in Procs PROVE OwnFiles(q)' = OwnFiles(q)
    <3>1. CASE q = p
      <4>1. OwnFiles(p)' = {g \in Files : /\ Exists(g) /\ g # f /\ file[g].pid = p /\ p \in alive
                                          /\ g \notin todo[p]}
        BY <1>i, <2>2
      <4> QED BY <1>h, <2>2, <3>1, <4>1
    <3>2. CASE q # p
      <4>1. OwnFiles(q)' = {g \in Files : /\ Exists(g) /\ g # f /\ file[g].pid = q /\ q \in alive
                                          /\ g \in todo[q] => pc[q] = "write"}
        BY <1>i, <2>2, <3>2
      <4> QED BY <1>h, <2>4, <4>1
    <3> QED BY <3>1, <3>2
  <2>6. Range(pending') \cup DeadEvents' = Range(pending) \cup DeadEvents
    <3>1. TodoEvents(p) \subseteq Range(pending)
      BY <2>2 DEF UnderWay, Snapshot
    <3>2. Exists(f) => file[f].ev \in Range(pending)
      BY <3>1 DEF TodoEvents
    <3>3. DeadEvents' \subseteq DeadEvents
      BY <2>2 DEF DeadEvents
    <3>4. DeadEvents \subseteq DeadEvents' \cup Range(pending)
      BY <2>2, <3>2 DEF DeadEvents
    <3> QED BY <2>2, <3>3, <3>4
  <2> QED BY <2>2, <2>4, <2>5, <2>6, MapQuiet DEF OwnFiles
<1>9. ASSUME NEW p \in Procs, ClaimSave(p) PROVE UNCHANGED Contract!cvars
  <2>1. PICK f \in Files :
          /\ Fresh(f)
          /\ file' = [file EXCEPT ![f] = [pid |-> p, ev |-> Head(buf[p])]]
          /\ todo' = [todo EXCEPT ![p] = {f}]
    BY <1>9 DEF ClaimSave
  <2>2. /\ p \in alive /\ todo[p] = {} /\ todo'[p] = {f} /\ pc'[p] = "trim"
        /\ ~ Exists(f) /\ file'[f].pid = p
        /\ \A g \in Files : g # f => file'[g] = file[g] /\ Exists(g)' = Exists(g)
        /\ UNCHANGED <<pending, alive, finished>>
        /\ \A q \in Procs \ {p} : pc'[q] = pc[q] /\ todo'[q] = todo[q]
    BY <1>9, <1>a, <2>1 DEF ClaimSave, TypeOK, Exists, Fresh, history, Singly, Lists
  <2>3. ASSUME NEW q \in Procs PROVE OwnFiles(q)' = OwnFiles(q)
    <3>1. f \notin OwnFiles(q) /\ f \notin OwnFiles(q)'
      BY <1>h, <1>i, <2>2
    <3>2. \A g \in Files : g # f => (g \in OwnFiles(q)' <=> g \in OwnFiles(q))
      <4>1. CASE q = p
        BY <1>h, <1>i, <2>2, <4>1
      <4>2. CASE q # p
        BY <1>h, <1>i, <2>2, <4>2
      <4> QED BY <4>1, <4>2
    <3> QED BY <3>1, <3>2 DEF OwnFiles
  <2>4. \A q \in Procs : f \notin OwnFiles(q)
    BY <1>h, <2>2
  <2>5. DeadEvents' = DeadEvents
    BY <2>2 DEF DeadEvents
  <2> QED BY <2>2, <2>3, <2>4, <2>5, MapQuiet DEF OwnFiles
<1>10. ASSUME NEW p \in Procs, ClaimTrim(p) PROVE [Contract!Next]_(Contract!cvars)
  <2>1. /\ pc[p] = "trim" /\ pc'[p] = "idle" /\ todo'[p] = {} /\ pending' = buf[p]
        /\ UNCHANGED <<file, alive, finished>>
        /\ \A q \in Procs \ {p} : pc'[q] = pc[q] /\ todo'[q] = todo[q]
    BY <1>10 DEF ClaimTrim, Rewrite, TypeOK, history
  <2>2. PICK f \in Files :
                /\ todo[p] = {f} /\ Exists(f) /\ file[f].pid = p
                /\ Range(pending) = {file[f].ev} \cup Range(buf[p])
                /\ Sequenced(file[f].ev) => file[f].ev \notin Range(buf[p])
    BY <2>1 DEF Singly, Lists, Tracked
  <2> DEFINE e == file[f].ev
  <2>3. p \in alive /\ e \in Events
    BY <1>a, <1>c, <2>1, <2>2
  <2>4. \A g \in Files : Exists(g)' = Exists(g) /\ file'[g] = file[g]
    BY <2>1 DEF Exists
  <2>5. OwnFiles(p)' = OwnFiles(p) \cup {f}
    BY <1>h, <1>i, <2>1, <2>2, <2>3, <2>4
  <2>6. ASSUME NEW q \in Procs \ {p} PROVE OwnFiles(q)' = OwnFiles(q)
    <3>1. \A g \in Files : g \in OwnFiles(q)' <=> g \in OwnFiles(q)
      BY <1>h, <1>i, <2>1, <2>4
    <3> QED BY <3>1 DEF OwnFiles
  <2>7. /\ \A q \in Procs \ {p} : HeldBy(q)' = HeldBy(q)
        /\ HeldBy(p)' = HeldBy(p) \cup (SequencedEvents \cap {e})
    BY <2>1, <2>5, <2>6 DEF HeldBy, OwnFiles
  <2>8. /\ DoneNow' = DoneNow /\ DeadEvents' = DeadEvents
        /\ WaitingNow' = SequencedEvents \cap (Range(buf[p]) \cup DeadEvents)
    BY <2>1 DEF DoneNow, WaitingNow, DeadEvents, Exists, Range
  <2>9. CASE e \in SequencedEvents
    <3>1. e \notin DeadEvents
      <4>1. Tracked(e) /\ OneFile
        BY <2>9 DEF Tracked, SequencedEvents, Singly
      <4> QED BY <2>2, <2>3, <4>1 DEF DeadEvents, OneFile
    <3>2. WaitingNow' = WaitingNow \ {e} /\ e \in WaitingNow
      BY <2>2, <2>8, <2>9, <3>1 DEF WaitingNow, SequencedEvents
    <3>3. HeldBy(p)' = HeldBy(p) \cup {e}
      BY <2>7, <2>9
    <3>4. Contract!Next
      BY <2>7, <2>8, <2>9, <3>2, <3>3, MapTake
    <3> QED BY <3>4
  <2>10. CASE e \notin SequencedEvents
    <3>1. WaitingNow' = WaitingNow /\ \A q \in Procs : HeldBy(q)' = HeldBy(q)
      BY <2>2, <2>7, <2>8, <2>10 DEF WaitingNow
    <3> QED BY <2>8, <3>1, MapStutter
  <2> QED BY <2>9, <2>10
<1>12. ASSUME NEW p \in Procs, NEW f \in Files, CompleteClaim(p, f)
       PROVE  [Contract!Next]_(Contract!cvars)
  <2> DEFINE e == file[f].ev
  <2>1. /\ Exists(f) /\ file[f].pid = p /\ p \in alive /\ f \notin todo[p] /\ e \in Events
        /\ ~ Exists(f)' /\ finished' = finished \cup {e}
        /\ \A g \in Files : g # f => file'[g] = file[g] /\ Exists(g)' = Exists(g)
        /\ UNCHANGED <<pending, alive, pc, todo>>
    BY <1>12, <1>c DEF CompleteClaim, Holds, procState, TypeOK, Exists
  <2>2. f \in OwnFiles(p) /\ \A q \in Procs : q # p => f \notin OwnFiles(q)
    BY <1>h, <2>1
  <2>3. ASSUME NEW q \in Procs PROVE OwnFiles(q)' = OwnFiles(q) \ {f}
    BY <1>h, <1>i, <2>1
  <2>4. \A q \in Procs \ {p} : HeldBy(q)' = HeldBy(q)
    <3>1. \A q \in Procs \ {p} : \A g \in OwnFiles(q) : file'[g] = file[g]
      BY <2>1, <2>2 DEF OwnFiles
    <3>2. \A q \in Procs \ {p} : OwnFiles(q)' = OwnFiles(q)
      BY <2>2, <2>3
    <3> QED BY <3>1, <3>2 DEF HeldBy, OwnFiles
  <2>5. /\ HeldBy(p) = SequencedEvents \cap {file[g].ev : g \in OwnFiles(p)}
        /\ HeldBy(p)' = SequencedEvents \cap {file'[g].ev : g \in OwnFiles(p) \ {f}}
    BY <2>3 DEF HeldBy, OwnFiles
  <2>6. \A g \in OwnFiles(p) \ {f} : file'[g] = file[g]
    BY <2>1 DEF OwnFiles
  <2>7. DeadEvents' = DeadEvents
    BY <2>1 DEF DeadEvents
  <2>8. WaitingNow' = WaitingNow /\ DoneNow' = DoneNow \cup (SequencedEvents \cap {e})
    BY <2>1, <2>7 DEF WaitingNow, DoneNow, Range
  <2>9. CASE e \in SequencedEvents
    <3>1. \A g \in OwnFiles(p) : file[g].ev = e => g = f
      BY <1>h, <2>1, <2>9 DEF Singly, OneFile, SequencedEvents, Tracked
    <3>2. HeldBy(p)' = HeldBy(p) \ {e} /\ e \in HeldBy(p)
      BY <2>2, <2>5, <2>6, <2>9, <3>1
    <3>3. DoneNow' = DoneNow \cup {e}
      BY <2>8, <2>9
    <3>4. Contract!Next
      BY <2>4, <2>8, <2>9, <3>2, <3>3, MapFinish
    <3> QED BY <3>4
  <2>10. CASE e \notin SequencedEvents
    <3>1. HeldBy(p)' = HeldBy(p) /\ DoneNow' = DoneNow
      BY <2>2, <2>5, <2>6, <2>8, <2>10
    <3> QED BY <2>4, <2>8, <3>1, MapStutter
  <2> QED BY <2>9, <2>10
<1>13. ASSUME NEW p \in Procs, NEW f \in Files, RestoreClaim(p, f)
       PROVE  UNCHANGED Contract!cvars
  <2>1. /\ pc[p] = "idle" /\ todo[p] = {} /\ pc'[p] = "write" /\ todo'[p] = {f}
        /\ UNCHANGED <<pending, file, alive, finished>>
        /\ \A q \in Procs \ {p} : pc'[q] = pc[q] /\ todo'[q] = todo[q]
    BY <1>13, <1>e DEF RestoreClaim, TypeOK, disk
  <2>2. \A g \in Files : Exists(g)' = Exists(g) /\ file'[g] = file[g]
    BY <2>1 DEF Exists
  <2>3. ASSUME NEW q \in Procs PROVE OwnFiles(q)' = OwnFiles(q)
    <3>1. CASE q = p
      <4>1. \A g \in Files : g \in OwnFiles(q)' <=> g \in OwnFiles(q)
        BY <1>h, <1>i, <2>1, <2>2, <3>1
      <4> QED BY <4>1 DEF OwnFiles
    <3>2. CASE q # p
      <4>1. \A g \in Files : g \in OwnFiles(q)' <=> g \in OwnFiles(q)
        BY <1>h, <1>i, <2>1, <2>2, <3>2
      <4> QED BY <4>1 DEF OwnFiles
    <3> QED BY <3>1, <3>2
  <2>4. Range(pending') \cup DeadEvents' = Range(pending) \cup DeadEvents
    BY <2>1, <2>2 DEF DeadEvents
  <2> QED BY <2>1, <2>3, <2>4, MapQuiet
<1>14. ASSUME NEW p \in Procs, Crash(p) PROVE [Contract!Next]_(Contract!cvars)
  <2>1. /\ p \in alive /\ alive' = alive \ {p}
        /\ UNCHANGED <<pending, file, finished>>
        /\ \A q \in Procs \ {p} : pc'[q] = pc[q] /\ todo'[q] = todo[q]
    BY <1>14 DEF Crash, disk, TypeOK
  <2>2. \A g \in Files : Exists(g)' = Exists(g) /\ file'[g] = file[g]
    BY <2>1 DEF Exists
  <2>3. OwnFiles(p)' = {}
    BY <1>i, <2>1
  <2>4. ASSUME NEW q \in Procs \ {p} PROVE OwnFiles(q)' = OwnFiles(q)
    <3>1. \A g \in Files : g \in OwnFiles(q)' <=> g \in OwnFiles(q)
      BY <1>h, <1>i, <2>1, <2>2
    <3> QED BY <3>1 DEF OwnFiles
  <2>5. HeldBy(p)' = {} /\ \A q \in Procs \ {p} : HeldBy(q)' = HeldBy(q)
    BY <2>1, <2>3, <2>4 DEF HeldBy, OwnFiles
  \* What p has on a list and has not to write any more is pending.
  <2>6. ASSUME NEW g \in Files, Exists(g), file[g].pid = p, g \notin OwnFiles(p)
        PROVE  file[g].ev \in Range(pending)
    <3>1. g \in todo[p] /\ pc[p] # "write"
      BY <1>h, <2>1, <2>6
    <3>2. pc[p] \in {"remove", "trim"}
      BY <1>b, <2>1, <2>6, <3>1 DEF Singly, Lists, PCs
    <3>3. CASE pc[p] = "remove"
      BY <2>6, <3>1, <3>3 DEF UnderWay, Snapshot, TodoEvents
    <3>4. CASE pc[p] = "trim"
      BY <2>6, <3>1, <3>4 DEF Singly, Lists
    <3> QED BY <3>2, <3>3, <3>4
  <2>7. DeadEvents' = DeadEvents \cup {file[g].ev : g \in {h \in Files : Exists(h) /\ file[h].pid = p}}
    BY <2>1, <2>2 DEF DeadEvents
  <2>8. WaitingNow' = WaitingNow \cup HeldBy(p)
    <3>1. Range(pending)' = Range(pending)
      BY <2>1 DEF Range
    <3>2. HeldBy(p) = SequencedEvents \cap {file[g].ev : g \in OwnFiles(p)}
      BY DEF HeldBy, OwnFiles
    <3>3. OwnFiles(p) \subseteq {h \in Files : Exists(h) /\ file[h].pid = p}
      BY <1>h
    <3>4. SequencedEvents \cap DeadEvents' \subseteq WaitingNow \cup HeldBy(p)
      BY <2>6, <2>7, <3>2 DEF WaitingNow
    <3>5. HeldBy(p) \subseteq DeadEvents' /\ DeadEvents \subseteq DeadEvents'
      BY <2>7, <3>2, <3>3
    <3>6. HeldBy(p) \subseteq SequencedEvents
      BY DEF HeldBy
    <3> QED BY <3>1, <3>4, <3>5, <3>6 DEF WaitingNow
  <2>9. DoneNow' = DoneNow
    BY <2>1 DEF DoneNow
  <2>10. CASE HeldBy(p) = {}
    <3>1. WaitingNow' = WaitingNow /\ \A q \in Procs : HeldBy(q)' = HeldBy(q)
      BY <2>5, <2>8, <2>10
    <3> QED BY <2>9, <3>1, MapStutter
  <2>11. CASE HeldBy(p) # {}
    <3>1. Contract!Next
      BY <2>5, <2>8, <2>9, <2>11, MapGiveBackAll
    <3> QED BY <3>1
  <2> QED BY <2>10, <2>11
<1>16. ASSUME NEW p \in Procs, NEW f \in Files, Effect(p, f) PROVE UNCHANGED Contract!cvars
  BY <1>11, <1>16 DEF Effect, disk, procState, races
<1>17. CASE UNCHANGED vars
  BY <1>11, <1>17 DEF vars, disk, procState, history
<1> QED
  BY <1>1, <1>2, <1>3, <1>4, <1>5, <1>6, <1>7, <1>8, <1>9, <1>10, <1>12, <1>13,
     <1>14, <1>16, <1>17 DEF Next, Continue

\* As long as no operations have overlapped, the file-level protocol implements the
\* contract of the queue for every sequenced event: whoever crashes and wherever,
\* claimNext, restoreClaim and recover() look like single steps that hand an event
\* to one consumer at a time.
THEOREM ContractImplemented ==
    ASSUME UniqueSeqs
    PROVE  Spec => ImplementsContract
<1> DEFINE I == TypeOK /\ Ownership /\ (overlaps = 0 => UnderWay /\ Singly)
           Step == overlaps' = 0 => [Contract!Next]_(Contract!cvars)
<1>1. Init => I /\ Contract!Init
  BY TypeInit, OwnershipInit, UnderWayInit, SinglyInit, MapInit
<1>2. I /\ [Next]_vars => I'
  BY Counted, TypeStep, OwnershipStep, UnderWayStep, SinglyStep
<1>3. I /\ [Next]_vars => [Step]_vars
  BY Counted, MapStep
<1> QED
  BY <1>1, <1>2, <1>3, PTL DEF Spec, ImplementsContract

-----------------------------------------------------------------------------
(***************************************************************************)
(* Side effects.  Between its side effect and the next crash an event is   *)
(* the content of a claim in ran, and afterwards it is finished and gone   *)
(* from the queue.                                                         *)
(***************************************************************************)
Executed(e) == e \in finished \/ \E f \in ran : file[f].ev = e

Settled ==
    \A e \in Events : Tracked(e) =>
        /\ e \in finished => e \notin Range(pending) \cup InFiles
        /\ effects[e] <= 1 + unacked[e]
        /\ ~ Executed(e) => effects[e] <= unacked[e]

LEMMA SettledInit == Init => Settled
<1> SUFFICES ASSUME Init, NEW e \in Events
             PROVE  e \notin finished /\ effects[e] = 0 /\ unacked[e] = 0
  BY DEF Settled, Init
<1> QED BY DEF Init

\* Steps that carry nothing out and finish nothing: the events of the queue stay
\* where they were, or move within it.
LEMMA SettledQuiet ==
    ASSUME TypeOK, Settled,
           UNCHANGED <<alive, ran, effects, unacked, finished>>,
           \A f \in ran : file'[f] = file[f],
           (Range(pending)' \cup InFiles') \cap finished \subseteq Range(pending) \cup InFiles
    PROVE  Settled'
<1>1. \A e \in Events : Executed(e)' <=> Executed(e)
  BY DEF Executed
<1> QED BY <1>1 DEF Settled, Tracked

LEMMA SettledStep ==
    ASSUME UniqueSeqs, overlaps' = 0, TypeOK, Ownership, UnderWay, Singly, Settled, [Next]_vars
    PROVE  Settled'
<1> USE DEF Goto
<1>b. \A q \in Procs : pc[q] \in PCs /\ todo[q] \in SUBSET Files /\ buf[q] \in Seq(Events)
  BY DEF TypeOK
<1>c. /\ pending \in Seq(Events) /\ ran \subseteq Files
      /\ \A f \in Files : Exists(f) => file[f].pid \in Procs /\ file[f].ev \in Events
      /\ \A f \in ran : Exists(f) /\ \A q \in Procs : f \notin todo[q]
  BY DEF TypeOK, Ownership, Exists, Claim
<1>d. \A e \in Events : effects[e] \in Nat /\ unacked[e] \in Nat
  BY DEF TypeOK
<1>e. \A q \in Procs : TodoEvents(q) \subseteq InFiles
  BY <1>b DEF TodoEvents, InFiles
<1>1. ASSUME NEW e \in Events, AppendEvent(e) PROVE Settled'
  <2>1. /\ e \notin finished /\ pending' = Append(pending, e)
        /\ UNCHANGED <<file, alive, ran, effects, unacked, finished>>
    BY <1>1 DEF AppendEvent, procState, Singly, OnlySent
  <2>2. Range(pending)' \subseteq Range(pending) \cup {e}
    <3>1. /\ Len(pending) \in Nat /\ Len(pending') = Len(pending) + 1
          /\ \A i \in 1 .. Len(pending) : pending'[i] = pending[i]
          /\ pending'[Len(pending) + 1] = e /\ pending' \in Seq(Events)
      BY <1>c, <2>1, AppendProperties, LenProperties
    <3> QED BY <1>c, <3>1, LenProperties DEF Range
  <2>3. InFiles' = InFiles
    BY <2>1 DEF InFiles, Exists
  <2> QED BY <2>1, <2>2, <2>3, SettledQuiet
\* Steps that leave the events where they are.
<1>2. ASSUME UNCHANGED <<pending, file, alive, ran, effects, unacked, finished>> PROVE Settled'
  <2>1. Range(pending)' = Range(pending) /\ InFiles' = InFiles
    BY <1>2 DEF Range, InFiles, Exists
  <2> QED BY <1>2, <2>1, SettledQuiet
<1>3. ASSUME NEW p \in Procs, WriteMerged(p) PROVE Settled'
  <2>1. /\ pc[p] = "write" /\ pending' = buf[p]
        /\ UNCHANGED <<file, alive, ran, effects, unacked, finished>>
    BY <1>3 DEF WriteMerged, Rewrite, history
  <2>2. Range(pending)' \subseteq Range(pending) \cup InFiles
    BY <1>e, <2>1 DEF Singly, Lists, Range
  <2>3. InFiles' = InFiles
    BY <2>1 DEF InFiles, Exists
  <2> QED BY <2>1, <2>2, <2>3, SettledQuiet
<1>4. ASSUME NEW p \in Procs, RemoveFile(p) PROVE Settled'
  <2>1. PICK f \in todo[p] : file' = [file EXCEPT ![f] = NoFile]
    BY <1>4 DEF RemoveFile
  <2>2. /\ f \in Files /\ \A g \in Files : g # f => file'[g] = file[g]
        /\ \A g \in Files : Exists(g)' => Exists(g) /\ g # f
        /\ UNCHANGED <<pending, alive, ran, effects, unacked, finished>>
    BY <1>4, <1>b, <2>1 DEF RemoveFile, TypeOK, Exists, history
  <2>3. InFiles' \subseteq InFiles /\ Range(pending)' = Range(pending)
    BY <2>2 DEF InFiles, Range
  <2>4. \A g \in ran : file'[g] = file[g]
    BY <1>c, <2>2
  <2> QED BY <2>2, <2>3, <2>4, SettledQuiet
<1>5. ASSUME NEW p \in Procs, ClaimSave(p) PROVE Settled'
  <2>1. PICK f \in Files :
          Fresh(f) /\ file' = [file EXCEPT ![f] = [pid |-> p, ev |-> Head(buf[p])]]
    BY <1>5 DEF ClaimSave
  <2>2. Head(buf[p]) \in Range(pending)
    <3>1. buf[p] = pending /\ pending # <<>>
      BY <1>5 DEF ClaimSave, UnderWay, Snapshot, TypeOK
    <3>2. Len(pending) \in Nat \ {0} /\ Head(pending) = pending[1]
      BY <1>c, <3>1, HeadTailProperties, EmptySeq
    <3>3. 1 \in DOMAIN pending
      BY <1>c, <3>2, LenProperties
    <3> QED BY <3>1, <3>2, <3>3 DEF Range
  <2>3. /\ ~ Exists(f) /\ file'[f].ev = Head(buf[p])
        /\ \A g \in Files : g # f => file'[g] = file[g] /\ Exists(g)' = Exists(g)
        /\ UNCHANGED <<pending, alive, ran, effects, unacked, finished>>
    BY <1>5, <2>1 DEF ClaimSave, TypeOK, Exists, Fresh, history
  <2>4. InFiles' \subseteq InFiles \cup Range(pending) /\ Range(pending)' = Range(pending)
    BY <2>2, <2>3 DEF InFiles, Range
  <2>5. \A g \in ran : file'[g] = file[g]
    BY <1>c, <2>3
  <2> QED BY <2>3, <2>4, <2>5, SettledQuiet
<1>6. ASSUME NEW p \in Procs, ClaimTrim(p) PROVE Settled'
  <2>1. /\ pc[p] = "trim" /\ pending' = buf[p]
        /\ UNCHANGED <<file, alive, ran, effects, unacked, finished>>
    BY <1>6 DEF ClaimTrim, Rewrite, history
  <2>2. Range(pending)' \subseteq Range(pending)
    BY <2>1 DEF Singly, Lists, Range
  <2>3. InFiles' = InFiles
    BY <2>1 DEF InFiles, Exists
  <2> QED BY <2>1, <2>2, <2>3, SettledQuiet
<1>7. ASSUME NEW p \in Procs, NEW f \in Files, Effect(p, f) PROVE Settled'
  <2> DEFINE d == file[f].ev
  <2>1. /\ Exists(f) /\ f \notin ran /\ ran' = ran \cup {f} /\ d \in Events
        /\ \A e \in Events : effects'[e] = IF e = d THEN effects[e] + 1 ELSE effects[e]
        /\ UNCHANGED <<pending, file, alive, unacked, finished>>
    BY <1>7, <1>c DEF Effect, Holds, disk, procState, TypeOK
  <2>2. Range(pending)' = Range(pending) /\ InFiles' = InFiles
    BY <2>1 DEF Range, InFiles, Exists
  <2>3. \A e \in Events : Executed(e)' <=> Executed(e) \/ e = d
    BY <2>1 DEF Executed
  \* The claim is the only one on its event, and the event is not finished.
  <2>4. Tracked(d) => ~ Executed(d)
    <3>1. d \in InFiles
      BY <2>1 DEF InFiles
    <3>2. Tracked(d) => \A g \in ran : file[g].ev # d
      BY <1>c, <2>1 DEF Singly, OneFile
    <3> QED BY <2>1, <3>1, <3>2 DEF Settled, Executed
  <2>5. SUFFICES ASSUME NEW e \in Events, Tracked(e)
                 PROVE  /\ e \in finished => e \notin Range(pending) \cup InFiles
                        /\ effects'[e] <= 1 + unacked[e]
                        /\ ~ Executed(e)' => effects'[e] <= unacked[e]
    BY <2>1, <2>2 DEF Settled, Tracked
  <2>6. CASE e = d
    BY <1>d, <2>1, <2>3, <2>4, <2>5, <2>6 DEF Settled
  <2>7. CASE e # d
    BY <2>1, <2>3, <2>5, <2>7 DEF Settled
  <2> QED BY <2>6, <2>7
<1>8. ASSUME NEW p \in Procs, NEW f \in Files, CompleteClaim(p, f) PROVE Settled'
  <2> DEFINE d == file[f].ev
  <2>1. /\ Exists(f) /\ file[f].pid = p /\ p \in alive /\ pc[p] = "idle" /\ d \in Events
        /\ f \in ran /\ ran' = ran \ {f} /\ finished' = finished \cup {d} /\ ~ Exists(f)'
        /\ \A g \in Files : g # f => file'[g] = file[g] /\ Exists(g)' = Exists(g)
        /\ UNCHANGED <<pending, alive, effects, unacked>>
    BY <1>8, <1>c DEF CompleteClaim, Holds, procState, TypeOK, Exists
  <2>2. InFiles' \subseteq InFiles /\ Range(pending)' = Range(pending)
    BY <2>1 DEF InFiles, Range
  <2>3. \A e \in Events : Executed(e) => Executed(e)'
    BY <1>c, <2>1 DEF Executed
  <2>4. Tracked(d) => d \notin Range(pending) \cup InFiles'
    <3>1. Tracked(d) => d \notin Range(pending)
      BY <2>1 DEF Singly, ClaimsApart
    <3>2. Tracked(d) => \A g \in Files : Exists(g) /\ file[g].ev = d => g = f
      BY <2>1 DEF Singly, OneFile
    <3>3. Tracked(d) => d \notin InFiles'
      BY <2>1, <3>2 DEF InFiles
    <3> QED BY <3>1, <3>3
  <2> QED BY <2>1, <2>2, <2>3, <2>4 DEF Settled, Tracked
<1>9. ASSUME NEW p \in Procs, Crash(p) PROVE Settled'
  <2>1. /\ alive' = alive \ {p} /\ p \in alive /\ ran' = {f \in ran : file[f].pid # p}
        /\ unacked' = [e \in Events |-> unacked[e] + Cardinality(RanFor(p, e))]
        /\ UNCHANGED <<pending, file, effects, finished>>
    BY <1>9 DEF Crash, disk
  <2>2. Range(pending)' = Range(pending) /\ InFiles' = InFiles
    BY <2>1 DEF Range, InFiles, Exists
  <2>3. SUFFICES ASSUME NEW e \in Events, Sequenced(e)
                 PROVE  /\ e \in finished => e \notin Range(pending) \cup InFiles
                        /\ effects[e] <= 1 + unacked'[e]
                        /\ ~ Executed(e)' => effects[e] <= unacked'[e]
    BY <2>1, <2>2 DEF Settled, Tracked
  <2>4. /\ IsFiniteSet(RanFor(p, e)) /\ Cardinality(RanFor(p, e)) \in Nat
        /\ RanFor(p, e) # {} => Cardinality(RanFor(p, e)) >= 1
    <3>1. RanFor(p, e) \in SUBSET Files /\ IsFiniteSet(Files)
      BY <1>c, QueueConstants DEF RanFor
    <3>2. IsFiniteSet(RanFor(p, e))
      BY <3>1, FS_Subset
    <3>3. Cardinality(RanFor(p, e)) \in Nat /\ (Cardinality(RanFor(p, e)) = 0 <=> RanFor(p, e) = {})
      BY <3>2, FS_CardinalityType, FS_EmptySet
    <3> QED BY <3>2, <3>3
  <2>5. unacked'[e] = unacked[e] + Cardinality(RanFor(p, e))
    BY <2>1
  <2>6. /\ e \in finished => e \notin Range(pending) \cup InFiles
        /\ effects[e] <= 1 + unacked[e]
        /\ ~ Executed(e) => effects[e] <= unacked[e]
    BY <2>3 DEF Settled, Tracked
  <2>7. CASE RanFor(p, e) = {}
    <3>1. Executed(e)' <=> Executed(e)
      BY <1>c, <2>1, <2>7 DEF Executed, RanFor
    <3> QED BY <1>d, <2>4, <2>5, <2>6, <3>1
  <2>8. CASE RanFor(p, e) # {}
    BY <1>d, <2>4, <2>5, <2>6, <2>8
  <2> QED BY <2>7, <2>8
<1>10. ASSUME NEW p \in Procs,
              ReadPending(p) \/ ClaimNext(p) \/ RecoverPending(p) \/ RecoverFiles(p)
                \/ ClaimRead(p)
       PROVE  UNCHANGED <<pending, file, alive, ran, effects, unacked, finished>>
  BY <1>10 DEF ReadPending, ClaimNext, BeginRecover, RecoverPending, RecoverFiles, ClaimRead,
     disk, history
\* A claim given back after acting: one side effect more that nothing completed.
<1>12. ASSUME NEW p \in Procs, NEW f \in Files, RestoreClaim(p, f) PROVE Settled'
  <2> DEFINE d == file[f].ev
  <2>1. /\ Exists(f) /\ d \in Events /\ ran' = ran \ {f}
        /\ \A e \in Events : unacked'[e] = IF e = d /\ f \in ran THEN unacked[e] + 1 ELSE unacked[e]
        /\ UNCHANGED <<pending, file, alive, effects, finished>>
    BY <1>12, <1>c DEF RestoreClaim, Undo, Holds, disk, TypeOK
  <2>2. Range(pending)' = Range(pending) /\ InFiles' = InFiles
    BY <2>1 DEF Range, InFiles, Exists
  <2>3. SUFFICES ASSUME NEW e \in Events, Tracked(e)
                 PROVE  /\ e \in finished => e \notin Range(pending) \cup InFiles
                        /\ effects[e] <= 1 + unacked'[e]
                        /\ ~ Executed(e)' => effects[e] <= unacked'[e]
    BY <2>1, <2>2 DEF Settled, Tracked
  <2>4. /\ e \in finished => e \notin Range(pending) \cup InFiles
        /\ effects[e] <= 1 + unacked[e]
        /\ ~ Executed(e) => effects[e] <= unacked[e]
    BY <2>3 DEF Settled
  <2>5. CASE e = d /\ f \in ran
    BY <1>d, <2>1, <2>4, <2>5
  <2>6. CASE ~ (e = d /\ f \in ran)
    <3>1. Executed(e)' <=> Executed(e)
      BY <2>1, <2>6 DEF Executed
    <3> QED BY <1>d, <2>1, <2>4, <2>6, <3>1
  <2> QED BY <2>5, <2>6
<1>11. CASE UNCHANGED vars
  BY <1>2, <1>11 DEF vars, disk, procState, history
<1> QED
  BY <1>1, <1>2, <1>3, <1>4, <1>5, <1>6, <1>7, <1>8, <1>9, <1>10, <1>11, <1>12 DEF Next, Continue

\* As long as no operations have overlapped, a side effect is repeated only when no
\* completeClaim followed it, because of a crash or because the claim was given back
\* after acting, however many processes claim, restore, recover and die: the copies
\* that an interrupted operation leaves are merged before anyone claims again.
THEOREM EffectsCounted ==
    ASSUME UniqueSeqs
    PROVE  Spec => []EffectsExplained
<1> DEFINE I == TypeOK /\ Ownership /\ (overlaps = 0 => UnderWay /\ Singly /\ Settled)
<1>1. Init => I
  BY TypeInit, OwnershipInit, UnderWayInit, SinglyInit, SettledInit
<1>2. I /\ [Next]_vars => I'
  BY Counted, TypeStep, OwnershipStep, UnderWayStep, SinglyStep, SettledStep
<1>3. I => EffectsExplained
  BY DEF Settled, Tracked, EffectsExplained
<1> QED
  BY <1>1, <1>2, <1>3, PTL DEF Spec

-----------------------------------------------------------------------------
(***************************************************************************)
(* Order.  As long as events arrive in the order of their seq,             *)
(* pending.jsonl holds them in it: a merge sorts, claims take the head.    *)
(***************************************************************************)
InSeqOrder(s) ==
    \A i, j \in 1 .. Len(s) :
        i < j /\ Sequenced(s[i]) /\ Sequenced(s[j]) => SeqOf[s[i]] <= SeqOf[s[j]]

Ordered ==
    /\ inOrder => InSeqOrder(pending)
    /\ \A p \in Procs : /\ pc[p] = "write" => InSeqOrder(buf[p])
                        /\ pc[p] = "trim" /\ inOrder => InSeqOrder(buf[p])

LEMMA MergeSorts ==
    ASSUME NEW s \in Seq(Events), NEW m \in MergeAndSort(s)
    PROVE  InSeqOrder(m)
<1>1. PICK o \in MergeOrders(s) : m = [i \in DOMAIN o |-> s[o[i]]]
  BY DEF MergeAndSort
<1>2. /\ \A a, b \in 1 .. Cardinality(Kept(s)) : a < b => Precedes(s, o[a], o[b])
      /\ DOMAIN o = 1 .. Cardinality(Kept(s))
      /\ \A i \in DOMAIN o : o[i] \in Kept(s)
  BY <1>1 DEF MergeOrders, Bijection, Injection
<1>3. m \in Seq(Events) /\ DOMAIN m = DOMAIN o /\ DOMAIN m = 1 .. Len(m)
  <2>1. m \in Seq(Events)
    BY MergeType
  <2> QED BY <1>1, <2>1, LenProperties
<1>4. \A a \in Kept(s) : s[a] \in Events
  BY KeptFinite, LenProperties
<1>5. SUFFICES ASSUME NEW i \in 1 .. Len(m), NEW j \in 1 .. Len(m), i < j,
                      Sequenced(m[i]), Sequenced(m[j])
               PROVE  SeqOf[m[i]] <= SeqOf[m[j]]
  BY DEF InSeqOrder
<1>6. /\ m[i] = s[o[i]] /\ m[j] = s[o[j]] /\ Precedes(s, o[i], o[j])
      /\ m[i] \in Events /\ m[j] \in Events
  BY <1>1, <1>2, <1>3, <1>4, <1>5
<1>7. SeqOf[m[i]] < SeqOf[m[j]]
  BY <1>5, <1>6 DEF Precedes
<1> QED BY <1>6, <1>7, QueueConstants

LEMMA TailSorted ==
    ASSUME NEW s \in Seq(Events), s # <<>>, InSeqOrder(s)
    PROVE  /\ InSeqOrder(Tail(s))
           /\ Sequenced(Head(s)) =>
                 \A d \in Range(s) : Sequenced(d) => SeqOf[d] >= SeqOf[Head(s)]
<1>1. /\ Tail(s) \in Seq(Events) /\ Head(s) = s[1] /\ Len(s) \in Nat \ {0}
      /\ Len(Tail(s)) = Len(s) - 1
      /\ \A i \in 1 .. Len(s) - 1 : Tail(s)[i] = s[i + 1]
  BY HeadTailProperties, EmptySeq
<1>2. InSeqOrder(Tail(s))
  <2>1. SUFFICES ASSUME NEW i \in 1 .. Len(s) - 1, NEW j \in 1 .. Len(s) - 1, i < j,
                        Sequenced(Tail(s)[i]), Sequenced(Tail(s)[j])
                 PROVE  SeqOf[Tail(s)[i]] <= SeqOf[Tail(s)[j]]
    BY <1>1 DEF InSeqOrder
  <2>2. i + 1 \in 1 .. Len(s) /\ j + 1 \in 1 .. Len(s) /\ i + 1 < j + 1
    BY <1>1, <2>1
  <2> QED BY <1>1, <2>1, <2>2 DEF InSeqOrder
<1>3. ASSUME Sequenced(Head(s)), NEW d \in Range(s), Sequenced(d)
      PROVE  SeqOf[d] >= SeqOf[Head(s)]
  <2>1. PICK i \in 1 .. Len(s) : d = s[i]
    BY LenProperties DEF Range
  <2>2. d \in Events /\ Head(s) \in Events
    BY <1>1, <2>1, LenProperties
  <2>3. SeqOf[d] \in Nat /\ SeqOf[Head(s)] \in Nat
    BY <2>2, QueueConstants
  <2>4. CASE i = 1
    BY <1>1, <2>1, <2>3, <2>4
  <2>5. CASE i > 1
    BY <1>1, <1>3, <2>1, <2>3, <2>5 DEF InSeqOrder
  <2> QED BY <2>1, <2>4, <2>5
<1> QED BY <1>2, <1>3

LEMMA AppendSorted ==
    ASSUME NEW s \in Seq(Events), NEW e \in Events, InSeqOrder(s),
           \A d \in Range(s) : Sequenced(d) /\ Sequenced(e) => SeqOf[d] <= SeqOf[e]
    PROVE  InSeqOrder(Append(s, e))
<1>1. /\ Len(s) \in Nat /\ Len(Append(s, e)) = Len(s) + 1
      /\ \A i \in 1 .. Len(s) : Append(s, e)[i] = s[i] /\ s[i] \in Range(s)
      /\ Append(s, e)[Len(s) + 1] = e
  BY AppendProperties, LenProperties DEF Range
<1>2. ASSUME NEW i \in 1 .. Len(s) + 1, NEW j \in 1 .. Len(s) + 1, i < j,
             Sequenced(Append(s, e)[i]), Sequenced(Append(s, e)[j])
      PROVE  SeqOf[Append(s, e)[i]] <= SeqOf[Append(s, e)[j]]
  <2>1. i \in 1 .. Len(s)
    BY <1>1, <1>2
  <2>2. CASE j \in 1 .. Len(s)
    BY <1>1, <1>2, <2>1, <2>2 DEF InSeqOrder
  <2>3. CASE j = Len(s) + 1
    BY <1>1, <1>2, <2>1, <2>3
  <2> QED BY <1>1, <2>2, <2>3
<1> QED BY <1>1, <1>2 DEF InSeqOrder

LEMMA OrderedInit == Init => Ordered
BY DEF Init, Ordered, InSeqOrder

LEMMA OrderedStep ==
    ASSUME overlaps' = 0, TypeOK, UnderWay, OnlySent, Ordered, [Next]_vars
    PROVE  Ordered'
<1> USE DEF Goto
<1>b. /\ pending \in Seq(Events)
      /\ \A q \in Procs : buf[q] \in Seq(Events) /\ pc[q] \in PCs
  BY DEF TypeOK
<1>1. ASSUME NEW e \in Events, AppendEvent(e) PROVE Ordered'
  <2>1. /\ pending' = Append(pending, e) /\ inOrder' = (inOrder /\ ~ Overtakes(e))
        /\ UNCHANGED <<pc, buf>>
    BY <1>1 DEF AppendEvent, procState
  <2>2. ASSUME inOrder' PROVE InSeqOrder(pending)'
    <3>1. InSeqOrder(pending) /\ ~ Overtakes(e)
      BY <2>1, <2>2 DEF Ordered
    <3>2. ASSUME NEW d \in Range(pending), Sequenced(d), Sequenced(e) PROVE SeqOf[d] <= SeqOf[e]
      <4>1. d \in sent /\ d \in Events
        BY <1>b, LenProperties DEF OnlySent, Range
      <4>2. ~ (SeqOf[d] > SeqOf[e])
        BY <3>1, <3>2, <4>1 DEF Overtakes
      <4> QED BY <4>1, <4>2, QueueConstants
    <3>3. InSeqOrder(Append(pending, e))
      BY <1>b, <3>1, <3>2, AppendSorted
    <3> QED BY <2>1, <3>3 DEF InSeqOrder
  <2>3. ASSUME NEW q \in Procs
        PROVE  /\ pc'[q] = "write" => InSeqOrder(buf[q])'
               /\ pc'[q] = "trim" /\ inOrder' => InSeqOrder(buf[q])'
    BY <2>1 DEF Ordered, InSeqOrder
  <2> QED BY <2>2, <2>3 DEF Ordered
\* What a step of one process does to the others is nothing.
<1>2. ASSUME NEW p \in Procs, inOrder' = inOrder,
             inOrder => InSeqOrder(pending)',
             \A q \in Procs \ {p} : pc'[q] = pc[q] /\ buf'[q] = buf[q],
             pc'[p] = "write" => InSeqOrder(buf[p])',
             pc'[p] = "trim" /\ inOrder => InSeqOrder(buf[p])'
      PROVE  Ordered'
  <2>1. ASSUME NEW q \in Procs
        PROVE  /\ pc'[q] = "write" => InSeqOrder(buf[q])'
               /\ pc'[q] = "trim" /\ inOrder' => InSeqOrder(buf[q])'
    <3>1. CASE q = p
      BY <1>2, <3>1
    <3>2. CASE q # p
      BY <1>2, <3>2 DEF Ordered, InSeqOrder
    <3> QED BY <3>1, <3>2
  <2> QED BY <1>2, <2>1 DEF Ordered
\* Steps of p that leave pending.jsonl alone and end neither in "write" nor in "trim".
<1>3. ASSUME NEW p \in Procs, UNCHANGED <<pending, inOrder>>,
             \A q \in Procs \ {p} : pc'[q] = pc[q] /\ buf'[q] = buf[q],
             pc'[p] \notin {"write", "trim"}
      PROVE  Ordered'
  BY <1>2, <1>3 DEF Ordered, InSeqOrder
<1>4. ASSUME NEW p \in Procs, ReadPending(p) \/ ClaimNext(p) PROVE Ordered'
  <2>1. /\ UNCHANGED <<pending, inOrder>> /\ pc'[p] \in {"idle", "claim", "recoverPending"}
        /\ \A q \in Procs \ {p} : pc'[q] = pc[q] /\ buf'[q] = buf[q]
    BY <1>4 DEF ReadPending, ClaimNext, BeginRecover, disk, history, arrivals, TypeOK
  <2> QED BY <1>3, <2>1
<1>5. ASSUME NEW p \in Procs, RecoverPending(p) \/ ClaimRead(p) PROVE Ordered'
  <2>1. /\ UNCHANGED <<pending, inOrder>> /\ pc'[p] \in {"idle", "save", "recoverFiles"}
        /\ \A q \in Procs \ {p} : pc'[q] = pc[q] /\ buf'[q] = buf[q]
    BY <1>5 DEF RecoverPending, ClaimRead, disk, history, arrivals, TypeOK
  <2> QED BY <1>3, <2>1
<1>6. ASSUME NEW p \in Procs, RecoverFiles(p) PROVE Ordered'
  <2>1. PICK r \in Contents({f \in todo[p] : Exists(f)}) : \E m \in MergeAndSort(buf[p] \o r) :
          buf' = [buf EXCEPT ![p] = m]
    BY <1>6 DEF RecoverFiles
  <2>2. PICK m \in MergeAndSort(buf[p] \o r) : buf' = [buf EXCEPT ![p] = m]
    BY <2>1
  <2>3. buf[p] \o r \in Seq(Events)
    <3>1. {f \in todo[p] : Exists(f)} \in SUBSET Files
      BY DEF TypeOK
    <3>2. r \in Seq(Events)
      BY <3>1, ContentsType
    <3> QED BY <1>b, <3>2, ConcatProperties
  <2>4. InSeqOrder(m)
    BY <2>2, <2>3, MergeSorts
  <2>5. /\ UNCHANGED <<pending, inOrder>> /\ pc'[p] = "write" /\ buf'[p] = m
        /\ \A q \in Procs \ {p} : pc'[q] = pc[q] /\ buf'[q] = buf[q]
    BY <1>6, <2>2 DEF RecoverFiles, disk, history, arrivals, TypeOK
  <2>6. InSeqOrder(buf[p])' /\ (inOrder => InSeqOrder(pending)')
    BY <2>4, <2>5 DEF Ordered, InSeqOrder
  <2> QED BY <1>2, <2>5, <2>6
<1>7. ASSUME NEW p \in Procs, WriteMerged(p) PROVE Ordered'
  <2>1. /\ pc[p] = "write" /\ pending' = buf[p] /\ inOrder' = inOrder /\ pc'[p] = "remove"
        /\ \A q \in Procs \ {p} : pc'[q] = pc[q] /\ buf'[q] = buf[q]
    BY <1>7 DEF WriteMerged, Rewrite, history, arrivals, TypeOK
  <2>2. InSeqOrder(pending)'
    BY <2>1 DEF Ordered, InSeqOrder
  <2> QED BY <1>2, <2>1, <2>2
<1>8. ASSUME NEW p \in Procs, RemoveFile(p) PROVE Ordered'
  <2>1. /\ UNCHANGED <<pending, inOrder>> /\ pc'[p] \in {"idle", "claim", "remove"}
        /\ \A q \in Procs \ {p} : pc'[q] = pc[q] /\ buf'[q] = buf[q]
    BY <1>8 DEF RemoveFile, history, arrivals, TypeOK
  <2> QED BY <1>3, <2>1
<1>9. ASSUME NEW p \in Procs, ClaimSave(p) PROVE Ordered'
  <2>1. /\ UNCHANGED <<pending, inOrder>> /\ pc'[p] = "trim" /\ buf'[p] = Tail(pending)
        /\ \A q \in Procs \ {p} : pc'[q] = pc[q] /\ buf'[q] = buf[q]
        /\ pending # <<>>
    <3>1. pending # <<>> /\ buf[p] = pending
      BY <1>9 DEF ClaimSave, TypeOK, UnderWay, Snapshot
    <3> QED BY <1>9, <3>1 DEF ClaimSave, history, arrivals, TypeOK
  <2>2. inOrder => InSeqOrder(Tail(pending))
    BY <1>b, <2>1, TailSorted DEF Ordered
  <2>3. inOrder => InSeqOrder(buf[p])' /\ InSeqOrder(pending)'
    BY <2>1, <2>2 DEF Ordered, InSeqOrder
  <2> QED BY <1>2, <2>1, <2>3
<1>10. ASSUME NEW p \in Procs, ClaimTrim(p) PROVE Ordered'
  <2>1. /\ pc[p] = "trim" /\ pending' = buf[p] /\ inOrder' = inOrder /\ pc'[p] = "idle"
        /\ \A q \in Procs \ {p} : pc'[q] = pc[q] /\ buf'[q] = buf[q]
    BY <1>10 DEF ClaimTrim, Rewrite, history, arrivals, TypeOK
  <2>2. inOrder => InSeqOrder(pending)'
    BY <2>1 DEF Ordered, InSeqOrder
  <2> QED BY <1>2, <2>1, <2>2
<1>11. ASSUME UNCHANGED <<pending, inOrder, pc, buf>> PROVE Ordered'
  BY <1>11 DEF Ordered, InSeqOrder
<1>12. ASSUME NEW p \in Procs, NEW f \in Files, RestoreClaim(p, f) PROVE Ordered'
  <2>1. PICK m \in MergeAndSort(<<file[f].ev>> \o pending) : buf' = [buf EXCEPT ![p] = m]
    BY <1>12 DEF RestoreClaim
  <2>2. file[f].ev \in Events
    BY <1>12 DEF RestoreClaim, Holds, Exists, TypeOK, Claim
  <2>3. <<file[f].ev>> \o pending \in Seq(Events)
    BY <1>b, <2>2, ConsRange
  <2>4. InSeqOrder(m)
    BY <2>1, <2>3, MergeSorts
  <2>5. /\ UNCHANGED <<pending, inOrder>> /\ pc'[p] = "write" /\ buf'[p] = m
        /\ \A q \in Procs \ {p} : pc'[q] = pc[q] /\ buf'[q] = buf[q]
    BY <1>12, <2>1 DEF RestoreClaim, disk, arrivals, TypeOK
  <2>6. InSeqOrder(buf[p])' /\ (inOrder => InSeqOrder(pending)')
    BY <2>4, <2>5 DEF Ordered, InSeqOrder
  <2> QED BY <1>2, <2>5, <2>6
<1>13. ASSUME NEW p \in Procs, Crash(p) PROVE Ordered'
  <2>1. /\ UNCHANGED <<pending, inOrder>> /\ pc'[p] = "idle"
        /\ \A q \in Procs \ {p} : pc'[q] = pc[q] /\ buf'[q] = buf[q]
    BY <1>13 DEF Crash, disk, arrivals, TypeOK
  <2> QED BY <1>3, <2>1
<1>14. ASSUME NEW p \in Procs, NEW f \in Files, Effect(p, f) \/ CompleteClaim(p, f)
       PROVE  Ordered'
  BY <1>11, <1>14 DEF Effect, CompleteClaim, disk, procState, arrivals
<1>15. CASE UNCHANGED vars
  BY <1>11, <1>15 DEF vars, disk, procState, history, arrivals
<1> QED
  BY <1>1, <1>4, <1>5, <1>6, <1>7, <1>8, <1>9, <1>10, <1>12, <1>13, <1>14, <1>15
  DEF Next, Continue

\* As long as sequenced events come in order and operations have not overlapped, no
\* claim overtakes one with a smaller number, whatever is restored and recovered in
\* between.
THEOREM ClaimsInOrderHolds ==
    ASSUME UniqueSeqs
    PROVE  Spec => ClaimsInOrder
<1> DEFINE J == UnderWay /\ Singly /\ Ordered
           I == TypeOK /\ Ownership /\ (overlaps = 0 => J)
           Step == \A f \in Files :
              overlaps' = 0 /\ inOrder /\ ~ Exists(f) /\ file'[f] # NoFile /\ Sequenced(file'[f].ev)
              => \A d \in Range(pending) :
                    Sequenced(d) => SeqOf[d] >= SeqOf[file'[f].ev]
<1>1. Init => I
  BY TypeInit, OwnershipInit, UnderWayInit, SinglyInit, OrderedInit
<1>2. I /\ [Next]_vars => I'
  <2>1. Singly => OnlySent
    BY DEF Singly
  <2> QED BY <2>1, Counted, TypeStep, OwnershipStep, UnderWayStep, SinglyStep, OrderedStep
<1>3. I /\ [Next]_vars => [Step]_vars
  <2> SUFFICES ASSUME I, Next, overlaps' = 0, NEW f \in Files, inOrder, ~ Exists(f), file'[f] # NoFile,
                      Sequenced(file'[f].ev), NEW d \in Range(pending), Sequenced(d)
               PROVE  SeqOf[d] >= SeqOf[file'[f].ev]
    OBVIOUS
  <2>0. J /\ TypeOK
    BY Counted
  <2>1. PICK p \in Procs : ClaimSave(p)
    <3>1. ASSUME file' = file PROVE FALSE
      BY <3>1 DEF Exists
    <3>2. ASSUME NEW p \in Procs, RemoveFile(p) PROVE FALSE
      BY <2>0, <3>2 DEF RemoveFile, TypeOK, Exists
    <3>3. ASSUME NEW p \in Procs, NEW g \in Files, CompleteClaim(p, g) PROVE FALSE
      BY <2>0, <3>3 DEF CompleteClaim, TypeOK, Exists
    <3> QED BY <3>1, <3>2, <3>3 DEF Next, Continue, AppendEvent, ReadPending, ClaimNext,
            BeginRecover, Crash, Effect, RestoreClaim, RecoverPending, RecoverFiles, WriteMerged,
            ClaimRead, ClaimTrim, disk
  <2>2. /\ file'[f].ev = Head(pending) /\ pending # <<>>
    BY <2>0, <2>1 DEF ClaimSave, TypeOK, Exists, UnderWay, Snapshot
  <2> QED BY <2>0, <2>2, TailSorted DEF Ordered, TypeOK
<1> QED
  BY <1>1, <1>2, <1>3, PTL DEF Spec, ClaimsInOrder
=============================================================================
