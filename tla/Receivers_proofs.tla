-------------------------- MODULE Receivers_proofs --------------------------
(***************************************************************************)
(* Those who take messages out of a queue, other than the delivery         *)
(* scheduler and the PTY runner; the three components share no state.      *)
(*                                                                         *)
(* The receive path, for any numbers, limits, crashes and orders of        *)
(* arrival: no message is lost, none is shown twice, and an agent that     *)
(* waits acknowledges none it was not shown when they arrive in order.     *)
(* What it does to the files implements QueueContract.                     *)
(*                                                                         *)
(* The receive lease, for any receivers in any processes: when no other    *)
(* process gets in between two calls of the file system, one receiver      *)
(* holds it at most and no other one takes it away.                        *)
(*                                                                         *)
(* The consumer loops, for any number of messages and failures: Explained  *)
(* and ActedInOrder.  ConsumerInv is the inductive invariant: the batch,   *)
(* the claim under way and pending stand in line, nothing behind what it   *)
(* precedes, and what is still to be done has been acted on only where it  *)
(* was undone.                                                             *)
(***************************************************************************)
EXTENDS ReceivePath, PollLease, QueueConsumers,
        FiniteSetTheorems, SequenceTheorems, WellFoundedInduction, TLAPS

-----------------------------------------------------------------------------
(***************************************************************************)
(* Numbers, and files of numbers.                                          *)
(***************************************************************************)

LEMMA LeastNumber ==
    ASSUME NEW T \in SUBSET Nat, T # {}
    PROVE  \E m \in T : \A t \in T : ~ (t < m)
<1>1. PICK m \in T : \A t \in T : <<t, m>> \notin OpToRel(<, Nat)
  BY NatLessThanWellFounded, WFMin
<1> QED
  BY <1>1 DEF OpToRel

\* A finite set of numbers has a largest one.
LEMMA MaxOfFinite ==
    ASSUME NEW S \in SUBSET Nat, IsFiniteSet(S), S # {}
    PROVE  Max(S) \in S /\ \A s \in S : s <= Max(S)
<1> DEFINE HasMax(T) == \E x \in T : \A y \in T : y <= x
           Bad == {n \in Nat : \E T \in SUBSET Nat :
                      IsFiniteSet(T) /\ Cardinality(T) = n /\ T # {} /\ ~ HasMax(T)}
<1>1. Bad = {}
  <2>1. SUFFICES ASSUME Bad # {} PROVE FALSE
    OBVIOUS
  <2>2. PICK n \in Bad : \A k \in Bad : ~ (k < n)
    BY <2>1, LeastNumber
  <2>3. PICK T \in SUBSET Nat :
           IsFiniteSet(T) /\ Cardinality(T) = n /\ T # {} /\ ~ HasMax(T)
    OBVIOUS
  <2>4. PICK x \in T : TRUE
    BY <2>3
  <2> DEFINE U == T \ {x}
  <2>5. IsFiniteSet(U) /\ Cardinality(U) = n - 1 /\ n \in Nat
    BY <2>3, <2>4, FS_RemoveElement
  <2>6. n - 1 \in Nat
    BY <2>5, FS_CardinalityType
  <2>7. CASE U = {}
    <3>1. \A y \in T : y <= x
      BY <2>4, <2>7
    <3> QED
      BY <2>3, <2>4, <3>1
  <2>8. CASE U # {}
    <3>1. HasMax(U)
      <4>1. n - 1 \notin Bad
        BY <2>2, <2>6
      <4> QED
        BY <2>5, <2>6, <2>8, <4>1
    <3>2. PICK z \in U : \A y \in U : y <= z
      BY <3>1
    <3>3. x \in Nat /\ z \in Nat /\ z \in T /\ T \subseteq Nat
      BY <2>3, <2>4, <3>2
    <3>4. CASE z <= x
      <4>1. \A y \in T : y <= x
        BY <3>2, <3>3, <3>4
      <4> QED
        BY <2>3, <2>4, <4>1
    <3>5. CASE x <= z
      <4>1. \A y \in T : y <= z
        BY <3>2, <3>5
      <4> QED
        BY <2>3, <3>3, <4>1
    <3> QED
      BY <3>3, <3>4, <3>5
  <2> QED
    BY <2>7, <2>8
<1>2. Cardinality(S) \in Nat
  BY FS_CardinalityType
<1>3. PICK x \in S : \A y \in S : y <= x
  BY <1>1, <1>2
<1>4. \E m \in S : \A y \in S : m >= y
  BY <1>3
<1> QED
  BY <1>4 DEF Max

\* There is one way to put numbers in order.
LEMMA SortedFacts ==
    ASSUME NEW S \in SUBSET Nat, IsFiniteSet(S)
    PROVE  /\ Sorted(S) \in Seq(S)
           /\ Elements(Sorted(S)) = S /\ InOrder(Sorted(S))
<1> DEFINE Files(T) == {s \in [1 .. Cardinality(T) -> T] : Elements(s) = T /\ InOrder(s)}
           Bad == {n \in Nat : \E T \in SUBSET Nat :
                      IsFiniteSet(T) /\ Cardinality(T) = n /\ Files(T) = {}}
<1>1. Bad = {}
  <2>1. SUFFICES ASSUME Bad # {} PROVE FALSE
    OBVIOUS
  <2>2. PICK n \in Bad : \A k \in Bad : ~ (k < n)
    BY <2>1, LeastNumber
  <2>3. PICK T \in SUBSET Nat : IsFiniteSet(T) /\ Cardinality(T) = n /\ Files(T) = {}
    OBVIOUS
  <2>4. n \in Nat
    OBVIOUS
  <2>5. CASE T = {}
    <3> DEFINE none == [i \in 1 .. 0 |-> 0]
    <3>1. n = 0
      BY <2>3, <2>5, FS_EmptySet
    <3>2. none \in [1 .. 0 -> T] /\ DOMAIN none = {}
      OBVIOUS
    <3>3. Elements(none) = T /\ InOrder(none)
      BY <2>5, <3>2 DEF Elements, InOrder
    <3> QED
      BY <2>3, <3>1, <3>2, <3>3
  <2>6. CASE T # {}
    <3> DEFINE m == Max(T)
               U == T \ {m}
    <3>1. m \in T /\ \A t \in T : t <= m
      BY <2>3, <2>6, MaxOfFinite
    <3> HIDE DEF m
    <3>2. IsFiniteSet(U) /\ Cardinality(U) = n - 1
      BY <2>3, <3>1, FS_RemoveElement
    <3>3. n - 1 \in Nat
      BY <3>2, FS_CardinalityType
    <3>4. n - 1 \notin Bad
      BY <2>2, <2>4, <3>3
    <3>5. U \in SUBSET Nat
      BY <2>3
    <3>6. Files(U) # {}
      BY <3>2, <3>3, <3>4, <3>5
    <3>7. PICK s \in [1 .. n - 1 -> U] : Elements(s) = U /\ InOrder(s)
      BY <3>2, <3>6
    <3> HIDE DEF U
    <3> DEFINE t == [i \in 1 .. n |-> IF i = n THEN m ELSE s[i]]
    <3>8. /\ \A i \in 1 .. n - 1 : i \in 1 .. n /\ i # n /\ t[i] = s[i] /\ s[i] \in U
          /\ n \in 1 .. n /\ t[n] = m
          /\ \A i \in 1 .. n : i = n \/ i \in 1 .. n - 1
      BY <2>4, <3>3
    <3>9. \A u \in U : u \in T /\ u < m /\ u \in Nat
      BY <2>3, <3>1 DEF U
    <3>10. t \in [1 .. n -> T]
      BY <3>1, <3>8, <3>9
    <3>11. Elements(t) = T
      <4>1. \A i \in 1 .. n : t[i] \in T
        BY <3>10
      <4>2. \A x \in T : \E i \in 1 .. n : x = t[i]
        <5> SUFFICES ASSUME NEW x \in T PROVE \E i \in 1 .. n : x = t[i]
          OBVIOUS
        <5>1. x = m \/ x \in U
          BY DEF U
        <5>2. x \in U => \E i \in 1 .. n - 1 : x = s[i]
          BY <3>7 DEF Elements
        <5> QED
          BY <3>8, <5>1, <5>2
      <4> QED
        BY <3>10, <4>1, <4>2 DEF Elements
    <3>12. InOrder(t)
      <4>1. SUFFICES ASSUME NEW i \in 1 .. n, NEW j \in 1 .. n, i < j PROVE t[i] < t[j]
        BY <3>10 DEF InOrder
      <4>2. i \in 1 .. n - 1
        BY <2>4, <4>1
      <4>3. CASE j = n
        BY <3>8, <3>9, <4>2, <4>3
      <4>4. CASE j # n
        BY <3>7, <3>8, <4>1, <4>2, <4>4 DEF InOrder
      <4> QED
        BY <4>3, <4>4
    <3> HIDE DEF t
    <3> QED
      BY <2>3, <3>10, <3>11, <3>12
  <2> QED
    BY <2>5, <2>6
<1>2. Cardinality(S) \in Nat
  BY FS_CardinalityType
<1>3. \E s \in [1 .. Cardinality(S) -> S] : Elements(s) = S /\ InOrder(s)
  BY <1>1, <1>2
<1>4. /\ Sorted(S) \in [1 .. Cardinality(S) -> S]
      /\ Elements(Sorted(S)) = S /\ InOrder(Sorted(S))
  BY <1>3 DEF Sorted
<1> QED
  BY <1>2, <1>4

LEMMA OrderedOnce ==
    ASSUME NEW S \in SUBSET Nat, NEW s \in Seq(S), InOrder(s)
    PROVE  NoRepeat(s)
<1>1. DOMAIN s = 1 .. Len(s) /\ Len(s) \in Nat /\ \A i \in DOMAIN s : s[i] \in Nat
  BY LenProperties, ElementOfSeq
<1>2. ASSUME NEW i \in DOMAIN s, NEW j \in DOMAIN s, s[i] = s[j], i < j PROVE FALSE
  <2>1. s[i] < s[j] /\ s[i] \in Nat
    BY <1>1, <1>2 DEF InOrder
  <2> QED
    BY <1>2, <2>1
<1> QED
  BY <1>1, <1>2 DEF NoRepeat

LEMMA FileElements ==
    ASSUME NEW S, NEW s \in Seq(S)
    PROVE  /\ Elements(s) \subseteq S
           /\ \A i \in DOMAIN s : s[i] \in Elements(s)
           /\ \A x \in Elements(s) : \E i \in DOMAIN s : x = s[i]
           /\ DOMAIN s = 1 .. Len(s) /\ Len(s) \in Nat
           /\ s \in Seq(Elements(s))
           /\ IsFiniteSet(Elements(s))
<1>1. DOMAIN s = 1 .. Len(s) /\ Len(s) \in Nat /\ s \in [1 .. Len(s) -> S]
  BY LenProperties
<1>2. \A i \in DOMAIN s : s[i] \in S /\ s[i] \in Elements(s)
  BY <1>1 DEF Elements
<1>3. s \in [1 .. Len(s) -> Elements(s)]
  BY <1>1, <1>2
<1>4. s \in Surjection(1 .. Len(s), Elements(s))
  BY <1>1, <1>3 DEF Surjection, Elements
<1>5. IsFiniteSet(1 .. Len(s))
  BY <1>1, FS_Interval
<1>6. IsFiniteSet(Elements(s))
  BY <1>4, <1>5, FS_Surjection
<1>7. s \in Seq(Elements(s))
  BY <1>1, <1>3
<1>8. \A x \in Elements(s) : \E i \in DOMAIN s : x = s[i]
  BY DEF Elements
<1>9. Elements(s) \subseteq S
  BY <1>2, <1>8
<1> QED
  BY <1>1, <1>2, <1>6, <1>7, <1>8, <1>9

LEMMA AppendFacts ==
    ASSUME NEW S \in SUBSET Nat, NEW s \in Seq(S), NEW n \in S
    PROVE  /\ Append(s, n) \in Seq(S)
           /\ Elements(Append(s, n)) = Elements(s) \cup {n}
           /\ NoRepeat(s) /\ n \notin Elements(s) => NoRepeat(Append(s, n))
           /\ InOrder(s) /\ (\A x \in Elements(s) : x < n) => InOrder(Append(s, n))
<1> DEFINE t == Append(s, n)
           last == Len(s) + 1
<1>1. DOMAIN s = 1 .. Len(s) /\ Len(s) \in Nat /\ \A i \in DOMAIN s : s[i] \in Elements(s)
  BY FileElements
<1>2. t \in Seq(S) /\ Len(t) = last
  OBVIOUS
<1>3. DOMAIN t = 1 .. last
  BY <1>2, LenProperties
<1>4. t[last] = n /\ \A i \in DOMAIN s : t[i] = s[i]
  BY <1>1
<1> HIDE DEF t
<1>5. \A i \in DOMAIN t : i = last \/ i \in DOMAIN s
  BY <1>1, <1>3
<1>6. last \in DOMAIN t /\ \A i \in DOMAIN s : i \in DOMAIN t /\ i < last /\ i \in Nat
  BY <1>1, <1>3
<1>7. Elements(t) = Elements(s) \cup {n}
  BY <1>4, <1>5, <1>6 DEF Elements
<1>8. ASSUME NoRepeat(s), n \notin Elements(s) PROVE NoRepeat(t)
  <2>1. \A i \in DOMAIN s : s[i] # n
    BY <1>1, <1>8
  <2> QED
    BY <1>4, <1>5, <1>8, <2>1 DEF NoRepeat
<1>9. ASSUME InOrder(s), \A x \in Elements(s) : x < n PROVE InOrder(t)
  <2>1. SUFFICES ASSUME NEW i \in DOMAIN t, NEW j \in DOMAIN t, i < j PROVE t[i] < t[j]
    BY DEF InOrder
  <2>2. i \in DOMAIN s
    BY <1>1, <1>3, <2>1
  <2>3. CASE j = last
    BY <1>1, <1>4, <1>9, <2>2, <2>3
  <2>4. CASE j # last
    BY <1>4, <1>5, <1>9, <2>1, <2>2, <2>4 DEF InOrder
  <2> QED
    BY <2>3, <2>4
<1> QED
  BY <1>2, <1>7, <1>8, <1>9 DEF t

LEMMA TailFacts ==
    ASSUME NEW S \in SUBSET Nat, NEW s \in Seq(S), s # <<>>
    PROVE  /\ Tail(s) \in Seq(S) /\ Head(s) \in S
           /\ Elements(s) = {Head(s)} \cup Elements(Tail(s))
           /\ NoRepeat(s) => NoRepeat(Tail(s)) /\ Head(s) \notin Elements(Tail(s))
           /\ InOrder(s) => InOrder(Tail(s))
<1> DEFINE t == Tail(s)
           h == Head(s)
<1>1. DOMAIN s = 1 .. Len(s) /\ Len(s) \in Nat \ {0}
  BY LenProperties, EmptySeq
<1>2. /\ h \in S /\ t \in Seq(S) /\ Len(t) = Len(s) - 1
      /\ \A i \in 1 .. Len(t) : t[i] = s[i + 1]
  BY HeadTailProperties
<1>3. h = s[1]
  BY <1>1
<1>4. DOMAIN t = 1 .. Len(t)
  BY <1>2, LenProperties
<1> HIDE DEF t, h
<1>5. /\ \A i \in DOMAIN t : i \in Nat /\ i + 1 \in DOMAIN s /\ i + 1 # 1 /\ t[i] = s[i + 1]
      /\ 1 \in DOMAIN s
      /\ \A i \in DOMAIN s : i = 1 \/ (i - 1 \in DOMAIN t /\ (i - 1) + 1 = i)
  BY <1>1, <1>2, <1>4
<1>6. Elements(s) = {h} \cup Elements(t)
  <2>1. \A i \in DOMAIN t : \E k \in DOMAIN s : t[i] = s[k]
    BY <1>5
  <2>2. \A i \in DOMAIN s : s[i] = h \/ \E k \in DOMAIN t : s[i] = t[k]
    BY <1>3, <1>5
  <2> QED
    BY <1>3, <1>5, <2>1, <2>2 DEF Elements
<1>7. NoRepeat(s) => NoRepeat(t) /\ h \notin Elements(t)
  <2>1. SUFFICES ASSUME NoRepeat(s) PROVE NoRepeat(t) /\ h \notin Elements(t)
    OBVIOUS
  <2>2. \A i \in DOMAIN t : t[i] # h
    BY <1>3, <1>5, <2>1 DEF NoRepeat
  <2>3. \A i, j \in DOMAIN t : i + 1 = j + 1 => i = j
    BY <1>5
  <2>4. NoRepeat(t)
    BY <1>5, <2>1, <2>3 DEF NoRepeat
  <2> QED
    BY <2>2, <2>4 DEF Elements
<1>8. InOrder(s) => InOrder(t)
  <2>1. \A i, j \in DOMAIN t : i < j => i + 1 < j + 1
    BY <1>5
  <2> QED
    BY <1>5, <2>1 DEF InOrder
<1> QED
  BY <1>2, <1>6, <1>7, <1>8 DEF t, h

\* What a wait returns: messages behind the cursor, and if the file is in order all of
\* them up to the last one it returns.
LEMMA BatchFacts ==
    ASSUME TypeOK, Unseen # {}
    PROVE  /\ Batch \subseteq Elements(pending)
           /\ \A n \in Batch : cursor < n /\ n <= LastSeq(Batch)
           /\ LastSeq(Batch) \in Batch
           /\ InOrder(pending) =>
                \A n \in Elements(pending) : cursor < n /\ n <= LastSeq(Batch) => n \in Batch
<1>0. /\ pending \in Seq(arrived) /\ arrived \subseteq Nat /\ cursor \in Nat
      /\ Limit \in Nat \ {0}
  BY ReceiveConstants DEF TypeOK
<1>1. /\ DOMAIN pending = 1 .. Len(pending) /\ Len(pending) \in Nat
      /\ \A i \in DOMAIN pending : pending[i] \in Elements(pending)
      /\ \A n \in Elements(pending) : n \in Nat /\ \E i \in DOMAIN pending : n = pending[i]
      /\ IsFiniteSet(Elements(pending))
  BY <1>0, FileElements
<1> DEFINE UpTo(k) == {j \in Unseen : j <= k}
           Chosen == {k \in Unseen : Cardinality(UpTo(k)) <= Limit}
<1>2. /\ Unseen \in SUBSET Nat
      /\ \A i \in Unseen : i \in DOMAIN pending /\ cursor < pending[i] /\ pending[i] \in Nat
      /\ \A i \in DOMAIN pending : cursor < pending[i] => i \in Unseen
  BY <1>0, <1>1 DEF Unseen
<1>3. Batch = {pending[k] : k \in Chosen}
  BY DEF Batch
<1>4. PICK k \in Unseen : \A i \in Unseen : ~ (i < k)
  BY <1>2, LeastNumber
<1>5. k \in Chosen
  <2>1. \A j \in Unseen : j <= k <=> j = k
    BY <1>2, <1>4
  <2>2. UpTo(k) = {k}
    BY <2>1
  <2>3. Cardinality(UpTo(k)) = 1
    BY <2>2, FS_Singleton, Zenon
  <2> QED
    BY <1>0, <2>3
<1> HIDE DEF Chosen
<1>6. Chosen \subseteq Unseen
  BY DEF Chosen
<1>7. Batch \subseteq Elements(pending) /\ Batch # {} /\ \A n \in Batch : cursor < n
  BY <1>1, <1>2, <1>3, <1>5, <1>6
<1>8. Batch \in SUBSET Nat /\ IsFiniteSet(Batch)
  BY <1>1, <1>7, FS_Subset
<1>9. LastSeq(Batch) \in Batch /\ \A n \in Batch : n <= LastSeq(Batch)
  BY <1>7, <1>8, MaxOfFinite DEF LastSeq
<1>10. ASSUME InOrder(pending), NEW n \in Elements(pending), cursor < n, n <= LastSeq(Batch)
       PROVE  n \in Batch
  <2>1. PICK i \in DOMAIN pending : n = pending[i]
    BY <1>1
  <2>2. PICK l \in Chosen : LastSeq(Batch) = pending[l]
    BY <1>3, <1>9
  <2>3. i \in Unseen /\ l \in Unseen /\ i \in Nat /\ l \in Nat
    BY <1>2, <1>6, <1>10, <2>1, <2>2
  <2>4. pending[i] \in Nat /\ pending[l] \in Nat /\ pending[i] <= pending[l]
    BY <1>2, <1>10, <2>1, <2>2, <2>3
  <2>5. i <= l
    <3>1. l < i => pending[l] < pending[i]
      BY <1>2, <1>10, <2>3 DEF InOrder
    <3> QED
      BY <2>3, <2>4, <3>1
  <2>6. UpTo(i) \in SUBSET UpTo(l)
    <3>1. \A j \in Unseen : j <= i => j <= l
      BY <1>2, <2>3, <2>5
    <3> QED
      BY <3>1
  <2>7. IsFiniteSet(UpTo(l))
    <3>1. UpTo(l) \in SUBSET (1 .. Len(pending))
      BY <1>1, <1>2
    <3>2. IsFiniteSet(1 .. Len(pending))
      BY <1>1, FS_Interval
    <3> QED
      BY <3>1, <3>2, FS_Subset
  <2>8. /\ Cardinality(UpTo(i)) <= Cardinality(UpTo(l))
        /\ Cardinality(UpTo(i)) \in Nat /\ Cardinality(UpTo(l)) \in Nat
    BY <2>6, <2>7, FS_Subset, FS_CardinalityType
  <2>9. Cardinality(UpTo(l)) <= Limit
    BY <2>2 DEF Chosen
  <2>10. i \in Chosen
    BY <1>0, <2>3, <2>8, <2>9 DEF Chosen
  <2> QED
    BY <1>3, <2>1, <2>10
<1> QED
  BY <1>7, <1>9, <1>10

-----------------------------------------------------------------------------
(***************************************************************************)
(* The invariant, one lemma per action.                                    *)
(***************************************************************************)

LEMMA ReceiveInit == Init => ReceiveInv
<1> SUFFICES ASSUME Init PROVE ReceiveInv
  OBVIOUS
<1>1. pending = <<>> /\ DOMAIN pending = {} /\ Elements(pending) = {}
  BY DEF Init, Elements
<1>2. TypeOK
  BY <1>1, EmptySeq, ReceiveConstants DEF Init, TypeOK
<1>3. PlaceInv
  BY <1>1, FS_EmptySet DEF Init, PlaceInv, NoRepeat
<1>4. AgentInv /\ WaitInv /\ PollInv
  BY <1>1 DEF Init, AgentInv, WaitInv, PollInv, InOrder
<1> QED
  BY <1>2, <1>3, <1>4 DEF ReceiveInv

\* What the types say of the numbers.
LEMMA Numbered ==
    ASSUME TypeOK
    PROVE  /\ arrived \subseteq Nat \ {0} /\ 0 \notin arrived
           /\ pending \in Seq(arrived) /\ Elements(pending) \subseteq arrived
           /\ IsFiniteSet(Elements(pending))
           /\ cursor \in Nat /\ through \in Nat /\ claimed \in Nat
           /\ shown \subseteq arrived /\ acked \subseteq arrived /\ orphans \subseteq arrived
           /\ Limit \in Nat \ {0} /\ MaxRounds \in Nat /\ rounds \in Nat /\ crashes \in Nat
<1>1. pending \in Seq(arrived)
  BY DEF TypeOK
<1>2. Elements(pending) \subseteq arrived /\ IsFiniteSet(Elements(pending))
  BY <1>1, FileElements
<1> QED
  BY <1>1, <1>2, ReceiveConstants DEF TypeOK

LEMMA ArriveKeeps ==
    ASSUME ReceiveInv, NEW n \in Numbers, Arrive(n)
    PROVE  ReceiveInv'
<1> USE DEF setting, queue, view, bounds
<1>1. /\ TypeOK /\ PlaceInv /\ AgentInv /\ WaitInv /\ PollInv
      /\ n \notin arrived /\ arrived' = arrived \cup {n} /\ pending' = Append(pending, n)
      /\ UNCHANGED <<setting, claimed, orphans, acked, agent, cursor, through, inFlight,
                     view, bounds>>
  BY DEF ReceiveInv, Arrive
<1>2. n \in Nat \ {0} /\ arrived' \in SUBSET Nat /\ n \in arrived'
  BY <1>1, ReceiveConstants, Numbered
<1>3. pending \in Seq(arrived') /\ Elements(pending) \subseteq arrived
  BY <1>1, Numbered, SeqMonotonic
<1>4. /\ pending' \in Seq(arrived') /\ Elements(pending') = Elements(pending) \cup {n}
      /\ NoRepeat(pending) => NoRepeat(pending')
      /\ InOrder(pending) /\ (\A x \in Elements(pending) : x < n) => InOrder(pending')
  BY <1>1, <1>2, <1>3, AppendFacts
<1>5. TypeOK'
  BY <1>1, <1>4 DEF TypeOK
<1>6. PlaceInv'
  <2>1. IsFiniteSet(arrived')
    BY <1>1, FS_AddElement DEF PlaceInv
  <2>2. claimed # n /\ n \notin orphans /\ n \notin acked
    BY <1>1, <1>2, Numbered DEF TypeOK
  <2> QED
    BY <1>1, <1>4, <2>1, <2>2 DEF PlaceInv
<1>7. AgentInv'
  BY <1>1 DEF AgentInv
<1>8. WaitInv'
  <2>1. SUFFICES ASSUME mode = "wait" PROVE WaitInv'
    BY <1>1 DEF WaitInv
  <2>2. ASSUME ordered
        PROVE  /\ \A x \in arrived' : x <= cursor \/ x <= through => x \in shown
               /\ \A x \in arrived', m \in Numbers \ arrived' : x < m
               /\ InOrder(pending')
    <3>1. \A x \in arrived, m \in Numbers \ arrived : x < m
      BY <1>1, <2>1, <2>2 DEF WaitInv
    <3>2. \A x \in arrived : x < n /\ x \in Nat
      BY <1>1, <3>1, Numbered
    <3>3. ~ (n <= cursor) /\ ~ (n <= through)
      BY <1>1, <1>2, <3>2 DEF TypeOK
    <3>4. \A m \in Numbers \ arrived' : n < m
      <4>1. \A m \in Numbers \ arrived' : n <= m /\ m # n /\ m \in Nat
        BY <1>1, <2>2, ReceiveConstants DEF Arrive
      <4> QED
        BY <1>2, <4>1
    <3>5. InOrder(pending')
      BY <1>1, <1>3, <1>4, <2>1, <2>2, <3>2 DEF WaitInv
    <3> QED
      BY <1>1, <2>1, <2>2, <3>1, <3>3, <3>4, <3>5 DEF WaitInv
  <2> QED
    BY <1>1, <2>1, <2>2 DEF WaitInv
<1>9. PollInv'
  <2>1. n \notin shown
    BY <1>1, Numbered
  <2> QED
    BY <1>1, <1>4, <2>1 DEF PollInv
<1> QED
  BY <1>5, <1>6, <1>7, <1>8, <1>9 DEF ReceiveInv

\* The wait begins or ends with nothing.
LEMMA ArmKeeps ==
    ASSUME ReceiveInv, Arm \/ Disarm
    PROVE  ReceiveInv'
<1> USE DEF setting, queue, view, bounds
<1>1. /\ TypeOK /\ PlaceInv /\ AgentInv /\ WaitInv /\ PollInv
      /\ mode = "wait" /\ agent \in {"idle", "waiting"} /\ agent' \in {"idle", "waiting"}
      /\ UNCHANGED <<setting, queue, cursor, through, inFlight, view, bounds>>
  <2>1. mode \in {"wait", "poll"}
    BY ReceiveConstants DEF ReceiveInv, TypeOK
  <2> QED
    BY <2>1 DEF ReceiveInv, Arm, Disarm, AgentInv
<1>2. TypeOK' /\ PlaceInv'
  BY <1>1 DEF TypeOK, PlaceInv
<1>3. AgentInv' /\ WaitInv' /\ PollInv'
  BY <1>1 DEF AgentInv, WaitInv, PollInv
<1> QED
  BY <1>2, <1>3 DEF ReceiveInv

LEMMA ReturnKeeps ==
    ASSUME ReceiveInv, Return
    PROVE  ReceiveInv'
<1> USE DEF setting, queue, view, bounds
<1>1. /\ TypeOK /\ PlaceInv /\ AgentInv /\ WaitInv /\ PollInv
      /\ agent = "waiting" /\ agent' = "handling" /\ Unseen # {}
      /\ shown' = shown \cup Batch /\ again' = again \cup (shown \cap Batch)
      /\ through' = LastSeq(Batch)
      /\ UNCHANGED <<setting, queue, cursor, inFlight, bounds>>
  BY DEF ReceiveInv, Return, Show
<1>2. mode = "wait" /\ through = 0 /\ orphans = {} /\ claimed = 0
  BY <1>1, ReceiveConstants DEF AgentInv, TypeOK
<1>3. /\ Batch \subseteq Elements(pending)
      /\ \A n \in Batch : cursor < n /\ n <= LastSeq(Batch)
      /\ LastSeq(Batch) \in Batch
      /\ InOrder(pending) =>
           \A n \in Elements(pending) : cursor < n /\ n <= LastSeq(Batch) => n \in Batch
  BY <1>1, BatchFacts
<1>4. /\ Batch \subseteq arrived /\ arrived \subseteq Nat \ {0} /\ cursor \in Nat
      /\ Elements(pending) \subseteq arrived /\ shown \subseteq arrived
  BY <1>1, <1>3, Numbered
<1>5. through' \in Nat \ {0} /\ through' \in arrived /\ cursor <= through'
  <2>1. through' \in Batch /\ cursor < through'
    BY <1>1, <1>3
  <2>2. through' \in arrived /\ through' \in Nat \ {0}
    BY <1>4, <2>1
  <2> QED
    BY <1>4, <2>1, <2>2
<1>6. shown \cap Batch = {}
  <2>1. \A n \in shown : n <= cursor
    BY <1>1, <1>2, <1>4 DEF WaitInv
  <2> QED
    BY <1>3, <1>4, <2>1
<1>7. TypeOK' /\ PlaceInv'
  BY <1>1, <1>4, <1>5, <1>6 DEF TypeOK, PlaceInv
<1>8. AgentInv'
  BY <1>1, <1>2, <1>5 DEF AgentInv
<1>9. WaitInv'
  <2>1. again' = {} /\ \A n \in shown' : n <= cursor \/ n <= through'
    <3>1. again = {} /\ \A n \in shown : n <= cursor \/ n <= 0
      BY <1>1, <1>2 DEF WaitInv
    <3>2. \A n \in shown : n <= cursor
      BY <1>4, <3>1
    <3> QED
      BY <1>1, <1>3, <1>6, <3>1, <3>2
  <2>2. ASSUME ordered, NEW n \in arrived, n <= cursor \/ n <= through' PROVE n \in shown'
    <3>1. CASE n <= cursor
      BY <1>1, <1>2, <2>2, <3>1 DEF WaitInv
    <3>2. CASE n \in acked
      BY <1>1, <1>2, <2>2, <3>2 DEF WaitInv
    <3>3. CASE ~ (n <= cursor) /\ n \notin acked
      <4>1. n \in Elements(pending)
        BY <1>1, <1>2, <3>3 DEF PlaceInv
      <4>2. cursor < n /\ n <= LastSeq(Batch) /\ InOrder(pending)
        BY <1>1, <1>2, <1>4, <2>2, <3>3 DEF WaitInv
      <4> QED
        BY <1>1, <1>3, <4>1, <4>2
    <3> QED
      BY <3>1, <3>2, <3>3
  <2> QED
    BY <1>1, <1>2, <2>1, <2>2 DEF WaitInv
<1>10. PollInv'
  BY <1>1, <1>2 DEF PollInv
<1> QED
  BY <1>7, <1>8, <1>9, <1>10 DEF ReceiveInv

LEMMA PollRoundKeeps ==
    ASSUME ReceiveInv, PollRound
    PROVE  ReceiveInv'
<1> USE DEF setting, queue, view, bounds
<1> DEFINE printed == Elements(pending)
<1>1. /\ TypeOK /\ PlaceInv /\ AgentInv /\ WaitInv /\ PollInv
      /\ mode = "poll" /\ inFlight \cap printed = {}
      /\ agent = "acking" => rounds < MaxRounds
      /\ rounds' = IF agent = "acking" THEN rounds + 1 ELSE 0
      /\ inFlight' = printed
      /\ printed = {} => UNCHANGED <<through, view>>
      /\ printed # {} => /\ shown' = shown \cup printed /\ again' = again \cup (shown \cap printed)
                       /\ through' = LastSeq(printed)
      /\ UNCHANGED <<setting, queue, agent, cursor, crashes>>
  BY DEF ReceiveInv, PollRound, Show, Unacked
<1>2. /\ printed \subseteq arrived /\ arrived \subseteq Nat \ {0} /\ IsFiniteSet(printed)
      /\ rounds \in Nat /\ MaxRounds \in Nat /\ 0 \notin arrived /\ shown \subseteq arrived
      /\ cursor \in Nat /\ claimed \in Nat /\ through \in Nat
  BY <1>1, Numbered
<1> HIDE DEF printed
<1>3. printed # {} => through' \in printed /\ \A n \in printed : n <= through'
  <2>1. printed \in SUBSET Nat
    BY <1>2
  <2> QED
    BY <1>1, <1>2, <2>1, MaxOfFinite DEF LastSeq
<1>4. rounds' \in 0 .. MaxRounds
  BY <1>1, <1>2
<1>5. /\ shown' = shown \cup printed /\ shown' \subseteq arrived
      /\ again' \subseteq again \cup (shown \cap printed) /\ again' \subseteq shown'
      /\ through' \in arrived \cup {0}
  BY <1>1, <1>2, <1>3 DEF TypeOK
<1>6. TypeOK'
  BY <1>1, <1>2, <1>4, <1>5 DEF TypeOK
<1>7. PlaceInv'
  BY <1>1 DEF PlaceInv
<1>8. AgentInv'
  <2>1. agent = "acking" => through' > 0
    <3>1. printed # {} => through' \in Nat \ {0}
      BY <1>2, <1>3
    <3>2. printed = {} => through' = through
      BY <1>1
    <3> QED
      BY <1>1, <3>1, <3>2 DEF AgentInv
  <2>2. agent = "acking" => rounds' # 0
    BY <1>1, <1>2
  <2> QED
    BY <1>1, <2>1, <2>2 DEF AgentInv
<1>9. WaitInv'
  BY <1>1 DEF WaitInv
<1>10. ASSUME crashes = 0, MaxRounds <= 1 PROVE PollInv'
  <2>1. /\ again = {}
        /\ \A n \in shown \cap (printed \cup {claimed}) :
              \/ n = claimed /\ n <= cursor
              \/ n \in inFlight /\ (through > 0 => n <= through)
    BY <1>1, <1>10 DEF PollInv, printed
  <2>2. claimed \notin printed
    BY <1>1 DEF PlaceInv, printed
  <2>3. shown \cap printed = {}
    BY <1>1, <2>1, <2>2
  <2>4. claimed \in shown => claimed <= cursor
    <3>1. SUFFICES ASSUME claimed \in shown PROVE claimed <= cursor
      OBVIOUS
    <3>2. claimed # 0 /\ agent = "acking"
      BY <1>1, <1>2, <3>1 DEF AgentInv
    <3>3. rounds = 0
      BY <1>1, <1>2, <1>10, <3>2
    <3>4. through = cursor /\ through > 0
      BY <1>1, <3>2, <3>3 DEF AgentInv
    <3> QED
      BY <2>1, <3>1, <3>4
  <2>5. again' = {}
    BY <1>5, <2>1, <2>3
  <2>6. ASSUME NEW n \in shown' \cap (printed \cup {claimed})
        PROVE  \/ n = claimed /\ n <= cursor
               \/ n \in inFlight' /\ (through' > 0 => n <= through')
    <3>1. CASE n \in printed
      BY <1>1, <1>3, <3>1
    <3>2. CASE n \notin printed
      BY <1>5, <2>4, <2>6, <3>2
    <3> QED
      BY <3>1, <3>2
  <2> QED
    BY <1>1, <2>5, <2>6 DEF PollInv, printed
<1>11. PollInv'
  BY <1>1, <1>10 DEF PollInv
<1> QED
  BY <1>6, <1>7, <1>8, <1>9, <1>11 DEF ReceiveInv

LEMMA StartAckKeeps ==
    ASSUME ReceiveInv, StartAck
    PROVE  ReceiveInv'
<1> USE DEF setting, queue, view, bounds
<1>1. /\ TypeOK /\ PlaceInv /\ AgentInv /\ WaitInv /\ PollInv
      /\ through > 0 /\ cursor' = through /\ agent' = "acking" /\ rounds' = 0
      /\ mode = "wait" => agent = "handling"
      /\ agent # "acking"
      /\ UNCHANGED <<setting, queue, through, inFlight, view, crashes>>
  BY DEF ReceiveInv, StartAck
<1>2. /\ through \in Nat /\ cursor \in Nat /\ MaxRounds \in Nat /\ arrived \subseteq Nat
      /\ shown \subseteq arrived
  BY <1>1, Numbered
<1>3. TypeOK' /\ PlaceInv'
  <2>1. rounds' \in 0 .. MaxRounds
    BY <1>1, <1>2
  <2> QED
    BY <1>1, <2>1 DEF TypeOK, PlaceInv
<1>4. AgentInv'
  BY <1>1 DEF AgentInv
<1>5. WaitInv'
  <2>1. SUFFICES ASSUME mode = "wait" PROVE WaitInv'
    BY <1>1 DEF WaitInv
  <2>2. cursor <= through
    BY <1>1, <2>1 DEF AgentInv
  <2>3. \A n \in arrived : n <= cursor => n <= through
    BY <1>2, <2>2
  <2>4. \A n \in shown : n <= cursor'
    BY <1>1, <1>2, <2>1, <2>3 DEF WaitInv
  <2>5. ordered => \A n \in arrived : n <= cursor' => n \in shown
    BY <1>1, <2>1 DEF WaitInv
  <2> QED
    BY <1>1, <2>1, <2>4, <2>5 DEF WaitInv
<1>6. PollInv'
  <2>1. claimed = 0 /\ 0 \notin shown
    BY <1>1, Numbered DEF AgentInv
  <2> QED
    BY <1>1, <2>1 DEF PollInv
<1> QED
  BY <1>3, <1>4, <1>5, <1>6 DEF ReceiveInv

LEMMA AckRecoverKeeps ==
    ASSUME ReceiveInv, AckRecover
    PROVE  ReceiveInv'
<1> USE DEF setting, queue, view, bounds
<1> DEFINE all == Elements(pending) \cup orphans
<1>1. /\ TypeOK /\ PlaceInv /\ AgentInv /\ WaitInv /\ PollInv
      /\ agent = "acking" /\ claimed = 0 /\ orphans # {}
      /\ pending' = Sorted(all) /\ orphans' = {}
      /\ UNCHANGED <<setting, arrived, claimed, acked, agent, cursor, through, inFlight,
                     view, bounds>>
  BY DEF ReceiveInv, AckRecover
<1>2. all \subseteq arrived /\ arrived \subseteq Nat /\ IsFiniteSet(arrived)
  BY <1>1, Numbered DEF PlaceInv
<1>3. all \in SUBSET Nat /\ IsFiniteSet(all)
  BY <1>2, FS_Subset
<1>4. /\ pending' \in Seq(all) /\ Elements(pending') = all
      /\ InOrder(pending') /\ NoRepeat(pending')
  BY <1>1, <1>3, SortedFacts, OrderedOnce
<1>5. pending' \in Seq(arrived')
  BY <1>1, <1>2, <1>4, SeqMonotonic
<1>6. TypeOK'
  BY <1>1, <1>5 DEF TypeOK
<1>7. PlaceInv'
  BY <1>1, <1>4 DEF PlaceInv
<1>8. AgentInv' /\ WaitInv'
  BY <1>1, <1>4 DEF AgentInv, WaitInv
<1>9. PollInv'
  <2>1. ~ (crashes = 0)
    BY <1>1 DEF AgentInv
  <2> QED
    BY <1>1, <2>1 DEF PollInv
<1> QED
  BY <1>6, <1>7, <1>8, <1>9 DEF ReceiveInv

\* The end of an acknowledgement, in a state where no claim is left.
LEMMA EndAckFacts ==
    ASSUME TypeOK, AgentInv, agent = "acking", EndAck
    PROVE  /\ agent' = "idle" /\ through' \in {0, through} /\ through' \in Nat
           /\ through' \in arrived \cup {0}
           /\ mode = "wait" => through' = 0 /\ through = cursor
BY DEF TypeOK, AgentInv, EndAck, Numbered

LEMMA AckClaimKeeps ==
    ASSUME ReceiveInv, AckClaim
    PROVE  ReceiveInv'
<1> USE DEF setting, queue, view, bounds
<1>1. /\ TypeOK /\ PlaceInv /\ AgentInv /\ WaitInv /\ PollInv
      /\ agent = "acking" /\ claimed = 0 /\ orphans = {}
      /\ UNCHANGED <<setting, arrived, orphans, acked, cursor, inFlight, view, bounds>>
  BY DEF ReceiveInv, AckClaim
<1>2. /\ arrived \in SUBSET Nat /\ pending \in Seq(arrived) /\ 0 \notin arrived
      /\ shown \subseteq arrived /\ cursor \in Nat /\ through \in Nat
  BY <1>1, Numbered
<1>3. CASE pending = <<>>
  <2>1. EndAck /\ UNCHANGED <<pending, claimed>>
    BY <1>3 DEF AckClaim
  <2>2. /\ agent' = "idle" /\ through' \in {0, through} /\ through' \in arrived \cup {0}
        /\ mode = "wait" => through' = 0 /\ through = cursor
    BY <1>1, <2>1, EndAckFacts
  <2>3. TypeOK' /\ PlaceInv'
    BY <1>1, <2>1, <2>2 DEF TypeOK, PlaceInv
  <2>4. mode \in {"wait", "poll"}
    BY <1>1, ReceiveConstants DEF TypeOK
  <2>5. AgentInv'
    BY <1>1, <2>1, <2>2, <2>4 DEF AgentInv
  <2>6. WaitInv' /\ PollInv'
    <3>1. WaitInv'
      <4>1. mode = "wait" => \A n \in arrived : ~ (n <= through') /\ (n <= through <=> n <= cursor)
        BY <1>2, <2>2
      <4> QED
        BY <1>1, <1>2, <2>1, <2>2, <4>1 DEF WaitInv
    <3>2. PollInv'
      BY <1>1, <2>1, <2>2 DEF PollInv
    <3> QED
      BY <3>1, <3>2
  <2> QED
    BY <2>3, <2>5, <2>6 DEF ReceiveInv
<1>4. CASE pending # <<>>
  <2>1. claimed' = Head(pending) /\ pending' = Tail(pending) /\ UNCHANGED <<agent, through>>
    BY <1>4 DEF AckClaim
  <2>2. /\ pending' \in Seq(arrived) /\ claimed' \in arrived
        /\ Elements(pending) = {claimed'} \cup Elements(pending')
        /\ NoRepeat(pending) => NoRepeat(pending') /\ claimed' \notin Elements(pending')
        /\ InOrder(pending) => InOrder(pending')
    BY <1>2, <1>4, <2>1, TailFacts
  <2>3. TypeOK'
    BY <1>1, <2>1, <2>2 DEF TypeOK
  <2>4. PlaceInv'
    BY <1>1, <1>2, <2>2 DEF PlaceInv
  <2>5. AgentInv' /\ WaitInv'
    BY <1>1, <2>1, <2>2 DEF AgentInv, WaitInv
  <2>6. PollInv'
    BY <1>1, <1>2, <2>1, <2>2 DEF PollInv
  <2> QED
    BY <2>3, <2>4, <2>5, <2>6 DEF ReceiveInv
<1> QED
  BY <1>3, <1>4

LEMMA AckCompleteKeeps ==
    ASSUME ReceiveInv, AckComplete
    PROVE  ReceiveInv'
<1> USE DEF setting, queue, view, bounds
<1>1. /\ TypeOK /\ PlaceInv /\ AgentInv /\ WaitInv /\ PollInv
      /\ claimed > 0 /\ claimed <= cursor /\ acked' = acked \cup {claimed} /\ claimed' = 0
      /\ UNCHANGED <<setting, arrived, pending, orphans, agent, cursor, through, inFlight,
                     view, bounds>>
  BY DEF ReceiveInv, AckComplete, Within
<1>2. claimed \in arrived /\ claimed # 0 /\ 0 \notin arrived /\ shown \subseteq arrived
      /\ Elements(pending) \subseteq arrived
  BY <1>1, Numbered DEF TypeOK
<1>3. TypeOK' /\ PlaceInv' /\ AgentInv'
  BY <1>1, <1>2 DEF TypeOK, PlaceInv, AgentInv
<1>4. WaitInv'
  BY <1>1, <1>2 DEF WaitInv
<1>5. PollInv'
  <2>1. claimed \notin Elements(pending)
    BY <1>1 DEF PlaceInv
  <2> QED
    BY <1>1, <1>2, <2>1 DEF PollInv
<1> QED
  BY <1>3, <1>4, <1>5 DEF ReceiveInv

LEMMA AckBeyondKeeps ==
    ASSUME ReceiveInv, AckBeyond
    PROVE  ReceiveInv'
<1> USE DEF setting, queue, view, bounds
<1> DEFINE all == Elements(pending) \cup {claimed}
<1>1. /\ TypeOK /\ PlaceInv /\ AgentInv /\ WaitInv /\ PollInv
      /\ claimed > 0 /\ ~ (claimed <= cursor) /\ EndAck
      /\ pending' = Sorted(all) /\ claimed' = 0
      /\ UNCHANGED <<setting, arrived, orphans, acked, cursor, inFlight, view, bounds>>
  BY DEF ReceiveInv, AckBeyond, Within
<1>2. /\ claimed # 0 /\ claimed \in arrived /\ agent = "acking" /\ orphans = {}
      /\ arrived \subseteq Nat /\ 0 \notin arrived /\ shown \subseteq arrived
      /\ cursor \in Nat /\ through \in Nat /\ mode \in {"wait", "poll"}
  BY <1>1, Numbered, ReceiveConstants DEF TypeOK, AgentInv
<1>3. all \subseteq arrived /\ all \in SUBSET Nat /\ IsFiniteSet(all)
  BY <1>1, <1>2, Numbered, FS_AddElement
<1>4. /\ pending' \in Seq(all) /\ Elements(pending') = all
      /\ InOrder(pending') /\ NoRepeat(pending')
  BY <1>1, <1>3, SortedFacts, OrderedOnce
<1>5. pending' \in Seq(arrived')
  BY <1>1, <1>3, <1>4, SeqMonotonic
<1>6. /\ agent' = "idle" /\ through' \in {0, through} /\ through' \in arrived \cup {0}
      /\ mode = "wait" => through' = 0 /\ through = cursor
  BY <1>1, <1>2, EndAckFacts
<1>7. TypeOK'
  BY <1>1, <1>5, <1>6 DEF TypeOK
<1>8. PlaceInv'
  <2>1. /\ arrived' = Elements(pending') \cup ({claimed'} \ {0}) \cup orphans' \cup acked'
        /\ Elements(pending') \cap (orphans' \cup acked') = {}
    <3>1. /\ arrived = Elements(pending) \cup ({claimed} \ {0}) \cup orphans \cup acked
          /\ Elements(pending) \cap (orphans \cup acked) = {}
          /\ claimed \notin orphans \cup acked
      BY <1>1 DEF PlaceInv
    <3>2. all \cap (orphans \cup acked) = {}
      BY <3>1
    <3>3. arrived = all \cup orphans \cup acked
      BY <1>2, <3>1
    <3>4. UNCHANGED <<arrived, orphans, acked>> /\ {claimed'} \ {0} = {}
      BY <1>1
    <3> HIDE DEF all
    <3> QED
      BY <1>4, <3>2, <3>3, <3>4
  <2>2. claimed' \notin Elements(pending') \cup orphans' \cup acked'
    BY <1>1, <1>2, <1>3, <1>4 DEF TypeOK
  <2> QED
    BY <1>1, <1>4, <2>1, <2>2 DEF PlaceInv
<1>9. AgentInv'
  BY <1>1, <1>2, <1>6 DEF AgentInv
<1>10. WaitInv'
  <2>1. mode = "wait" => \A n \in arrived : ~ (n <= through') /\ (n <= through <=> n <= cursor)
    BY <1>2, <1>6
  <2> QED
    BY <1>1, <1>2, <1>4, <1>6, <2>1 DEF WaitInv
<1>11. PollInv'
  <2>1. SUFFICES ASSUME mode = "poll", crashes = 0, MaxRounds <= 1 PROVE PollInv'
    BY <1>1 DEF PollInv
  <2>2. ASSUME NEW n \in shown \cap (Elements(pending') \cup {claimed'})
        PROVE  n \in inFlight /\ (through' > 0 => n <= through')
    <3>1. n \in shown \cap (Elements(pending) \cup {claimed}) /\ (n = claimed => ~ (n <= cursor))
      BY <1>1, <1>2, <1>4, <2>2
    <3>2. n \in inFlight /\ (through > 0 => n <= through)
      BY <1>1, <2>1, <3>1 DEF PollInv
    <3> QED
      BY <1>2, <1>6, <3>2
  <2> QED
    BY <1>1, <2>1, <2>2 DEF PollInv
<1> QED
  BY <1>7, <1>8, <1>9, <1>10, <1>11 DEF ReceiveInv

LEMMA AckCrashKeeps ==
    ASSUME ReceiveInv, AckCrash
    PROVE  ReceiveInv'
<1> USE DEF setting, queue, view, bounds
<1>1. /\ TypeOK /\ PlaceInv /\ AgentInv /\ WaitInv /\ PollInv
      /\ agent = "acking" /\ crashes < MaxCrashes /\ crashes' = crashes + 1
      /\ orphans' = orphans \cup ({claimed} \ {0}) /\ claimed' = 0
      /\ agent' = IF mode = "wait" THEN "handling" ELSE "idle"
      /\ UNCHANGED <<setting, arrived, pending, acked, cursor, through, inFlight, view,
                     rounds>>
  BY DEF ReceiveInv, AckCrash
<1>2. /\ crashes' \in 0 .. MaxCrashes /\ crashes' > 0 /\ mode \in {"wait", "poll"}
      /\ claimed \in arrived \cup {0} /\ cursor \in Nat /\ 0 \notin arrived
  BY <1>1, ReceiveConstants, Numbered DEF TypeOK
<1>3. TypeOK'
  BY <1>1, <1>2 DEF TypeOK
<1>4. PlaceInv'
  BY <1>1, <1>2, Numbered DEF PlaceInv
<1>5. AgentInv'
  BY <1>1, <1>2 DEF AgentInv
<1>6. WaitInv' /\ PollInv'
  BY <1>1, <1>2 DEF WaitInv, PollInv
<1> QED
  BY <1>3, <1>4, <1>5, <1>6 DEF ReceiveInv

LEMMA ReceiveHolds == Spec => []ReceiveInv
<1>1. Init => ReceiveInv
  BY ReceiveInit
<1>2. ReceiveInv /\ [Next]_vars => ReceiveInv'
  <2> SUFFICES ASSUME ReceiveInv, [Next]_vars PROVE ReceiveInv'
    OBVIOUS
  <2>1. CASE UNCHANGED vars
    BY <2>1 DEF ReceiveInv, vars, setting, queue, view, bounds, TypeOK, PlaceInv, AgentInv,
       WaitInv, PollInv
  <2>2. CASE Next
    BY <2>2, ArriveKeeps, ArmKeeps, ReturnKeeps, PollRoundKeeps, StartAckKeeps,
       AckRecoverKeeps, AckClaimKeeps, AckCompleteKeeps, AckBeyondKeeps, AckCrashKeeps
       DEF Next, Acknowledge
  <2> QED
    BY <2>1, <2>2
<1> QED
  BY <1>1, <1>2, PTL DEF Spec

-----------------------------------------------------------------------------

\* How often a number is in the file.
LEMMA CountInFile ==
    ASSUME NEW S, NEW s \in Seq(S), NoRepeat(s), NEW n
    PROVE  Cardinality({i \in DOMAIN s : s[i] = n}) = IF n \in Elements(s) THEN 1 ELSE 0
<1>1. CASE n \in Elements(s)
  <2>1. PICK k \in DOMAIN s : s[k] = n
    BY <1>1 DEF Elements
  <2>2. {i \in DOMAIN s : s[i] = n} = {k}
    BY <2>1 DEF NoRepeat
  <2> QED
    BY <1>1, <2>2, FS_Singleton
<1>2. CASE n \notin Elements(s)
  <2>1. {i \in DOMAIN s : s[i] = n} = {}
    BY <1>2 DEF Elements
  <2> QED
    BY <1>2, <2>1, FS_EmptySet
<1> QED
  BY <1>1, <1>2

\* Every message that arrived is in exactly one place, through claims, completions,
\* deaths of the acknowledgement and recoveries.
THEOREM NoneLostHolds == Spec => []NoneLost
<1>1. ReceiveInv => NoneLost
  <2> SUFFICES ASSUME ReceiveInv, NEW n \in arrived
               PROVE  Cardinality({i \in DOMAIN pending : pending[i] = n})
                        + (IF claimed = n THEN 1 ELSE 0)
                        + (IF n \in orphans THEN 1 ELSE 0)
                        + (IF n \in acked THEN 1 ELSE 0) = 1
    BY DEF NoneLost
  <2>1. TypeOK /\ PlaceInv /\ 0 \notin arrived /\ pending \in Seq(arrived)
    BY Numbered DEF ReceiveInv
  <2>2. Cardinality({i \in DOMAIN pending : pending[i] = n})
          = IF n \in Elements(pending) THEN 1 ELSE 0
    BY <2>1, CountInFile DEF PlaceInv
  <2>3. \/ n \in Elements(pending) /\ claimed # n /\ n \notin orphans /\ n \notin acked
        \/ n \notin Elements(pending) /\ claimed = n /\ n \notin orphans /\ n \notin acked
        \/ n \notin Elements(pending) /\ claimed # n /\ n \in orphans /\ n \notin acked
        \/ n \notin Elements(pending) /\ claimed # n /\ n \notin orphans /\ n \in acked
    BY <2>1 DEF PlaceInv
  <2> QED
    BY <2>2, <2>3
<1> QED
  BY <1>1, ReceiveHolds, PTL

\* queue.js:141 "Later arrivals remain pending", controlPlaneService.js:531 "after_seq
\* suppresses re-delivery": when messages arrive in their order, an agent that waits
\* acknowledges only what it was shown and its cursor hides nothing else.
THEOREM AckedWasShownHolds == Spec => []AckedWasShown
<1>1. ReceiveInv => AckedWasShown
  BY Numbered DEF ReceiveInv, WaitInv, AckedWasShown
<1> QED
  BY <1>1, ReceiveHolds, PTL

\* No message is shown twice, by a wait in any case and by a poll process while no
\* acknowledgement dies or lasts longer than its interval.
THEOREM ShownOnceHolds == Spec => []ShownOnce
<1>1. ReceiveInv => ShownOnce
  <2> SUFFICES ASSUME ReceiveInv PROVE ShownOnce
    OBVIOUS
  <2>1. mode \in {"wait", "poll"}
    BY ReceiveConstants DEF ReceiveInv, TypeOK
  <2> QED
    BY <2>1 DEF ReceiveInv, WaitInv, PollInv, ShownOnce
<1> QED
  BY <1>1, ReceiveHolds, PTL

-----------------------------------------------------------------------------
(***************************************************************************)
(* The receive path implements the contract of the queue.                  *)
(***************************************************************************)
Queued == Elements(pending) \cup orphans
Claim == {claimed} \ {0}

LEMMA ContractSends ==
    ASSUME NEW n \in Numbers, n \notin Queued \cup Claim \cup acked,
           Queued' = Queued \cup {n}, Claim' = Claim, acked' = acked
    PROVE  Contract!Next
<1>1. Contract!Held = Claim
  BY DEF Contract!Held, Claim
<1>2. Contract!Send(n)
  BY <1>1 DEF Contract!Send, Contract!Held, Queued, Claim
<1> QED
  BY <1>2 DEF Contract!Next

LEMMA ContractTakes ==
    ASSUME NEW n \in Numbers, n \in Queued,
           Queued' = Queued \ {n}, Claim = {}, Claim' = {n}, acked' = acked
    PROVE  Contract!Next
<1>1. Contract!Take("ack", n)
  BY DEF Contract!Take, Queued, Claim
<1> QED
  BY <1>1 DEF Contract!Next

LEMMA ContractFinishes ==
    ASSUME NEW n \in Numbers,
           Queued' = Queued, Claim = {n}, Claim' = {}, acked' = acked \cup {n}
    PROVE  Contract!Next
<1>1. Contract!Finish("ack", n)
  BY DEF Contract!Finish, Queued, Claim
<1> QED
  BY <1>1 DEF Contract!Next

LEMMA ContractGivesBack ==
    ASSUME NEW n \in Numbers,
           Queued' = Queued \cup {n}, Claim = {n}, Claim' = {}, acked' = acked
    PROVE  Contract!Next
<1>1. Contract!GiveBack("ack", {n})
  BY DEF Contract!GiveBack, Queued, Claim
<1> QED
  BY <1>1 DEF Contract!Next

LEMMA ContractStutters ==
    ASSUME Queued' = Queued, Claim' = Claim, acked' = acked
    PROVE  UNCHANGED Contract!cvars
BY DEF Contract!cvars, Queued, Claim

LEMMA ContractStep == ReceiveInv /\ [Next]_vars => [Contract!Next]_(Contract!cvars)
<1> SUFFICES ASSUME ReceiveInv, [Next]_vars PROVE [Contract!Next]_(Contract!cvars)
  OBVIOUS
<1> USE DEF setting, queue, view, bounds
<1>a. /\ TypeOK /\ PlaceInv /\ AgentInv
      /\ arrived \subseteq Nat \ {0} /\ 0 \notin arrived /\ pending \in Seq(arrived)
      /\ Elements(pending) \subseteq arrived /\ orphans \subseteq arrived
      /\ IsFiniteSet(Elements(pending)) /\ IsFiniteSet(arrived)
      /\ arrived \subseteq Numbers /\ Numbers \subseteq Nat \ {0}
      /\ claimed \in arrived \cup {0} /\ claimed \in Nat
  BY Numbered, ReceiveConstants DEF ReceiveInv, TypeOK, PlaceInv
<1>1. ASSUME NEW n \in Numbers, Arrive(n) PROVE Contract!Next
  <2>1. /\ n \notin arrived /\ pending' = Append(pending, n)
        /\ UNCHANGED <<claimed, orphans, acked>>
    BY <1>1 DEF Arrive
  <2>2. Elements(pending') = Elements(pending) \cup {n}
    <3>1. Numbers \in SUBSET Nat /\ pending \in Seq(Numbers)
      BY <1>a, SeqMonotonic
    <3> QED
      BY <2>1, <3>1, AppendFacts
  <2>3. n \notin Queued \cup Claim \cup acked
    BY <1>a, <2>1 DEF PlaceInv, Queued, Claim
  <2>4. Queued' = Queued \cup {n} /\ Claim' = Claim
    BY <2>1, <2>2 DEF Queued, Claim
  <2> QED
    BY <2>1, <2>3, <2>4, ContractSends
<1>2. ASSUME \/ UNCHANGED vars \/ Arm \/ Disarm \/ Return \/ PollRound \/ StartAck
      PROVE  UNCHANGED Contract!cvars
  <2>1. UNCHANGED queue
    BY <1>2 DEF vars, Arm, Disarm, Return, PollRound, StartAck
  <2> QED
    BY <2>1, ContractStutters DEF Queued, Claim
<1>3. ASSUME AckRecover PROVE UNCHANGED Contract!cvars
  <2>1. /\ pending' = Sorted(Queued) /\ orphans' = {}
        /\ UNCHANGED <<claimed, acked>>
    BY <1>3 DEF AckRecover, Queued
  <2>2. Queued \in SUBSET Nat /\ IsFiniteSet(Queued)
    BY <1>a, FS_Subset DEF Queued
  <2>3. Elements(pending') = Queued
    BY <2>1, <2>2, SortedFacts
  <2> QED
    BY <2>1, <2>3, ContractStutters DEF Queued, Claim
<1>4. ASSUME AckClaim PROVE [Contract!Next]_(Contract!cvars)
  <2>1. claimed = 0 /\ orphans = {} /\ UNCHANGED <<orphans, acked>>
    BY <1>4 DEF AckClaim
  <2>2. CASE pending = <<>>
    <3>1. UNCHANGED <<pending, claimed>>
      BY <1>4, <2>2 DEF AckClaim
    <3> QED
      BY <2>1, <3>1, ContractStutters DEF Queued, Claim
  <2>3. CASE pending # <<>>
    <3> DEFINE h == Head(pending)
    <3>1. claimed' = h /\ pending' = Tail(pending)
      BY <1>4, <2>3 DEF AckClaim
    <3>2. /\ h \in arrived /\ Elements(pending) = {h} \cup Elements(pending')
          /\ h \notin Elements(pending')
      <4>1. arrived \in SUBSET Nat /\ NoRepeat(pending)
        BY <1>a DEF PlaceInv
      <4> QED
        BY <1>a, <2>3, <3>1, <4>1, TailFacts
    <3>3. h \in Numbers /\ h # 0
      BY <1>a, <3>2
    <3> HIDE DEF h
    <3>4. h \in Queued /\ Queued' = Queued \ {h} /\ Claim = {} /\ Claim' = {h}
      BY <2>1, <3>1, <3>2, <3>3 DEF Queued, Claim
    <3> QED
      BY <2>1, <3>3, <3>4, ContractTakes
  <2> QED
    BY <2>2, <2>3
<1>5. ASSUME AckComplete PROVE Contract!Next
  <2>1. /\ claimed # 0 /\ claimed' = 0 /\ acked' = acked \cup {claimed}
        /\ UNCHANGED <<pending, orphans>>
    BY <1>5 DEF AckComplete
  <2>2. Queued' = Queued /\ Claim = {claimed} /\ Claim' = {} /\ claimed \in Numbers
    BY <1>a, <2>1 DEF Queued, Claim
  <2> QED
    BY <2>1, <2>2, ContractFinishes
<1>6. ASSUME AckBeyond PROVE Contract!Next
  <2> DEFINE all == Elements(pending) \cup {claimed}
  <2>1. /\ claimed # 0 /\ claimed' = 0 /\ pending' = Sorted(all)
        /\ UNCHANGED <<orphans, acked>>
    BY <1>6 DEF AckBeyond
  <2>2. claimed \in Numbers /\ all \in SUBSET Nat /\ IsFiniteSet(all)
    BY <1>a, <2>1, FS_AddElement
  <2>3. Elements(pending') = all
    BY <2>1, <2>2, SortedFacts
  <2>4. Queued' = Queued \cup {claimed} /\ Claim = {claimed} /\ Claim' = {}
    BY <2>1, <2>3 DEF Queued, Claim
  <2> QED
    BY <2>1, <2>2, <2>4, ContractGivesBack
<1>7. ASSUME AckCrash PROVE [Contract!Next]_(Contract!cvars)
  <2>1. /\ claimed' = 0 /\ orphans' = orphans \cup Claim
        /\ UNCHANGED <<pending, acked>>
    BY <1>7 DEF AckCrash, Claim
  <2>2. Queued' = Queued \cup Claim /\ Claim' = {}
    BY <2>1 DEF Queued, Claim
  <2>3. CASE claimed = 0
    <3>1. Claim = {}
      BY <2>3 DEF Claim
    <3> QED
      BY <2>1, <2>2, <3>1, ContractStutters
  <2>4. CASE claimed # 0
    <3>1. Claim = {claimed} /\ claimed \in Numbers
      BY <1>a, <2>4 DEF Claim
    <3> QED
      BY <2>1, <2>2, <3>1, ContractGivesBack
  <2> QED
    BY <2>3, <2>4
<1> QED
  BY <1>1, <1>2, <1>3, <1>4, <1>5, <1>6, <1>7 DEF Next, Acknowledge

\* claimNext, completeClaim, restoreClaim and the death of an acknowledgement look to
\* the agent like the queue that DeliveryQueue implements, one step each: no number is
\* held by two, finished unclaimed, or kept by an acknowledgement that is gone.
THEOREM ReceivePathImplementsContract == Spec => ImplementsContract
<1>1. Init => Contract!Init
  BY ReceiveInit DEF Init, Contract!Init, Elements
<1>2. ReceiveInv /\ [Next]_vars => [Contract!Next]_(Contract!cvars)
  BY ContractStep
<1>3. Spec => []ReceiveInv
  BY ReceiveHolds
<1> QED
  BY <1>1, <1>2, <1>3, PTL DEF Spec, ImplementsContract, Contract!Spec

-----------------------------------------------------------------------------
(***************************************************************************)
(* The receive lease.                                                      *)
(***************************************************************************)
LEMMA HeldAtFirst == LeaseInit => HeldInv
BY LeaseConstants DEF LeaseInit, HeldInv, LeaseTypeOK, PCs, Between, Receiving, At

\* Judging a lease of a live receiver finds its process alive.
LEMMA LiveLeaseNotStale ==
    ASSUME HeldInv, NEW q \in Receivers, Receiving(q)
    PROVE  ~ Stale
BY DEF HeldInv, Receiving, At, Stale

\* A new file is the lease of its creator, if nobody was receiving.
LEMMA CreationKeepsHeld ==
    ASSUME HeldInv, Undisturbed, NEW r \in Receivers,
           At(r, "off"), \A q \in Receivers : ~ Receiving(q),
           file' = Created(In[r]), created' = {r}, Goto(r, "receiving"),
           UNCHANGED <<windows, alive>>
    PROVE  HeldInv'
<1>1. Created(In[r]) = [pid |-> In[r], stamped |-> TRUE]
  BY DEF Created, Undisturbed
<1>2. In[r] \in Processes
  BY LeaseConstants
<1>3. pc' = [pc EXCEPT ![r] = "receiving"] /\ pc \in [Receivers -> PCs]
  BY DEF Goto, HeldInv, LeaseTypeOK
<1>4. LeaseTypeOK'
  <2>1. file' \in [pid : Processes, stamped : BOOLEAN] \cup {NoFile}
    BY <1>1, <1>2
  <2>2. pc' \in [Receivers -> PCs]
    BY <1>3 DEF PCs
  <2>3. QED
    BY <2>1, <2>2 DEF LeaseTypeOK, HeldInv
<1>5. \A q \in Receivers : pc'[q] \notin Between
  BY <1>3 DEF HeldInv, Between
<1>6. \A q \in Receivers : Receiving(q)' => q = r
  BY <1>3 DEF Receiving, At
<1>7. file' # NoFile /\ file'.stamped /\ file'.pid = In[r]
  <2>1. file' = [pid |-> In[r], stamped |-> TRUE]
    BY <1>1
  <2>2. file' \in [pid : Processes, stamped : BOOLEAN]
    BY <1>2, <2>1
  <2>3. file' # NoFile
    BY <2>2, LeaseConstants
  <2>4. file'.stamped /\ file'.pid = In[r]
    BY <2>1
  <2>5. QED
    BY <2>3, <2>4
<1>8. QED
  BY <1>4, <1>5, <1>6, <1>7 DEF HeldInv

\* A step that leaves the file alone and makes nobody a receiver.
LEMMA RestingKeepsHeld ==
    ASSUME HeldInv, NEW r \in Receivers, NEW label \in {"refused", "off"},
           Goto(r, label), UNCHANGED <<windows, file, alive, created>>
    PROVE  HeldInv'
<1>1. pc' = [pc EXCEPT ![r] = label] /\ pc \in [Receivers -> PCs]
  BY DEF Goto, HeldInv, LeaseTypeOK
<1>2. LeaseTypeOK'
  BY <1>1 DEF HeldInv, LeaseTypeOK, PCs
<1>3. \A q \in Receivers : pc'[q] \notin Between
  BY <1>1 DEF HeldInv, Between
<1>4. \A q \in Receivers : Receiving(q)' => Receiving(q)
  BY <1>1 DEF Receiving, At
<1>5. QED
  BY <1>2, <1>3, <1>4 DEF HeldInv

LEMMA AcquireKeepsHeld ==
    ASSUME HeldInv, Undisturbed, NEW r \in Receivers, Acquire(r)
    PROVE  HeldInv'
<1>1. At(r, "off") /\ UNCHANGED <<windows, alive>>
  BY DEF Acquire, Undisturbed
<1>2. CASE file = NoFile
  <2>1. Create(r)
    BY <1>2 DEF Acquire, Undisturbed
  <2>2. \A q \in Receivers : ~ Receiving(q)
    BY <1>2 DEF HeldInv
  <2>3. file' = Created(In[r]) /\ created' = {r} /\ Goto(r, "receiving")
    BY <1>2, <2>1 DEF Create, Undisturbed
  <2>4. QED
    BY <1>1, <2>2, <2>3, CreationKeepsHeld
<1>3. CASE file # NoFile
  <2>1. Judge(r)
    BY <1>3 DEF Acquire, Undisturbed
  <2>2. CASE ~ Stale
    <3>1. Goto(r, "refused") /\ UNCHANGED <<file, created>>
      BY <2>1, <2>2 DEF Judge, Undisturbed
    <3>2. QED
      BY <1>1, <3>1, RestingKeepsHeld
  <2>3. CASE Stale
    <3>1. CreateFresh(r)
      BY <2>1, <2>3 DEF Judge, Undisturbed
    <3>2. file' = Created(In[r]) /\ created' = {r} /\ Goto(r, "receiving")
      BY <3>1 DEF CreateFresh, Undisturbed
    <3>3. \A q \in Receivers : ~ Receiving(q)
      BY <2>3, LiveLeaseNotStale
    <3>4. QED
      BY <1>1, <3>2, <3>3, CreationKeepsHeld
  <2>4. QED
    BY <2>2, <2>3
<1>4. QED
  BY <1>2, <1>3

\* A receiver that gives up its lease is the only one.
LEMMA ReleaseKeepsHeld ==
    ASSUME HeldInv, NEW r \in Receivers, Release(r)
    PROVE  HeldInv'
<1>1. Receiving(r) /\ Goto(r, "off") /\ UNCHANGED <<windows, alive>>
  BY DEF Release, Receiving
<1>2. file # NoFile /\ file.stamped /\ file.pid = In[r] /\ created = {r}
  BY <1>1 DEF HeldInv
<1>3. file' = NoFile /\ created' = {}
  BY <1>2 DEF Release
<1>4. pc' = [pc EXCEPT ![r] = "off"] /\ pc \in [Receivers -> PCs]
  BY <1>1 DEF Goto, HeldInv, LeaseTypeOK
<1>5. \A q \in Receivers : ~ Receiving(q)'
  <2>1. SUFFICES ASSUME NEW q \in Receivers, Receiving(q)' PROVE FALSE
    OBVIOUS
  <2>2. q # r /\ Receiving(q)
    BY <1>1, <1>4, <2>1 DEF Receiving, At
  <2>3. created = {q}
    BY <2>2 DEF HeldInv
  <2>4. QED
    BY <1>2, <2>2, <2>3
<1>6. LeaseTypeOK'
  BY <1>1, <1>3, <1>4 DEF HeldInv, LeaseTypeOK, PCs
<1>7. \A q \in Receivers : pc'[q] \notin Between
  BY <1>4 DEF HeldInv, Between
<1>8. QED
  BY <1>5, <1>6, <1>7 DEF HeldInv

LEMMA CrashKeepsHeld ==
    ASSUME HeldInv, NEW p \in Processes, Crash(p)
    PROVE  HeldInv'
<1>1. \A q \in Receivers : Receiving(q)' => Receiving(q)
  BY DEF Crash, Receiving, At
<1>2. QED
  BY <1>1 DEF Crash, HeldInv, LeaseTypeOK

\* HeldInv is inductive.
LEMMA NextKeepsHeld ==
    ASSUME HeldInv, Undisturbed, [LeaseNext]_leaseVars
    PROVE  HeldInv'
<1>1. ASSUME NEW r \in Receivers, Step(r) PROVE HeldInv'
  <2>1. pc[r] \notin {"read", "remove", "create", "stamp"}
    BY <1>1 DEF HeldInv, Between
  <2>2. Acquire(r)
    BY <1>1, <2>1 DEF Step, ReadPid, RemoveStale, CreateFile, StampFile, At
  <2>3. QED
    BY <2>2, AcquireKeepsHeld
<1>2. ASSUME NEW r \in Receivers, Release(r) PROVE HeldInv'
  BY <1>2, ReleaseKeepsHeld
<1>3. ASSUME NEW r \in Receivers, TryAgain(r) PROVE HeldInv'
  BY <1>3, RestingKeepsHeld DEF TryAgain
<1>4. ASSUME NEW p \in Processes, Crash(p) PROVE HeldInv'
  BY <1>4, CrashKeepsHeld
<1>5. CASE UNCHANGED leaseVars
  BY <1>5 DEF leaseVars, HeldInv, LeaseTypeOK, Receiving, At
<1>6. QED
  BY <1>1, <1>2, <1>3, <1>4, <1>5 DEF LeaseNext

LEMMA WindowsFixed == [LeaseNext]_leaseVars => windows' = windows
BY DEF LeaseNext, Step, leaseVars, Acquire, ReadPid, RemoveStale, CreateFile, StampFile, Release,
   TryAgain, Crash

LEMMA LeaseInvariant == LeaseSpec => []LeaseInv
<1>1. LeaseInit => LeaseInv
  BY HeldAtFirst DEF LeaseInv
<1>2. LeaseInv /\ [LeaseNext]_leaseVars => LeaseInv'
  BY WindowsFixed, NextKeepsHeld DEF LeaseInv, Undisturbed
<1>3. QED
  BY <1>1, <1>2, PTL DEF LeaseSpec

-----------------------------------------------------------------------------
(* PROJECT.md:91 "share one receive lease per subscriber": when acquirePollLease
   is not interrupted between its file operations, no two live receivers hold it,
   whatever processes they run in and whichever of those die. *)
THEOREM OneReceiverHolds == LeaseSpec => []OneReceiver
<1>1. LeaseInv => OneReceiver
  BY DEF LeaseInv, HeldInv, OneReceiver
<1>2. QED
  BY <1>1, LeaseInvariant, PTL

(* releasePollLease and the removal of stale files never touch the file of a
   receiver that lives and goes on receiving. *)
THEOREM LeaseIsKept == LeaseSpec => LeaseKept
<1>1. ASSUME HeldInv, Undisturbed, [LeaseNext]_leaseVars, NEW r \in Receivers,
             Receiving(r), Receiving(r)'
      PROVE  file' = file
  <2>1. file # NoFile /\ file.stamped /\ file.pid = In[r] /\ created = {r}
    BY <1>1 DEF HeldInv
  <2>2. ~ Stale
    BY <1>1, LiveLeaseNotStale
  <2>3. ASSUME NEW q \in Receivers, Step(q) PROVE file' = file
    <3>1. Acquire(q)
      BY <1>1, <2>3 DEF HeldInv, Between, Step, ReadPid, RemoveStale, CreateFile,
         StampFile, At
    <3>2. QED
      BY <1>1, <2>1, <2>2, <3>1 DEF Acquire, Judge
  <2>4. ASSUME NEW q \in Receivers, Release(q) PROVE file' = file
    <3>1. Receiving(q) /\ Goto(q, "off")
      BY <2>4 DEF Release, Receiving
    <3>2. created = {q}
      BY <1>1, <3>1 DEF HeldInv
    <3>3. q = r
      BY <2>1, <3>2
    <3>4. pc'[r] = "off"
      BY <1>1, <3>1, <3>3 DEF Goto, HeldInv, LeaseTypeOK
    <3>5. QED
      BY <1>1, <3>4 DEF Receiving, At
  <2>5. ASSUME NEW q \in Receivers, TryAgain(q) PROVE file' = file
    BY <2>5 DEF TryAgain
  <2>6. ASSUME NEW p \in Processes, Crash(p) PROVE file' = file
    BY <2>6 DEF Crash
  <2>7. CASE UNCHANGED leaseVars
    BY <2>7 DEF leaseVars
  <2>8. QED
    BY <1>1, <2>3, <2>4, <2>5, <2>6, <2>7 DEF LeaseNext
<1>2. LeaseInv /\ [LeaseNext]_leaseVars =>
        [Undisturbed => \A r \in Receivers :
            Receiving(r) /\ Receiving(r)' => file' = file]_leaseVars
  BY <1>1 DEF LeaseInv
<1>3. QED
  BY <1>2, LeaseInvariant, PTL DEF LeaseSpec, LeaseKept

-----------------------------------------------------------------------------
(***************************************************************************)
(* The consumer loops.                                                     *)
(***************************************************************************)
USE ConsumerConstants DEF ConsumerConstants, AllKinds

\* What somebody still has to do something about.
Open == Waiting \cup processing \cup stranded \cup InBatch

\* The pairs of messages that may not stand in this order.
Late == {q \in Messages \X Messages : q[1] = q[2] \/ Precedes(q[2], q[1])}

Lined(s, R) == \A i, j \in DOMAIN s : i < j => <<s[i], s[j]>> \notin R

\* The batch, then what is being claimed, then pending: nothing stands behind what
\* it precedes.
LineInv ==
    /\ Lined(batch, Late) /\ Lined(waiting, Late)
    /\ \A b \in InBatch, w \in Waiting : <<b, w>> \notin Late
    /\ \A p \in processing, w \in Waiting : <<p, w>> \notin Late
    /\ kind = "report" => \A b \in InBatch, p \in processing : <<b, p>> \notin Late
    /\ stranded \cap Waiting = {}

\* Who has what.  What a dead process left is recovered before anything is claimed.
HandInv ==
    /\ kind # "report" => InBatch = processing
    /\ stranded # {} => batch = <<>> /\ processing = {}
    /\ ~ up => batch = <<>> /\ processing = {}
    /\ OneByOne => \A m, n \in InBatch : m = n
    /\ kind = "report" =>
        /\ ~ draining => processing = {}
        /\ stranded \subseteq hit
        /\ \A m, n \in processing : m = n
        /\ \A m, n \in stranded : m = n
    /\ Open \subseteq sent
    /\ \A m \in Messages : earlier[m] \subseteq sent /\ m \notin earlier[m]

\* How often a message was acted on, wherever it is.
CountInv ==
    /\ kind # "bridge" => remembered = {}
    /\ \A m \in remembered : ran[m] > 0 \/ m \in hit
    /\ remembered \subseteq sent
    /\ \A m \in Messages \ sent : ran[m] = 0
    /\ \A m \in Open : IF kind = "report" THEN ran[m] = 0 ELSE ran[m] <= undone[m]
    /\ \A m \in Messages : ran[m] <= 1 + (IF kind = "report" THEN 0 ELSE undone[m])
    /\ \A m \in Actionable \cap sent :
          m \notin Open /\ ran[m] = 0 => kind \in {"report", "bridge"} /\ m \in hit

ConsumerInv == LoopTypeOK /\ LineInv /\ HandInv /\ CountInv

-----------------------------------------------------------------------------
(* What appending, taking the head and sorting do to the elements of a sequence *)
(* and to their order.                                                          *)
LEMMA LinedAppend ==
    ASSUME NEW s \in Seq(Messages), NEW n \in Messages, NEW R
    PROVE  /\ Append(s, n) \in Seq(Messages) /\ Append(s, n) # <<>>
           /\ Range(Append(s, n)) = Range(s) \cup {n}
           /\ Lined(s, R) /\ (\A x \in Range(s) : <<x, n>> \notin R)
                => Lined(Append(s, n), R)
<1> DEFINE t == Append(s, n)
           last == Len(s) + 1
<1>1. DOMAIN s = 1 .. Len(s) /\ Len(s) \in Nat
  BY LenProperties
<1>2. t \in Seq(Messages) /\ Len(t) = last
  OBVIOUS
<1>3. DOMAIN t = 1 .. last
  BY <1>2, LenProperties
<1>4. t[last] = n /\ \A i \in DOMAIN s : t[i] = s[i]
  BY <1>1
<1>5. t # <<>>
  BY <1>1, <1>2
<1> HIDE DEF t
<1>6. /\ \A i \in DOMAIN t : i = last \/ i \in DOMAIN s
      /\ last \in DOMAIN t /\ \A i \in DOMAIN s : i \in DOMAIN t /\ i < last /\ i \in Nat
  BY <1>1, <1>3
<1>7. Range(t) = Range(s) \cup {n}
  BY <1>4, <1>6 DEF Range
<1>8. ASSUME Lined(s, R), \A x \in Range(s) : <<x, n>> \notin R
      PROVE  Lined(t, R)
  <2>1. SUFFICES ASSUME NEW i \in DOMAIN t, NEW j \in DOMAIN t, i < j
                 PROVE  <<t[i], t[j]>> \notin R
    BY DEF Lined
  <2>2. i \in DOMAIN s
    BY <1>1, <1>3, <2>1
  <2>3. CASE j = last
    BY <1>4, <1>8, <2>2, <2>3 DEF Range
  <2>4. CASE j # last
    BY <1>4, <1>6, <1>8, <2>1, <2>2, <2>4 DEF Lined
  <2> QED BY <2>3, <2>4
<1> QED BY <1>2, <1>5, <1>7, <1>8 DEF t

LEMMA LinedTail ==
    ASSUME NEW s \in Seq(Messages), s # <<>>, NEW R, Lined(s, R)
    PROVE  /\ Tail(s) \in Seq(Messages) /\ Head(s) \in Messages
           /\ Range(s) = {Head(s)} \cup Range(Tail(s))
           /\ Lined(Tail(s), R)
           /\ \A x \in Range(Tail(s)) : <<Head(s), x>> \notin R
<1> DEFINE t == Tail(s)
           h == Head(s)
<1>1. DOMAIN s = 1 .. Len(s) /\ Len(s) \in Nat \ {0}
  BY LenProperties, EmptySeq
<1>2. /\ h \in Messages /\ t \in Seq(Messages) /\ Len(t) = Len(s) - 1
      /\ \A i \in 1 .. Len(t) : t[i] = s[i + 1]
  BY HeadTailProperties
<1>3. h = s[1]
  BY <1>1
<1>4. DOMAIN t = 1 .. Len(t)
  BY <1>2, LenProperties
<1> HIDE DEF t, h
<1>5. /\ \A i \in DOMAIN t : i \in Nat /\ i + 1 \in DOMAIN s /\ 1 < i + 1 /\ t[i] = s[i + 1]
      /\ 1 \in DOMAIN s
      /\ \A i \in DOMAIN s : i = 1 \/ (i - 1 \in DOMAIN t /\ (i - 1) + 1 = i)
  BY <1>1, <1>2, <1>4
<1>6. Range(s) = {h} \cup Range(t)
  <2>1. \A i \in DOMAIN t : \E k \in DOMAIN s : t[i] = s[k]
    BY <1>5
  <2>2. \A i \in DOMAIN s : s[i] = h \/ \E k \in DOMAIN t : s[i] = t[k]
    BY <1>3, <1>5
  <2> QED BY <1>3, <1>5, <2>1, <2>2 DEF Range
<1>7. \A x \in Range(t) : <<h, x>> \notin R
  BY <1>3, <1>5 DEF Lined, Range
<1>8. Lined(t, R)
  <2>1. \A i, j \in DOMAIN t : i < j => i + 1 < j + 1
    BY <1>5
  <2> QED BY <1>5, <2>1 DEF Lined
<1> QED BY <1>2, <1>6, <1>7, <1>8 DEF t, h

LEMMA LinedSorted ==
    ASSUME NEW set \in SUBSET Messages, NEW s \in ByNumber(set), NEW R,
           \A x, y \in Messages : x < y => <<x, y>> \notin R
    PROVE  s \in Seq(Messages) /\ Range(s) = set /\ Lined(s, R)
<1>1. IsFiniteSet(Messages)
  BY FS_Interval DEF Messages
<1>2. Cardinality(set) \in Nat
  BY <1>1, FS_Subset, FS_CardinalityType
<1>3. s \in [1 .. Cardinality(set) -> Messages]
  BY DEF ByNumber
<1> QED BY <1>2, <1>3 DEF ByNumber, Lined

LEMMA LinedFewer ==
    ASSUME NEW s, NEW R, NEW Q, Lined(s, R),
           \A x, y \in Range(s) : <<x, y>> \in Q => <<x, y>> \in R
    PROVE  Lined(s, Q)
BY DEF Lined, Range

LEMMA RangeEmpty ==
    /\ Range(<<>>) = {} /\ <<>> \in Seq(Messages)
    /\ \A R : Lined(<<>>, R)
BY DEF Range, Lined

LEMMA RangeType == \A s \in Seq(Messages) : Range(s) \subseteq Messages
BY ElementOfSeq, LenProperties DEF Range

(* A message is late behind itself; with numbers only a larger one is; and nothing *)
(* becomes late by a failure.                                                      *)
LEMMA LateFacts ==
    /\ \A m \in Messages : <<m, m>> \in Late
    /\ \A x, y \in Messages :
          <<x, y>> \in Late <=> x = y \/ Precedes(y, x)
    /\ kind # "report" => \A x, y \in Messages : x < y => <<x, y>> \notin Late
<1>1. \A x, y \in Messages : <<x, y>> \in Late <=> x = y \/ Precedes(y, x)
  BY DEF Late
<1>2. ASSUME kind # "report", NEW x \in Messages, NEW y \in Messages, x < y
      PROVE  <<x, y>> \notin Late
  BY <1>1, <1>2 DEF Precedes, Messages
<1> QED BY <1>1, <1>2

LEMMA LateShrinks ==
    ASSUME UNCHANGED <<kind, earlier>>, hit \subseteq hit'
    PROVE  Late' \subseteq Late
BY DEF Late, Precedes

-----------------------------------------------------------------------------
LEMMA ConsumerInit == LoopInit => ConsumerInv
<1> SUFFICES ASSUME LoopInit PROVE ConsumerInv
  OBVIOUS
<1>1. InBatch = {} /\ Waiting = {} /\ Open = {}
  BY RangeEmpty DEF LoopInit, InBatch, Waiting, Open
<1>2. LoopTypeOK
  <2>1. earlier \in [Messages -> SUBSET Messages]
    BY DEF LoopInit
  <2>2. ran \in [Messages -> Nat] /\ undone \in [Messages -> Nat] /\ faults \in 0 .. MaxFaults
    BY DEF LoopInit
  <2> QED BY <2>1, <2>2, RangeEmpty DEF LoopInit, LoopTypeOK
<1>3. LineInv
  <2>1. Lined(batch, Late) /\ Lined(waiting, Late)
    BY RangeEmpty DEF LoopInit
  <2> QED BY <1>1, <2>1 DEF LoopInit, LineInv
<1>4. HandInv
  BY <1>1 DEF LoopInit, HandInv
<1>5. CountInv
  BY <1>1 DEF LoopInit, CountInv
<1> QED BY <1>2, <1>3, <1>4, <1>5 DEF ConsumerInv

LEMMA ConsumerSend == ASSUME NEW m \in Messages
                      PROVE  ConsumerInv /\ Send(m) => ConsumerInv'
<1> SUFFICES ASSUME ConsumerInv, Send(m) PROVE ConsumerInv'
  OBVIOUS
<1>0. /\ UNCHANGED <<kind, processing, stranded, batch, draining, up, clients, remembered>>
      /\ UNCHANGED <<ran, undone, hit, faults>>
      /\ m \notin sent /\ sent' = sent \cup {m} /\ waiting' = Append(waiting, m)
      /\ earlier' = [earlier EXCEPT ![m] = sent]
      /\ InBatch' = InBatch
  BY DEF Send, history, InBatch
<1>1. /\ waiting' \in Seq(Messages) /\ Waiting' = Waiting \cup {m}
      /\ Lined(waiting, Late') /\ (\A x \in Waiting : <<x, m>> \notin Late')
           => Lined(waiting', Late')
  BY <1>0, LinedAppend DEF ConsumerInv, LoopTypeOK, Waiting
<1>2. LoopTypeOK'
  BY <1>0, <1>1 DEF ConsumerInv, LoopTypeOK
<1>3. /\ Open \subseteq sent /\ Open \subseteq Messages /\ m \notin Open
      /\ Open' = Open \cup {m}
      /\ Waiting \subseteq Open /\ InBatch \subseteq Open /\ processing \subseteq Open
  BY <1>0, <1>1 DEF ConsumerInv, LoopTypeOK, HandInv, Open
<1>4. \A x, y \in Open : <<x, y>> \in Late' => <<x, y>> \in Late
  <2>1. \A x \in Open : earlier'[x] = earlier[x]
    BY <1>0, <1>3 DEF ConsumerInv, LoopTypeOK
  <2> QED BY <1>0, <1>3, <2>1 DEF Late, Precedes
<1>5. \A x \in Open : <<x, m>> \notin Late'
  <2>1. \A x \in Open : m \notin earlier'[x]
    BY <1>0, <1>3 DEF ConsumerInv, LoopTypeOK, HandInv
  <2> QED BY <1>3, <2>1 DEF Late, Precedes
<1>6. LineInv'
  <2>1. Lined(batch, Late') /\ Lined(waiting, Late')
    BY <1>3, <1>4, LinedFewer DEF ConsumerInv, LineInv, Waiting, InBatch
  <2> QED BY <1>0, <1>1, <1>3, <1>4, <1>5, <2>1 DEF ConsumerInv, LineInv, Open
<1>7. HandInv'
  BY <1>0, <1>3 DEF ConsumerInv, HandInv, LoopTypeOK, OneByOne
<1>8. CountInv'
  BY <1>0, <1>3 DEF ConsumerInv, CountInv, LoopTypeOK
<1> QED BY <1>2, <1>6, <1>7, <1>8 DEF ConsumerInv

(* Steps that only begin or end a turn, start the process or change the clients. *)
LEMMA ConsumerIdle ==
    ASSUME ConsumerInv,
           UNCHANGED <<kind, files, batch, remembered, arrivals, history>>,
           draining' \in BOOLEAN, up' \in BOOLEAN, clients' \in BOOLEAN,
           ~ up' => ~ up,
           kind = "report" /\ ~ draining' => ~ draining \/ processing = {}
    PROVE  ConsumerInv'
<1>0. /\ UNCHANGED <<kind, waiting, processing, stranded, batch, remembered>>
      /\ UNCHANGED <<sent, earlier, ran, undone, hit, faults>>
  BY DEF files, arrivals, history
<1>1. InBatch' = InBatch /\ Waiting' = Waiting /\ Open' = Open /\ Late' = Late
  BY <1>0 DEF InBatch, Waiting, Open, Late, Precedes
<1>2. LoopTypeOK'
  BY <1>0 DEF ConsumerInv, LoopTypeOK
<1>3. LineInv'
  BY <1>0, <1>1 DEF ConsumerInv, LineInv
<1>4. HandInv'
  BY <1>0, <1>1 DEF ConsumerInv, HandInv, OneByOne
<1>5. CountInv'
  BY <1>0, <1>1 DEF ConsumerInv, CountInv
<1> QED BY <1>2, <1>3, <1>4, <1>5 DEF ConsumerInv

LEMMA ConsumerPoll == ConsumerInv /\ Poll => ConsumerInv'
<1> SUFFICES ASSUME ConsumerInv, Poll PROVE ConsumerInv'
  OBVIOUS
<1>1. draining' \in BOOLEAN /\ draining' /\ up' \in BOOLEAN /\ clients' \in BOOLEAN
  BY DEF Poll, ConsumerInv, LoopTypeOK
<1> QED BY <1>1, ConsumerIdle DEF Poll

LEMMA RestartInv == ConsumerInv /\ Restart => ConsumerInv'
BY ConsumerIdle DEF Restart, ConsumerInv, LoopTypeOK

LEMMA ConnectInv == ConsumerInv /\ Connect => ConsumerInv'
<1> SUFFICES ASSUME ConsumerInv, Connect PROVE ConsumerInv'
  OBVIOUS
<1>1. clients' \in BOOLEAN /\ UNCHANGED <<draining, up>>
  BY DEF Connect
<1> QED BY <1>1, ConsumerIdle DEF Connect, ConsumerInv, LoopTypeOK

(* pending.jsonl after a recovery has all that waits and was stranded, in line. *)
LEMMA RecoveredFacts ==
    ASSUME ConsumerInv, NEW line \in Recovered
    PROVE  /\ line \in Seq(Messages) /\ Lined(line, Late)
           /\ Range(line) = Waiting \cup stranded
<1>1. waiting \in Seq(Messages) /\ stranded \in SUBSET Messages /\ Waiting \subseteq Messages
  BY RangeType DEF ConsumerInv, LoopTypeOK, Waiting
<1>2. CASE stranded = {}
  BY <1>1, <1>2 DEF Recovered, ConsumerInv, LineInv, Waiting
<1>3. CASE stranded # {} /\ kind = "report"
  <2>1. PICK r \in stranded : line = Append(waiting, r)
    BY <1>3 DEF Recovered
  <2>2. stranded = {r} /\ r \in hit /\ r \in Messages /\ r \notin Waiting
    BY <1>1, <1>3, <2>1 DEF ConsumerInv, HandInv, LineInv
  <2>3. \A x \in Waiting : <<x, r>> \notin Late
    BY <1>1, <1>3, <2>2 DEF Late, Precedes
  <2> QED BY <1>1, <2>1, <2>2, <2>3, LinedAppend DEF ConsumerInv, LineInv, Waiting
<1>4. CASE stranded # {} /\ kind # "report"
  <2>1. line \in ByNumber(Waiting \cup stranded)
    BY <1>4 DEF Recovered
  <2> QED BY <1>1, <1>4, <2>1, LinedSorted, LateFacts
<1> QED BY <1>2, <1>3, <1>4

LEMMA ClaimInv == ConsumerInv /\ ClaimNext => ConsumerInv'
<1> SUFFICES ASSUME ConsumerInv, ClaimNext PROVE ConsumerInv'
  OBVIOUS
<1>1. PICK line \in Recovered :
        /\ line # <<>>
        /\ waiting' = Tail(line)
        /\ stranded' = {}
        /\ processing' = processing \cup {Head(line)}
        /\ batch' = IF kind = "report" THEN batch ELSE Append(batch, Head(line))
  BY DEF ClaimNext
<1> DEFINE h == Head(line)
<1>2. /\ UNCHANGED <<kind, draining, up, clients, remembered>>
      /\ UNCHANGED <<sent, earlier, ran, undone, hit, faults>>
      /\ up /\ draining
      /\ OneByOne => batch = <<>>
      /\ kind = "report" => processing = {}
  BY DEF ClaimNext, arrivals, history
<1>3. /\ waiting' \in Seq(Messages) /\ h \in Messages
      /\ {h} \cup Waiting' = Waiting \cup stranded
      /\ Lined(waiting', Late)
      /\ \A x \in Waiting' : <<h, x>> \notin Late
  BY <1>1, RecoveredFacts, LinedTail DEF Waiting
<1>4. \A x \in InBatch \cup processing : x \in Messages /\ x \notin stranded /\
                                         \A w \in {h} \cup Waiting' : <<x, w>> \notin Late
  <2>1. SUFFICES ASSUME NEW x \in InBatch \cup processing
                 PROVE  x \in Messages /\ stranded = {} /\ \A w \in Waiting : <<x, w>> \notin Late
    BY <1>3
  <2>2. stranded = {}
    BY <2>1, RangeEmpty DEF ConsumerInv, HandInv, InBatch
  <2>3. x \in Messages
    BY <2>1, RangeType DEF ConsumerInv, LoopTypeOK, InBatch
  <2> QED BY <2>1, <2>2, <2>3 DEF ConsumerInv, LineInv
<1>5. Late' = Late
  BY <1>2 DEF Late, Precedes
<1>6. /\ batch' \in Seq(Messages) /\ Lined(batch', Late)
      /\ InBatch' = IF kind = "report" THEN InBatch ELSE InBatch \cup {h}
  <2>1. CASE kind = "report"
    BY <1>1, <2>1 DEF ConsumerInv, LoopTypeOK, LineInv, InBatch
  <2>2. CASE kind # "report"
    BY <1>1, <1>3, <1>4, <2>2, LinedAppend DEF ConsumerInv, LoopTypeOK, LineInv, InBatch
  <2> QED BY <2>1, <2>2
<1>7. Open' = Open
  <2>1. kind # "report" => InBatch = processing
    BY DEF ConsumerInv, HandInv
  <2> QED BY <1>1, <1>3, <1>6, <2>1 DEF Open
<1>8. LoopTypeOK'
  BY <1>1, <1>2, <1>3, <1>6 DEF ConsumerInv, LoopTypeOK
<1>9. LineInv'
  <2>0. /\ InBatch' \subseteq InBatch \cup {h} /\ processing' = processing \cup {h}
        /\ kind = "report" => InBatch' = InBatch /\ processing' = {h}
    BY <1>1, <1>2, <1>6
  <2>1. kind = "report" => \A b \in InBatch', p \in processing' : <<b, p>> \notin Late
    BY <1>4, <2>0
  <2>2. \A b \in InBatch' \cup processing', w \in Waiting' : <<b, w>> \notin Late
    BY <1>3, <1>4, <2>0
  <2> QED BY <1>1, <1>2, <1>3, <1>5, <1>6, <2>1, <2>2 DEF LineInv
<1>10. HandInv'
  <2>1. OneByOne => \A m, n \in InBatch' : m = n
    BY <1>2, <1>6, RangeEmpty DEF InBatch, OneByOne
  <2> QED BY <1>1, <1>2, <1>6, <1>7, <2>1 DEF ConsumerInv, HandInv, OneByOne
<1>11. CountInv'
  BY <1>2, <1>7 DEF ConsumerInv, CountInv
<1> QED BY <1>8, <1>9, <1>10, <1>11 DEF ConsumerInv

LEMMA TakeInv == ConsumerInv /\ TakeReport => ConsumerInv'
<1> SUFFICES ASSUME ConsumerInv, TakeReport PROVE ConsumerInv'
  OBVIOUS
<1>1. PICK r \in processing : batch' = Append(batch, r) /\ processing' = processing \ {r}
  BY DEF TakeReport
<1>2. /\ UNCHANGED <<kind, waiting, stranded, draining, up, clients, remembered>>
      /\ UNCHANGED <<sent, earlier, ran, undone, hit, faults>>
      /\ kind = "report" /\ up
  BY DEF TakeReport, arrivals, history
<1>3. Late' = Late /\ Waiting' = Waiting
  BY <1>2 DEF Late, Precedes, Waiting
<1>4. r \in Messages /\ processing' = {} /\ \A x \in InBatch : <<x, r>> \notin Late
  BY <1>1, <1>2 DEF ConsumerInv, LoopTypeOK, HandInv, LineInv
<1>5. batch' \in Seq(Messages) /\ Lined(batch', Late) /\ InBatch' = InBatch \cup {r}
  BY <1>1, <1>4, LinedAppend DEF ConsumerInv, LoopTypeOK, LineInv, InBatch
<1>6. Open' = Open
  BY <1>1, <1>2, <1>3, <1>5 DEF Open
<1>7. stranded = {}
  BY <1>1 DEF ConsumerInv, HandInv
<1>8. LoopTypeOK'
  BY <1>2, <1>4, <1>5 DEF ConsumerInv, LoopTypeOK
<1>9. LineInv'
  BY <1>1, <1>2, <1>3, <1>4, <1>5 DEF ConsumerInv, LineInv
<1>10. HandInv'
  BY <1>2, <1>4, <1>5, <1>6, <1>7 DEF ConsumerInv, HandInv, OneByOne
<1>11. CountInv'
  BY <1>2, <1>6 DEF ConsumerInv, CountInv
<1> QED BY <1>8, <1>9, <1>10, <1>11 DEF ConsumerInv

LEMMA DrainedInv == ConsumerInv /\ Drained => ConsumerInv'
<1> SUFFICES ASSUME ConsumerInv, Drained PROVE ConsumerInv'
  OBVIOUS
<1>1. /\ draining' \in BOOLEAN /\ up' \in BOOLEAN /\ clients' \in BOOLEAN
      /\ kind = "report" => processing = {}
  BY DEF Drained, ConsumerInv, LoopTypeOK
<1> QED BY <1>1, ConsumerIdle DEF Drained

(* What holds at the head of a batch that is being handled. *)
LEMMA HeadFacts ==
    ASSUME ConsumerInv, batch # <<>>
    PROVE  /\ up /\ stranded = {}
           /\ Head(batch) \in InBatch /\ Head(batch) \in Messages
           /\ Head(batch) \in sent /\ Head(batch) \in Open
           /\ Head(batch) \notin Waiting
           /\ Tail(batch) \in Seq(Messages) /\ Lined(Tail(batch), Late)
           /\ Range(Tail(batch)) = InBatch \ {Head(batch)}
           /\ \A m \in InBatch : m = Head(batch) \/ <<Head(batch), m>> \notin Late
           /\ \A w \in Waiting : <<Head(batch), w>> \notin Late
           /\ kind = "report" => Head(batch) \notin processing
<1>1. /\ Tail(batch) \in Seq(Messages) /\ Head(batch) \in Messages
      /\ InBatch = {Head(batch)} \cup Range(Tail(batch))
      /\ Lined(Tail(batch), Late)
      /\ \A x \in Range(Tail(batch)) : <<Head(batch), x>> \notin Late
  BY LinedTail DEF ConsumerInv, LoopTypeOK, LineInv, InBatch
<1>2. <<Head(batch), Head(batch)>> \in Late
  BY <1>1, LateFacts
<1>3. Range(Tail(batch)) = InBatch \ {Head(batch)}
  BY <1>1, <1>2
<1> QED BY <1>1, <1>2, <1>3 DEF ConsumerInv, HandInv, LineInv, Open

(* The head leaves the batch and its claim is gone. *)
LEMMA CompleteHand ==
    ASSUME ConsumerInv, batch # <<>>, ~ OneByOne => ~ draining,
           UNCHANGED <<kind, waiting, stranded, draining, up, sent, earlier>>,
           hit \subseteq hit',
           batch' = Tail(batch),
           kind # "report" => processing' = processing \ {Head(batch)},
           kind = "report" => processing' = {}
    PROVE  /\ LineInv' /\ HandInv'
           /\ Open' = Open \ {Head(batch)}
           /\ batch' \in Seq(Messages) /\ processing' \in SUBSET Messages
<1>1. /\ InBatch' = InBatch \ {Head(batch)} /\ Waiting' = Waiting
      /\ Late' \subseteq Late
      /\ kind = "report" => processing = {}
      /\ stranded = {}
      /\ batch' \in Seq(Messages) /\ Lined(batch', Late) /\ Lined(waiting, Late)
  BY HeadFacts, LateShrinks DEF InBatch, Waiting, ConsumerInv, HandInv, LineInv, OneByOne
<1>2. Open' = Open \ {Head(batch)}
  BY <1>1, HeadFacts DEF Open, ConsumerInv, HandInv
<1>3. processing' \subseteq processing /\ processing' \in SUBSET Messages
  BY <1>1 DEF ConsumerInv, LoopTypeOK
<1>4. LineInv'
  <2>1. Lined(batch', Late') /\ Lined(waiting', Late')
    BY <1>1, LinedFewer
  <2> QED BY <1>1, <1>3, <2>1 DEF ConsumerInv, LineInv
<1>5. HandInv'
  BY <1>1, <1>2, <1>3 DEF ConsumerInv, HandInv, OneByOne
<1> QED BY <1>1, <1>2, <1>3, <1>4, <1>5

LEMMA IgnoreInv ==
    ConsumerInv /\ batch # <<>> /\ (~ OneByOne => ~ draining) /\ Ignore(Head(batch))
      => ConsumerInv'
<1> SUFFICES ASSUME ConsumerInv, batch # <<>>, ~ OneByOne => ~ draining, Ignore(Head(batch))
             PROVE  ConsumerInv'
  OBVIOUS
<1> DEFINE m == Head(batch)
<1>0. /\ UNCHANGED <<kind, remembered, ran, undone, hit, faults, sent, earlier, up, clients>>
      /\ UNCHANGED <<waiting, stranded, draining>>
      /\ batch' = Tail(batch) /\ processing' = processing \ {m}
      /\ kind = "report" => processing' = {}
  BY DEF Ignore, Complete, arrivals, history, ConsumerInv, HandInv, OneByOne
<1>1. /\ LineInv' /\ HandInv' /\ Open' = Open \ {m}
      /\ batch' \in Seq(Messages) /\ processing' \in SUBSET Messages
  BY <1>0, CompleteHand
<1>2. LoopTypeOK'
  BY <1>0, <1>1 DEF ConsumerInv, LoopTypeOK
<1>3. CountInv'
  <2>2. ASSUME NEW x \in Actionable \cap sent, x \notin Open', ran[x] = 0
        PROVE  kind \in {"report", "bridge"} /\ x \in hit
    <3>1. CASE x = m
      BY <3>1, <2>2 DEF Ignore, ConsumerInv, CountInv
    <3>2. CASE x # m
      BY <3>2, <2>2, <1>1 DEF ConsumerInv, CountInv
    <3> QED BY <3>1, <3>2
  <2> QED BY <1>0, <2>2, <1>1 DEF ConsumerInv, CountInv
<1> QED BY <1>1, <1>2, <1>3 DEF ConsumerInv

LEMMA ActInv ==
    ConsumerInv /\ batch # <<>> /\ (~ OneByOne => ~ draining) /\ Act(Head(batch))
      => ConsumerInv'
<1> SUFFICES ASSUME ConsumerInv, batch # <<>>, ~ OneByOne => ~ draining, Act(Head(batch))
             PROVE  ConsumerInv'
  OBVIOUS
<1> DEFINE m == Head(batch)
<1>0. /\ UNCHANGED <<kind, undone, hit, faults, sent, earlier, up, clients>>
      /\ UNCHANGED <<waiting, stranded, draining>>
      /\ batch' = Tail(batch) /\ processing' = processing \ {m}
      /\ kind = "report" => processing' = {}
  BY DEF Act, Complete, arrivals, ConsumerInv, HandInv, OneByOne
<1>1. /\ LineInv' /\ HandInv' /\ Open' = Open \ {m}
      /\ batch' \in Seq(Messages) /\ processing' \in SUBSET Messages
  BY <1>0, CompleteHand
<1>2. m \in Messages /\ m \in sent /\ m \in Open /\ ran[m] \in Nat /\ undone[m] \in Nat
  BY HeadFacts DEF ConsumerInv, LoopTypeOK
<1>4. /\ ran' = [ran EXCEPT ![m] = @ + 1]
      /\ ran'[m] = ran[m] + 1 /\ ran'[m] > 0
      /\ \A x \in Messages : x # m => ran'[x] = ran[x]
      /\ remembered' = IF kind = "bridge" THEN remembered \cup {m} ELSE {}
  BY <1>2 DEF Act, ConsumerInv, LoopTypeOK
<1>3. LoopTypeOK'
  BY <1>0, <1>1, <1>2, <1>4 DEF ConsumerInv, LoopTypeOK
<1>5. CountInv'
  <2>1. /\ kind # "bridge" => remembered' = {}
        /\ \A x \in remembered' : ran'[x] > 0 \/ x \in hit
        /\ remembered' \subseteq sent
    BY <1>2, <1>4 DEF ConsumerInv, CountInv, LoopTypeOK
  <2>2. /\ \A x \in Messages \ sent : ran'[x] = 0
        /\ \A x \in Open' : IF kind = "report" THEN ran'[x] = 0 ELSE ran'[x] <= undone[x]
    <3>1. Open \subseteq Messages
      BY DEF ConsumerInv, LoopTypeOK, HandInv
    <3>2. \A x \in Open' : x \in Open /\ ran'[x] = ran[x]
      BY <1>1, <1>4, <3>1
    <3> QED BY <1>2, <1>4, <3>2 DEF ConsumerInv, CountInv
  <2>3. \A x \in Messages : ran'[x] <= 1 + (IF kind = "report" THEN 0 ELSE undone[x])
    <3>1. IF kind = "report" THEN ran[m] = 0 ELSE ran[m] <= undone[m]
      BY <1>2 DEF ConsumerInv, CountInv
    <3>2. \A x \in Messages : ran[x] <= 1 + (IF kind = "report" THEN 0 ELSE undone[x])
      BY DEF ConsumerInv, CountInv
    <3>3. ran'[m] <= 1 + (IF kind = "report" THEN 0 ELSE undone[m])
      BY <3>1, <1>2, <1>4
    <3> QED BY <3>2, <3>3, <1>4
  <2>4. \A x \in Actionable \cap sent :
          x \notin Open' /\ ran'[x] = 0 => kind \in {"report", "bridge"} /\ x \in hit
    BY <1>1, <1>4 DEF ConsumerInv, CountInv, LoopTypeOK
  <2> QED BY <1>0, <1>4, <2>1, <2>2, <2>3, <2>4 DEF CountInv
<1> QED BY <1>1, <1>3, <1>5 DEF ConsumerInv

-----------------------------------------------------------------------------
(* Acting once more on a message in hand, without completing it: its counts go *)
(* up together.                                                                *)
LEMMA SpoiltFacts ==
    ASSUME ConsumerInv, NEW m \in Messages, Spoilt(m)
    PROVE  /\ faults' \in 0 .. MaxFaults
           /\ ran' \in [Messages -> Nat] /\ undone' \in [Messages -> Nat]
           /\ \A x \in Messages : x # m => ran'[x] = ran[x] /\ undone'[x] = undone[x]
           /\ ran'[m] = ran[m] \/ ran'[m] = ran[m] + 1
           /\ ran'[m] - ran[m] = undone'[m] - undone[m]
           /\ \A x \in Messages : ran[x] \in Nat /\ undone[x] \in Nat
BY DEF ConsumerInv, LoopTypeOK, Spoilt

(* The counts after a failure, when all that is open then was open before.  The *)
(* report queue has nothing left of the message, and the failure is recorded.   *)
LEMMA SpoiltCounts ==
    ASSUME ConsumerInv, NEW m \in Open, m \in sent,
           Spoilt(m) \/ UNCHANGED <<ran, undone>>, UNCHANGED <<kind, sent>>,
           Open' \subseteq Open, hit \subseteq hit', Open \ Open' \subseteq hit',
           kind = "report" => m \notin Open',
           kind \notin {"report", "bridge"} => Open' = Open,
           remembered' \subseteq remembered \cup {m},
           remembered' \subseteq remembered \cup hit',
           kind # "bridge" => remembered' = {}
    PROVE  CountInv'
<1>0. Open \subseteq Messages /\ m \in Messages
  BY DEF ConsumerInv, LoopTypeOK, HandInv
<1>1. /\ \A x \in Messages : x # m => ran'[x] = ran[x] /\ undone'[x] = undone[x]
      /\ ran'[m] >= ran[m] /\ ran'[m] <= ran[m] + 1
      /\ ran'[m] - ran[m] = undone'[m] - undone[m]
      /\ \A x \in Messages : ran[x] \in Nat /\ undone[x] \in Nat
      /\ \A x \in Messages : ran'[x] \in Nat /\ undone'[x] \in Nat
  <2>1. CASE Spoilt(m)
    BY <1>0, <2>1, SpoiltFacts
  <2>2. CASE UNCHANGED <<ran, undone>>
    BY <1>0, <2>2 DEF ConsumerInv, LoopTypeOK
  <2> QED BY <2>1, <2>2
<1>2. IF kind = "report" THEN ran[m] = 0 ELSE ran[m] <= undone[m]
  BY DEF ConsumerInv, CountInv
<1>3. IF kind = "report" THEN ran'[m] <= 1 ELSE ran'[m] <= undone'[m]
  BY <1>0, <1>1, <1>2
<1>4. \A x \in remembered' : ran'[x] > 0 \/ x \in hit'
  <2>1. SUFFICES ASSUME NEW x \in remembered, x \notin hit
                 PROVE  ran'[x] > 0
    OBVIOUS
  <2>2. x \in Messages /\ ran[x] > 0
    BY <2>1 DEF ConsumerInv, CountInv, LoopTypeOK
  <2> QED BY <2>2, <1>1
<1>5. \A x \in Messages \ sent : ran'[x] = 0
  BY <1>1 DEF ConsumerInv, CountInv
<1>6. \A x \in Open' : IF kind = "report" THEN ran'[x] = 0 ELSE ran'[x] <= undone'[x]
  <2>1. SUFFICES ASSUME NEW x \in Open'
                 PROVE  IF kind = "report" THEN ran'[x] = 0 ELSE ran'[x] <= undone'[x]
    OBVIOUS
  <2>2. CASE x = m
    BY <2>1, <2>2, <1>3
  <2>3. CASE x # m
    BY <2>1, <2>3, <1>0, <1>1 DEF ConsumerInv, CountInv
  <2> QED BY <2>2, <2>3
<1>7. \A x \in Messages : ran'[x] <= 1 + (IF kind = "report" THEN 0 ELSE undone'[x])
  <2>1. SUFFICES ASSUME NEW x \in Messages
                 PROVE  ran'[x] <= 1 + (IF kind = "report" THEN 0 ELSE undone'[x])
    OBVIOUS
  <2>2. CASE x = m
    BY <2>2, <1>0, <1>1, <1>3
  <2>3. CASE x # m
    BY <2>1, <2>3, <1>1 DEF ConsumerInv, CountInv
  <2> QED BY <2>2, <2>3
<1>8. \A x \in Actionable \cap sent :
        x \notin Open' /\ ran'[x] = 0 => kind \in {"report", "bridge"} /\ x \in hit'
  <2>1. SUFFICES ASSUME NEW x \in Actionable \cap sent, x \notin Open', ran'[x] = 0
                 PROVE  kind \in {"report", "bridge"} /\ x \in hit'
    OBVIOUS
  <2>2. CASE x \in Open
    BY <2>1, <2>2
  <2>3. CASE x \notin Open
    BY <2>1, <2>3, <1>1 DEF ConsumerInv, CountInv
  <2> QED BY <2>2, <2>3
<1>9. remembered' \subseteq sent
  BY DEF ConsumerInv, CountInv
<1> QED BY <1>4, <1>5, <1>6, <1>7, <1>8, <1>9 DEF CountInv

(* The process is gone: what it had claimed is stranded. *)
LEMMA EndsHand ==
    ASSUME ConsumerInv, Ends, UNCHANGED <<kind, sent, earlier>>,
           hit \subseteq hit', kind = "report" => processing \subseteq hit',
           NEW back \in SUBSET processing, kind # "report" \/ back = {},
           IF back = {} THEN waiting' = waiting ELSE waiting' \in ByNumber(Waiting \cup back),
           stranded' = stranded \cup (processing \ back)
    PROVE  /\ LineInv' /\ HandInv' /\ Open' \subseteq Open
           /\ Open \ Open' \subseteq InBatch
           /\ kind # "report" => Open' = Open
           /\ kind = "report" => Open' = Waiting \cup processing \cup stranded
           /\ batch' \in Seq(Messages) /\ waiting' \in Seq(Messages)
           /\ stranded' \in SUBSET Messages
<1>0. /\ processing \subseteq Messages /\ stranded \subseteq Messages /\ Waiting \subseteq Messages
      /\ Late' \subseteq Late
  BY RangeType, LateShrinks DEF ConsumerInv, LoopTypeOK, Waiting
<1>1. /\ waiting' \in Seq(Messages) /\ Waiting' = Waiting \cup back /\ Lined(waiting', Late)
  <2>1. CASE back = {}
    BY <2>1 DEF ConsumerInv, LoopTypeOK, LineInv, Waiting
  <2>2. CASE back # {}
    BY <1>0, <2>2, LinedSorted, LateFacts DEF Waiting
  <2> QED BY <2>1, <2>2
<1>2. /\ InBatch' = {} /\ batch' = <<>> /\ processing' = {} /\ ~ up' /\ ~ draining'
      /\ batch' \in Seq(Messages)
  BY RangeEmpty DEF InBatch, Ends
<1>3. /\ Open' = Waiting \cup processing \cup stranded
      /\ Open' \subseteq Open /\ Open \ Open' \subseteq InBatch
      /\ kind # "report" => Open' = Open
  BY <1>1, <1>2 DEF Open, ConsumerInv, HandInv
<1>4. processing \cap Waiting = {} /\ stranded \cap Waiting = {}
  <2>1. \A m \in processing : m \notin Waiting
    BY <1>0, LateFacts DEF ConsumerInv, LineInv
  <2> QED BY <2>1 DEF ConsumerInv, LineInv
<1>5. LineInv'
  <2>1. Lined(waiting', Late')
    BY <1>0, <1>1, LinedFewer
  <2>2. stranded' \cap Waiting' = {}
    BY <1>1, <1>4 DEF ConsumerInv, HandInv
  <2> QED BY <1>2, <2>1, <2>2, RangeEmpty DEF LineInv
<1>6. HandInv'
  BY <1>2, <1>3 DEF ConsumerInv, HandInv, OneByOne
<1> QED BY <1>0, <1>1, <1>2, <1>3, <1>5, <1>6

LEMMA FailInv ==
    ConsumerInv /\ batch # <<>> /\ (~ OneByOne => ~ draining) /\ Fail(Head(batch))
      => ConsumerInv'
<1> SUFFICES ASSUME ConsumerInv, batch # <<>>, ~ OneByOne => ~ draining, Fail(Head(batch))
             PROVE  ConsumerInv'
  OBVIOUS
<1> DEFINE m == Head(batch)
<1>1. /\ m \in Messages /\ m \in Open /\ m \in sent /\ m \notin Waiting
      /\ m \in InBatch /\ stranded = {}
  BY HeadFacts
<1>2. /\ Spoilt(m) /\ hit' = hit \cup {m}
      /\ UNCHANGED <<kind, sent, earlier, clients>> /\ hit \subseteq hit'
  BY DEF Fail, arrivals
<1>3. /\ LineInv' /\ HandInv' /\ Open' \subseteq Open /\ Open \ Open' \subseteq {m}
      /\ kind = "report" => m \notin Open'
      /\ kind \notin {"report", "bridge"} => Open' = Open
      /\ batch' \in Seq(Messages) /\ waiting' \in Seq(Messages)
      /\ processing' \in SUBSET Messages /\ stranded' \in SUBSET Messages
      /\ up' \in BOOLEAN /\ draining' \in BOOLEAN
      /\ remembered' \subseteq remembered \cup {m}
      /\ kind # "bridge" => remembered' = {}
  <2>1. CASE /\ kind = "runner"
             /\ waiting' \in ByNumber(Waiting \cup {m})
             /\ stranded' = stranded \cup (processing \ {m})
             /\ Ends
    <3>1. {m} \in SUBSET processing /\ {m} # {}
      BY <2>1, <1>1 DEF ConsumerInv, HandInv
    <3>2. /\ LineInv' /\ HandInv' /\ Open' = Open
          /\ batch' \in Seq(Messages) /\ waiting' \in Seq(Messages)
          /\ stranded' \in SUBSET Messages
      BY <2>1, <3>1, <1>2, EndsHand
    <3> QED BY <2>1, <3>2 DEF Ends
  <2>2. CASE OneByOne /\ Restore(m) /\ batch' = <<>> /\ UNCHANGED up /\ draining' \in BOOLEAN
    <3>0. kind # "report" /\ InBatch = {m} /\ processing = {m} /\ up
      BY <2>2, <1>1, HeadFacts DEF ConsumerInv, HandInv, OneByOne
    <3>1. InBatch' = {} /\ batch' \in Seq(Messages) /\ Lined(batch', Late')
      BY <2>2, RangeEmpty DEF InBatch
    <3>2. /\ Late' \subseteq Late /\ Waiting \cup {m} \in SUBSET Messages
      BY <1>1, <1>2, LateShrinks, RangeType DEF ConsumerInv, LoopTypeOK, Waiting
    <3>3. /\ waiting' \in Seq(Messages) /\ Waiting' = Waiting \cup {m}
          /\ Lined(waiting', Late)
      BY <2>2, <3>0, <3>2, LinedSorted, LateFacts DEF Restore, Waiting
    <3>4. Lined(waiting', Late')
      BY <3>2, <3>3, LinedFewer
    <3>5. processing' = {} /\ stranded' = {} /\ Open' = Open
      BY <2>2, <3>0, <3>1, <3>3, <1>1 DEF Open, Restore
    <3>6. LineInv' /\ HandInv'
      <4>1. LineInv'
        BY <3>1, <3>4, <3>5 DEF LineInv
      <4>2. HandInv'
        BY <2>2, <3>0, <3>1, <3>5, <1>2 DEF ConsumerInv, HandInv, OneByOne
      <4> QED BY <4>1, <4>2
    <3>7. remembered' \subseteq remembered \cup {m} /\ (kind # "bridge" => remembered' = {})
      BY <2>2 DEF Fail, Ends, ConsumerInv, CountInv, OneByOne
    <3>8. up' \in BOOLEAN
      BY <2>2 DEF ConsumerInv, LoopTypeOK
    <3> QED BY <2>2, <3>0, <3>1, <3>3, <3>5, <3>6, <3>7, <3>8
  <2>3. CASE kind = "report" /\ batch' = Tail(batch) /\ UNCHANGED <<files, draining, up, remembered>>
    <3>1. UNCHANGED <<waiting, stranded, processing>> /\ processing = {}
      BY <2>3 DEF files, ConsumerInv, HandInv, OneByOne
    <3>2. /\ LineInv' /\ HandInv' /\ Open' = Open \ {m}
          /\ batch' \in Seq(Messages) /\ processing' \in SUBSET Messages
      BY <2>3, <3>1, <1>2, CompleteHand
    <3> QED BY <2>3, <3>1, <3>2, <1>1 DEF ConsumerInv, LoopTypeOK, CountInv
  <2>4. OneByOne /\ UNCHANGED draining => draining' \in BOOLEAN
    BY DEF ConsumerInv, LoopTypeOK
  <2> QED BY <2>1, <2>2, <2>3, <2>4 DEF Fail, OneByOne
<1>4. LoopTypeOK'
  BY <1>1, <1>2, <1>3, SpoiltFacts DEF ConsumerInv, LoopTypeOK
<1>5. CountInv'
  BY <1>1, <1>2, <1>3, SpoiltCounts
<1> QED BY <1>3, <1>4, <1>5 DEF ConsumerInv

LEMMA DieInv == ConsumerInv /\ Die => ConsumerInv'
<1> SUFFICES ASSUME ConsumerInv, Die PROVE ConsumerInv'
  OBVIOUS
<1>1. /\ Ends /\ hit' = hit \cup InBatch \cup processing /\ stranded' = stranded \cup processing
      /\ UNCHANGED <<kind, sent, earlier, waiting, clients>>
  BY DEF Die, arrivals
<1>2. /\ LineInv' /\ HandInv' /\ Open' \subseteq Open /\ Open \ Open' \subseteq InBatch
      /\ kind # "report" => Open' = Open
      /\ kind = "report" => Open' = Waiting \cup processing \cup stranded
      /\ batch' \in Seq(Messages) /\ stranded' \in SUBSET Messages
  <2>1. processing \ {} = processing /\ {} \in SUBSET processing
    OBVIOUS
  <2> QED BY <1>1, <2>1, EndsHand
<1>3. /\ remembered' = {} /\ processing' = {} /\ up' = FALSE /\ draining' = FALSE
      /\ Open \ Open' \subseteq hit' /\ hit' \in SUBSET Messages
  BY <1>1, <1>2, RangeType DEF Ends, InBatch, ConsumerInv, LoopTypeOK
<1>4. /\ faults' \in 0 .. MaxFaults
      /\ ran' \in [Messages -> Nat] /\ undone' \in [Messages -> Nat]
  <2>1. CASE batch # <<>> /\ Spoilt(Head(batch))
    BY <2>1, HeadFacts, SpoiltFacts
  <2>2. CASE faults < MaxFaults /\ faults' = faults + 1 /\ UNCHANGED <<ran, undone>>
    BY <2>2 DEF ConsumerInv, LoopTypeOK
  <2> QED BY <2>1, <2>2 DEF Die
<1>5. LoopTypeOK'
  BY <1>1, <1>2, <1>3, <1>4 DEF ConsumerInv, LoopTypeOK
<1>6. CountInv'
  <2>1. CASE batch # <<>> /\ (~ OneByOne => ~ draining) /\ Spoilt(Head(batch))
    <3>1. /\ Head(batch) \in Open /\ Head(batch) \in sent /\ Head(batch) \notin Waiting
          /\ stranded = {}
          /\ kind = "report" => Head(batch) \notin processing
      BY <2>1, HeadFacts
    <3> QED BY <2>1, <3>1, <1>1, <1>2, <1>3, SpoiltCounts
  <2>2. CASE UNCHANGED <<ran, undone>>
    <3>1. \A x \in Open' : IF kind = "report" THEN ran[x] = 0 ELSE ran[x] <= undone[x]
      BY <1>2 DEF ConsumerInv, CountInv
    <3>2. \A x \in Actionable \cap sent :
            x \notin Open' /\ ran[x] = 0 => kind \in {"report", "bridge"} /\ x \in hit'
      BY <1>1, <1>2, <1>3 DEF ConsumerInv, CountInv
    <3> QED BY <2>2, <3>1, <3>2, <1>1, <1>3 DEF ConsumerInv, CountInv
  <2> QED BY <2>1, <2>2 DEF Die
<1> QED BY <1>2, <1>5, <1>6 DEF ConsumerInv

(* In every reachable state the queue files, the batch and the counts agree.     *)
THEOREM ConsumerInvariant == LoopSpec => []ConsumerInv
<1>1. LoopInit => ConsumerInv
  BY ConsumerInit
<1>2. ConsumerInv /\ [LoopNext]_loopVars => ConsumerInv'
  <2> SUFFICES ASSUME ConsumerInv, [LoopNext]_loopVars PROVE ConsumerInv'
    OBVIOUS
  <2>1. CASE Handle
    BY <2>1, IgnoreInv, ActInv, FailInv DEF Handle
  <2>2. CASE UNCHANGED loopVars
    BY <2>2, ConsumerIdle DEF loopVars, ConsumerInv, LoopTypeOK
  <2>3. CASE Drain
    BY <2>3, ClaimInv, TakeInv, DrainedInv DEF Drain
  <2>4. CASE \E m \in Messages : Send(m)
    BY <2>4, ConsumerSend
  <2> QED BY <2>1, <2>2, <2>3, <2>4, ConsumerPoll, DieInv, RestartInv, ConnectInv DEF LoopNext
<1> QED BY <1>1, <1>2, PTL DEF LoopSpec

(* No loop loses a message or acts on it twice without a reason, for any number *)
(* of messages and failures, whichever loop it is.                              *)
THEOREM ConsumersExplained == LoopSpec => []Explained
<1>1. ConsumerInv => Explained
  <2> SUFFICES ASSUME ConsumerInv PROVE Explained
    OBVIOUS
  <2>2. Waiting \cap (processing \cup stranded) = {}
    <3>1. \A m \in processing : m \notin Waiting
      BY LateFacts DEF ConsumerInv, LoopTypeOK, LineInv
    <3> QED BY <3>1 DEF ConsumerInv, LineInv
  <2>3. ASSUME NEW m \in Actionable, Settled(m), ran[m] = 0
        PROVE  kind \in {"report", "bridge"} /\ m \in hit
    <3>1. m \in sent /\ m \notin Open
      BY <2>3 DEF Settled, Open
    <3> QED BY <2>3, <3>1 DEF ConsumerInv, CountInv
  <2>5. \A m \in Actionable : ran[m] <= 1 + (IF kind = "report" THEN 0 ELSE undone[m])
    BY DEF ConsumerInv, CountInv
  <2> QED BY <2>2, <2>3, <2>5 DEF Explained, ConsumerInv, HandInv
<1> QED BY <1>1, ConsumerInvariant, PTL

(* Messages are acted on in order, for any number of them, in whatever order they *)
(* arrive and whenever the process dies.                                          *)
THEOREM ActedInOrderHolds == LoopSpec => ActedInOrder
<1>1. ASSUME ConsumerInv, [LoopNext]_loopVars,
             NEW m \in Messages, ran[m] = 0, ran'[m] = 1,
             NEW older \in Actionable, Precedes(older, m)
      PROVE  ran[older] > 0 \/ Settled(older)
  <2>1. batch # <<>> /\ m = Head(batch) /\ (~ OneByOne => ~ draining)
    <3>1. ran' # ran
      BY <1>1
    <3>2. ASSUME batch # <<>>, Spoilt(Head(batch)) \/ Act(Head(batch))
          PROVE  m = Head(batch)
      BY <3>2, <1>1, HeadFacts DEF Spoilt, Act, ConsumerInv, LoopTypeOK
    <3>3. ~ \E x \in Messages : Send(x)
      BY <3>1 DEF Send, history
    <3>4. Handle \/ Die
      BY <3>1, <3>3, <1>1 DEF LoopNext, loopVars, history, Poll, Drain, ClaimNext, TakeReport,
         Drained, Restart, Connect
    <3>5. CASE Handle
      BY <3>1, <3>2, <3>5 DEF Handle, Ignore, Fail, history
    <3>6. CASE Die
      BY <3>1, <3>2, <3>6 DEF Die
    <3> QED BY <3>4, <3>5, <3>6
  <2>2. older \in Messages /\ older \in sent /\ <<m, older>> \in Late
    <3>1. older \in sent
      BY <1>1 DEF Precedes, ConsumerInv, HandInv
    <3> QED BY <1>1, <3>1, LateFacts
  <2>3. m # older
    <3>1. CASE kind # "report"
      BY <3>1, <1>1 DEF Precedes, Messages
    <3>2. CASE m \notin earlier[m]
      BY <3>2, <1>1 DEF Precedes
    <3> QED BY <3>1, <3>2, <1>1, <2>1, HeadFacts DEF ConsumerInv, HandInv
  <2>4. older \notin InBatch /\ older \notin Waiting /\ stranded = {}
    BY <1>1, <2>1, <2>2, <2>3, HeadFacts
  <2>5. older \notin processing
    BY <1>1, <2>1, <2>4 DEF ConsumerInv, HandInv, OneByOne
  <2> QED BY <2>2, <2>4, <2>5 DEF Settled
<1>2. ConsumerInv /\ [LoopNext]_loopVars =>
        [\A m \in Messages : ran[m] = 0 /\ ran'[m] = 1 =>
            \A older \in Actionable :
                Precedes(older, m) => ran[older] > 0 \/ Settled(older)]_loopVars
  BY <1>1
<1> QED BY <1>2, ConsumerInvariant, PTL DEF LoopSpec, ActedInOrder
=============================================================================
