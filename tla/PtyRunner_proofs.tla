--------------------------- MODULE PtyRunner_proofs ---------------------------
(***************************************************************************)
(* Proofs about the PTY runner: TurnWatched and OneTurnAtATime, for any     *)
(* number of messages, queue sizes, exits and restarts.  RunnerInv is the   *)
(* inductive invariant: typed, accepted and pending messages stand in line, *)
(* nothing behind what it precedes, and every typed message but the current *)
(* one has exactly one end.                                                 *)
(***************************************************************************)
EXTENDS PtyRunner, SequenceTheorems, FiniteSetTheorems, TLAPS

USE PtyConstants DEF PtyConstants

\* The pairs of messages that may not stand in this order.
Late == {q \in Messages \X Messages : q[1] = q[2] \/ Precedes(q[2], q[1])}

Lined(s, R) == \A i, j \in 1 .. Len(s) : i < j => <<s[i], s[j]>> \notin R

\* Nothing in A may not stand before something in B.
Clear(A, B, R) == \A m \in A, x \in B : <<m, x>> \notin R

EndsIn(e, m) == {i \in 1 .. Len(e) : e[i][1] = m}

\* Every typed message has one end in e, but for the current one, which was typed
\* last and has none; and nothing else has an end.
Closed(cur, e, typ) ==
    /\ cur # None => typ # <<>> /\ cur = typ[Len(typ)]
    /\ \A i \in 1 .. Len(e) : e[i][1] \in Range(typ)
    /\ \A m \in Range(typ) : IF m = cur THEN EndsIn(e, m) = {}
                                        ELSE \E i \in 1 .. Len(e) : EndsIn(e, m) = {i}

Watched(cur, wd, state) == cur # None => wd /\ state = "ready"

\* A timer that is set belongs to the current turn or to one that timed out.
Timer(it, cur, e) ==
    it \notin {None, cur} => \E i \in EndsIn(e, it) : e[i][2] = "timeout"

OrderInv ==
    /\ Lined(queue, Late) /\ Lined(typed, Late) /\ Lined(pending, Late)
    /\ Len(queue) <= MaxQueue
    /\ Clear(Typed, InQueue, Late)
    /\ Clear(InQueue \cup Typed, Waiting, Late)
    /\ Waiting \cup InQueue \cup Typed \subseteq sent
    /\ \A m \in Messages : earlier[m] \subseteq sent

Accounted ==
    running => \A m \in Typable \cap sent :
                  m \in Waiting \cup InQueue \cup Typed \cup dropped

RunnerInv ==
    /\ TypeOK
    /\ OrderInv
    /\ Accounted
    /\ running => Closed(current, ended, typed)
    /\ ~ running => current = None
    /\ Watched(current, watchdog, pty)
    /\ Timer(idleTimer, current, ended)

-----------------------------------------------------------------------------
LEMMA RangeOf ==
    ASSUME NEW S, NEW s \in Seq(S)
    PROVE  /\ Range(s) = {s[i] : i \in 1 .. Len(s)}
           /\ Range(s) \subseteq S
BY LenProperties, ElementOfSeq DEF Range

LEMMA RangeAppend ==
    ASSUME NEW S, NEW s \in Seq(S), NEW x \in S
    PROVE  /\ Append(s, x) \in Seq(S) /\ Append(s, x) # <<>>
           /\ Len(Append(s, x)) = Len(s) + 1
           /\ \A i \in 1 .. Len(s) : Append(s, x)[i] = s[i]
           /\ Append(s, x)[Len(s) + 1] = x
           /\ Range(Append(s, x)) = Range(s) \cup {x}
<1>1. /\ Append(s, x) \in Seq(S) /\ Append(s, x) # <<>>
      /\ Len(Append(s, x)) = Len(s) + 1 /\ Len(s) \in Nat
      /\ \A i \in 1 .. Len(s) : Append(s, x)[i] = s[i]
      /\ Append(s, x)[Len(s) + 1] = x
  BY AppendProperties, LenProperties
<1>2. Range(Append(s, x)) = {Append(s, x)[i] : i \in 1 .. Len(s) + 1}
  BY <1>1, RangeOf
<1>3. Range(s) = {s[i] : i \in 1 .. Len(s)}
  BY RangeOf
<1>4. Range(Append(s, x)) \subseteq Range(s) \cup {x}
  BY <1>1, <1>2, <1>3
<1>5. x \in Range(Append(s, x))
  BY <1>1, <1>2
<1>6. Range(s) \subseteq Range(Append(s, x))
  BY <1>1, <1>2, <1>3
<1> QED BY <1>1, <1>4, <1>5, <1>6

LEMMA RangeTail ==
    ASSUME NEW S, NEW s \in Seq(S), s # <<>>
    PROVE  /\ Tail(s) \in Seq(S) /\ Head(s) \in S /\ Head(s) = s[1]
           /\ Len(s) \in Nat \ {0} /\ Len(Tail(s)) = Len(s) - 1
           /\ \A i \in 1 .. Len(s) - 1 : Tail(s)[i] = s[i + 1]
           /\ Range(s) = Range(Tail(s)) \cup {Head(s)}
<1>1. /\ Tail(s) \in Seq(S) /\ Head(s) \in S /\ Head(s) = s[1]
      /\ Len(s) \in Nat \ {0} /\ Len(Tail(s)) = Len(s) - 1
      /\ \A i \in 1 .. Len(s) - 1 : Tail(s)[i] = s[i + 1]
  BY HeadTailProperties, EmptySeq
<1>2. /\ Range(s) = {s[i] : i \in 1 .. Len(s)}
      /\ Range(Tail(s)) = {Tail(s)[i] : i \in 1 .. Len(s) - 1}
  BY <1>1, RangeOf
<1>3. Range(Tail(s)) \cup {Head(s)} \subseteq Range(s)
  BY <1>1, <1>2
<1>4. Range(s) \subseteq Range(Tail(s)) \cup {Head(s)}
  <2>1. SUFFICES ASSUME NEW i \in 1 .. Len(s), i # 1 PROVE s[i] \in Range(Tail(s))
    BY <1>1, <1>2
  <2>2. i - 1 \in 1 .. Len(s) - 1 /\ Tail(s)[i - 1] = s[i]
    BY <2>1, <1>1
  <2> QED BY <2>2, <1>2
<1> QED BY <1>1, <1>3, <1>4

LEMMA LateFacts ==
    /\ \A m \in Messages : <<m, m>> \in Late
    /\ \A x, y \in Messages : <<x, y>> \in Late <=> x = y \/ Precedes(y, x)
    /\ \A x, y \in Messages : x < y => <<x, y>> \notin Late
<1>1. \A x, y \in Messages : <<x, y>> \in Late <=> x = y \/ Precedes(y, x)
  BY DEF Late
<1>2. ASSUME NEW x \in Messages, NEW y \in Messages, x < y
      PROVE  <<x, y>> \notin Late
  BY <1>1, <1>2 DEF Precedes, Messages
<1> QED BY <1>1, <1>2

LEMMA LateStays ==
    ASSUME UNCHANGED <<arrivals, failures>>
    PROVE  Late' = Late
BY DEF arrivals, failures, Late, Precedes

LEMMA LinedFewer ==
    ASSUME NEW s \in Seq(Messages), NEW R, NEW Q, Lined(s, R),
           \A x, y \in Range(s) : <<x, y>> \in Q => <<x, y>> \in R
    PROVE  Lined(s, Q)
BY RangeOf DEF Lined

LEMMA NoneIsNoMessage == \A m \in Messages : m # None /\ m \in Nat
BY DEF Messages

-----------------------------------------------------------------------------
(* What processQueue does to queues that are in line. *)
LEMMA ProcessQueueOrder ==
    ASSUME NEW q \in Seq(Messages), NEW cur \in Messages \cup {None}, NEW state,
           NEW wd \in BOOLEAN, ProcessQueue(q, cur, state, wd),
           typed \in Seq(Messages), Lined(q, Late), Lined(typed, Late),
           Clear(Typed, Range(q), Late)
    PROVE  /\ queue' \in Seq(Messages) /\ typed' \in Seq(Messages)
           /\ current' \in Messages \cup {None} /\ watchdog' \in BOOLEAN
           /\ Lined(queue', Late) /\ Lined(typed', Late) /\ Len(queue') <= Len(q)
           /\ Clear(Range(typed'), Range(queue'), Late)
           /\ Range(queue') \cup Range(typed') = Range(q) \cup Typed
           /\ \/ /\ queue' = q /\ current' = cur /\ watchdog' = wd /\ typed' = typed
              \/ /\ cur = None /\ state = "ready" /\ watchdog' = TRUE
                 /\ current' \in Messages /\ current' \notin Typed
                 /\ typed' = Append(typed, current')
<1>1. CASE state = "ready" /\ cur = None /\ q # <<>>
  <2> DEFINE h == Head(q)
  <2>1. /\ queue' = Tail(q) /\ current' = h /\ watchdog' = TRUE
        /\ typed' = Append(typed, h)
    BY <1>1 DEF ProcessQueue
  <2>2. /\ Tail(q) \in Seq(Messages) /\ h \in Messages /\ h = q[1]
        /\ Len(q) \in Nat \ {0} /\ Len(Tail(q)) = Len(q) - 1
        /\ \A i \in 1 .. Len(q) - 1 : Tail(q)[i] = q[i + 1]
        /\ Range(q) = Range(Tail(q)) \cup {h}
        /\ Range(Tail(q)) = {Tail(q)[i] : i \in 1 .. Len(q) - 1}
    <3>1. /\ Tail(q) \in Seq(Messages) /\ h \in Messages /\ h = q[1]
          /\ Len(q) \in Nat \ {0} /\ Len(Tail(q)) = Len(q) - 1
          /\ \A i \in 1 .. Len(q) - 1 : Tail(q)[i] = q[i + 1]
          /\ Range(q) = Range(Tail(q)) \cup {h}
      BY <1>1, RangeTail
    <3>2. Range(Tail(q)) = {Tail(q)[i] : i \in 1 .. Len(Tail(q))}
      BY <3>1, RangeOf
    <3> QED BY <3>1, <3>2
  <2>3. /\ Append(typed, h) \in Seq(Messages) /\ Len(typed) \in Nat
        /\ Len(Append(typed, h)) = Len(typed) + 1
        /\ \A i \in 1 .. Len(typed) : Append(typed, h)[i] = typed[i]
        /\ Append(typed, h)[Len(typed) + 1] = h
        /\ Range(Append(typed, h)) = Range(typed) \cup {h}
        /\ Range(typed) = {typed[i] : i \in 1 .. Len(typed)}
    BY <2>2, RangeAppend, LenProperties, RangeOf
  <2>4. h \notin Typed
    BY <2>2, LateFacts DEF Clear
  <2>5. Lined(Tail(q), Late)
    BY <2>2 DEF Lined
  <2>6. Lined(Append(typed, h), Late)
    <3>1. \A i \in 1 .. Len(typed) : <<typed[i], h>> \notin Late
      <4>1. h \in Range(q) /\ \A i \in 1 .. Len(typed) : typed[i] \in Typed
        BY <2>2, <2>3 DEF Typed
      <4> QED BY <4>1 DEF Clear
    <3> QED BY <2>3, <3>1 DEF Lined
  <2>7. \A x \in Range(Tail(q)) : <<h, x>> \notin Late
    <3>1. \A i \in 1 .. Len(q) - 1 : 1 < i + 1 /\ i + 1 \in 1 .. Len(q) /\ 1 \in 1 .. Len(q)
      BY <2>2
    <3>2. \A i \in 1 .. Len(q) - 1 : <<q[1], q[i + 1]>> \notin Late
      BY <3>1 DEF Lined
    <3> QED BY <2>2, <3>2
  <2>8. Clear(Range(typed'), Range(queue'), Late)
    BY <2>1, <2>2, <2>3, <2>7 DEF Typed, Clear
  <2>9. Len(queue') <= Len(q) /\ Lined(queue', Late) /\ Lined(typed', Late)
    BY <2>1, <2>2, <2>5, <2>6
  <2>10. Range(queue') \cup Range(typed') = Range(q) \cup Typed
    BY <2>1, <2>2, <2>3 DEF Typed
  <2> QED BY <1>1, <2>1, <2>2, <2>3, <2>4, <2>8, <2>9, <2>10
<1>2. CASE ~ (state = "ready" /\ cur = None /\ q # <<>>)
  <2>1. queue' = q /\ current' = cur /\ watchdog' = wd /\ typed' = typed
    BY <1>2 DEF ProcessQueue
  <2> QED BY <2>1, LenProperties DEF Typed
<1> QED BY <1>1, <1>2

(* A turn that ends: its message has its one end. *)
LEMMA EndTurnCloses ==
    ASSUME NEW reason \in Reasons, EndTurn(reason), ended \in Seq(Messages \X Reasons),
           current \in Messages \cup {None}, typed \in Seq(Messages),
           Closed(current, ended, typed)
    PROVE  /\ ended' \in Seq(Messages \X Reasons)
           /\ Closed(None, ended', typed)
           /\ \A m : EndsIn(ended, m) \subseteq EndsIn(ended', m)
           /\ \A i \in 1 .. Len(ended) : ended'[i] = ended[i]
           /\ current # None => \E i \in EndsIn(ended', current) : ended'[i][2] = reason
<1>0. Len(ended) \in Nat /\ Typed \subseteq Messages
  BY LenProperties, RangeOf DEF Typed
<1>1. CASE current = None
  <2>1. ended' = ended
    BY <1>1 DEF EndTurn
  <2> QED BY <1>1, <2>1
<1>2. CASE current # None
  <2> DEFINE n == Len(ended) + 1
  <2>1. /\ ended' = Append(ended, <<current, reason>>)
        /\ <<current, reason>> \in Messages \X Reasons
    BY <1>2 DEF EndTurn
  <2>2. /\ ended' \in Seq(Messages \X Reasons) /\ Len(ended') = n
        /\ \A i \in 1 .. Len(ended) : ended'[i] = ended[i]
        /\ ended'[n] = <<current, reason>>
    BY <2>1, RangeAppend
  <2>3. EndsIn(ended', current) = EndsIn(ended, current) \cup {n}
    BY <1>0, <2>2 DEF EndsIn
  <2>4. \A m : m # current => EndsIn(ended', m) = EndsIn(ended, m)
    BY <1>0, <2>2 DEF EndsIn
  <2>5. current \in Typed
    <3>1. typed # <<>> /\ current = typed[Len(typed)]
      BY <1>2 DEF Closed
    <3>2. Len(typed) \in 1 .. Len(typed)
      BY <3>1, EmptySeq, LenProperties
    <3> QED BY <3>1, <3>2, RangeOf DEF Typed
  <2>6. EndsIn(ended', current) = {n} /\ n \in 1 .. Len(ended')
    BY <2>3, <2>5, <2>2, <1>0 DEF Closed, Typed
  <2>7. \A i \in 1 .. Len(ended') : ended'[i][1] \in Range(typed)
    <3>1. SUFFICES ASSUME NEW i \in 1 .. n PROVE ended'[i][1] \in Range(typed)
      BY <2>2
    <3>2. CASE i = n
      BY <3>2, <2>2, <2>5 DEF Typed
    <3>3. CASE i \in 1 .. Len(ended)
      BY <3>3, <2>2 DEF Closed
    <3> QED BY <3>2, <3>3, <1>0
  <2>8. \A m \in Range(typed) : m # None /\ \E i \in 1 .. Len(ended') : EndsIn(ended', m) = {i}
    <3>1. SUFFICES ASSUME NEW m \in Range(typed), m # current
                   PROVE  \E i \in 1 .. Len(ended') : EndsIn(ended', m) = {i}
      BY <2>6, <1>0, NoneIsNoMessage DEF Typed
    <3>2. PICK i \in 1 .. Len(ended) : EndsIn(ended, m) = {i}
      BY <3>1 DEF Closed
    <3>3. i \in 1 .. Len(ended') /\ EndsIn(ended', m) = {i}
      BY <3>1, <3>2, <2>2, <2>4, <1>0
    <3> QED BY <3>3
  <2>9. Closed(None, ended', typed)
    BY <2>7, <2>8 DEF Closed
  <2>10. \A m : EndsIn(ended, m) \subseteq EndsIn(ended', m)
    BY <2>3, <2>4
  <2> QED BY <2>2, <2>6, <2>9, <2>10
<1> QED BY <1>1, <1>2

(* The message processQueue starts with was typed last and has no end. *)
LEMMA StartKeepsClosed ==
    ASSUME NEW e, typed \in Seq(Messages), Closed(None, e, typed),
           NEW m \in Messages, m \notin Typed, Len(e) \in Nat
    PROVE  Closed(m, e, Append(typed, m))
<1>1. /\ Append(typed, m) # <<>> /\ Append(typed, m) \in Seq(Messages)
      /\ m = Append(typed, m)[Len(Append(typed, m))]
      /\ Range(Append(typed, m)) = Typed \cup {m}
  BY RangeAppend DEF Typed
<1>2. \A i \in 1 .. Len(e) : e[i][1] \in Typed
  BY DEF Closed, Typed
<1>3. EndsIn(e, m) = {}
  BY <1>2 DEF EndsIn
<1>4. ASSUME NEW x \in Typed
      PROVE  x # m /\ \E i \in 1 .. Len(e) : EndsIn(e, x) = {i}
  <2>1. x # None
    BY RangeOf, NoneIsNoMessage DEF Typed
  <2> QED BY <2>1 DEF Closed, Typed
<1> DEFINE typ == Append(typed, m)
<1>5. m # None => typ # <<>> /\ m = typ[Len(typ)]
  BY <1>1
<1>6. \A i \in 1 .. Len(e) : e[i][1] \in Range(typ)
  BY <1>1, <1>2
<1>7. \A x \in Range(typ) : IF x = m THEN EndsIn(e, x) = {}
                                      ELSE \E i \in 1 .. Len(e) : EndsIn(e, x) = {i}
  BY <1>1, <1>3, <1>4
<1> QED BY <1>5, <1>6, <1>7 DEF Closed

(* Every handler that ends with processQueue: what it leaves is in order, closed *)
(* and watched.  q is messageQueue, cur the current message, e the ends and      *)
(* state the terminal, when processQueue is called.                              *)
LEMMA HandlerInv ==
    ASSUME RunnerInv, running, UNCHANGED running,
           NEW q \in Seq(Messages), NEW cur \in Messages \cup {None},
           NEW state \in PtyStates, NEW wd \in BOOLEAN, ProcessQueue(q, cur, state, wd),
           pty' = state, Watched(cur, wd, state),
           ended' \in Seq(Messages \X Reasons), Closed(cur, ended', typed),
           idleTimer' \in Messages \cup {None}, Timer(idleTimer', cur, ended'),
           UNCHANGED arrivals, Late' \subseteq Late,
           Lined(q, Late), Len(q) <= MaxQueue,
           Clear(Typed, Range(q), Late),
           Lined(pending', Late),
           Clear(Range(q) \cup Typed, Waiting', Late'),
           Waiting' \cup Range(q) \cup Typed \subseteq sent,
           \A m \in Typable \cap sent :
              m \in Waiting' \cup Range(q) \cup Typed \cup dropped',
           pending' \in Seq(Messages), dropped' \in SUBSET Messages,
           failed' \in SUBSET Messages, fails' \in 0 .. MaxFails,
           restartCount' \in Nat, exits' \in 0 .. MaxExits
    PROVE  RunnerInv'
<1>1. /\ queue' \in Seq(Messages) /\ typed' \in Seq(Messages)
      /\ current' \in Messages \cup {None} /\ watchdog' \in BOOLEAN
      /\ Lined(queue', Late) /\ Lined(typed', Late) /\ Len(queue') <= Len(q)
      /\ Clear(Range(typed'), Range(queue'), Late)
      /\ Range(queue') \cup Range(typed') = Range(q) \cup Typed
      /\ \/ /\ queue' = q /\ current' = cur /\ watchdog' = wd /\ typed' = typed
         \/ /\ cur = None /\ state = "ready" /\ watchdog' = TRUE
            /\ current' \in Messages /\ current' \notin Typed
            /\ typed' = Append(typed, current')
  <2>1. typed \in Seq(Messages) /\ Lined(typed, Late)
    BY DEF RunnerInv, TypeOK, OrderInv
  <2> QED BY <2>1, ProcessQueueOrder
<1>2. TypeOK'
  BY <1>1 DEF RunnerInv, TypeOK, arrivals
<1>3. OrderInv'
  <2>1. Len(queue') <= MaxQueue
    BY <1>1, LenProperties
  <2>2. Lined(queue', Late') /\ Lined(typed', Late') /\ Lined(pending', Late')
    BY <1>1 DEF Lined
  <2>3. UNCHANGED <<sent, earlier>> /\ \A m \in Messages : earlier'[m] \subseteq sent'
    BY DEF arrivals, RunnerInv, OrderInv
  <2> QED BY <1>1, <2>1, <2>2, <2>3 DEF OrderInv, InQueue, Typed, Clear
<1>4. Accounted'
  BY <1>1 DEF Accounted, InQueue, Typed, arrivals
<1>5. Closed(current', ended', typed')
  <2>1. Len(ended') \in Nat
    BY LenProperties
  <2>2. typed \in Seq(Messages)
    BY DEF RunnerInv, TypeOK
  <2>3. CASE current' = cur /\ typed' = typed
    BY <2>3
  <2>4. CASE cur = None /\ current' \in Messages /\ current' \notin Typed
             /\ typed' = Append(typed, current')
    <3>1. Closed(None, ended', typed)
      BY <2>4
    <3>2. Closed(current', ended', Append(typed, current'))
      BY <3>1, <2>1, <2>2, <2>4, StartKeepsClosed
    <3> QED BY <3>2, <2>4
  <2> QED BY <1>1, <2>3, <2>4
<1>6. Watched(current', watchdog', pty')
  BY <1>1 DEF Watched
<1>7. Timer(idleTimer', current', ended')
  BY <1>1 DEF Timer
<1> QED BY <1>2, <1>3, <1>4, <1>5, <1>6, <1>7 DEF RunnerInv, Closed, Watched, Timer, EndsIn

-----------------------------------------------------------------------------
(* Sequences in line: taken from pending, sorted, joined and cut. *)
LEMMA SetSequence ==
    ASSUME NEW set \in SUBSET Messages, NEW s \in [1 .. Cardinality(set) -> set]
    PROVE  s \in Seq(Messages) /\ DOMAIN s = 1 .. Len(s)
<1>1. IsFiniteSet(Messages)
  BY FS_Interval DEF Messages
<1>2. Cardinality(set) \in Nat
  BY <1>1, FS_Subset, FS_CardinalityType
<1>3. s \in [1 .. Cardinality(set) -> Messages]
  OBVIOUS
<1> QED BY <1>2, <1>3, LenProperties

LEMMA FileOrderLined ==
    ASSUME NEW set \in SUBSET Messages, NEW s \in [1 .. Cardinality(set) -> set],
           InFileOrder(s, set), NEW R, Lined(pending, R), pending \in Seq(Messages)
    PROVE  s \in Seq(Messages) /\ Lined(s, R) /\ Range(s) = set
<1>1. s \in Seq(Messages) /\ DOMAIN s = 1 .. Len(s) /\ DOMAIN pending = 1 .. Len(pending)
  BY SetSequence, LenProperties
<1> QED BY <1>1 DEF InFileOrder, Lined

LEMMA ByNumberLined ==
    ASSUME NEW set \in SUBSET Messages, NEW s \in ByNumber(set)
    PROVE  s \in Seq(Messages) /\ Lined(s, Late) /\ Range(s) = set
<1>1. s \in Seq(Messages) /\ DOMAIN s = 1 .. Len(s) /\ Range(s) = set
  BY SetSequence DEF ByNumber
<1>2. \A i, j \in 1 .. Len(s) : i < j => s[i] < s[j]
  BY <1>1 DEF ByNumber
<1>3. \A i \in 1 .. Len(s) : s[i] \in Messages
  BY <1>1, ElementOfSeq
<1> QED BY <1>1, <1>2, <1>3, LateFacts DEF Lined

LEMMA JoinInOrder ==
    ASSUME NEW q \in Seq(Messages), NEW s \in Seq(Messages), NEW R, Lined(q, R), Lined(s, R),
           Clear(Range(q), Range(s), R)
    PROVE  /\ q \o s \in Seq(Messages) /\ Lined(q \o s, R)
           /\ Range(q \o s) = Range(q) \cup Range(s)
<1> DEFINE all == q \o s
<1>1. /\ all \in Seq(Messages) /\ Len(q) \in Nat /\ Len(s) \in Nat
      /\ Len(all) = Len(q) + Len(s)
      /\ \A i \in 1 .. Len(q) : all[i] = q[i]
      /\ \A i \in 1 .. Len(s) : all[Len(q) + i] = s[i]
  BY ConcatProperties, LenProperties
<1>2. /\ Range(q) = {q[i] : i \in 1 .. Len(q)} /\ Range(s) = {s[i] : i \in 1 .. Len(s)}
      /\ Range(all) = {all[i] : i \in 1 .. Len(all)}
  BY <1>1, RangeOf
<1>3. Lined(all, R)
  <2>1. SUFFICES ASSUME NEW i \in 1 .. Len(all), NEW j \in 1 .. Len(all), i < j
                 PROVE  <<all[i], all[j]>> \notin R
    BY DEF Lined
  <2>2. CASE j <= Len(q)
    BY <2>1, <2>2, <1>1 DEF Lined
  <2>3. CASE i > Len(q)
    <3>1. /\ i - Len(q) \in 1 .. Len(s) /\ j - Len(q) \in 1 .. Len(s)
          /\ i - Len(q) < j - Len(q)
          /\ Len(q) + (i - Len(q)) = i /\ Len(q) + (j - Len(q)) = j
      <4>1. i \in Nat /\ j \in Nat /\ j <= Len(q) + Len(s)
        BY <2>1, <1>1
      <4> HIDE DEF all
      <4> QED BY <4>1, <2>1, <2>3, <1>1
    <3>2. <<s[i - Len(q)], s[j - Len(q)]>> \notin R
      BY <3>1 DEF Lined
    <3> QED BY <3>1, <3>2, <1>1
  <2>4. CASE i <= Len(q) /\ j > Len(q)
    <3>1. /\ i \in 1 .. Len(q) /\ j - Len(q) \in 1 .. Len(s)
          /\ Len(q) + (j - Len(q)) = j
      BY <2>1, <2>4, <1>1
    <3>2. all[i] = q[i] /\ all[j] = s[j - Len(q)]
      BY <3>1, <1>1
    <3>3. all[i] \in Range(q) /\ all[j] \in Range(s)
      BY <3>1, <3>2, <1>2
    <3> QED BY <3>3 DEF Clear
  <2>5. i \in Nat /\ j \in Nat
    BY <2>1, <1>1
  <2> HIDE DEF all
  <2>6. j <= Len(q) \/ i > Len(q) \/ (i <= Len(q) /\ j > Len(q))
    BY <2>5, <1>1
  <2> QED BY <2>2, <2>3, <2>4, <2>6
<1>4. Range(all) \subseteq Range(q) \cup Range(s)
  <2>1. SUFFICES ASSUME NEW i \in 1 .. Len(all) PROVE all[i] \in Range(q) \cup Range(s)
    BY <1>2
  <2>2. CASE i <= Len(q)
    BY <2>2, <1>1, <1>2
  <2>3. CASE i > Len(q)
    <3>1. i - Len(q) \in 1 .. Len(s) /\ Len(q) + (i - Len(q)) = i
      BY <2>3, <1>1
    <3>2. all[i] = s[i - Len(q)]
      BY <3>1, <1>1
    <3> QED BY <3>1, <3>2, <1>2
  <2> QED BY <2>2, <2>3, <1>1
<1>5. Range(q) \subseteq Range(all)
  BY <1>1, <1>2
<1>6. Range(s) \subseteq Range(all)
  <2>1. SUFFICES ASSUME NEW i \in 1 .. Len(s) PROVE s[i] \in Range(all)
    BY <1>2
  <2>2. Len(q) + i \in 1 .. Len(all) /\ all[Len(q) + i] = s[i]
    BY <1>1
  <2> QED BY <2>2, <1>2
<1> QED BY <1>1, <1>3, <1>4, <1>5, <1>6

(* What does not fit is what comes first. *)
LEMMA FittingKeeps ==
    ASSUME NEW all \in Seq(Messages), NEW R, Lined(all, R)
    PROVE  /\ Fitting(all) \in Seq(Messages) /\ Len(Fitting(all)) <= MaxQueue
           /\ Lined(Fitting(all), R) /\ Range(Fitting(all)) \subseteq Range(all)
           /\ Range(all) \subseteq Range(Fitting(all))
                 \cup {all[i] : i \in 1 .. Len(all) - Len(Fitting(all))}
<1> DEFINE n == Len(all)
           k == IF n > MaxQueue THEN n - MaxQueue + 1 ELSE 1
           fit == SubSeq(all, k, n)
<1>1. n \in Nat /\ k \in 1 .. n + 1 /\ n - k + 1 <= MaxQueue /\ k \in Nat
  BY LenProperties
<1>2. Fitting(all) = fit
  BY DEF Fitting
<1>3. \A i \in k .. n : all[i] \in Messages
  BY <1>1, ElementOfSeq
<1>4. /\ fit \in Seq(Messages) /\ Len(fit) = n - k + 1
      /\ \A i \in 1 .. n - k + 1 : fit[i] = all[k + i - 1]
  <2> HIDE DEF k, n
  <2> QED BY <1>1, <1>3, SubSeqProperties
<1> HIDE DEF fit, k
<1>5. /\ Range(all) = {all[i] : i \in 1 .. n}
      /\ Range(fit) = {fit[i] : i \in 1 .. n - k + 1}
  BY <1>4, RangeOf
<1>6. Lined(fit, R)
  <2>1. SUFFICES ASSUME NEW i \in 1 .. n - k + 1, NEW j \in 1 .. n - k + 1, i < j
                 PROVE  <<fit[i], fit[j]>> \notin R
    BY <1>4 DEF Lined
  <2>2. k + i - 1 \in 1 .. n /\ k + j - 1 \in 1 .. n /\ k + i - 1 < k + j - 1
    BY <2>1, <1>1
  <2>3. <<all[k + i - 1], all[k + j - 1]>> \notin R
    BY <2>2 DEF Lined
  <2> QED BY <2>3, <1>4
<1>7. Range(fit) \subseteq Range(all)
  <2>1. SUFFICES ASSUME NEW i \in 1 .. n - k + 1 PROVE fit[i] \in Range(all)
    BY <1>5
  <2>2. k + i - 1 \in 1 .. n /\ fit[i] = all[k + i - 1]
    BY <1>1, <1>4
  <2> QED BY <2>2, <1>5
<1>8. Range(all) \subseteq Range(fit) \cup {all[i] : i \in 1 .. n - Len(fit)}
  <2>1. SUFFICES ASSUME NEW i \in 1 .. n
                 PROVE  all[i] \in Range(fit) \cup {all[x] : x \in 1 .. n - Len(fit)}
    BY <1>5
  <2>2. CASE i < k
    <3>1. i \in 1 .. n - Len(fit)
      BY <2>2, <1>1, <1>4
    <3> QED BY <3>1
  <2>3. CASE i >= k
    <3>1. i - k + 1 \in 1 .. n - k + 1 /\ k + (i - k + 1) - 1 = i
      BY <2>3, <1>1
    <3>2. fit[i - k + 1] = all[i]
      BY <3>1, <1>4
    <3> QED BY <3>1, <3>2, <1>5
  <2> QED BY <2>2, <2>3, <1>1
<1> QED BY <1>1, <1>2, <1>4, <1>6, <1>7, <1>8

-----------------------------------------------------------------------------
(* What every handler finds when it leaves messageQueue and pending alone. *)
LEMMA QueueInOrder ==
    ASSUME RunnerInv, running
    PROVE  /\ queue \in Seq(Messages) /\ typed \in Seq(Messages) /\ pending \in Seq(Messages)
           /\ Lined(queue, Late) /\ Lined(typed, Late) /\ Lined(pending, Late)
           /\ Len(queue) <= MaxQueue
           /\ Clear(Typed, Range(queue), Late)
           /\ Clear(Range(queue) \cup Typed, Waiting, Late)
           /\ Waiting \cup Range(queue) \cup Typed \subseteq sent
           /\ \A m \in Typable \cap sent :
                 m \in Waiting \cup Range(queue) \cup Typed \cup dropped
           /\ dropped \in SUBSET Messages /\ sent \in SUBSET Messages
           /\ failed \in SUBSET Messages /\ fails \in 0 .. MaxFails
           /\ current \in Messages \cup {None} /\ idleTimer \in Messages \cup {None}
           /\ pty \in PtyStates /\ watchdog \in BOOLEAN
           /\ restartCount \in Nat /\ exits \in 0 .. MaxExits
           /\ ended \in Seq(Messages \X Reasons) /\ Closed(current, ended, typed)
           /\ Watched(current, watchdog, pty) /\ Timer(idleTimer, current, ended)
BY DEF RunnerInv, TypeOK, OrderInv, Accounted, InQueue

LEMMA FilesLeft ==
    ASSUME RunnerInv, running, UNCHANGED <<pending, arrivals, failures, dropped>>
    PROVE  /\ Late' \subseteq Late /\ Lined(pending', Late)
           /\ Clear(Range(queue) \cup Typed, Waiting', Late')
           /\ Waiting' \cup Range(queue) \cup Typed \subseteq sent
           /\ \A m \in Typable \cap sent :
                 m \in Waiting' \cup Range(queue) \cup Typed \cup dropped'
           /\ pending' \in Seq(Messages) /\ dropped' \in SUBSET Messages
           /\ failed' \in SUBSET Messages /\ fails' \in 0 .. MaxFails
<1>1. Late' = Late /\ Waiting' = Waiting /\ failed' = failed /\ fails' = fails
  BY LateStays DEF Waiting, failures
<1> QED BY <1>1, QueueInOrder

LEMMA InitInv == Init => RunnerInv
<1> SUFFICES ASSUME Init PROVE RunnerInv
  OBVIOUS
<1>1. /\ <<>> \in Seq(Messages) /\ <<>> \in Seq(Messages \X Reasons)
      /\ Len(<<>>) = 0 /\ Range(<<>>) = {}
  <2>1. <<>> \in Seq(Messages) /\ <<>> \in Seq(Messages \X Reasons) /\ Len(<<>>) = 0
    BY EmptySeq
  <2>2. Range(<<>>) = {<<>>[i] : i \in 1 .. Len(<<>>)}
    BY <2>1, RangeOf
  <2> QED BY <2>1, <2>2
<1>2. TypeOK
  <2>1. dropped \in SUBSET Messages /\ failed \in SUBSET Messages /\ sent \in SUBSET Messages
    BY DEF Init
  <2>2. exits \in 0 .. MaxExits /\ fails \in 0 .. MaxFails /\ restartCount \in Nat
    BY DEF Init
  <2>3. earlier \in [Messages -> SUBSET Messages]
    BY DEF Init
  <2> QED BY <1>1, <2>1, <2>2, <2>3 DEF Init, TypeOK, PtyStates
<1>3. OrderInv
  <2>1. \A R : Lined(<<>>, R)
    BY <1>1 DEF Lined
  <2>2. Waiting = {} /\ InQueue = {} /\ Typed = {} /\ Len(queue) <= MaxQueue
    BY <1>1 DEF Init, Waiting, InQueue, Typed
  <2>3. \A m \in Messages : earlier[m] \subseteq sent
    BY DEF Init
  <2> QED BY <2>1, <2>2, <2>3 DEF Init, OrderInv, Clear
<1>4. Accounted
  BY DEF Init, Accounted
<1>5. Closed(current, ended, typed)
  BY <1>1 DEF Init, Closed
<1> QED BY <1>2, <1>3, <1>4, <1>5 DEF Init, RunnerInv, Watched, Timer

LEMMA SendInv == ASSUME NEW m \in Messages PROVE RunnerInv /\ Send(m) => RunnerInv'
<1> SUFFICES ASSUME RunnerInv, Send(m) PROVE RunnerInv'
  OBVIOUS
<1>1. /\ m \notin sent /\ sent' = sent \cup {m} /\ pending' = Append(pending, m)
      /\ earlier' = [earlier EXCEPT ![m] = sent]
      /\ UNCHANGED <<running, queue, current, pty, idleTimer, watchdog, restartCount,
                     failed, fails, typed, ended, dropped, exits>>
  BY DEF Send, failures
<1>2. /\ pending' \in Seq(Messages) /\ Waiting' = Waiting \cup {m}
      /\ Len(pending') = Len(pending) + 1 /\ pending'[Len(pending) + 1] = m
      /\ \A i \in 1 .. Len(pending) : pending'[i] = pending[i]
      /\ pending \in Seq(Messages) /\ Len(pending) \in Nat
      /\ Waiting = {pending[i] : i \in 1 .. Len(pending)}
  BY <1>1, RangeAppend, RangeOf, LenProperties DEF RunnerInv, TypeOK, Waiting
<1>3. TypeOK'
  <2>1. sent' \in SUBSET Messages /\ earlier' \in [Messages -> SUBSET Messages]
    BY <1>1 DEF RunnerInv, TypeOK
  <2> QED BY <1>1, <1>2, <2>1 DEF RunnerInv, TypeOK
<1> DEFINE Here == Waiting \cup InQueue \cup Typed
<1>4. Here \subseteq sent /\ Here \subseteq Messages /\ m \notin Here
      /\ InQueue' = InQueue /\ Typed' = Typed
  BY <1>1 DEF RunnerInv, TypeOK, OrderInv, InQueue, Typed
<1>5. \A x \in Here : earlier'[x] = earlier[x] /\ m \notin earlier'[x]
  BY <1>1, <1>4 DEF RunnerInv, TypeOK, OrderInv
<1>6. /\ \A x, y \in Here : <<x, y>> \in Late' => <<x, y>> \in Late
      /\ \A x \in Here : <<x, m>> \notin Late'
  BY <1>1, <1>4, <1>5 DEF Late, Precedes
<1>7. Lined(queue, Late') /\ Lined(typed, Late') /\ Lined(pending, Late')
  BY <1>4, <1>6, LinedFewer DEF RunnerInv, TypeOK, OrderInv, Waiting, InQueue, Typed
<1>8. Lined(pending', Late')
  <2>1. \A i \in 1 .. Len(pending) : pending[i] \in Here /\ <<pending[i], m>> \notin Late'
    BY <1>2, <1>6
  <2> QED BY <1>2, <1>7, <2>1 DEF Lined
<1>9. \A x \in Messages : earlier'[x] \subseteq sent'
  BY <1>1 DEF RunnerInv, TypeOK, OrderInv
<1>10. OrderInv'
  <2>1. Clear(InQueue \cup Typed, Waiting', Late')
    BY <1>2, <1>4, <1>6 DEF RunnerInv, OrderInv, Clear
  <2>2. Clear(Typed, InQueue, Late')
    BY <1>4, <1>6 DEF RunnerInv, OrderInv, Clear
  <2>3. Waiting' \cup InQueue \cup Typed \subseteq sent'
    BY <1>1, <1>2, <1>4
  <2> HIDE DEF Here
  <2> QED BY <1>1, <1>4, <1>7, <1>8, <1>9, <2>1, <2>2, <2>3 DEF RunnerInv, OrderInv
<1>11. Accounted'
  BY <1>1, <1>2, <1>4 DEF RunnerInv, Accounted
<1> QED BY <1>1, <1>3, <1>10, <1>11 DEF RunnerInv, Closed, EndsIn, Watched, Timer

LEMMA RoundInv == RunnerInv /\ Round => RunnerInv'
<1> SUFFICES ASSUME RunnerInv, Round PROVE RunnerInv'
  OBVIOUS
<1>1. PICK bad \in SUBSET Waiting :
        /\ fails + Cardinality(bad) <= MaxFails
        /\ fails' = fails + Cardinality(bad)
        /\ failed' = failed \cup bad
        /\ pending' \in ByNumber(bad)
        /\ \E s \in [1 .. Cardinality((Waiting \cap Typable) \ bad)
                       -> (Waiting \cap Typable) \ bad] :
             /\ InFileOrder(s, (Waiting \cap Typable) \ bad)
             /\ dropped' = dropped \cup {(queue \o s)[i] :
                               i \in 1 .. Len(queue \o s) - Len(Fitting(queue \o s))}
             /\ ProcessQueue(Fitting(queue \o s), current, pty, watchdog)
  BY DEF Round, Waiting
<1> DEFINE new == (Waiting \cap Typable) \ bad
<1>2. PICK s \in [1 .. Cardinality(new) -> new] :
         /\ InFileOrder(s, new)
         /\ dropped' = dropped \cup {(queue \o s)[i] :
                           i \in 1 .. Len(queue \o s) - Len(Fitting(queue \o s))}
         /\ ProcessQueue(Fitting(queue \o s), current, pty, watchdog)
  BY <1>1
<1> DEFINE all == queue \o s
           fit == Fitting(all)
           lost == {all[i] : i \in 1 .. Len(all) - Len(fit)}
<1>3. /\ running /\ UNCHANGED <<running, pty, idleTimer, restartCount, arrivals, ended, exits>>
      /\ UNCHANGED <<sent, earlier>>
  BY DEF Round, arrivals
<1>4. /\ queue \in Seq(Messages) /\ typed \in Seq(Messages) /\ pending \in Seq(Messages)
      /\ Lined(queue, Late) /\ Lined(typed, Late) /\ Lined(pending, Late)
      /\ Len(queue) <= MaxQueue
      /\ Clear(Typed, Range(queue), Late)
      /\ Clear(Range(queue) \cup Typed, Waiting, Late)
      /\ Waiting \cup Range(queue) \cup Typed \subseteq sent
      /\ \A m \in Typable \cap sent :
            m \in Waiting \cup Range(queue) \cup Typed \cup dropped
      /\ dropped \in SUBSET Messages /\ sent \in SUBSET Messages
      /\ failed \in SUBSET Messages /\ fails \in 0 .. MaxFails
      /\ current \in Messages \cup {None} /\ idleTimer \in Messages \cup {None}
      /\ pty \in PtyStates /\ watchdog \in BOOLEAN
      /\ restartCount \in Nat /\ exits \in 0 .. MaxExits
      /\ ended \in Seq(Messages \X Reasons) /\ Closed(current, ended, typed)
      /\ Watched(current, watchdog, pty) /\ Timer(idleTimer, current, ended)
  BY <1>3, QueueInOrder
<1>5. Waiting \in SUBSET Messages /\ bad \in SUBSET Messages /\ new \in SUBSET Messages
  BY <1>4, RangeOf DEF Waiting
<1>6. s \in Seq(Messages) /\ Lined(s, Late) /\ Range(s) = new
  <2> DEFINE R == Late
  <2>1. Lined(pending, R)
    BY <1>4
  <2> HIDE DEF R, new
  <2>2. s \in Seq(Messages) /\ Lined(s, R) /\ Range(s) = new
    BY <1>2, <1>4, <1>5, <2>1, FileOrderLined
  <2> USE DEF R
  <2> QED BY <2>2
<1>7. pending' \in Seq(Messages) /\ Lined(pending', Late) /\ Waiting' = bad
  BY <1>1, <1>5, ByNumberLined DEF Waiting
<1> DEFINE R == Late
<1>8. all \in Seq(Messages) /\ Lined(all, R) /\ Range(all) = Range(queue) \cup new
  <2>1. Lined(queue, R) /\ Lined(s, R) /\ Clear(Range(queue), Range(s), R)
    BY <1>4, <1>6 DEF Clear
  <2> HIDE DEF R, new
  <2> QED BY <2>1, <1>4, <1>6, JoinInOrder
<1>9. /\ fit \in Seq(Messages) /\ Len(fit) <= MaxQueue
      /\ Lined(fit, R) /\ Range(fit) \subseteq Range(all)
      /\ Range(all) \subseteq Range(fit) \cup lost
  <2> HIDE DEF R, all
  <2> QED BY <1>8, FittingKeeps
<1>10. dropped' = dropped \cup lost /\ ProcessQueue(fit, current, pty, watchdog)
  BY <1>2
<1>11. lost \in SUBSET Messages
  <2>1. Len(all) \in Nat /\ Len(fit) \in Nat
    BY <1>8, <1>9, LenProperties
  <2>2. \A i \in 1 .. Len(all) : all[i] \in Messages
    BY <1>8, ElementOfSeq
  <2>3. 1 .. Len(all) - Len(fit) \subseteq 1 .. Len(all)
    BY <2>1
  <2> HIDE DEF all, fit
  <2> QED BY <2>2, <2>3
<1>12. Lined(fit, Late) /\ Range(fit) \subseteq Range(queue) \cup new
  BY <1>8, <1>9
<1>13. Range(queue) \cup new \subseteq Range(fit) \cup lost
  BY <1>8, <1>9
<1> HIDE DEF all, fit, lost, R
<1>14. Late' \subseteq Late /\ \A x \in Messages, y \in bad : x # y => <<x, y>> \notin Late'
  BY <1>1, <1>3, <1>5 DEF Late, Precedes
<1>15. Clear(Typed, Range(fit), Late)
  BY <1>4, <1>12 DEF Clear
<1>16. Clear(Range(fit) \cup Typed, Waiting', Late')
  <2>1. SUFFICES ASSUME NEW m \in Range(fit) \cup Typed, NEW x \in bad
                 PROVE  <<m, x>> \notin Late'
    BY <1>7 DEF Clear
  <2>2. m \in Messages /\ x \in Waiting /\ x \in Messages /\ <<x, x>> \in Late
    BY <1>4, <1>5, <1>9, RangeOf, LateFacts DEF Typed
  <2>3. m # x
    BY <1>4, <1>12, <2>1, <2>2 DEF Clear
  <2> QED BY <1>14, <2>1, <2>2, <2>3
<1>17. /\ Waiting' \cup Range(fit) \cup Typed \subseteq sent
       /\ \A m \in Typable \cap sent :
             m \in Waiting' \cup Range(fit) \cup Typed \cup dropped'
  <2>1. new \cup bad \subseteq Waiting /\ Waiting \cap Typable \subseteq new \cup bad
    OBVIOUS
  <2> HIDE DEF new
  <2> QED BY <1>4, <1>7, <1>10, <1>12, <1>13, <2>1
<1>18. fails' \in 0 .. MaxFails /\ failed' \in SUBSET Messages /\ dropped' \in SUBSET Messages
  <2>1. Cardinality(bad) \in Nat
    <3>1. IsFiniteSet(Messages)
      BY FS_Interval DEF Messages
    <3> QED BY <3>1, <1>5, FS_Subset, FS_CardinalityType
  <2>2. failed' \in SUBSET Messages /\ dropped' \in SUBSET Messages
    BY <1>1, <1>4, <1>5, <1>10, <1>11
  <2> DEFINE n == Cardinality(bad)
  <2>3. fails + n <= MaxFails /\ fails' = fails + n /\ n \in Nat /\ fails \in 0 .. MaxFails
    BY <1>1, <1>4, <2>1
  <2> HIDE DEF n
  <2>4. fails' \in 0 .. MaxFails
    BY <2>3
  <2> QED BY <2>2, <2>4
<1> HIDE DEF new
<1> DEFINE cur == current
           state == pty
           wd == watchdog
<1>19. /\ cur \in Messages \cup {None} /\ state \in PtyStates /\ wd \in BOOLEAN
       /\ ProcessQueue(fit, cur, state, wd) /\ pty' = state /\ Watched(cur, wd, state)
       /\ ended' \in Seq(Messages \X Reasons)
       /\ Closed(cur, ended', typed) /\ Timer(idleTimer', cur, ended')
       /\ idleTimer' \in Messages \cup {None}
       /\ restartCount' \in Nat /\ exits' \in 0 .. MaxExits
  BY <1>3, <1>4, <1>10
<1> HIDE DEF cur, state, wd
<1> QED BY <1>3, <1>7, <1>9, <1>12, <1>14, <1>15, <1>16, <1>17, <1>18, <1>19, HandlerInv

LEMMA ReadyInv == RunnerInv /\ Ready => RunnerInv'
<1> SUFFICES ASSUME RunnerInv, Ready PROVE RunnerInv'
  OBVIOUS
<1>1. /\ running /\ pty = "starting" /\ pty' = "ready"
      /\ ProcessQueue(queue, current, "ready", watchdog)
      /\ UNCHANGED <<running, pending, idleTimer, restartCount, arrivals, failures, ended,
                     dropped, exits>>
  BY DEF Ready
<1>2. Watched(current, watchdog, "ready") /\ "ready" \in PtyStates
  BY <1>1 DEF RunnerInv, Watched, PtyStates
<1>3. Closed(current, ended', typed) /\ Timer(idleTimer', current, ended')
  BY <1>1, QueueInOrder
<1> DEFINE cur == current
           state == "ready"
           wd == watchdog
<1>4. /\ cur \in Messages \cup {None} /\ state \in PtyStates /\ wd \in BOOLEAN
      /\ ProcessQueue(queue, cur, state, wd) /\ pty' = state /\ Watched(cur, wd, state)
      /\ ended' \in Seq(Messages \X Reasons)
      /\ Closed(cur, ended', typed) /\ Timer(idleTimer', cur, ended')
      /\ idleTimer' \in Messages \cup {None}
      /\ restartCount' \in Nat /\ exits' \in 0 .. MaxExits
  BY <1>1, <1>2, <1>3, QueueInOrder
<1> HIDE DEF cur, state, wd
<1>5. UNCHANGED <<running, arrivals, pending, failures, dropped>> /\ running
  BY <1>1
<1> DEFINE q == queue
<1>6. /\ q \in Seq(Messages) /\ Lined(q, Late) /\ Len(q) <= MaxQueue
      /\ Clear(Typed, Range(q), Late) /\ Lined(pending', Late) /\ Late' \subseteq Late
      /\ Clear(Range(q) \cup Typed, Waiting', Late')
      /\ Waiting' \cup Range(q) \cup Typed \subseteq sent
      /\ \A m \in Typable \cap sent :
            m \in Waiting' \cup Range(q) \cup Typed \cup dropped'
      /\ pending' \in Seq(Messages) /\ dropped' \in SUBSET Messages
      /\ failed' \in SUBSET Messages /\ fails' \in 0 .. MaxFails
      /\ ProcessQueue(q, cur, state, wd)
  BY <1>4, <1>5, QueueInOrder, FilesLeft
<1> HIDE DEF q
<1> QED BY <1>4, <1>5, <1>6, HandlerInv

(* The three handlers that end a turn and go on with the next message. *)
LEMMA TurnEndInv ==
    ASSUME RunnerInv, running, NEW reason \in Reasons, EndTurn(reason),
           NEW wd \in BOOLEAN, pty' \in PtyStates, ProcessQueue(queue, None, pty', wd),
           \/ idleTimer' = None
           \/ idleTimer' = idleTimer /\ reason = "timeout",
           UNCHANGED <<running, pending, restartCount, arrivals, failures, dropped, exits>>
    PROVE  RunnerInv'
<1>1. /\ ended \in Seq(Messages \X Reasons) /\ current \in Messages \cup {None}
      /\ typed \in Seq(Messages) /\ Closed(current, ended, typed)
      /\ idleTimer \in Messages \cup {None} /\ Timer(idleTimer, current, ended)
  BY QueueInOrder
<1>2. /\ ended' \in Seq(Messages \X Reasons)
      /\ Closed(None, ended', typed)
      /\ \A m : EndsIn(ended, m) \subseteq EndsIn(ended', m)
      /\ \A i \in 1 .. Len(ended) : ended'[i] = ended[i]
      /\ current # None => \E i \in EndsIn(ended', current) : ended'[i][2] = reason
  BY <1>1, EndTurnCloses
<1>3. Timer(idleTimer', None, ended')
  <2>1. SUFFICES ASSUME idleTimer' = idleTimer, reason = "timeout", idleTimer # None
                 PROVE  \E i \in EndsIn(ended', idleTimer') : ended'[i][2] = "timeout"
    BY DEF Timer
  <2>2. CASE idleTimer = current
    BY <2>1, <2>2, <1>2
  <2>3. CASE idleTimer # current
    <3>1. PICK i \in EndsIn(ended, idleTimer) : ended[i][2] = "timeout"
      BY <2>1, <2>3, <1>1 DEF Timer
    <3>2. i \in EndsIn(ended', idleTimer) /\ i \in 1 .. Len(ended)
      BY <3>1, <1>2 DEF EndsIn
    <3> QED BY <2>1, <3>1, <3>2, <1>2
  <2> QED BY <2>2, <2>3
<1>4. Watched(None, wd, pty')
  BY DEF Watched
<1>5. idleTimer' \in Messages \cup {None}
  BY <1>1, QueueInOrder
<1> DEFINE cur == None
           state == pty'
<1>6. /\ ProcessQueue(queue, cur, state, wd) /\ Closed(cur, ended', typed)
      /\ Watched(cur, wd, state) /\ Timer(idleTimer', cur, ended')
      /\ cur \in Messages \cup {None} /\ state \in PtyStates /\ pty' = state
      /\ restartCount' \in Nat /\ exits' \in 0 .. MaxExits
  BY <1>2, <1>3, <1>4, QueueInOrder
<1> HIDE DEF cur, state
<1>7. UNCHANGED <<running, arrivals, pending, failures, dropped>> /\ running
  OBVIOUS
<1> DEFINE q == queue
<1>8. /\ q \in Seq(Messages) /\ Lined(q, Late) /\ Len(q) <= MaxQueue
      /\ Clear(Typed, Range(q), Late) /\ Lined(pending', Late) /\ Late' \subseteq Late
      /\ Clear(Range(q) \cup Typed, Waiting', Late')
      /\ Waiting' \cup Range(q) \cup Typed \subseteq sent
      /\ \A m \in Typable \cap sent :
            m \in Waiting' \cup Range(q) \cup Typed \cup dropped'
      /\ pending' \in Seq(Messages) /\ dropped' \in SUBSET Messages
      /\ failed' \in SUBSET Messages /\ fails' \in 0 .. MaxFails
      /\ ProcessQueue(q, cur, state, wd)
  BY <1>6, <1>7, QueueInOrder, FilesLeft
<1> HIDE DEF q
<1> QED BY <1>2, <1>5, <1>6, <1>7, <1>8, HandlerInv

LEMMA ExitInv == RunnerInv /\ Exit => RunnerInv'
<1> SUFFICES ASSUME RunnerInv, Exit PROVE RunnerInv'
  OBVIOUS
<1>1. /\ running /\ exits' = exits + 1 /\ exits < MaxExits /\ EndTurn("exit")
      /\ current' = None /\ watchdog' = FALSE /\ idleTimer' = None
      /\ UNCHANGED <<running, pending, queue, arrivals, failures, typed, dropped>>
  BY DEF Exit
<1>2. restartCount' \in Nat /\ pty' \in PtyStates
  <2>1. PICK n \in {1, restartCount + 1} : restartCount' = n /\ pty' = NextTry(n, "down")
    BY DEF Exit
  <2> QED BY <2>1 DEF RunnerInv, TypeOK, NextTry, PtyStates
<1>3. ended' \in Seq(Messages \X Reasons) /\ Closed(None, ended', typed)
  <2>1. "exit" \in Reasons
    BY DEF Reasons
  <2> QED BY <1>1, <2>1, QueueInOrder, EndTurnCloses
<1>4. TypeOK'
  <2>1. exits' \in 0 .. MaxExits
    BY <1>1 DEF RunnerInv, TypeOK, arrivals, failures
  <2>2. current' \in Messages \cup {None} /\ idleTimer' \in Messages \cup {None}
    BY <1>1
  <2> QED BY <1>1, <1>2, <1>3, <2>1, <2>2 DEF RunnerInv, TypeOK, arrivals, failures
<1>5. OrderInv' /\ Accounted'
  BY <1>1, LateStays DEF RunnerInv, OrderInv, Accounted, Lined, Waiting, InQueue, Typed, arrivals
<1>6. Closed(current', ended', typed')
  BY <1>1, <1>3
<1> QED BY <1>1, <1>4, <1>5, <1>6 DEF RunnerInv, Closed, EndsIn, Watched, Timer

LEMMA RespawnInv == RunnerInv /\ Respawn => RunnerInv'
<1> SUFFICES ASSUME RunnerInv, Respawn PROVE RunnerInv'
  OBVIOUS
<1>1. /\ running /\ pty \in {"down", "retry"} /\ restartCount' \in Nat /\ pty' \in PtyStates
      /\ UNCHANGED <<running, pending, queue, current, watchdog, typed, idleTimer, arrivals,
                     failures, ended, dropped, exits>>
  BY DEF Respawn, RunnerInv, TypeOK, NextTry, PtyStates, turn
<1>2. current = None
  BY <1>1 DEF RunnerInv, Watched
<1>3. TypeOK'
  BY <1>1 DEF RunnerInv, TypeOK, arrivals, failures
<1>4. OrderInv' /\ Accounted'
  BY <1>1, LateStays DEF RunnerInv, OrderInv, Accounted, Lined, Waiting, InQueue, Typed, arrivals
<1> QED BY <1>1, <1>2, <1>3, <1>4 DEF RunnerInv, Closed, EndsIn, Watched, Timer

LEMMA OutputInv == RunnerInv /\ Output => RunnerInv'
<1> SUFFICES ASSUME RunnerInv, Output PROVE RunnerInv'
  OBVIOUS
<1>1. /\ idleTimer' = current
      /\ UNCHANGED <<running, pending, queue, current, watchdog, typed, pty, restartCount,
                     arrivals, failures, ended, dropped, exits>>
  BY DEF Output, turn
<1>2. TypeOK'
  BY <1>1 DEF RunnerInv, TypeOK, arrivals, failures
<1>3. OrderInv' /\ Accounted'
  BY <1>1, LateStays DEF RunnerInv, OrderInv, Accounted, Lined, Waiting, InQueue, Typed, arrivals
<1> QED BY <1>1, <1>2, <1>3 DEF RunnerInv, Closed, EndsIn, Watched, Timer

LEMMA StopInv == RunnerInv /\ Stop => RunnerInv'
<1> SUFFICES ASSUME RunnerInv, Stop PROVE RunnerInv'
  OBVIOUS
<1>1. /\ running' = FALSE /\ queue' = <<>> /\ current' = None /\ idleTimer' = None
      /\ watchdog' = FALSE
      /\ UNCHANGED <<pending, pty, restartCount, arrivals, failures, typed, ended, dropped, exits>>
  BY DEF Stop, history
<1>2. <<>> \in Seq(Messages) /\ Len(<<>>) = 0 /\ Range(<<>>) = {}
  <2>1. <<>> \in Seq(Messages) /\ Len(<<>>) = 0
    BY EmptySeq
  <2>2. Range(<<>>) = {<<>>[i] : i \in 1 .. Len(<<>>)}
    BY <2>1, RangeOf
  <2> QED BY <2>1, <2>2
<1>3. TypeOK'
  BY <1>1, <1>2 DEF RunnerInv, TypeOK, arrivals, failures
<1>4. OrderInv'
  <2>1. /\ queue' = <<>> /\ Len(queue') = 0 /\ InQueue' = {} /\ Typed' = Typed
        /\ Waiting' = Waiting /\ Late' = Late /\ UNCHANGED <<sent, earlier>>
    BY <1>1, <1>2, LateStays DEF InQueue, Typed, Waiting, arrivals
  <2>2. Lined(queue', Late') /\ Lined(typed', Late') /\ Lined(pending', Late')
    BY <2>1, <1>1 DEF RunnerInv, OrderInv, Lined
  <2> QED BY <2>1, <2>2, <1>1 DEF RunnerInv, OrderInv, Clear
<1>5. Accounted'
  BY <1>1 DEF Accounted
<1> QED BY <1>1, <1>3, <1>4, <1>5 DEF RunnerInv, Watched, Timer

LEMMA StepInv == RunnerInv /\ [Next]_vars => RunnerInv'
<1> SUFFICES ASSUME RunnerInv, [Next]_vars PROVE RunnerInv'
  OBVIOUS
<1>1. CASE IdleFires
  <2>1. "idle" \in Reasons /\ watchdog \in BOOLEAN /\ pty \in PtyStates
    BY DEF Reasons, RunnerInv, TypeOK
  <2>2. /\ running /\ idleTimer' = None /\ EndTurn("idle") /\ pty' = pty
        /\ ProcessQueue(queue, None, pty, watchdog)
        /\ UNCHANGED <<running, pending, restartCount, arrivals, failures, dropped, exits>>
    BY <1>1 DEF IdleFires
  <2>3. ProcessQueue(queue, None, pty', watchdog)
    BY <2>2
  <2> DEFINE wd == watchdog
  <2>4. ProcessQueue(queue, None, pty', wd) /\ wd \in BOOLEAN
    BY <2>1, <2>3
  <2> HIDE DEF wd
  <2> QED BY <2>1, <2>2, <2>4, TurnEndInv
<1>2. CASE DetectorIdle
  <2>1. "idle" \in Reasons /\ FALSE \in BOOLEAN /\ pty \in PtyStates
    BY DEF Reasons, RunnerInv, TypeOK
  <2>2. /\ running /\ idleTimer' = None /\ EndTurn("idle") /\ pty' = pty
        /\ ProcessQueue(queue, None, pty, FALSE)
        /\ UNCHANGED <<running, pending, restartCount, arrivals, failures, dropped, exits>>
    BY <1>2 DEF DetectorIdle
  <2>3. ProcessQueue(queue, None, pty', FALSE)
    BY <2>2
  <2> QED BY <2>1, <2>2, <2>3, TurnEndInv
<1>3. CASE WatchdogFires
  <2>1. "timeout" \in Reasons /\ FALSE \in BOOLEAN /\ pty' \in PtyStates
    BY <1>3 DEF Reasons, RunnerInv, TypeOK, WatchdogFires, PtyStates
  <2>2. /\ running /\ idleTimer' = idleTimer /\ EndTurn("timeout")
        /\ ProcessQueue(queue, None, pty', FALSE)
        /\ UNCHANGED <<running, pending, restartCount, arrivals, failures, dropped, exits>>
    BY <1>3 DEF WatchdogFires
  <2> QED BY <2>1, <2>2, TurnEndInv
<1>4. CASE \E m \in Messages : Send(m) BY <1>4, SendInv
<1>5. CASE Round BY <1>5, RoundInv
<1>6. CASE Ready BY <1>6, ReadyInv
<1>7. CASE Output BY <1>7, OutputInv
<1>8. CASE Exit BY <1>8, ExitInv
<1>9. CASE Respawn BY <1>9, RespawnInv
<1>10. CASE Stop BY <1>10, StopInv
<1>11. CASE UNCHANGED vars
  <2>1. UNCHANGED <<running, pending, queue, current, pty, idleTimer, watchdog,
                    restartCount, arrivals, failures, typed, ended, dropped, exits>>
    BY <1>11 DEF vars, history
  <2>2. TypeOK'
    BY <2>1 DEF RunnerInv, TypeOK, arrivals, failures
  <2>3. OrderInv' /\ Accounted'
    BY <2>1, LateStays DEF RunnerInv, OrderInv, Accounted, Lined, Waiting, InQueue, Typed, arrivals
  <2> QED BY <2>1, <2>2, <2>3 DEF RunnerInv, Closed, EndsIn, Watched, Timer
<1> QED BY <1>1, <1>2, <1>3, <1>4, <1>5, <1>6, <1>7, <1>8, <1>9, <1>10, <1>11 DEF Next

(* The invariant the theorems below rest on. *)
THEOREM RunnerInvariant == Spec => []RunnerInv
BY InitInv, StepInv, PTL DEF Spec

(* A turn that is under way is always watched, and only the idle timer of a turn *)
(* that timed out can outlive its turn: the watchdog restarts the terminal and    *)
(* clears neither the timer nor its callback (WatchdogFires).                     *)
THEOREM TurnWatchedHolds == Spec => []TurnWatched
<1>1. RunnerInv => TurnWatched
  BY DEF RunnerInv, Watched, Timer, TurnWatched, EndsIn, Ends
<1> QED BY <1>1, RunnerInvariant, PTL

(* For any number of messages, any size of messageQueue and any number of exits   *)
(* and restarts, in whatever order messages arrive: they are typed at most once,  *)
(* one at a time and never before one that precedes them, and every turn but the  *)
(* current one was closed exactly once.                                           *)
THEOREM OneTurnHolds == Spec => []OneTurnAtATime
<1>1. RunnerInv => OneTurnAtATime
  <2> SUFFICES ASSUME RunnerInv PROVE OneTurnAtATime
    OBVIOUS
  <2>1. ASSUME running, NEW m \in Typed
        PROVE  Cardinality(Ends(m)) = IF m = current THEN 0 ELSE 1
    <3>1. /\ m = current => Ends(m) = {}
          /\ m # current => \E i \in 1 .. Len(ended) : Ends(m) = {i}
      BY <2>1 DEF RunnerInv, Closed, Typed, Ends, EndsIn
    <3> QED BY <3>1, FS_EmptySet, FS_Singleton
  <2>0. /\ typed \in Seq(Messages) /\ Typed \subseteq Messages /\ InQueue \subseteq Messages
        /\ Waiting \subseteq Messages /\ \A i \in 1 .. Len(typed) : typed[i] \in Messages
    BY RangeOf, ElementOfSeq DEF RunnerInv, TypeOK, Typed, InQueue, Waiting
  <2>2. \A i, j \in 1 .. Len(typed) :
           i < j => typed[i] # typed[j] /\ ~ Precedes(typed[j], typed[i])
    BY <2>0, LateFacts DEF RunnerInv, OrderInv, Lined
  <2>4. \A x \in Typed, y \in InQueue \cup Waiting : x # y /\ ~ Precedes(y, x)
    BY <2>0, LateFacts DEF RunnerInv, OrderInv, Clear
  <2>3. running /\ current # None => typed # <<>> /\ current = typed[Len(typed)]
    BY DEF RunnerInv, Closed
  <2> QED BY <2>1, <2>2, <2>3, <2>4 DEF OneTurnAtATime, RunnerInv, OrderInv, Accounted
<1> QED BY <1>1, RunnerInvariant, PTL
=============================================================================
