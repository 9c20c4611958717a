--------------------- MODULE DeliveryScheduler_proofs ---------------------
(***************************************************************************)
(* The lock of the scheduler admits one injection per agent, and no        *)
(* message is stranded or in two places, for any number of agents,         *)
(* messages and overlapping calls, through restarts of the daemon.         *)
(***************************************************************************)
EXTENDS DeliveryScheduler, SequenceTheorems, TLAPS

Mail(s) == {e \in Events : To[e] = s}

\* The types the argument needs; the queue of an agent holds its own mail.
CallsOK ==
    /\ pc \in [Calls -> {"idle", "walk", "claimed", "inject"}]
    /\ targets \in [Calls -> SUBSET Subscribers]
    /\ held \in [Calls -> Events \cup {None}]
    /\ locks \in [Subscribers -> Calls \cup {None}]

QueueOK ==
    /\ DOMAIN pending = Subscribers
    /\ \A s \in Subscribers : pending[s] \in Seq(Mail(s))

SchedInv == CallsOK /\ QueueOK /\ LockInv

LEMMA SchedInit == Init => SchedInv
<1> SUFFICES ASSUME Init PROVE SchedInv
  OBVIOUS
<1> USE SchedulerConstants DEF Init
<1>1. CallsOK
  BY DEF CallsOK, Calls
<1>2. QueueOK
  BY EmptySeq DEF QueueOK
<1>3. LockInv
  BY DEF LockInv, Calls
<1> QED
  BY <1>1, <1>2, <1>3 DEF SchedInv

\* The head of a queue and what is behind it.
LEMMA HeadOfMail ==
    ASSUME QueueOK, NEW s \in Subscribers, pending[s] # <<>>
    PROVE  /\ Head(pending[s]) \in Events /\ To[Head(pending[s])] = s
           /\ Tail(pending[s]) \in Seq(Mail(s))
<1>1. pending[s] \in Seq(Mail(s))
  BY DEF QueueOK
<1>2. Head(pending[s]) \in Mail(s) /\ Tail(pending[s]) \in Seq(Mail(s))
  BY <1>1, HeadTailProperties
<1> QED
  BY <1>2 DEF Mail

\* A message given back goes to the front of the queue of its agent.
LEMMA BackInQueue ==
    ASSUME QueueOK, NEW e \in Events, To[e] \in Subscribers
    PROVE  <<e>> \o pending[To[e]] \in Seq(Mail(To[e]))
<1>1. <<e>> \in Seq(Mail(To[e])) /\ pending[To[e]] \in Seq(Mail(To[e]))
  BY DEF QueueOK, Mail
<1> QED
  BY <1>1, ConcatProperties

\* Types of the calls.
LEMMA CallsStep ==
    ASSUME SchedInv, [Next]_vars
    PROVE  CallsOK'
<1> USE SchedulerConstants DEF CallsOK, SchedInv, registry, queue, memory, calls
<1>1. ASSUME NEW e \in Events, AppendEvent(e) PROVE CallsOK'
  BY <1>1 DEF AppendEvent, WalkOn, Walking, Forget, Track, Holding
<1>2. ASSUME NEW s \in Subscribers, AckPending(s) PROVE CallsOK'
  BY <1>2 DEF AckPending, WalkOn, Walking, Forget, Track, Holding
<1>3. ASSUME NEW s \in Subscribers, NEW a \in Activities, ReportActivity(s, a) PROVE CallsOK'
  BY <1>3 DEF ReportActivity, WalkOn, Walking, Forget, Track, Holding
<1>4. ASSUME NEW s \in Subscribers, NEW k \in Registrations, Register(s, k) PROVE CallsOK'
  BY <1>4 DEF Register, WalkOn, Walking, Forget, Track, Holding
<1>5. ASSUME PassTime PROVE CallsOK'
  BY <1>5 DEF PassTime, WalkOn, Walking, Forget, Track, Holding
<1>6. ASSUME NEW c \in Calls, Tick(c) PROVE CallsOK'
  BY <1>6 DEF Tick, WalkOn, Walking, Forget, Track, Holding
<1>7. ASSUME NEW s \in Subscribers, NEW c \in Calls, Trigger(c, s) PROVE CallsOK'
  BY <1>7 DEF Trigger, WalkOn, Walking, Forget, Track, Holding
<1>8. ASSUME NEW s \in Subscribers, NEW c \in Calls, SkipLocked(c, s) PROVE CallsOK'
  BY <1>8 DEF SkipLocked, WalkOn, Walking, Forget, Track, Holding
<1>9. ASSUME NEW s \in Subscribers, NEW c \in Calls, Defer(c, s) PROVE CallsOK'
  BY <1>9 DEF Defer, WalkOn, Walking, Forget, Track, Holding
<1>10. ASSUME NEW s \in Subscribers, NEW c \in Calls, CompleteUnsupported(c, s) PROVE CallsOK'
  BY <1>10 DEF CompleteUnsupported, WalkOn, Walking, Forget, Track, Holding
<1>11. ASSUME NEW s \in Subscribers, NEW c \in Calls, Claim(c, s) PROVE CallsOK'
  BY <1>11, HeadOfMail DEF Claim, WalkOn, Walking, Forget, Track, Holding
<1>12. ASSUME NEW c \in Calls, PassSecondGate(c) PROVE CallsOK'
  BY <1>12 DEF PassSecondGate, WalkOn, Walking, Forget, Track, Holding
<1>13. ASSUME NEW c \in Calls, RestoreAtSecondGate(c) PROVE CallsOK'
  BY <1>13 DEF RestoreAtSecondGate, WalkOn, Walking, Forget, Track, Holding
<1>14. ASSUME NEW c \in Calls, InjectResolves(c) PROVE CallsOK'
  BY <1>14 DEF InjectResolves, WalkOn, Walking, Forget, Track, Holding
<1>15. ASSUME NEW c \in Calls, InjectRejects(c) PROVE CallsOK'
  BY <1>15 DEF InjectRejects, WalkOn, Walking, Forget, Track, Holding
<1>16. ASSUME Restart PROVE CallsOK'
  BY <1>16 DEF Restart, WalkOn, Walking, Forget, Track, Holding
<1>17. CASE UNCHANGED vars
  BY <1>17 DEF vars
<1> QED
  BY <1>1, <1>2, <1>3, <1>4, <1>5, <1>6, <1>7, <1>8, <1>9, <1>10, <1>11,
     <1>12, <1>13, <1>14, <1>15, <1>16, <1>17 DEF Next, Deliver,
     SecondGate, Finish

\* A queue holds mail of its agent: what is given back came from there.
LEMMA QueueStep ==
    ASSUME SchedInv, [Next]_vars
    PROVE  QueueOK'
<1> USE SchedulerConstants DEF QueueOK, SchedInv, registry, queue, memory, calls
<1>1. ASSUME NEW e \in Events, AppendEvent(e) PROVE QueueOK'
  <2>1. pending[To[e]] \in Seq(Mail(To[e])) /\ e \in Mail(To[e])
    BY <1>1 DEF AppendEvent, Mail
  <2>2. Append(pending[To[e]], e) \in Seq(Mail(To[e]))
    BY <2>1, AppendProperties
  <2> QED
    BY <1>1, <2>2 DEF AppendEvent
<1>2. ASSUME NEW s \in Subscribers, AckPending(s) PROVE QueueOK'
  BY <1>2, EmptySeq DEF AckPending
<1>3. ASSUME NEW s \in Subscribers, NEW a \in Activities, ReportActivity(s, a) PROVE QueueOK'
  BY <1>3 DEF ReportActivity
<1>4. ASSUME NEW s \in Subscribers, NEW k \in Registrations, Register(s, k) PROVE QueueOK'
  BY <1>4 DEF Register
<1>5. ASSUME PassTime PROVE QueueOK'
  BY <1>5 DEF PassTime
<1>6. ASSUME NEW c \in Calls, Tick(c) PROVE QueueOK'
  BY <1>6 DEF Tick
<1>7. ASSUME NEW s \in Subscribers, NEW c \in Calls, Trigger(c, s) PROVE QueueOK'
  BY <1>7 DEF Trigger
<1>8. ASSUME NEW s \in Subscribers, NEW c \in Calls, SkipLocked(c, s) PROVE QueueOK'
  BY <1>8 DEF SkipLocked
<1>9. ASSUME NEW s \in Subscribers, NEW c \in Calls, Defer(c, s) PROVE QueueOK'
  BY <1>9 DEF Defer
<1>10. ASSUME NEW s \in Subscribers, NEW c \in Calls, CompleteUnsupported(c, s) PROVE QueueOK'
  BY <1>10, HeadOfMail DEF CompleteUnsupported
<1>11. ASSUME NEW s \in Subscribers, NEW c \in Calls, Claim(c, s) PROVE QueueOK'
  BY <1>11, HeadOfMail DEF Claim
<1>12. ASSUME NEW c \in Calls, PassSecondGate(c) PROVE QueueOK'
  BY <1>12 DEF PassSecondGate
<1>13. ASSUME NEW c \in Calls, RestoreAtSecondGate(c) PROVE QueueOK'
  <2>1. held[c] \in Events /\ To[held[c]] \in Subscribers
    BY <1>13 DEF RestoreAtSecondGate, LockInv, CallsOK
  <2> QED
    BY <1>13, <2>1, BackInQueue DEF RestoreAtSecondGate, WalkOn
<1>14. ASSUME NEW c \in Calls, InjectResolves(c) PROVE QueueOK'
  BY <1>14 DEF InjectResolves
<1>15. ASSUME NEW c \in Calls, InjectRejects(c) PROVE QueueOK'
  <2>1. held[c] \in Events /\ To[held[c]] \in Subscribers
    BY <1>15 DEF InjectRejects, LockInv, CallsOK
  <2> QED
    BY <1>15, <2>1, BackInQueue DEF InjectRejects, WalkOn
<1>16. ASSUME Restart PROVE QueueOK'
  <2> SUFFICES ASSUME NEW s \in Subscribers PROVE pending'[s] \in Seq(Mail(s))
    BY <1>16 DEF Restart
  <2> DEFINE back == {held[c] : c \in Holding(s)}
  <2>1. CASE back = {}
    BY <1>16, <2>1 DEF Restart
  <2>2. CASE back # {}
    <3> DEFINE one == CHOOSE e \in back : TRUE
    <3>1. one \in back
      BY <2>2
    <3>2. one \in Events /\ To[one] = s
      BY <3>1 DEF Holding, CallsOK
    <3>3. <<one>> \o pending[s] \in Seq(Mail(s))
      BY <3>2, BackInQueue
    <3> QED
      BY <1>16, <2>2, <3>3 DEF Restart
  <2> QED
    BY <2>1, <2>2
<1>17. CASE UNCHANGED vars
  BY <1>17 DEF vars
<1> QED
  BY <1>1, <1>2, <1>3, <1>4, <1>5, <1>6, <1>7, <1>8, <1>9, <1>10, <1>11,
     <1>12, <1>13, <1>14, <1>15, <1>16, <1>17 DEF Next, Deliver,
     SecondGate, Finish

\* The lock names the call that holds a message.
LEMMA LockStep ==
    ASSUME SchedInv, [Next]_vars
    PROVE  LockInv'
<1> USE SchedulerConstants DEF CallsOK, LockInv, SchedInv, registry, queue, memory, calls
<1>1. ASSUME NEW e \in Events, AppendEvent(e) PROVE LockInv'
  BY <1>1 DEF AppendEvent, WalkOn, Walking, LockFree
<1>2. ASSUME NEW s \in Subscribers, AckPending(s) PROVE LockInv'
  BY <1>2 DEF AckPending, WalkOn, Walking, LockFree
<1>3. ASSUME NEW s \in Subscribers, NEW a \in Activities, ReportActivity(s, a) PROVE LockInv'
  BY <1>3 DEF ReportActivity, WalkOn, Walking, LockFree
<1>4. ASSUME NEW s \in Subscribers, NEW k \in Registrations, Register(s, k) PROVE LockInv'
  BY <1>4 DEF Register, WalkOn, Walking, LockFree
<1>5. ASSUME PassTime PROVE LockInv'
  BY <1>5 DEF PassTime, WalkOn, Walking, LockFree
<1>6. ASSUME NEW c \in Calls, Tick(c) PROVE LockInv'
  BY <1>6 DEF Tick, WalkOn, Walking, LockFree
<1>7. ASSUME NEW s \in Subscribers, NEW c \in Calls, Trigger(c, s) PROVE LockInv'
  BY <1>7 DEF Trigger, WalkOn, Walking, LockFree
<1>8. ASSUME NEW s \in Subscribers, NEW c \in Calls, SkipLocked(c, s) PROVE LockInv'
  BY <1>8 DEF SkipLocked, WalkOn, Walking, LockFree
<1>9. ASSUME NEW s \in Subscribers, NEW c \in Calls, Defer(c, s) PROVE LockInv'
  BY <1>9 DEF Defer, WalkOn, Walking, LockFree
<1>10. ASSUME NEW s \in Subscribers, NEW c \in Calls, CompleteUnsupported(c, s) PROVE LockInv'
  BY <1>10 DEF CompleteUnsupported, WalkOn, Walking, LockFree
<1>11. ASSUME NEW s \in Subscribers, NEW c \in Calls, Claim(c, s) PROVE LockInv'
  <2> DEFINE next == Head(pending[s])
  <2>1. pc[c] = "walk" /\ s \in targets[c] /\ locks[s] = None
    BY <1>11 DEF Claim, Walking, LockFree
  <2>2. next \in Events /\ To[next] = s /\ next # None
    BY <1>11, HeadOfMail DEF Claim
  <2>3. /\ locks' = [locks EXCEPT ![s] = c]
        /\ held' = [held EXCEPT ![c] = next]
        /\ pc' \in {[pc EXCEPT ![c] = "claimed"], [pc EXCEPT ![c] = "inject"]}
        /\ targets' = targets
    BY <1>11 DEF Claim
  <2> HIDE DEF next
  <2> QED
    BY <2>1, <2>2, <2>3
<1>12. ASSUME NEW c \in Calls, PassSecondGate(c) PROVE LockInv'
  BY <1>12 DEF PassSecondGate, WalkOn, Walking, LockFree
<1>13. ASSUME NEW c \in Calls, RestoreAtSecondGate(c) PROVE LockInv'
  BY <1>13 DEF RestoreAtSecondGate, WalkOn, Walking, LockFree
<1>14. ASSUME NEW c \in Calls, InjectResolves(c) PROVE LockInv'
  BY <1>14 DEF InjectResolves, WalkOn, Walking, LockFree
<1>15. ASSUME NEW c \in Calls, InjectRejects(c) PROVE LockInv'
  BY <1>15 DEF InjectRejects, WalkOn, Walking, LockFree
<1>16. ASSUME Restart PROVE LockInv'
  BY <1>16 DEF Restart, WalkOn, Walking, LockFree
<1>17. CASE UNCHANGED vars
  BY <1>17 DEF vars
<1> QED
  BY <1>1, <1>2, <1>3, <1>4, <1>5, <1>6, <1>7, <1>8, <1>9, <1>10, <1>11,
     <1>12, <1>13, <1>14, <1>15, <1>16, <1>17 DEF Next, Deliver,
     SecondGate, Finish

\* One message at a time is typed into a terminal.
THEOREM OneInjectionHolds == Spec => []OneInjection
<1>1. Init => SchedInv
  BY SchedInit
<1>2. SchedInv /\ [Next]_vars => SchedInv'
  BY CallsStep, QueueStep, LockStep DEF SchedInv
<1>3. SchedInv => OneInjection
  BY DEF SchedInv, LockInv, OneInjection
<1> QED
  BY <1>1, <1>2, <1>3, PTL DEF Spec

-----------------------------------------------------------------------------
(***************************************************************************)
(* Where a message is.  That it is in one place only needs that no queue   *)
(* holds it twice, and that a lock has one holder: then what a restart     *)
(* gives back to an agent is one message at most.                          *)
(***************************************************************************)
Has(q, e) == \E i \in DOMAIN q : q[i] = e

Once(q) == \A i, j \in DOMAIN q : q[i] = q[j] => i = j

InHand(e) == \E c \in Calls : held[c] = e

OnePlace(e) ==
    /\ Queued(e) => ~ InHand(e) /\ e \notin delivered /\ e \notin dropped
    /\ InHand(e) => e \notin delivered /\ e \notin dropped
    /\ e \in delivered => e \notin dropped

SomePlace(e) == e \in sent <=> Queued(e) \/ InHand(e) \/ e \in delivered \/ e \in dropped

PlaceInv ==
    /\ sent \subseteq Events
    /\ \A s \in Subscribers : Once(pending[s])
    /\ \A e \in Events : OnePlace(e) /\ SomePlace(e)

LEMMA HeadOnce ==
    ASSUME NEW S, NEW q \in Seq(S), q # <<>>, Once(q)
    PROVE  /\ Once(Tail(q)) /\ ~ Has(Tail(q), Head(q))
           /\ \A e : Has(q, e) <=> e = Head(q) \/ Has(Tail(q), e)
<1>1. /\ Tail(q) \in Seq(S) /\ Head(q) = q[1] /\ Len(q) \in Nat \ {0}
      /\ Len(Tail(q)) = Len(q) - 1
      /\ \A i \in 1 .. Len(q) - 1 : Tail(q)[i] = q[i + 1]
  BY HeadTailProperties, EmptySeq
<1>2. DOMAIN q = 1 .. Len(q) /\ DOMAIN Tail(q) = 1 .. Len(q) - 1
  BY <1>1, LenProperties
<1>3. \A i \in 1 .. Len(q) - 1 : i + 1 \in 1 .. Len(q) /\ i + 1 # 1
  BY <1>1
<1>4. Once(Tail(q))
  BY <1>1, <1>2, <1>3 DEF Once
<1>5. ~ Has(Tail(q), Head(q))
  <2>1. 1 \in 1 .. Len(q)
    BY <1>1
  <2> QED BY <1>1, <1>2, <1>3, <2>1 DEF Has, Once
<1>6. ASSUME NEW e, Has(q, e) PROVE e = Head(q) \/ Has(Tail(q), e)
  <2>1. PICK i \in 1 .. Len(q) : q[i] = e
    BY <1>2, <1>6 DEF Has
  <2>2. CASE i = 1
    BY <1>1, <2>1, <2>2
  <2>3. CASE i # 1
    <3>1. i - 1 \in 1 .. Len(q) - 1 /\ Tail(q)[i - 1] = q[i]
      BY <1>1, <2>3
    <3> QED BY <1>2, <2>1, <3>1 DEF Has
  <2> QED BY <2>2, <2>3
<1>7. ASSUME NEW e, e = Head(q) \/ Has(Tail(q), e) PROVE Has(q, e)
  <2>1. 1 \in 1 .. Len(q)
    BY <1>1
  <2> QED BY <1>1, <1>2, <1>3, <1>7, <2>1 DEF Has
<1> QED BY <1>4, <1>5, <1>6, <1>7

LEMMA FrontOnce ==
    ASSUME NEW S, NEW q \in Seq(S), NEW d \in S, Once(q), ~ Has(q, d)
    PROVE  /\ Once(<<d>> \o q) /\ \A e : Has(<<d>> \o q, e) <=> e = d \/ Has(q, e)
<1>1. /\ <<d>> \in Seq(S) /\ Len(<<d>>) = 1 /\ <<d>>[1] = d /\ Len(q) \in Nat
      /\ DOMAIN q = 1 .. Len(q)
  BY LenProperties
<1>2. /\ <<d>> \o q \in Seq(S) /\ Len(<<d>> \o q) = 1 + Len(q)
      /\ \A i \in 1 .. 1 + Len(q) : (<<d>> \o q)[i] = IF i <= 1 THEN d ELSE q[i - 1]
  BY <1>1, ConcatProperties
<1>3. DOMAIN (<<d>> \o q) = 1 .. 1 + Len(q)
  BY <1>2, LenProperties
<1>4. \A i \in 1 .. 1 + Len(q) : i # 1 => i - 1 \in 1 .. Len(q) /\ (<<d>> \o q)[i] = q[i - 1]
  BY <1>1, <1>2
<1>5. Once(<<d>> \o q)
  <2>1. SUFFICES ASSUME NEW i \in 1 .. 1 + Len(q), NEW j \in 1 .. 1 + Len(q),
                        (<<d>> \o q)[i] = (<<d>> \o q)[j]
                 PROVE  i = j
    BY <1>3 DEF Once
  <2>2. CASE i = 1 \/ j = 1
    BY <1>1, <1>2, <1>4, <2>1, <2>2 DEF Has
  <2>3. CASE i # 1 /\ j # 1
    <3>1. i - 1 = j - 1
      BY <1>1, <1>4, <2>1, <2>3 DEF Once
    <3> QED BY <3>1
  <2> QED BY <2>2, <2>3
<1>6. ASSUME NEW e, Has(<<d>> \o q, e) PROVE e = d \/ Has(q, e)
  BY <1>1, <1>2, <1>3, <1>4, <1>6 DEF Has
<1>7. ASSUME NEW e, e = d \/ Has(q, e) PROVE Has(<<d>> \o q, e)
  <2>1. \A i \in 1 .. Len(q) : i + 1 \in 1 .. 1 + Len(q) /\ (<<d>> \o q)[i + 1] = q[i]
    BY <1>1, <1>2
  <2>2. 1 \in 1 .. 1 + Len(q) /\ (<<d>> \o q)[1] = d
    BY <1>1, <1>2
  <2> QED BY <1>1, <1>3, <1>7, <2>1, <2>2 DEF Has
<1> QED BY <1>5, <1>6, <1>7

LEMMA BackOnce ==
    ASSUME NEW S, NEW q \in Seq(S), NEW d \in S, Once(q), ~ Has(q, d)
    PROVE  /\ Once(Append(q, d)) /\ \A e : Has(Append(q, d), e) <=> e = d \/ Has(q, e)
<1>1. /\ Append(q, d) \in Seq(S) /\ Len(q) \in Nat /\ Len(Append(q, d)) = Len(q) + 1
      /\ \A i \in 1 .. Len(q) : Append(q, d)[i] = q[i]
      /\ Append(q, d)[Len(q) + 1] = d
  BY AppendProperties, LenProperties
<1>2. DOMAIN q = 1 .. Len(q) /\ DOMAIN Append(q, d) = 1 .. Len(q) + 1
  BY <1>1, LenProperties
<1>3. \A i \in 1 .. Len(q) + 1 : i \in 1 .. Len(q) \/ i = Len(q) + 1
  BY <1>1
<1>4. 1 .. Len(q) \subseteq 1 .. Len(q) + 1 /\ Len(q) + 1 \in 1 .. Len(q) + 1
  BY <1>1
<1>5. Once(Append(q, d))
  BY <1>1, <1>2, <1>3 DEF Once, Has
<1>6. \A e : Has(Append(q, d), e) <=> e = d \/ Has(q, e)
  BY <1>1, <1>2, <1>3, <1>4 DEF Has
<1> QED BY <1>5, <1>6

\* Steps that move no message.
LEMMA PlaceQuiet ==
    ASSUME PlaceInv, UNCHANGED <<sent, pending, delivered, dropped, held>>
    PROVE  PlaceInv'
BY DEF PlaceInv, OnePlace, SomePlace, Once, Queued, InHand

\* Steps that change the queue of one agent, by putting in or taking out d, and
\* move nothing else but d.
LEMMA PlaceMove ==
    ASSUME PlaceInv, QueueOK, NEW s \in Subscribers, NEW d \in Events, To[d] = s,
           NEW q, pending' = [pending EXCEPT ![s] = q], Once(q),
           \A e : e # d => (Has(q, e) <=> Has(pending[s], e)),
           sent \subseteq sent', sent' \subseteq sent \cup {d}, d \in sent',
           \A e \in Events : e # d => /\ InHand(e)' <=> InHand(e)
                                      /\ e \in delivered' <=> e \in delivered
                                      /\ e \in dropped' <=> e \in dropped,
           Has(q, d) => ~ InHand(d)' /\ d \notin delivered' /\ d \notin dropped',
           InHand(d)' => d \notin delivered' /\ d \notin dropped',
           d \in delivered' => d \notin dropped',
           Has(q, d) \/ InHand(d)' \/ d \in delivered' \/ d \in dropped'
    PROVE  PlaceInv'
<1>1. pending'[s] = q /\ \A t \in Subscribers : t # s => pending'[t] = pending[t]
  BY DEF QueueOK
<1>2. \A e \in Events : Queued(e)' <=> IF e = d THEN Has(q, d) ELSE Queued(e)
  <2>1. \A e \in Events : To[e] \in Subscribers
    BY SchedulerConstants
  <2>2. ASSUME NEW e \in Events, To[e] = s PROVE Queued(e)' <=> Has(q, e)
    BY <1>1, <2>2 DEF Queued, Has
  <2>3. ASSUME NEW e \in Events, To[e] = s PROVE Queued(e) <=> Has(pending[s], e)
    BY <2>3 DEF Queued, Has
  <2>4. ASSUME NEW e \in Events, To[e] # s PROVE Queued(e)' <=> Queued(e)
    BY <1>1, <2>1, <2>4 DEF Queued
  <2> QED BY <2>2, <2>3, <2>4
<1>3. \A t \in Subscribers : Once(pending[t])'
  BY <1>1 DEF PlaceInv, Once
<1>4. sent' \subseteq Events
  BY DEF PlaceInv
<1>5. ASSUME NEW e \in Events PROVE OnePlace(e)' /\ SomePlace(e)'
  <2>1. CASE e = d
    BY <1>2, <2>1 DEF OnePlace, SomePlace
  <2>2. CASE e # d
    BY <1>2, <1>5, <2>2 DEF PlaceInv, OnePlace, SomePlace
  <2> QED BY <2>1, <2>2
<1> QED BY <1>3, <1>4, <1>5 DEF PlaceInv

LEMMA PlaceInit == Init => PlaceInv
<1> SUFFICES ASSUME Init PROVE PlaceInv
  OBVIOUS
<1>1. \A s \in Subscribers : pending[s] = <<>> /\ DOMAIN pending[s] = {}
  BY DEF Init
<1>2. \A e \in Events : To[e] \in Subscribers /\ \A c \in Calls : held[c] # e
  BY SchedulerConstants DEF Init
<1> QED BY <1>1, <1>2 DEF Init, PlaceInv, OnePlace, SomePlace, Once, Queued, InHand

LEMMA PlaceStep ==
    ASSUME SchedInv, PlaceInv, [Next]_vars
    PROVE  PlaceInv'
<1> USE SchedulerConstants DEF registry, queue, memory, calls
<1>a. /\ \A e \in Events : To[e] \in Subscribers
      /\ \A s \in Subscribers : pending[s] \in Seq(Mail(s)) /\ pending[s] \in Seq(Events)
      /\ CallsOK /\ QueueOK /\ LockInv
  <2>1. \A s \in Subscribers : Seq(Mail(s)) \subseteq Seq(Events)
    BY SeqDef DEF Mail
  <2> QED BY <2>1 DEF SchedInv, QueueOK
<1>b. ASSUME NEW s \in Subscribers, NEW e \in Events, To[e] = s
      PROVE  Queued(e) <=> Has(pending[s], e)
  BY <1>b DEF Queued, Has
<1>1. ASSUME NEW e \in Events, AppendEvent(e) PROVE PlaceInv'
  <2> DEFINE s == To[e]
             q == Append(pending[s], e)
  <2>1. /\ e \notin sent /\ sent' = sent \cup {e} /\ pending' = [pending EXCEPT ![s] = q]
        /\ UNCHANGED <<delivered, dropped, held>>
    BY <1>1 DEF AppendEvent
  <2>2. /\ ~ Queued(e) /\ ~ InHand(e) /\ e \notin delivered /\ e \notin dropped
    BY <2>1 DEF PlaceInv, SomePlace
  <2>3. ~ Has(pending[s], e)
    BY <1>a, <1>b, <2>2
  <2>4. Once(q) /\ \A d : Has(q, d) <=> d = e \/ Has(pending[s], d)
    BY <1>a, <2>3, BackOnce DEF PlaceInv
  <2>5. \A d \in Events : InHand(d)' <=> InHand(d)
    BY <2>1 DEF InHand
  <2> HIDE DEF q
  <2> QED BY <1>a, <2>1, <2>2, <2>4, <2>5, PlaceMove
<1>2. ASSUME NEW s \in Subscribers, AckPending(s) PROVE PlaceInv'
  <2> DEFINE all == {pending[s][i] : i \in DOMAIN pending[s]}
  <2>1. /\ dropped' = dropped \cup all /\ pending' = [pending EXCEPT ![s] = <<>>]
        /\ UNCHANGED <<sent, delivered, held>>
    BY <1>2 DEF AckPending
  <2>2. \A e : e \in all <=> Has(pending[s], e)
    BY DEF Has
  <2>3. all \subseteq Mail(s)
    BY <1>a, LenProperties
  <2>4. pending'[s] = <<>> /\ \A t \in Subscribers : t # s => pending'[t] = pending[t]
    BY <1>a, <2>1 DEF QueueOK
  <2>5. ASSUME NEW e \in Events PROVE Queued(e)' <=> Queued(e) /\ e \notin all
    <3>1. CASE To[e] = s
      BY <1>b, <2>2, <2>4, <3>1 DEF Queued
    <3>2. CASE To[e] # s
      BY <1>a, <2>3, <2>4, <3>2 DEF Queued, Mail
    <3> QED BY <3>1, <3>2
  <2>6. \A e \in all : e \in Events /\ Queued(e)
    BY <1>b, <2>2, <2>3 DEF Mail
  <2>7. \A t \in Subscribers : Once(pending[t])'
    BY <2>4 DEF PlaceInv, Once
  <2>8. \A e \in Events : InHand(e)' <=> InHand(e)
    BY <2>1 DEF InHand
  <2> HIDE DEF all
  <2>9. ASSUME NEW e \in Events PROVE OnePlace(e)' /\ SomePlace(e)'
    BY <2>1, <2>5, <2>6, <2>8 DEF PlaceInv, OnePlace, SomePlace
  <2> QED BY <2>1, <2>7, <2>9 DEF PlaceInv
<1>3. ASSUME NEW s \in Subscribers, NEW c \in Calls, CompleteUnsupported(c, s) PROVE PlaceInv'
  <2> DEFINE d == Head(pending[s])
             q == Tail(pending[s])
  <2>1. /\ pending[s] # <<>> /\ pending' = [pending EXCEPT ![s] = q] /\ dropped' = dropped \cup {d}
        /\ UNCHANGED <<sent, delivered>> /\ pc[c] = "walk"
        /\ held' = [held EXCEPT ![c] = None]
    BY <1>3 DEF CompleteUnsupported, Walking, WalkOn
  <2>2. held[c] = None
    BY <1>a, <2>1 DEF LockInv
  <2>3. held' = held
    BY <1>a, <2>1, <2>2 DEF CallsOK
  <2>4. d \in Events /\ To[d] = s
    BY <1>a, <2>1, HeadOfMail
  <2>5. /\ Once(q) /\ ~ Has(q, d)
        /\ \A e : Has(pending[s], e) <=> e = d \/ Has(q, e)
    BY <1>a, <2>1, HeadOnce DEF PlaceInv
  <2>6. Queued(d)
    BY <1>b, <2>4, <2>5
  <2>7. d \in sent /\ ~ InHand(d) /\ d \notin delivered
    BY <2>4, <2>6 DEF PlaceInv, OnePlace, SomePlace
  <2>8. \A e \in Events : InHand(e)' <=> InHand(e)
    BY <2>3 DEF InHand
  <2> HIDE DEF q, d
  <2> QED BY <1>a, <2>1, <2>4, <2>5, <2>7, <2>8, PlaceMove
<1>4. ASSUME NEW s \in Subscribers, NEW c \in Calls, Claim(c, s) PROVE PlaceInv'
  <2> DEFINE d == Head(pending[s])
             q == Tail(pending[s])
  <2>1. /\ pending[s] # <<>> /\ pending' = [pending EXCEPT ![s] = q]
        /\ UNCHANGED <<sent, delivered, dropped>> /\ pc[c] = "walk"
        /\ held' = [held EXCEPT ![c] = d]
    BY <1>4 DEF Claim, Walking
  <2>2. held[c] = None
    BY <1>a, <2>1 DEF LockInv
  <2>4. d \in Events /\ To[d] = s
    BY <1>a, <2>1, HeadOfMail
  <2>5. /\ Once(q) /\ ~ Has(q, d)
        /\ \A e : Has(pending[s], e) <=> e = d \/ Has(q, e)
    BY <1>a, <2>1, HeadOnce DEF PlaceInv
  <2>6. Queued(d)
    BY <1>b, <2>4, <2>5
  <2>7. d \in sent /\ d \notin delivered /\ d \notin dropped
    BY <2>4, <2>6 DEF PlaceInv, OnePlace, SomePlace
  <2>8. \A e \in Events : InHand(e)' <=> InHand(e) \/ e = d
    BY <1>a, <2>1, <2>2 DEF InHand, CallsOK
  <2> HIDE DEF q, d
  <2> QED BY <1>a, <2>1, <2>4, <2>5, <2>7, <2>8, PlaceMove
\* A claim is given back.
<1>5. ASSUME NEW c \in Calls, RestoreAtSecondGate(c) \/ InjectRejects(c) PROVE PlaceInv'
  <2> DEFINE d == held[c]
             s == To[d]
             q == <<d>> \o pending[s]
  <2>1. /\ pending' = [pending EXCEPT ![s] = q] /\ pc[c] \in {"claimed", "inject"}
        /\ UNCHANGED <<sent, delivered, dropped>> /\ held' = [held EXCEPT ![c] = None]
    BY <1>5 DEF RestoreAtSecondGate, InjectRejects, WalkOn
  <2>2. d \in Events /\ InHand(d) /\ s \in Subscribers
    BY <1>a, <2>1 DEF LockInv, CallsOK, InHand
  <2>3. ~ Queued(d) /\ d \notin delivered /\ d \notin dropped /\ d \in sent
    BY <2>2 DEF PlaceInv, OnePlace, SomePlace
  <2>4. ~ Has(pending[s], d)
    BY <1>b, <2>2, <2>3
  <2>5. Once(q) /\ \A e : Has(q, e) <=> e = d \/ Has(pending[s], e)
    BY <1>a, <2>2, <2>4, FrontOnce DEF PlaceInv
  \* One call only holds it: the lock.
  <2>6. \A b \in Calls : held[b] = d => b = c
    BY <1>a, <2>2 DEF LockInv
  <2>7. \A e \in Events : InHand(e)' <=> InHand(e) /\ e # d
    BY <1>a, <2>1, <2>6 DEF InHand, CallsOK
  <2> HIDE DEF q, d
  <2> QED BY <1>a, <2>1, <2>2, <2>3, <2>5, <2>7, PlaceMove
<1>6. ASSUME NEW c \in Calls, InjectResolves(c) PROVE PlaceInv'
  <2> DEFINE d == held[c]
  <2>1. /\ pc[c] = "inject" /\ delivered' = delivered \cup {d}
        /\ UNCHANGED <<sent, pending, dropped>> /\ held' = [held EXCEPT ![c] = None]
    BY <1>6 DEF InjectResolves, WalkOn
  <2>2. d \in Events /\ InHand(d) /\ d # None
    BY <1>a, <2>1 DEF LockInv, CallsOK, InHand
  <2>3. \A b \in Calls : held[b] = d => b = c
    BY <1>a, <2>2 DEF LockInv
  <2>4. \A e \in Events : InHand(e)' <=> InHand(e) /\ e # d
    BY <1>a, <2>1, <2>3 DEF InHand, CallsOK
  <2>5. /\ \A e \in Events : Queued(e)' <=> Queued(e)
        /\ \A t \in Subscribers : Once(pending[t])'
    BY <2>1 DEF Queued, PlaceInv, Once
  <2> HIDE DEF d
  <2>6. ASSUME NEW e \in Events PROVE OnePlace(e)' /\ SomePlace(e)'
    BY <2>1, <2>2, <2>4, <2>5 DEF PlaceInv, OnePlace, SomePlace
  <2> QED BY <2>1, <2>5, <2>6 DEF PlaceInv
<1>7. ASSUME Restart PROVE PlaceInv'
  <2> DEFINE back(s) == {held[c] : c \in Holding(s)}
  <2>1. /\ pending' = [s \in Subscribers |->
             IF back(s) = {} THEN pending[s] ELSE <<CHOOSE e \in back(s) : TRUE>> \o pending[s]]
        /\ held' = [c \in Calls |-> None] /\ UNCHANGED <<sent, delivered, dropped>>
    BY <1>7 DEF Restart
  <2>2. ASSUME NEW e \in Events, NEW s \in Subscribers, To[e] = s
        PROVE  e \in back(s) <=> InHand(e)
    BY <2>2 DEF Holding, InHand
  <2>3. ASSUME NEW s \in Subscribers
        PROVE  /\ Once(pending'[s])
               /\ \A e \in Events : To[e] = s =>
                     (Has(pending'[s], e) <=> Has(pending[s], e) \/ InHand(e))
    <3>1. CASE back(s) = {}
      <4>1. pending'[s] = pending[s]
        BY <2>1, <3>1
      <4> QED BY <2>2, <3>1, <4>1 DEF PlaceInv
    <3>2. CASE back(s) # {}
      <4> DEFINE d == CHOOSE e \in back(s) : TRUE
      <4>1. d \in back(s)
        BY <3>2
      <4>2. PICK c \in Calls : held[c] = d /\ d # None /\ To[d] = s
        BY <4>1 DEF Holding
      <4>3. \A b \in Calls : held[b] # None /\ To[held[b]] = s => b = c
        BY <1>a, <4>2 DEF LockInv
      <4>4. back(s) = {d}
        BY <4>1, <4>3, <4>2 DEF Holding
      <4>5. d \in Events /\ InHand(d)
        BY <1>a, <4>2 DEF CallsOK, InHand
      <4>6. ~ Has(pending[s], d)
        BY <1>b, <4>2, <4>5 DEF PlaceInv, OnePlace
      <4>7. pending'[s] = <<d>> \o pending[s]
        BY <2>1, <3>2
      <4> HIDE DEF d
      <4>8. Once(pending'[s]) /\ \A e : Has(pending'[s], e) <=> e = d \/ Has(pending[s], e)
        BY <1>a, <4>5, <4>6, <4>7, FrontOnce DEF PlaceInv
      <4> QED BY <2>2, <4>4, <4>8
    <3> QED BY <3>1, <3>2
  <2>4. ASSUME NEW e \in Events PROVE ~ InHand(e)' /\ (Queued(e)' <=> Queued(e) \/ InHand(e))
    <3>1. ~ InHand(e)'
      BY <2>1 DEF InHand
    <3>2. Queued(e)' <=> Has(pending'[To[e]], e)
      BY <1>a DEF Queued, Has
    <3>3. Queued(e) <=> Has(pending[To[e]], e)
      BY <1>a DEF Queued, Has
    <3> QED BY <1>a, <2>3, <3>1, <3>2, <3>3
  <2>5. ASSUME NEW e \in Events PROVE OnePlace(e)' /\ SomePlace(e)'
    BY <2>1, <2>4 DEF PlaceInv, OnePlace, SomePlace
  <2>6. \A s \in Subscribers : Once(pending[s])'
    BY <2>3 DEF Once
  <2> QED BY <2>1, <2>5, <2>6 DEF PlaceInv
\* The rest: a call that walks holds nothing.
<1>8. ASSUME NEW s \in Subscribers, NEW c \in Calls, SkipLocked(c, s) \/ Defer(c, s)
      PROVE  PlaceInv'
  <2>1. /\ pc[c] = "walk" /\ held' = [held EXCEPT ![c] = None]
        /\ UNCHANGED <<sent, pending, delivered, dropped>>
    BY <1>8 DEF SkipLocked, Defer, Walking, WalkOn
  <2>2. held' = held
    BY <1>a, <2>1 DEF LockInv, CallsOK
  <2> QED BY <2>1, <2>2, PlaceQuiet
<1>9. ASSUME NEW s \in Subscribers, NEW a \in Activities, ReportActivity(s, a) PROVE PlaceInv'
  BY <1>9, PlaceQuiet DEF ReportActivity
<1>10. ASSUME NEW s \in Subscribers, NEW k \in Registrations, Register(s, k) PROVE PlaceInv'
  BY <1>10, PlaceQuiet DEF Register
<1>11. ASSUME PassTime PROVE PlaceInv'
  BY <1>11, PlaceQuiet DEF PassTime
<1>12. ASSUME NEW c \in Calls, Tick(c) PROVE PlaceInv'
  BY <1>12, PlaceQuiet DEF Tick
<1>13. ASSUME NEW s \in Subscribers, NEW c \in Calls, Trigger(c, s) PROVE PlaceInv'
  BY <1>13, PlaceQuiet DEF Trigger
<1>14. ASSUME NEW c \in Calls, PassSecondGate(c) PROVE PlaceInv'
  BY <1>14, PlaceQuiet DEF PassSecondGate
<1>15. CASE UNCHANGED vars
  BY <1>15, PlaceQuiet DEF vars
<1> QED
  BY <1>1, <1>2, <1>3, <1>4, <1>5, <1>6, <1>7, <1>8, <1>9, <1>10, <1>11,
     <1>12, <1>13, <1>14, <1>15 DEF Next, Deliver, SecondGate, Finish

\* A message that was sent is in one place at every moment: waiting, in the hand of
\* one call, injected, or dropped, whatever overlaps and however often the daemon
\* restarts.
THEOREM NothingStrandedHolds == Spec => []NothingStranded
<1>1. Init => SchedInv /\ PlaceInv
  BY SchedInit, PlaceInit
<1>2. SchedInv /\ PlaceInv /\ [Next]_vars => SchedInv' /\ PlaceInv'
  BY CallsStep, QueueStep, LockStep, PlaceStep DEF SchedInv
<1>3. PlaceInv => NothingStranded
  <2> SUFFICES ASSUME PlaceInv, NEW e \in sent
               PROVE  LET places == <<Queued(e), \E c \in Calls : held[c] = e,
                                      e \in delivered, e \in dropped>>
                      IN  \E i \in 1 .. 4 : /\ places[i]
                                            /\ \A j \in 1 .. 4 : places[j] => i = j
    BY DEF NothingStranded
  <2> DEFINE places == <<Queued(e), \E c \in Calls : held[c] = e, e \in delivered, e \in dropped>>
  <2>1. /\ e \in Events /\ places[1] = Queued(e) /\ places[2] = InHand(e)
        /\ places[3] = (e \in delivered) /\ places[4] = (e \in dropped)
    BY DEF PlaceInv, InHand
  <2>2. OnePlace(e) /\ SomePlace(e)
    BY <2>1 DEF PlaceInv
  <2>3. \A i \in 1 .. 4 : i = 1 \/ i = 2 \/ i = 3 \/ i = 4
    OBVIOUS
  <2> HIDE DEF places
  <2>4. ASSUME Queued(e) PROVE \E i \in 1 .. 4 : places[i] /\ \A j \in 1 .. 4 : places[j] => i = j
    <3>1. places[1] /\ ~places[2] /\ ~places[3] /\ ~places[4]
      BY <2>1, <2>2, <2>4, ZenonT(30) DEF OnePlace
    <3>2. \A j \in 1 .. 4 : places[j] => 1 = j
      BY <2>3, <3>1, ZenonT(30)
    <3>3. 1 \in 1 .. 4
      OBVIOUS
    <3> QED BY <3>1, <3>2, <3>3, ZenonT(30)
  <2>5. ASSUME InHand(e) PROVE \E i \in 1 .. 4 : places[i] /\ \A j \in 1 .. 4 : places[j] => i = j
    <3>1. places[2] /\ ~places[1] /\ ~places[3] /\ ~places[4]
      BY <2>1, <2>2, <2>5, ZenonT(30) DEF OnePlace
    <3>2. \A j \in 1 .. 4 : places[j] => 2 = j
      BY <2>3, <3>1, ZenonT(30)
    <3>3. 2 \in 1 .. 4
      OBVIOUS
    <3> QED BY <3>1, <3>2, <3>3, ZenonT(30)
  <2>6. ASSUME e \in delivered PROVE \E i \in 1 .. 4 : places[i] /\ \A j \in 1 .. 4 : places[j] => i = j
    <3>1. places[3] /\ ~places[1] /\ ~places[2] /\ ~places[4]
      BY <2>1, <2>2, <2>6, ZenonT(30) DEF OnePlace
    <3>2. \A j \in 1 .. 4 : places[j] => 3 = j
      BY <2>3, <3>1, ZenonT(30)
    <3>3. 3 \in 1 .. 4
      OBVIOUS
    <3> QED BY <3>1, <3>2, <3>3, ZenonT(30)
  <2>7. ASSUME e \in dropped PROVE \E i \in 1 .. 4 : places[i] /\ \A j \in 1 .. 4 : places[j] => i = j
    <3>1. places[4] /\ ~places[1] /\ ~places[2] /\ ~places[3]
      BY <2>1, <2>2, <2>7, ZenonT(30) DEF OnePlace
    <3>2. \A j \in 1 .. 4 : places[j] => 4 = j
      BY <2>3, <3>1, ZenonT(30)
    <3>3. 4 \in 1 .. 4
      OBVIOUS
    <3> QED BY <3>1, <3>2, <3>3, ZenonT(30)
  <2>8. \E i \in 1 .. 4 : places[i] /\ \A j \in 1 .. 4 : places[j] => i = j
    <3>1. Queued(e) \/ InHand(e) \/ e \in delivered \/ e \in dropped
      BY <2>2 DEF SomePlace
    <3> QED BY <3>1, <2>4, <2>5, <2>6, <2>7, ZenonT(30)
  <2> QED BY <2>8 DEF places
<1> QED
  BY <1>1, <1>2, <1>3, PTL DEF Spec
=============================================================================
