------------------------- MODULE MessageBus_proofs -------------------------
(***************************************************************************)
(* The sequence lock does what message.js:170 says, for any number of      *)
(* senders and crashes, as long as no other process gets in between the    *)
(* two calls of a window and no live holder outlasts SEQ_LOCK_STALE_MS.    *)
(* When one send follows the other, and with every window open: numbers    *)
(* are unique too, the offset skips nothing that was not consumed, and     *)
(* what a send did not queue has been consumed.                            *)
(***************************************************************************)
EXTENDS MessageBus, SequenceTheorems, TLAPS

Line == [seq : Nat \ {0}, by : Senders]

LEMMA BusInit == Init => LockInv
BY BusConstants, EmptySeq DEF Init, LockInv, TypeOK, HolderInv, NumbersInv,
   LogInv, PCs, Idle, Lock

\* Every line of the log is an event, the last one too.
LEMMA LogLines ==
    ASSUME TypeOK
    PROVE  /\ \A i \in DOMAIN log : log[i] \in Line
           /\ log # <<>> => Len(log) \in DOMAIN log
<1>1. log \in Seq(Line)
  BY DEF TypeOK, Line
<1>2. \A i \in DOMAIN log : log[i] \in Line
  BY <1>1, LenProperties, ElementOfSeq
<1>3. log # <<>> => Len(log) \in DOMAIN log
  BY <1>1, LenProperties, EmptySeq
<1> QED
  BY <1>2, <1>3

\* The number on the last line is a number.
LEMMA LastNumber == TypeOK => LastSeq \in Nat
BY LogLines DEF LastSeq, Line

\* The number on the last line was given out, so the counter is past it.
LEMMA LastLine ==
    ASSUME TypeOK, NumbersInv, LogInv
    PROVE  LastSeq \in Nat /\ LastSeq <= counter
<1>1. CASE log = <<>>
  BY <1>1 DEF LastSeq, TypeOK
<1>2. CASE log # <<>>
  <2> DEFINE last == log[Len(log)]
  <2>1. Len(log) \in DOMAIN log /\ last \in Line
    BY <1>2, LogLines
  <2>2. last.seq = seq[last.by]
    BY <2>1 DEF LogInv
  <2>3. last.by \in Senders /\ last.seq \in Nat
    BY <2>1 DEF Line
  <2>4. last.seq <= counter
    BY <2>2, <2>3 DEF NumbersInv
  <2> QED
    BY <1>2, <2>3, <2>4 DEF LastSeq
<1> QED
  BY <1>1, <1>2

\* With no stalls and no windows, taking the lock is one step, and so is
\* clearing it: only a file nobody alive stands behind is removed.
LEMMA LockTaken ==
    ASSUME Windows = {}, NEW p \in Senders, TryLock(p)
    PROVE  /\ p \in alive /\ pc[p] = "try"
           /\ \/ /\ lock = Free /\ lock' = [by |-> p, stamped |-> TRUE]
                 /\ pc' = [pc EXCEPT ![p] = "read"]
              \/ lock' = lock /\ pc' = [pc EXCEPT ![p] = "check"]
           /\ UNCHANGED <<counter, log, inbox, readVars, alive, current, seq, setting>>
<1>1. "stamp" \notin Windows
  OBVIOUS
<1>2. ("stamp" \notin Windows) = TRUE
  BY <1>1
<1> QED
  BY <1>1, <1>2, Zenon DEF TryLock, Goto, At

LEMMA StampedLock ==
    ASSUME NEW p \in Senders, NEW file, file = [by |-> p, stamped |-> TRUE]
    PROVE  file \in Lock /\ file # Free /\ file.by = p /\ file.stamped
<1>1. file \in Lock
  BY Zenon DEF Lock
<1>2. file # Free
  BY <1>1, BusConstants DEF Lock
<1>3. file.by = p
  OBVIOUS
<1>4. file.stamped
  BY Zenon
<1> QED
  BY <1>1, <1>2, <1>3, <1>4

LEMMA LockChecked ==
    ASSUME Windows = {}, ~ Stalls, NEW p \in Senders, CheckLock(p)
    PROVE  /\ p \in alive /\ pc[p] = "check"
           /\ pc' = [pc EXCEPT ![p] = "try"]
           /\ \/ lock' = lock
              \/ lock' = Free /\ (~ lock.stamped \/ lock.by \notin alive)
           /\ UNCHANGED <<counter, log, inbox, readVars, alive, current, seq, setting>>
<1>1. "vanish" \notin Windows /\ "unlink" \notin Windows
  OBVIOUS
<1>2. CASE lock = Free
  BY <1>1, <1>2 DEF CheckLock, Goto, At
<1>3. CASE lock # Free
  <2>1. Judge(p)
    BY <1>1, <1>3 DEF CheckLock
  <2>2. PICK verdict \in Verdicts :
           /\ Goto(p, IF verdict /\ "unlink" \in Windows THEN "unlink" ELSE "try")
           /\ lock' = IF verdict /\ "unlink" \notin Windows THEN Free ELSE lock
    BY <2>1 DEF Judge
  <2>3. pc' = [pc EXCEPT ![p] = "try"]
    BY <1>1, <2>2 DEF Goto
  <2>4. CASE ~ lock.stamped \/ lock.by \notin alive
    BY <1>1, <2>2, <2>3, <2>4 DEF CheckLock, At
  <2>5. CASE lock.stamped /\ lock.by \in alive
    <3>1. verdict = FALSE
      BY <1>3, <2>2, <2>5 DEF Verdicts
    <3> QED
      BY <2>2, <2>3, <3>1 DEF CheckLock, At
  <2> QED
    BY <2>4, <2>5
<1> QED
  BY <1>2, <1>3

\* The log stays right when no line is added and no sender that has a line moves
\* back or takes another number.
LEMMA LogKept ==
    ASSUME TypeOK, LogInv, log' = log,
           \A q \in Senders : pc[q] \in {"offer", "enqueue", "done"} =>
              pc'[q] \in {"offer", "enqueue", "done"} /\ seq'[q] = seq[q]
    PROVE  LogInv'
<1>1. \A i \in DOMAIN log : log[i].by \in Senders
  BY LogLines DEF Line
<1> QED
  BY <1>1 DEF LogInv

\* What the steps at the lock file have in common, whatever the setting.
LEMMA LockMoves ==
    ASSUME TypeOK, NEW p \in Senders,
           TryLock(p) \/ Stamp(p) \/ CheckLock(p) \/ InspectLock(p) \/ UnlinkStale(p)
    PROVE  /\ p \in alive /\ pc[p] \in {"try", "stamp", "check", "inspect", "unlink"}
           /\ \E label \in {"try", "stamp", "check", "inspect", "unlink", "read"} :
                 pc' = [pc EXCEPT ![p] = label]
           /\ lock' \in Lock \cup {Free}
           /\ UNCHANGED <<setting, counter, log, inbox, readVars, alive, current, seq>>
<1> USE DEF Goto, At
<1>1. lock \in Lock \cup {Free}
  BY DEF TypeOK
<1>2. CASE TryLock(p)
  <2> DEFINE whole == "stamp" \notin Windows
  <2>1. [by |-> p, stamped |-> whole] \in Lock
    <3>1. whole \in BOOLEAN
      OBVIOUS
    <3> HIDE DEF whole
    <3> QED
      BY <3>1, Zenon DEF Lock
  <2>2. lock' = [by |-> p, stamped |-> whole] \/ lock' = lock
    BY <1>2, Zenon DEF TryLock
  <2>3. \E label \in {"stamp", "read", "check"} : pc' = [pc EXCEPT ![p] = label]
    BY <1>2 DEF TryLock
  <2> QED
    BY <1>1, <1>2, <2>1, <2>2, <2>3, Zenon DEF TryLock
<1>3. CASE Stamp(p)
  <2>1. lock' \in Lock \cup {Free}
    BY <1>1, <1>3 DEF Stamp, Lock
  <2> QED
    BY <1>3, <2>1 DEF Stamp
<1>4. ASSUME Judge(p)
      PROVE  /\ lock' \in Lock \cup {Free}
             /\ \E label \in {"try", "unlink"} : pc' = [pc EXCEPT ![p] = label]
  BY <1>1, <1>4 DEF Judge
<1>5. CASE CheckLock(p)
  BY <1>1, <1>4, <1>5 DEF CheckLock
<1>6. CASE InspectLock(p)
  BY <1>4, <1>6 DEF InspectLock
<1>7. CASE UnlinkStale(p)
  BY <1>7 DEF UnlinkStale
<1> QED
  BY <1>2, <1>3, <1>5, <1>6, <1>7

\* Types, one action at a time.
LEMMA TypeStep ==
    ASSUME TypeOK, [Next]_vars
    PROVE  TypeOK'
<1> USE DEF Goto, At, lockVars, readVars, senderVars, TypeOK, Lock, PCs
<1>1. ASSUME NEW p \in Senders, Send(p) PROVE TypeOK'
  BY <1>1 DEF Send
<1>2. ASSUME NEW p \in Senders,
             TryLock(p) \/ Stamp(p) \/ CheckLock(p) \/ InspectLock(p) \/ UnlinkStale(p)
      PROVE  TypeOK'
  BY <1>2, LockMoves
<1>3. ASSUME NEW p \in Senders, ReadCounter(p) PROVE TypeOK'
  BY <1>3, LastNumber DEF ReadCounter
<1>4. ASSUME NEW p \in Senders, TruncateCounter(p) PROVE TypeOK'
  BY <1>4 DEF TruncateCounter
<1>5. ASSUME NEW p \in Senders, WriteCounter(p) PROVE TypeOK'
  BY <1>5 DEF WriteCounter
<1>6. ASSUME NEW p \in Senders, ReleaseLock(p) PROVE TypeOK'
  BY <1>6 DEF ReleaseLock
<1>7. ASSUME NEW p \in Senders, AppendLog(p) PROVE TypeOK'
  BY <1>7 DEF AppendLog
<1>8. ASSUME NEW p \in Senders, CheckOffset(p) PROVE TypeOK'
  BY <1>8 DEF CheckOffset
<1>9. ASSUME NEW p \in Senders, Enqueue(p) PROVE TypeOK'
  <2>1. seq[p] \in Nat \ {0}
    BY <1>9 DEF Enqueue
  <2>2. inbox' \in SUBSET (Nat \ {0})
    BY <1>9, <2>1 DEF Enqueue
  <2> QED
    BY <1>9, <2>2 DEF Enqueue
<1>10. ASSUME NEW p \in Senders, GiveUp(p) PROVE TypeOK'
  BY <1>10 DEF GiveUp
<1>11. ASSUME NEW p \in Senders, TargetNotFound(p) PROVE TypeOK'
  BY <1>11 DEF TargetNotFound
<1>12. ASSUME NEW p \in Senders, Crash(p) PROVE TypeOK'
  BY <1>12 DEF Crash
<1>13. ASSUME Consume PROVE TypeOK'
  <2>1. \A i \in DOMAIN log : log[i].seq \in Nat /\ i \in Nat \ {0}
    <3>1. log \in Seq(Line) /\ \A i \in DOMAIN log : log[i] \in Line
      BY LogLines DEF Line
    <3>2. DOMAIN log = 1 .. Len(log) /\ Len(log) \in Nat
      BY <3>1, LenProperties
    <3> QED
      BY <3>1, <3>2 DEF Line
  <2>2. Taken \subseteq DOMAIN log
    BY DEF Taken
  <2>3. reader' \in [reading : BOOLEAN, upto : Nat]
    BY <1>13, <2>1, <2>2 DEF Consume
  <2>4. consumed' \in SUBSET (Nat \ {0})
    BY <1>13, <2>1, <2>2 DEF Consume
  <2> QED
    BY <1>13, <2>3, <2>4 DEF Consume
<1>14. ASSUME CommitOffset PROVE TypeOK'
  BY <1>14 DEF CommitOffset, Idle
<1>15. CASE UNCHANGED vars
  BY <1>15 DEF vars
<1> QED
  BY <1>1, <1>2, <1>3, <1>4, <1>5, <1>6, <1>7,
     <1>8, <1>9, <1>10, <1>11, <1>12, <1>13, <1>14, <1>15 DEF Next, Step

\* The lock file belongs to the sender in the critical section.
LEMMA HolderStep ==
    ASSUME Windows = {}, ~ Stalls, LockInv, [Next]_vars
    PROVE  HolderInv'
<1> USE DEF Goto, At, lockVars, readVars, senderVars, TypeOK, LockInv, HolderInv, Lock, PCs
<1>1. ASSUME NEW p \in Senders, Send(p) PROVE HolderInv'
  BY <1>1 DEF Send
<1>2. ASSUME NEW p \in Senders, TryLock(p) PROVE HolderInv'
  <2>1. \/ /\ lock = Free /\ lock' = [by |-> p, stamped |-> TRUE]
           /\ pc' = [pc EXCEPT ![p] = "read"]
        \/ lock' = lock /\ pc' = [pc EXCEPT ![p] = "check"]
    BY <1>2, LockTaken
  <2>2. /\ p \in alive /\ pc[p] = "try"
        /\ UNCHANGED <<counter, log, inbox, readVars, alive, current, seq, setting>>
    BY <1>2, LockTaken
  <2>3. CASE lock' = lock /\ pc' = [pc EXCEPT ![p] = "check"]
    BY <2>2, <2>3
  <2>4. CASE lock = Free /\ lock' = [by |-> p, stamped |-> TRUE]
    <3>1. lock' \in Lock /\ lock' # Free /\ lock'.by = p /\ lock'.stamped
      BY <2>4, StampedLock
    <3>2. pc' = [pc EXCEPT ![p] = "read"]
      BY <2>1, <2>4, <3>1
    <3> QED
      BY <2>2, <2>4, <3>1, <3>2
  <2> QED
    BY <2>1, <2>3, <2>4
<1>3. ASSUME NEW p \in Senders, Stamp(p) PROVE HolderInv'
  BY <1>3 DEF Stamp
<1>4. ASSUME NEW p \in Senders, CheckLock(p) PROVE HolderInv'
  <2>1. /\ pc[p] = "check" /\ pc' = [pc EXCEPT ![p] = "try"] /\ alive' = alive
        /\ \/ lock' = lock
           \/ lock' = Free /\ (~ lock.stamped \/ lock.by \notin alive)
    BY <1>4, LockChecked
  <2>2. \A q \in Senders : pc'[q] = pc[q] \/ pc'[q] = "try"
    BY <2>1
  <2>3. CASE lock' = lock
    BY <2>1, <2>2, <2>3
  <2>4. CASE lock' = Free /\ (~ lock.stamped \/ lock.by \notin alive)
    <3>1. lock # Free => lock.by \notin alive
      BY <2>4
    <3>2. \A q \in alive : pc[q] \notin {"read", "write", "release"}
      BY <3>1
    <3> QED
      BY <2>1, <2>2, <2>4, <3>2
  <2> QED
    BY <2>1, <2>3, <2>4
<1>5. ASSUME NEW p \in Senders, InspectLock(p) PROVE HolderInv'
  BY <1>5 DEF InspectLock
<1>6. ASSUME NEW p \in Senders, UnlinkStale(p) PROVE HolderInv'
  BY <1>6 DEF UnlinkStale
<1>7. ASSUME NEW p \in Senders, ReadCounter(p) PROVE HolderInv'
  BY <1>7 DEF ReadCounter
<1>8. ASSUME NEW p \in Senders, TruncateCounter(p) PROVE HolderInv'
  BY <1>8 DEF TruncateCounter
<1>9. ASSUME NEW p \in Senders, WriteCounter(p) PROVE HolderInv'
  BY <1>9 DEF WriteCounter
<1>10. ASSUME NEW p \in Senders, ReleaseLock(p) PROVE HolderInv'
  BY <1>10 DEF ReleaseLock
<1>11. ASSUME NEW p \in Senders, AppendLog(p) PROVE HolderInv'
  BY <1>11 DEF AppendLog
<1>12. ASSUME NEW p \in Senders, CheckOffset(p) PROVE HolderInv'
  BY <1>12 DEF CheckOffset
<1>13. ASSUME NEW p \in Senders, Enqueue(p) PROVE HolderInv'
  BY <1>13 DEF Enqueue
<1>14. ASSUME NEW p \in Senders, GiveUp(p) PROVE HolderInv'
  BY <1>14 DEF GiveUp
<1>15. ASSUME NEW p \in Senders, TargetNotFound(p) PROVE HolderInv'
  BY <1>15 DEF TargetNotFound
<1>16. ASSUME NEW p \in Senders, Crash(p) PROVE HolderInv'
  BY <1>16 DEF Crash
<1>17. ASSUME Consume PROVE HolderInv'
  BY <1>17 DEF Consume
<1>18. ASSUME CommitOffset PROVE HolderInv'
  BY <1>18 DEF CommitOffset, Idle
<1>19. CASE UNCHANGED vars
  BY <1>19 DEF vars
<1> QED
  BY <1>1, <1>2, <1>3, <1>4, <1>5, <1>6, <1>7, <1>8, <1>9, <1>10, <1>11,
     <1>12, <1>13, <1>14, <1>15, <1>16, <1>17, <1>18, <1>19 DEF Next, Step

\* Numbers given out are new: only the holder gives one, one above the counter.
LEMMA NumbersStep ==
    ASSUME Windows = {}, ~ Stalls, LockInv, [Next]_vars
    PROVE  NumbersInv'
<1> USE DEF Goto, At, lockVars, readVars, senderVars, TypeOK, LockInv, HolderInv, NumbersInv, PCs
<1>1. ASSUME NEW p \in Senders, Send(p) PROVE NumbersInv'
  BY <1>1 DEF Send
<1>2. ASSUME NEW p \in Senders, TryLock(p) PROVE NumbersInv'
  <2>1. \/ /\ lock = Free /\ lock' = [by |-> p, stamped |-> TRUE]
           /\ pc' = [pc EXCEPT ![p] = "read"]
        \/ lock' = lock /\ pc' = [pc EXCEPT ![p] = "check"]
    BY <1>2, LockTaken
  <2>2. /\ p \in alive /\ pc[p] = "try"
        /\ UNCHANGED <<counter, log, inbox, readVars, alive, current, seq, setting>>
    BY <1>2, LockTaken
  <2>3. CASE lock' = lock /\ pc' = [pc EXCEPT ![p] = "check"]
    BY <2>2, <2>3
  <2>4. CASE lock = Free /\ lock' = [by |-> p, stamped |-> TRUE]
    <3>1. lock' \in Lock /\ lock' # Free /\ lock'.by = p /\ lock'.stamped
      BY <2>4, StampedLock
    <3>2. pc' = [pc EXCEPT ![p] = "read"]
      BY <2>1, <2>4, <3>1
    <3> QED
      BY <2>2, <2>4, <3>1, <3>2
  <2> QED
    BY <2>1, <2>3, <2>4
<1>3. ASSUME NEW p \in Senders, Stamp(p) PROVE NumbersInv'
  BY <1>3 DEF Stamp
<1>4. ASSUME NEW p \in Senders, CheckLock(p) PROVE NumbersInv'
  BY <1>4, LockChecked
<1>5. ASSUME NEW p \in Senders, InspectLock(p) PROVE NumbersInv'
  BY <1>5 DEF InspectLock
<1>6. ASSUME NEW p \in Senders, UnlinkStale(p) PROVE NumbersInv'
  BY <1>6 DEF UnlinkStale
<1>7. ASSUME NEW p \in Senders, ReadCounter(p) PROVE NumbersInv'
  BY <1>7, LastLine DEF ReadCounter
<1>8. ASSUME NEW p \in Senders, TruncateCounter(p) PROVE NumbersInv'
  BY <1>8 DEF TruncateCounter
<1>9. ASSUME NEW p \in Senders, WriteCounter(p) PROVE NumbersInv'
  BY <1>9 DEF WriteCounter
<1>10. ASSUME NEW p \in Senders, ReleaseLock(p) PROVE NumbersInv'
  BY <1>10 DEF ReleaseLock
<1>11. ASSUME NEW p \in Senders, AppendLog(p) PROVE NumbersInv'
  BY <1>11 DEF AppendLog
<1>12. ASSUME NEW p \in Senders, CheckOffset(p) PROVE NumbersInv'
  BY <1>12 DEF CheckOffset
<1>13. ASSUME NEW p \in Senders, Enqueue(p) PROVE NumbersInv'
  BY <1>13 DEF Enqueue
<1>14. ASSUME NEW p \in Senders, GiveUp(p) PROVE NumbersInv'
  BY <1>14 DEF GiveUp
<1>15. ASSUME NEW p \in Senders, TargetNotFound(p) PROVE NumbersInv'
  BY <1>15 DEF TargetNotFound
<1>16. ASSUME NEW p \in Senders, Crash(p) PROVE NumbersInv'
  BY <1>16 DEF Crash
<1>17. ASSUME Consume PROVE NumbersInv'
  BY <1>17 DEF Consume
<1>18. ASSUME CommitOffset PROVE NumbersInv'
  BY <1>18 DEF CommitOffset, Idle
<1>19. CASE UNCHANGED vars
  BY <1>19 DEF vars
<1> QED
  BY <1>1, <1>2, <1>3, <1>4, <1>5, <1>6, <1>7, <1>8, <1>9, <1>10, <1>11,
     <1>12, <1>13, <1>14, <1>15, <1>16, <1>17, <1>18, <1>19 DEF Next, Step

\* A sender adds one line, with its own number.
LEMMA LogStep ==
    ASSUME TypeOK, LogInv, [Next]_vars
    PROVE  LogInv'
<1> USE DEF Goto, At, lockVars, readVars, senderVars
<1>1. ASSUME NEW p \in Senders, Send(p) PROVE LogInv'
  BY <1>1, LogKept DEF Send, TypeOK
<1>2. ASSUME NEW p \in Senders,
             TryLock(p) \/ Stamp(p) \/ CheckLock(p) \/ InspectLock(p) \/ UnlinkStale(p)
      PROVE  LogInv'
  BY <1>2, LockMoves, LogKept DEF TypeOK
<1>3. ASSUME NEW p \in Senders, ReadCounter(p) PROVE LogInv'
  BY <1>3, LogKept DEF ReadCounter, TypeOK
<1>4. ASSUME NEW p \in Senders, TruncateCounter(p) PROVE LogInv'
  BY <1>4, LogKept DEF TruncateCounter, TypeOK
<1>5. ASSUME NEW p \in Senders, WriteCounter(p) PROVE LogInv'
  BY <1>5, LogKept DEF WriteCounter, TypeOK
<1>6. ASSUME NEW p \in Senders, ReleaseLock(p) PROVE LogInv'
  BY <1>6, LogKept DEF ReleaseLock, TypeOK
<1>7. ASSUME NEW p \in Senders, AppendLog(p) PROVE LogInv'
  <2> DEFINE line == [seq |-> seq[p], by |-> p]
  <2>0. p \in alive /\ pc[p] = "append" /\ pc' = [pc EXCEPT ![p] = "offer"] /\ seq' = seq
    BY <1>7 DEF AppendLog
  <2>1. line \in Line /\ log \in Seq(Line)
    BY <2>0 DEF Line, TypeOK
  <2>2. log' = Append(log, line)
    BY <1>7 DEF AppendLog
  <2>3. /\ DOMAIN log' = DOMAIN log \cup {Len(log) + 1}
        /\ \A i \in DOMAIN log : log'[i] = log[i]
        /\ log'[Len(log) + 1] = line
    <3> HIDE DEF line
    <3> QED
      BY <2>1, <2>2, AppendProperties, LenProperties
  <2>4. \A i \in DOMAIN log : log[i].by \in Senders /\ log[i].by # p
    BY LogLines, <2>0 DEF Line, LogInv
  <2>5. \A i \in DOMAIN log' :
           log'[i].seq = seq'[log'[i].by] /\ pc'[log'[i].by] \in {"offer", "enqueue", "done"}
    <3> SUFFICES ASSUME NEW i \in DOMAIN log'
                 PROVE  /\ log'[i].seq = seq'[log'[i].by]
                        /\ pc'[log'[i].by] \in {"offer", "enqueue", "done"}
      OBVIOUS
    <3>1. CASE i \in DOMAIN log
      <4>1. log'[i] = log[i] /\ log[i].by \in Senders /\ log[i].by # p
        BY <2>3, <2>4, <3>1
      <4>2. pc'[log[i].by] = pc[log[i].by]
        BY <2>0, <4>1
      <4>3. log[i].seq = seq[log[i].by] /\ pc[log[i].by] \in {"offer", "enqueue", "done"}
        BY <3>1 DEF LogInv
      <4> QED
        BY <2>0, <4>1, <4>2, <4>3
    <3>2. CASE i = Len(log) + 1
      <4>1. log'[i].seq = seq[p] /\ log'[i].by = p
        BY <2>3, <3>2
      <4>2. pc'[p] = "offer"
        BY <2>0 DEF TypeOK
      <4> QED
        BY <2>0, <4>1, <4>2
    <3> QED
      BY <2>3, <3>1, <3>2
  <2>6. \A i, j \in DOMAIN log' : log'[i].by = log'[j].by => i = j
    BY <2>3, <2>4 DEF LogInv
  <2> QED
    BY <2>5, <2>6 DEF LogInv
<1>8. ASSUME NEW p \in Senders, CheckOffset(p) PROVE LogInv'
  BY <1>8, LogKept DEF CheckOffset, TypeOK
<1>9. ASSUME NEW p \in Senders, Enqueue(p) PROVE LogInv'
  BY <1>9, LogKept DEF Enqueue, TypeOK
<1>10. ASSUME NEW p \in Senders, GiveUp(p) PROVE LogInv'
  BY <1>10, LogKept DEF GiveUp, TypeOK
<1>11. ASSUME NEW p \in Senders, TargetNotFound(p) PROVE LogInv'
  BY <1>11, LogKept DEF TargetNotFound, TypeOK
<1>12. ASSUME NEW p \in Senders, Crash(p) PROVE LogInv'
  BY <1>12, LogKept DEF Crash, TypeOK
<1>13. ASSUME Consume PROVE LogInv'
  BY <1>13, LogKept DEF Consume
<1>14. ASSUME CommitOffset PROVE LogInv'
  BY <1>14, LogKept DEF CommitOffset, Idle
<1>15. CASE UNCHANGED vars
  BY <1>15, LogKept DEF vars, TypeOK
<1> QED
  BY <1>1, <1>2, <1>3, <1>4, <1>5, <1>6, <1>7,
     <1>8, <1>9, <1>10, <1>11, <1>12, <1>13, <1>14, <1>15 DEF Next, Step

LEMMA LockInvGives ==
    ASSUME LockInv
    PROVE  MutualExclusion /\ NoTwins
<1>1. MutualExclusion
  BY DEF LockInv, HolderInv, MutualExclusion, InCritical
<1>2. NoTwins
  <2> SUFFICES ASSUME NEW i \in DOMAIN log, NEW j \in DOMAIN log,
                      log[i].seq = log[j].seq
               PROVE  i = j
    BY DEF NoTwins
  <2>1. log[i] \in Line /\ log[j] \in Line
    BY LogLines DEF LockInv
  <2>2. log[i].by \in Senders /\ log[j].by \in Senders /\ log[i].seq > 0
    BY <2>1 DEF Line
  <2>3. log[i].by = log[j].by
    BY <2>2 DEF LockInv, NumbersInv, LogInv
  <2> QED
    BY <2>3 DEF LockInv, LogInv
<1> QED
  BY <1>1, <1>2

\* The setting does not change.
LEMMA SettingFixed == [Next]_vars => setting' = setting
BY DEF Next, Step, vars, Send, TryLock, Stamp, CheckLock, InspectLock, UnlinkStale,
   ReadCounter, TruncateCounter, WriteCounter, ReleaseLock, AppendLog, CheckOffset,
   Enqueue, GiveUp, TargetNotFound, Crash, Consume, CommitOffset

LEMMA BusStep ==
    ASSUME BusInv, [Next]_vars
    PROVE  BusInv'
<1> SUFFICES ASSUME Undisturbed' PROVE LockInv'
  BY DEF BusInv
<1>1. Undisturbed
  BY SettingFixed DEF Undisturbed, Windows, Stalls
<1>2. Windows = {} /\ ~ Stalls /\ LockInv
  BY <1>1 DEF Undisturbed, BusInv
<1> QED
  BY <1>2, TypeStep, HolderStep, NumbersStep, LogStep DEF LockInv

(* message.js:170 "file lock guarantees atomic increment across processes": when
   no process gets in between two calls on the lock file and no live holder
   outlasts SEQ_LOCK_STALE_MS, the lock admits one sender at a time and the log
   never holds a number twice, whoever dies. *)
THEOREM LockWorks == Spec => [](MutualExclusion /\ (Undisturbed => NoTwins))
<1>1. Init => BusInv
  BY BusInit DEF BusInv
<1>2. BusInv /\ [Next]_vars => BusInv'
  BY BusStep
<1>3. BusInv => MutualExclusion /\ (Undisturbed => NoTwins)
  <2>1. CASE Undisturbed
    BY <2>1, LockInvGives DEF BusInv
  <2>2. CASE ~ Undisturbed
    BY <2>2 DEF MutualExclusion
  <2> QED
    BY <2>1, <2>2
<1> QED
  BY <1>1, <1>2, <1>3, PTL DEF Spec
-----------------------------------------------------------------------------
\* Sends one after the other, whoever dies where, in whatever setting.

\* The last number of the log is the largest.
LEMMA LastIsLargest ==
    ASSUME TypeOK, GrowthInv
    PROVE  /\ LastSeq \in Nat
           /\ \A i \in DOMAIN log : log[i].seq \in Nat \ {0} /\ log[i].seq <= LastSeq
           /\ log # <<>> => Len(log) \in DOMAIN log /\ LastSeq = log[Len(log)].seq
<1>1. log \in Seq(Line) /\ DOMAIN log = 1 .. Len(log) /\ Len(log) \in Nat
  BY LenProperties DEF TypeOK, Line
<1>2. /\ LastSeq \in Nat
      /\ \A i \in DOMAIN log : log[i] \in Line
      /\ log # <<>> => Len(log) \in DOMAIN log
  BY LogLines, LastNumber
<1>3. log # <<>> => LastSeq = log[Len(log)].seq
  BY DEF LastSeq
<1>4. ASSUME NEW i \in DOMAIN log
      PROVE  log[i].seq \in Nat \ {0} /\ log[i].seq <= LastSeq
  <2>1. log # <<>>
    BY <1>1, <1>4, EmptySeq
  <2>2. Len(log) \in DOMAIN log /\ i <= Len(log)
    BY <1>1, <1>2, <1>4, <2>1
  <2>3. log[i].seq \in Nat \ {0} /\ log[Len(log)].seq \in Nat \ {0}
    BY <1>2, <1>4, <2>2 DEF Line
  <2>4. i < Len(log) => log[i].seq < log[Len(log)].seq
    BY <1>4, <2>2 DEF GrowthInv
  <2> QED
    BY <1>1, <1>3, <1>4, <2>1, <2>2, <2>3, <2>4
<1> QED
  BY <1>2, <1>3, <1>4

\* A line is added at the end.
LEMMA LineAdded ==
    ASSUME TypeOK, NEW p \in Senders, AppendLog(p)
    PROVE  /\ DOMAIN log' = DOMAIN log \cup {Len(log) + 1}
           /\ \A i \in DOMAIN log : i \in Nat /\ i < Len(log) + 1 /\ log'[i] = log[i]
           /\ Len(log) \in Nat
           /\ log'[Len(log) + 1].seq = seq[p] /\ log'[Len(log) + 1].by = p
           /\ LastSeq' = seq[p] /\ seq[p] \in Nat \ {0}
<1> DEFINE line == [seq |-> seq[p], by |-> p]
<1>0. seq[p] \in Nat \ {0} /\ log' = Append(log, line)
  BY DEF AppendLog, At, TypeOK
<1>1. line \in Line /\ log \in Seq(Line) /\ line.seq = seq[p] /\ line.by = p
  BY <1>0 DEF Line, TypeOK
<1>2. DOMAIN log = 1 .. Len(log) /\ Len(log) \in Nat
  BY <1>1, LenProperties
<1> HIDE DEF line
<1>3. /\ DOMAIN log' = DOMAIN log \cup {Len(log) + 1}
      /\ Len(log') = Len(log) + 1
      /\ \A i \in DOMAIN log : log'[i] = log[i]
      /\ log'[Len(log) + 1] = line
  BY <1>0, <1>1, <1>2, AppendProperties, LenProperties
<1>4. log' # <<>>
  BY <1>2, <1>3, EmptySeq
<1>5. LastSeq' = log'[Len(log')].seq
  BY <1>4 DEF LastSeq
<1> QED
  BY <1>0, <1>1, <1>2, <1>3, <1>5

\* In a step of one sender, the others that live are not under way.
LEMMA Alone ==
    ASSUME TypeOK, OneSend, NEW p \in Senders,
           Step(p) \/ GiveUp(p) \/ TargetNotFound(p) \/ Crash(p)
    PROVE  /\ p \in alive /\ alive' \subseteq alive /\ setting' = setting
           /\ pc \in [Senders -> PCs] /\ pc' \in [Senders -> PCs]
           /\ \A q \in Senders : q # p => pc'[q] = pc[q]
           /\ \A q \in alive' : q # p => pc'[q] \in {"idle", "done", "failed"}
           /\ OneSend'
<1>0. pc \in [Senders -> PCs]
  BY DEF TypeOK
<1>1. /\ p \in alive /\ ~ Ended(p)
      /\ alive' \subseteq alive /\ setting' = setting
      /\ \A q \in Senders : q # p => pc'[q] = pc[q]
  <2>1. CASE TryLock(p) \/ Stamp(p) \/ CheckLock(p) \/ InspectLock(p) \/ UnlinkStale(p)
    BY <1>0, <2>1, LockMoves DEF Ended
  <2>2. CASE ReadCounter(p) \/ TruncateCounter(p) \/ WriteCounter(p) \/ ReleaseLock(p)
    BY <1>0, <2>2 DEF ReadCounter, TruncateCounter, WriteCounter, ReleaseLock, Goto, At, Ended
  <2>3. CASE AppendLog(p) \/ CheckOffset(p) \/ Enqueue(p)
    BY <1>0, <2>3 DEF AppendLog, CheckOffset, Enqueue, Goto, At, Ended
  <2>4. CASE GiveUp(p) \/ TargetNotFound(p) \/ Crash(p)
    BY <1>0, <2>4 DEF GiveUp, TargetNotFound, Crash, Goto, At, Ended
  <2> QED
    BY <2>1, <2>2, <2>3, <2>4 DEF Step
<1>2. \A q \in Senders : q # p => Ended(q)
  BY <1>1 DEF OneSend
<1>3. \A q \in alive : q \in Senders
  BY DEF TypeOK
<1>4. \A q \in Senders : q # p => Ended(q)'
  BY <1>1, <1>2 DEF Ended
<1>5. [Next]_vars
  BY Zenon DEF Next
<1>6. pc \in [Senders -> PCs] /\ pc' \in [Senders -> PCs]
  BY <1>5, TypeStep DEF TypeOK
<1> QED
  BY <1>1, <1>2, <1>3, <1>4, <1>6 DEF OneSend, Ended

LEMMA OneSendStep ==
    ASSUME TypeOK, OneSend, SerialSends, [Next]_vars
    PROVE  OneSend'
<1>1. ASSUME NEW p \in Senders, Send(p) PROVE OneSend'
  <2>1. \A q \in Senders : Ended(q)
    BY <1>1 DEF Send
  <2>2. pc' = [pc EXCEPT ![p] = "try"] /\ alive' = alive
    BY <1>1 DEF Send, Goto
  <2>3. \A q \in Senders : q # p => Ended(q)'
    BY <2>1, <2>2 DEF Ended
  <2> QED
    BY <2>3 DEF OneSend
<1>2. ASSUME NEW p \in Senders, Step(p) \/ GiveUp(p) \/ TargetNotFound(p) \/ Crash(p)
      PROVE  OneSend'
  BY <1>2, Alone
<1>3. CASE Consume \/ CommitOffset \/ UNCHANGED vars
  BY <1>3 DEF Consume, CommitOffset, vars, senderVars, OneSend, Ended
<1> QED
  BY <1>1, <1>2, <1>3 DEF Next

\* Nothing of what GrowthInv speaks of changes, but senders may move to places it
\* says nothing about.
LEMMA GrowthKept ==
    ASSUME GrowthInv, TypeOK, log' = log, counter' = counter, current' = current, seq' = seq,
           alive' \subseteq alive,
           \A q \in alive' : pc'[q] \in {"truncate", "write", "release", "append"}
                             => pc'[q] = pc[q]
    PROVE  GrowthInv'
BY DEF GrowthInv

LEMMA GrowthStep ==
    ASSUME TypeOK, LogInv, OneSend, GrowthInv, SerialSends, [Next]_vars
    PROVE  GrowthInv'
<1> USE DEF Goto, At
<1>0. \A q \in alive : q \in Senders
  BY DEF TypeOK
<1>1. ASSUME NEW p \in Senders, Send(p) PROVE GrowthInv'
  BY <1>1, GrowthKept DEF Send, lockVars, TypeOK
<1>2. ASSUME NEW p \in Senders,
             TryLock(p) \/ Stamp(p) \/ CheckLock(p) \/ InspectLock(p) \/ UnlinkStale(p)
      PROVE  GrowthInv'
  <2>1. Step(p)
    BY <1>2 DEF Step
  <2>2. /\ \E label \in {"try", "stamp", "check", "inspect", "unlink", "read"} :
              pc' = [pc EXCEPT ![p] = label]
        /\ UNCHANGED <<counter, log, alive, current, seq>>
    BY <1>2, LockMoves
  <2> QED
    BY <1>0, <2>2, GrowthKept DEF TypeOK
<1>3. ASSUME NEW p \in Senders, ReadCounter(p) PROVE GrowthInv'
  <2>1. \A q \in alive' : q # p => pc'[q] \in {"idle", "done", "failed"}
    BY <1>3, Alone DEF Step
  <2>2. UNCHANGED <<counter, log, alive, seq>> /\ pc'[p] \in {"truncate", "write"}
    BY <1>3 DEF ReadCounter, lockVars, TypeOK
  <2>3. current'[p] = IF counter > 0 THEN counter ELSE LastSeq
    BY <1>3 DEF ReadCounter, TypeOK
  <2>4. \A i \in DOMAIN log : log[i].seq <= current'[p]
    BY <2>3, LastIsLargest DEF GrowthInv
  <2> QED
    BY <2>1, <2>2, <2>4 DEF GrowthInv
<1>4. ASSUME NEW p \in Senders, TruncateCounter(p) PROVE GrowthInv'
  <2>1. \A q \in alive' : q # p => pc'[q] \in {"idle", "done", "failed"}
    BY <1>4, Alone DEF Step
  <2>2. /\ UNCHANGED <<log, alive, seq, current>> /\ pc'[p] = "write" /\ counter' = 0
        /\ p \in alive /\ pc[p] = "truncate"
    BY <1>4 DEF TruncateCounter, TypeOK
  <2> QED
    BY <2>1, <2>2 DEF GrowthInv
<1>5. ASSUME NEW p \in Senders, WriteCounter(p) PROVE GrowthInv'
  <2>1. \A q \in alive' : q # p => pc'[q] \in {"idle", "done", "failed"}
    BY <1>5, Alone DEF Step
  <2>2. /\ UNCHANGED <<log, alive, current>> /\ pc'[p] = "release"
        /\ p \in alive /\ pc[p] = "write" /\ current[p] \in Nat
        /\ counter' = current[p] + 1 /\ seq'[p] = current[p] + 1
    BY <1>5 DEF WriteCounter, TypeOK
  <2>3. \A i \in DOMAIN log : log[i].seq \in Nat /\ log[i].seq <= current[p]
    BY <2>2, LastIsLargest DEF GrowthInv
  <2>4. \A i \in DOMAIN log : log[i].seq < current[p] + 1 /\ log[i].seq <= current[p] + 1
    BY <2>2, <2>3
  <2> QED
    BY <2>1, <2>2, <2>4 DEF GrowthInv
<1>6. ASSUME NEW p \in Senders, ReleaseLock(p) PROVE GrowthInv'
  <2>1. \A q \in alive' : q # p => pc'[q] \in {"idle", "done", "failed"}
    BY <1>6, Alone DEF Step
  <2>2. /\ UNCHANGED <<counter, log, alive, seq, current>> /\ pc'[p] = "append"
        /\ p \in alive /\ pc[p] = "release"
    BY <1>6 DEF ReleaseLock, TypeOK
  <2> QED
    BY <2>1, <2>2 DEF GrowthInv
<1>7. ASSUME NEW p \in Senders, AppendLog(p) PROVE GrowthInv'
  <2>1. \A q \in alive' : q # p => pc'[q] \in {"idle", "done", "failed"}
    BY <1>7, Alone DEF Step
  <2>2. /\ UNCHANGED <<counter, alive, seq, current>> /\ pc'[p] = "offer"
        /\ p \in alive /\ pc[p] = "append"
    BY <1>7 DEF AppendLog, lockVars, TypeOK
  <2>3. seq[p] <= counter /\ \A i \in DOMAIN log : log[i].seq < seq[p]
    BY <2>2 DEF GrowthInv
  <2>4. \A i, j \in DOMAIN log' : i < j => log'[i].seq < log'[j].seq
    BY <1>7, <2>3, LineAdded DEF GrowthInv
  <2>5. \A i \in DOMAIN log' : counter > 0 => log'[i].seq <= counter
    BY <1>7, <2>3, LineAdded DEF GrowthInv
  <2> QED
    BY <2>1, <2>2, <2>4, <2>5 DEF GrowthInv
<1>8. ASSUME NEW p \in Senders, CheckOffset(p) \/ Enqueue(p) PROVE GrowthInv'
  BY <1>0, <1>8, GrowthKept DEF CheckOffset, Enqueue, lockVars, TypeOK
<1>9. ASSUME NEW p \in Senders, GiveUp(p) \/ TargetNotFound(p) \/ Crash(p) PROVE GrowthInv'
  BY <1>0, <1>9, GrowthKept DEF GiveUp, TargetNotFound, Crash, lockVars, TypeOK
<1>10. CASE Consume \/ CommitOffset \/ UNCHANGED vars
  BY <1>10, GrowthKept DEF Consume, CommitOffset, vars, lockVars, senderVars
<1> QED
  BY <1>1, <1>2, <1>3, <1>4, <1>5, <1>6, <1>7, <1>8, <1>9, <1>10 DEF Next, Step

LEMMA OffsetStep ==
    ASSUME TypeOK, GrowthInv, OffsetInv, [Next]_vars
    PROVE  OffsetInv'
<1> USE DEF Goto, At, readVars
<1>0. /\ LastSeq \in Nat
      /\ \A i \in DOMAIN log : log[i].seq \in Nat \ {0} /\ log[i].seq <= LastSeq
      /\ offset \in Nat /\ reader.upto \in Nat
  BY LastIsLargest DEF TypeOK
<1>1. ASSUME UNCHANGED <<log, offset, reader, consumed>> PROVE OffsetInv'
  BY <1>1 DEF OffsetInv, LastSeq
<1>2. ASSUME NEW p \in Senders,
             TryLock(p) \/ Stamp(p) \/ CheckLock(p) \/ InspectLock(p) \/ UnlinkStale(p)
      PROVE  OffsetInv'
  BY <1>1, <1>2, LockMoves
<1>3. ASSUME NEW p \in Senders, ReadCounter(p) \/ TruncateCounter(p) \/ WriteCounter(p)
                                \/ ReleaseLock(p) \/ CheckOffset(p) \/ Enqueue(p)
      PROVE  OffsetInv'
  BY <1>1, <1>3 DEF ReadCounter, TruncateCounter, WriteCounter, ReleaseLock, CheckOffset,
     Enqueue
<1>4. ASSUME NEW p \in Senders, AppendLog(p) PROVE OffsetInv'
  <2>1. p \in alive /\ pc[p] = "append" /\ UNCHANGED <<offset, reader, consumed>>
    BY <1>4 DEF AppendLog
  <2>2. \A i \in DOMAIN log : log[i].seq < seq[p]
    BY <2>1 DEF GrowthInv
  <2>3. LastSeq < seq[p] /\ LastSeq' = seq[p]
    <3>1. CASE log = <<>>
      BY <1>4, <3>1, LineAdded DEF LastSeq
    <3>2. CASE log # <<>>
      BY <1>4, <2>2, <3>2, LineAdded, LastIsLargest
    <3> QED
      BY <3>1, <3>2
  <2>4. offset < seq[p] /\ (reader.reading => reader.upto < seq[p]) /\ seq[p] \in Nat
    BY <1>0, <1>4, <2>3, LineAdded DEF OffsetInv
  <2>5. ASSUME NEW i \in DOMAIN log',
               log'[i].seq <= offset \/ (reader.reading /\ log'[i].seq <= reader.upto)
        PROVE  i \in consumed
    <3>1. CASE i \in DOMAIN log
      BY <1>4, <2>5, <3>1, LineAdded DEF OffsetInv
    <3>2. CASE i = Len(log) + 1
      BY <1>0, <1>4, <2>4, <2>5, <3>2, LineAdded
    <3> QED
      BY <1>4, <3>1, <3>2, LineAdded
  <2> QED
    BY <1>0, <2>1, <2>3, <2>4, <2>5 DEF OffsetInv
<1>5. ASSUME NEW p \in Senders,
             Send(p) \/ GiveUp(p) \/ TargetNotFound(p) \/ Crash(p)
      PROVE  OffsetInv'
  BY <1>1, <1>5 DEF Send, GiveUp, TargetNotFound, Crash
<1>6. ASSUME Consume PROVE OffsetInv'
  <2>1. PICK top \in Taken :
           /\ \A i \in Taken : log[i].seq <= log[top].seq
           /\ reader' = [reading |-> TRUE, upto |-> log[top].seq]
    BY <1>6 DEF Consume
  <2>2. /\ ~ reader.reading /\ consumed' = consumed \cup Taken
        /\ UNCHANGED <<log, offset>> /\ LastSeq' = LastSeq
    BY <1>6 DEF Consume, LastSeq
  <2>3. top \in DOMAIN log /\ reader'.upto = log[top].seq /\ reader'.upto <= LastSeq
    BY <1>0, <2>1 DEF Taken
  <2>4. ASSUME NEW i \in DOMAIN log, log[i].seq > offset PROVE i \in Taken
    <3>1. DOMAIN log = 1 .. Len(log) /\ Len(log) \in Nat
      BY LenProperties DEF TypeOK
    <3>2. \A j \in 1 .. i - 1 : j \in DOMAIN log /\ j < i
      BY <3>1
    <3> QED
      BY <2>4, <3>2 DEF Taken, GrowthInv
  <2>5. ASSUME NEW i \in DOMAIN log PROVE i \in consumed'
    BY <1>0, <2>2, <2>4 DEF OffsetInv
  <2> QED
    BY <2>2, <2>3, <2>5 DEF OffsetInv
<1>7. ASSUME CommitOffset PROVE OffsetInv'
  <2>1. /\ reader.reading /\ offset' = reader.upto /\ ~ reader'.reading
        /\ UNCHANGED <<log, consumed>> /\ LastSeq' = LastSeq
    BY <1>7 DEF CommitOffset, Idle, LastSeq
  <2> QED
    BY <1>0, <2>1 DEF OffsetInv
<1>8. CASE UNCHANGED vars
  BY <1>1, <1>8 DEF vars
<1> QED
  BY <1>2, <1>3, <1>4, <1>5, <1>6, <1>7, <1>8 DEF Next, Step

\* No send becomes done but by queueing, or because the offset is past it.
LEMMA QueuedStep ==
    ASSUME TypeOK, LogInv, GrowthInv, OffsetInv, QueuedInv, [Next]_vars
    PROVE  QueuedInv'
<1> USE DEF Goto, At, readVars
<1>0. pc \in [Senders -> PCs] /\ \A i \in DOMAIN log : log[i].by \in Senders
  BY LogLines DEF TypeOK, Line
<1>1. ASSUME log' = log, inbox \subseteq inbox', consumed \subseteq consumed',
             \A q \in Senders : pc'[q] = "done" => pc[q] = "done"
      PROVE  QueuedInv'
  BY <1>0, <1>1 DEF QueuedInv
<1>2. ASSUME NEW p \in Senders,
             TryLock(p) \/ Stamp(p) \/ CheckLock(p) \/ InspectLock(p) \/ UnlinkStale(p)
      PROVE  QueuedInv'
  BY <1>0, <1>1, <1>2, LockMoves
<1>3. ASSUME NEW p \in Senders, ReadCounter(p) \/ TruncateCounter(p) \/ WriteCounter(p)
                                \/ ReleaseLock(p) \/ Send(p) \/ GiveUp(p)
                                \/ TargetNotFound(p) \/ Crash(p)
      PROVE  QueuedInv'
  BY <1>0, <1>1, <1>3 DEF ReadCounter, TruncateCounter, WriteCounter, ReleaseLock, Send,
     GiveUp, TargetNotFound, Crash
<1>4. ASSUME NEW p \in Senders, AppendLog(p) PROVE QueuedInv'
  <2>1. pc' = [pc EXCEPT ![p] = "offer"] /\ UNCHANGED <<inbox, consumed>>
    BY <1>4 DEF AppendLog
  <2>2. \A q \in Senders : pc'[q] = "done" => pc[q] = "done" /\ q # p
    BY <1>0, <2>1
  <2> QED
    BY <1>0, <1>4, <2>1, <2>2, LineAdded DEF QueuedInv
<1>5. ASSUME NEW p \in Senders, CheckOffset(p) PROVE QueuedInv'
  <2>1. /\ UNCHANGED <<log, inbox, consumed, offset, seq>>
        /\ pc' = [pc EXCEPT ![p] = IF seq[p] > offset THEN "enqueue" ELSE "done"]
    BY <1>5 DEF CheckOffset
  <2>2. ASSUME NEW i \in DOMAIN log, pc'[log[i].by] = "done"
        PROVE  log[i].seq \in inbox \/ i \in consumed
    <3>1. CASE log[i].by = p
      <4>1. ~ (seq[p] > offset) /\ log[i].seq = seq[p]
        BY <1>0, <2>1, <2>2, <3>1 DEF LogInv
      <4>2. seq[p] \in Nat /\ offset \in Nat
        BY DEF TypeOK
      <4> QED
        BY <4>1, <4>2 DEF OffsetInv
    <3>2. CASE log[i].by # p
      BY <1>0, <2>1, <2>2, <3>2 DEF QueuedInv
    <3> QED
      BY <3>1, <3>2
  <2> QED
    BY <2>1, <2>2 DEF QueuedInv
<1>6. ASSUME NEW p \in Senders, Enqueue(p) PROVE QueuedInv'
  <2>1. /\ UNCHANGED <<log, consumed, seq>> /\ inbox' = inbox \cup {seq[p]}
        /\ pc' = [pc EXCEPT ![p] = "done"]
    BY <1>6 DEF Enqueue
  <2> QED
    BY <1>0, <2>1 DEF QueuedInv, LogInv
<1>7. CASE Consume \/ CommitOffset \/ UNCHANGED vars
  BY <1>1, <1>7 DEF Consume, CommitOffset, vars, senderVars
<1> QED
  BY <1>2, <1>3, <1>4, <1>5, <1>6, <1>7 DEF Next, Step

LEMMA SerialInit == Init => SerialInv
<1> SUFFICES ASSUME Init PROVE SerialInv
  OBVIOUS
<1>1. TypeOK /\ LogInv
  BY BusInit DEF LockInv
<1>2. log = <<>> /\ DOMAIN log = {} /\ LastSeq = 0
  BY EmptySeq DEF Init, LastSeq
<1>3. OneSend /\ GrowthInv /\ OffsetInv /\ QueuedInv
  BY <1>2 DEF Init, OneSend, Ended, GrowthInv, OffsetInv, QueuedInv, Idle
<1> QED
  BY <1>1, <1>3 DEF SerialInv

LEMMA SerialStep == SerialInv /\ [Next]_vars => SerialInv'
<1> SUFFICES ASSUME SerialInv, [Next]_vars, SerialSends' PROVE SerialInv'
  BY DEF SerialInv
<1>1. SerialSends
  BY SettingFixed DEF SerialSends
<1>2. TypeOK /\ LogInv /\ OneSend /\ GrowthInv /\ OffsetInv /\ QueuedInv
  BY <1>1 DEF SerialInv
<1>3. TypeOK' /\ LogInv' /\ OneSend'
  BY <1>1, <1>2, TypeStep, LogStep, OneSendStep
<1>4. GrowthInv' /\ OffsetInv' /\ QueuedInv'
  BY <1>1, <1>2, GrowthStep, OffsetStep, QueuedStep
<1> QED
  BY <1>3, <1>4 DEF SerialInv

LEMMA SerialHolds == Spec => []SerialInv
BY SerialInit, SerialStep, PTL DEF Spec

(* No two events of the log have the same number, when no process gets in between
   two calls on the lock file, and also when each send follows the last one in any
   surroundings: an empty counter file, a lock of a dead sender, a number that was
   given out and never used do not bring an old number back (message.js:81-160). *)
THEOREM SeqUniqueHolds == Spec => []SeqUnique
<1>1. SerialInv => (SerialSends => NoTwins)
  <2> SUFFICES ASSUME SerialInv, SerialSends PROVE NoTwins
    OBVIOUS
  <2>1. TypeOK /\ GrowthInv
    BY DEF SerialInv
  <2>2. DOMAIN log = 1 .. Len(log) /\ Len(log) \in Nat
    BY <2>1, LenProperties DEF TypeOK
  <2>3. \A i \in DOMAIN log : log[i].seq \in Nat
    BY <2>1, LastIsLargest
  <2> QED
    BY <2>1, <2>2, <2>3 DEF GrowthInv, NoTwins
<1>2. SerialInv /\ MutualExclusion /\ (Undisturbed => NoTwins) => SeqUnique
  BY <1>1 DEF SeqUnique
<1> QED
  BY <1>2, SerialHolds, LockWorks, PTL

(* message.js:461 "check the subscriber's offset; a seq it has consumed already is
   not added again": when each send follows the last one, a send that is done has
   queued its event unless the subscriber has consumed it. *)
THEOREM QueuedOrConsumedHolds == Spec => []QueuedOrConsumed
<1>1. SerialInv => QueuedOrConsumed
  BY DEF SerialInv, QueuedInv, QueuedOrConsumed
<1> QED
  BY <1>1, SerialHolds, PTL

(* consume() commits the largest number it read: when each send follows the last
   one, everything up to the offset was handed over. *)
THEOREM NothingSkippedHolds == Spec => []NothingSkipped
<1>1. SerialInv => NothingSkipped
  BY DEF SerialInv, OffsetInv, NothingSkipped
<1> QED
  BY <1>1, SerialHolds, PTL
=============================================================================
