------------------------------ MODULE PtyRunner ------------------------------
(***************************************************************************)
(* The PTY runner, src/agents/launch/ptyRunner.js: one process that runs a *)
(* TUI agent in a pseudo terminal and feeds it the messages of its queue.  *)
(*                                                                         *)
(* The main loop claims whatever is pending, puts it into messageQueue and *)
(* completes the claims; processQueue types one message at a time into the *)
(* terminal.  There is no protocol that says when the agent is done: a     *)
(* turn ends when the terminal has been quiet for a while (a timer that is *)
(* set by output), when the activity detector says idle, when the watchdog *)
(* fires, or when the process exits.  Every handler runs without a pause,  *)
(* so a handler is one action.                                             *)
(***************************************************************************)
EXTENDS Naturals, Sequences, FiniteSets, Functions

CONSTANTS
    Last,         \* the messages have the numbers 1 .. Last
    Typable,      \* those buildPtyInputFromEvent makes an input of
    MaxQueue,     \* maxQueue
    MaxRestarts,  \* MAX_RESTARTS
    MaxExits,     \* bound on how often the process in the terminal exits
    MaxFails,     \* bound on the claims the main loop fails to accept
    None

Messages == 1 .. Last

ASSUME PtyConstants ==
    /\ Last \in Nat /\ MaxRestarts \in Nat /\ MaxExits \in Nat /\ MaxFails \in Nat
    /\ MaxQueue \in Nat \ {0}
    /\ Typable \subseteq Messages
    /\ None \notin Messages

VARIABLES
    running,     \* false after stop() or when the runner has died
    pending,     \* pending.jsonl of the agent, in the order of its lines
    queue,       \* messageQueue
    current,     \* the message being worked on; None when not busy
    pty,         \* the terminal: alive and ready, coming up, gone, ...
    idleTimer,   \* the message whose output set the idle timer, None if unset
    watchdog,    \* is the watchdog timer set?
    restartCount,
    sent,        \* history: the messages appended to pending so far
    earlier,     \* history: those that had been appended before a message was
    typed,       \* history: the messages typed into the terminal, in order
    ended,       \* history: how each turn was ended, in order
    dropped,     \* history: messages shifted out of a full messageQueue
    failed,      \* history: messages whose claim was restored
    fails,       \* history: how often that happened
    exits        \* history: how often the process exited

Reasons == {"idle", "exit", "timeout"}

\* "down": a restart is scheduled; "retry": the second attempt is scheduled.
PtyStates == {"ready", "starting", "down", "retry", "offline"}

Alive == pty \in {"ready", "starting"}

turn == <<queue, current, watchdog, typed>>
arrivals == <<sent, earlier>>
failures == <<failed, fails>>
history == <<arrivals, failures, typed, ended, dropped, exits>>
vars == <<running, pending, queue, current, pty, idleTimer, watchdog,
          restartCount, history>>

Init ==
    /\ running = TRUE
    /\ pending = <<>>
    /\ queue = <<>>
    /\ current = None
    /\ pty = "starting"
    /\ idleTimer = None
    /\ watchdog = FALSE
    /\ restartCount = 0
    /\ sent = {}
    /\ earlier = [m \in Messages |-> {}]
    /\ typed = <<>>
    /\ ended = <<>>
    /\ dropped = {}
    /\ failed = {} /\ fails = 0
    /\ exits = 0

\* Variant for the mutation runs: a message is typed while another is worked on.
ProcessQueueBusy(q, cur, state, wd) ==
    IF state = "ready" /\ q # <<>>
    THEN /\ queue' = Tail(q) /\ current' = Head(q) /\ watchdog' = TRUE
         /\ typed' = Append(typed, Head(q))
    ELSE queue' = q /\ current' = cur /\ watchdog' = wd /\ UNCHANGED typed

\* processQueue, after its caller has left the queue q, the current message cur,
\* the terminal in this state and the watchdog timer set or not.
ProcessQueue(q, cur, state, wd) ==
    IF state = "ready" /\ cur = None /\ q # <<>>
    THEN /\ queue' = Tail(q) /\ current' = Head(q) /\ watchdog' = TRUE
         /\ typed' = Append(typed, Head(q))
    ELSE queue' = q /\ current' = cur /\ watchdog' = wd /\ UNCHANGED typed

\* completePublisherResponse for the turn under way, when there is one.
EndTurn(reason) ==
    ended' = IF current = None THEN ended ELSE Append(ended, <<current, reason>>)

\* Numbers are given out under a lock, but messages are appended outside of it: they
\* may arrive in any order.
Send(m) ==
    /\ m \notin sent
    /\ sent' = sent \cup {m}
    /\ earlier' = [earlier EXCEPT ![m] = sent]
    /\ pending' = Append(pending, m)
    /\ UNCHANGED <<running, queue, current, pty, idleTimer, watchdog, restartCount,
                   failures, typed, ended, dropped, exits>>

\* Pushing onto a full messageQueue shifts the oldest message out.
Fitting(q) == SubSeq(q, IF Len(q) > MaxQueue THEN Len(q) - MaxQueue + 1 ELSE 1, Len(q))

\* The sequence s holds a set of messages in the order they have in pending.
InFileOrder(s, set) ==
    /\ Range(s) = set
    /\ \A i, j \in DOMAIN s : i < j =>
          \E k, l \in DOMAIN pending : k < l /\ pending[k] = s[i] /\ pending[l] = s[j]

\* Restored claims are sorted by number.
ByNumber(set) ==
    {s \in [1 .. Cardinality(set) -> set] :
        Range(s) = set /\ \A i, j \in DOMAIN s : i < j => s[i] < s[j]}

\* One round of the main loop: claim everything, accept it, complete the claims, or
\* restore those that could not be accepted.
Round ==
    /\ running
    /\ pending # <<>>
    /\ \E bad \in SUBSET Range(pending) :
         LET new == (Range(pending) \cap Typable) \ bad
         IN  /\ fails + Cardinality(bad) <= MaxFails
             /\ fails' = fails + Cardinality(bad)
             /\ failed' = failed \cup bad
             /\ pending' \in ByNumber(bad)
             /\ \E s \in [1 .. Cardinality(new) -> new] :
                  LET all == queue \o s
                  IN  /\ InFileOrder(s, new)
                      /\ dropped' = dropped \cup
                                      {all[i] : i \in 1 .. Len(all) - Len(Fitting(all))}
                      /\ ProcessQueue(Fitting(all), current, pty, watchdog)
    /\ UNCHANGED <<running, pty, idleTimer, restartCount, arrivals, ended, exits>>

\* The terminal was quiet for READY_QUIET_MS after the output of its start.
Ready ==
    /\ running
    /\ pty = "starting"
    /\ pty' = "ready"
    /\ ProcessQueue(queue, current, "ready", watchdog)
    /\ UNCHANGED <<running, pending, idleTimer, restartCount, arrivals, failures,
                   ended, dropped, exits>>

\* onData while busy sets the idle timer anew.
Output ==
    /\ running
    /\ pty = "ready" /\ current # None
    /\ idleTimer' = current
    /\ UNCHANGED <<running, pending, turn, pty, restartCount, arrivals, failures,
                   ended, dropped, exits>>

\* The idle timer fires; it asks neither whose output set it nor for the watchdog.
IdleFires ==
    /\ running
    /\ idleTimer # None
    /\ idleTimer' = None
    /\ EndTurn("idle")
    /\ ProcessQueue(queue, None, pty, watchdog)
    /\ UNCHANGED <<running, pending, pty, restartCount, arrivals, failures, dropped,
                   exits>>

\* The activity detector turns idle during a turn.
DetectorIdle ==
    /\ running
    /\ current # None
    /\ idleTimer' = None
    /\ EndTurn("idle")
    /\ ProcessQueue(queue, None, pty, FALSE)
    /\ UNCHANGED <<running, pending, pty, restartCount, arrivals, failures, dropped,
                   exits>>

\* Variant: the watchdog restarts the terminal and forgets to clear busy.
WatchdogKeepsBusy ==
    /\ running
    /\ watchdog
    /\ EndTurn("timeout")
    /\ pty' = IF current = None THEN pty ELSE "starting"
    /\ ProcessQueue(queue, current, pty', FALSE)
    /\ UNCHANGED <<running, pending, idleTimer, restartCount, arrivals, failures,
                   dropped, exits>>

\* The watchdog: after a turn that took too long the terminal is restarted at
\* once.  The idle timer stays set.
WatchdogFires ==
    /\ running
    /\ watchdog
    /\ EndTurn("timeout")
    /\ pty' = IF current = None THEN pty ELSE "starting"
    /\ ProcessQueue(queue, None, pty', FALSE)
    /\ UNCHANGED <<running, pending, idleTimer, restartCount, arrivals, failures,
                   dropped, exits>>

\* A restart is scheduled unless there were too many in a short time.
NextTry(n, label) == IF n <= MaxRestarts THEN label ELSE "offline"

\* Variant: onExit leaves the idle timer set.
ExitKeepsTimer ==
    /\ running
    /\ Alive
    /\ exits < MaxExits
    /\ exits' = exits + 1
    /\ EndTurn("exit")
    /\ current' = None /\ watchdog' = FALSE
    /\ \E n \in {1, restartCount + 1} : restartCount' = n /\ pty' = NextTry(n, "down")
    /\ UNCHANGED <<running, pending, queue, idleTimer, arrivals, failures, typed,
                   dropped>>

\* onExit: every timer is cleared, and messageQueue survives.  The count starts
\* again when the process ran for longer than RESTART_STABLE_MS.
Exit ==
    /\ running
    /\ Alive
    /\ exits < MaxExits
    /\ exits' = exits + 1
    /\ EndTurn("exit")
    /\ current' = None /\ watchdog' = FALSE /\ idleTimer' = None
    /\ \E n \in {1, restartCount + 1} : restartCount' = n /\ pty' = NextTry(n, "down")
    /\ UNCHANGED <<running, pending, queue, arrivals, failures, typed, dropped>>

\* The scheduled restart; when spawning fails there is one more attempt, and
\* after that none, whatever the count.
Respawn ==
    /\ running
    /\ \/ /\ pty \in {"down", "retry"}
          /\ pty' = "starting"
          /\ UNCHANGED restartCount
       \/ /\ pty = "down"
          /\ restartCount' = restartCount + 1
          /\ pty' = NextTry(restartCount + 1, "retry")
       \/ /\ pty = "retry"
          /\ pty' = "offline"
          /\ UNCHANGED restartCount
    /\ UNCHANGED <<running, pending, turn, idleTimer, arrivals, failures, ended,
                   dropped, exits>>

\* stop(), or the death of the runner: what it had accepted is gone.
Stop ==
    /\ running
    /\ running' = FALSE
    /\ queue' = <<>> /\ current' = None /\ idleTimer' = None /\ watchdog' = FALSE
    /\ UNCHANGED <<pending, pty, restartCount, history>>

Next ==
    \/ \E m \in Messages : Send(m)
    \/ Round \/ Ready \/ Output \/ IdleFires \/ DetectorIdle
    \/ WatchdogFires \/ Exit \/ Respawn \/ Stop

Spec == Init /\ [][Next]_vars

\* The main loop goes round, timers fire, and a terminal that is started often
\* enough comes up: it prints something and then is quiet.
FairSpec ==
    /\ Spec
    /\ WF_vars(Round) /\ WF_vars(WatchdogFires) /\ WF_vars(Respawn)
    /\ SF_vars(Ready)

-----------------------------------------------------------------------------
Waiting == Range(pending)
InQueue == Range(queue)
Typed == Range(typed)
Ends(m) == {i \in 1 .. Len(ended) : ended[i][1] = m}

\* Every variable has its type.
TypeOK ==
    /\ running \in BOOLEAN /\ watchdog \in BOOLEAN
    /\ pending \in Seq(Messages) /\ queue \in Seq(Messages) /\ typed \in Seq(Messages)
    /\ current \in Messages \cup {None} /\ idleTimer \in Messages \cup {None}
    /\ pty \in PtyStates
    /\ restartCount \in Nat /\ exits \in 0 .. MaxExits /\ fails \in 0 .. MaxFails
    /\ sent \in SUBSET Messages /\ earlier \in [Messages -> SUBSET Messages]
    /\ ended \in Seq(Messages \X Reasons)
    /\ dropped \in SUBSET Messages /\ failed \in SUBSET Messages

\* Is x to be typed before y?  It arrived before y with a smaller number, and its
\* claim was never restored.
Precedes(x, y) == x \in earlier[y] /\ x < y /\ x \notin failed

\* The runner works on one message at a time and never loses track of it: a message
\* is typed at most once and never before one that precedes it, whether that is typed
\* later or not yet; the one being worked on was typed last, and each earlier one was
\* closed for its sender exactly once, whatever timers, restarts and exits came in
\* between.  A message that was accepted and is neither waiting nor typed was pushed
\* out of a full messageQueue.
OneTurnAtATime ==
    /\ TypeOK
    /\ Len(queue) <= MaxQueue
    /\ \A i, j \in 1 .. Len(typed) :
          i < j => typed[i] # typed[j] /\ ~ Precedes(typed[j], typed[i])
    /\ \A x \in Typed, y \in InQueue \cup Waiting : x # y /\ ~ Precedes(y, x)
    /\ running =>
         /\ current # None => typed # <<>> /\ current = typed[Len(typed)]
         /\ \A m \in Typed : Cardinality(Ends(m)) = IF m = current THEN 0 ELSE 1
         /\ \A m \in Typable \cap sent :
               m \in Waiting \cup InQueue \cup Typed \cup dropped

\* A turn that is under way is always watched, so a silent agent cannot block the
\* messages behind it for ever; and an idle timer that was set by the output of an
\* earlier turn can end this one early only if the watchdog ended the earlier turn
\* (restartPty clears neither the timer nor its callback).
TurnWatched ==
    /\ current # None => watchdog /\ pty = "ready"
    /\ current # None /\ idleTimer \notin {None, current}
          => \E i \in Ends(idleTimer) : ended[i][2] = "timeout"

\* Every message that can be typed is closed for its sender in the end, unless it
\* was pushed out of a full messageQueue, or the terminal is given up or the runner
\* is stopped: then it may have been claimed and completed and nobody is told.
EventuallyClosed ==
    \A m \in Typable :
        m \in sent ~> Ends(m) # {} \/ m \in dropped \/ ~ running \/ pty = "offline"
=============================================================================
