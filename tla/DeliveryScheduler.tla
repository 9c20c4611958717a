------------------------- MODULE DeliveryScheduler -------------------------
(***************************************************************************)
(* The daemon's delivery scheduler, src/runtime/daemon/                    *)
(* deliveryScheduler.js: it types pending messages into the terminals of   *)
(* the agents, one at a time per agent, when the agent is idle, stuck for  *)
(* long, or when the message has waited too long.                          *)
(*                                                                         *)
(* Everything runs on one thread that gives way at an await.  A call of    *)
(* deliverTargets walks over its targets; the timer starts one each        *)
(* interval over every agent with pending messages, whether or not the     *)
(* previous one has ended, and a bus_send starts one for its target.  The  *)
(* agents write their activity into the registry file at any moment.       *)
(*                                                                         *)
(* Messages carry the timestamp of their send and activity states the time *)
(* of their last change (activityStateWriter.js:54); both are modelled as  *)
(* ages that stop growing at the limit they are compared with.  The queue  *)
(* is what module DeliveryQueue says of a queue with one live consumer.    *)
(***************************************************************************)
EXTENDS Integers, Sequences, FiniteSets

CONSTANTS
    Subscribers,   \* agents
    Events,        \* messages
    To,            \* the agent each message is for
    Injectable,    \* the messages of delivery mode "inject"
    IdleGated,     \* the messages whose delivery gate is "idle"
    Timers,        \* calls of deliverTargets the timer makes
    Triggers,      \* calls of deliverTargets that bus_send makes
    Registrations, \* what the registry may say of an agent
    Hung,          \* agents for which an injection never comes back
    ForceAfter,    \* forceDeliveryAfterMs, in ticks of the clock
    BlockedGrace,  \* blockedGraceMs
    RetryBase,     \* forceRetryBaseMs
    RetryMax,      \* forceRetryMaxMs
    AttemptCap,    \* bound: attempts are counted up to here
    MaxRestarts,   \* bound: how often the daemon restarts
    None

Calls == Timers \cup Triggers

\* "wrapper": an active agent behind a terminal wrapper that can be typed into.
Kinds == {"wrapper", "inactive", "external", "unsupported"}

\* "ready" stands for idle too, "blocked" for waiting_input, "working" for the rest.
Activities == {"ready", "working", "blocked"}

ASSUME SchedulerConstants ==
    /\ To \in [Events -> Subscribers]
    /\ Injectable \subseteq Events /\ IdleGated \subseteq Events
    /\ Timers \cap Triggers = {}
    /\ Registrations \subseteq Kinds
    /\ Hung \subseteq Subscribers
    /\ ForceAfter \in Nat /\ BlockedGrace \in Nat
    /\ RetryBase \in Nat \ {0} /\ RetryMax \in Nat \ {0}
    /\ AttemptCap \in Nat \ {0} /\ MaxRestarts \in Nat
    /\ None \notin Events \cup Subscribers \cup Calls

VARIABLES
    sent,       \* messages appended so far
    pending,    \* the queue of each agent
    delivered,  \* messages whose injection succeeded
    dropped,    \* messages completed or acknowledged without an injection
    age,        \* how long each message has waited, up to ForceAfter
    kind,       \* registry: what each agent is
    activity,   \* registry: activity_state
    since,      \* registry: for how long, up to BlockedGrace
    locks,      \* this.locks: the call that delivers to an agent
    seen,       \* this.pendingSeen: the message whose wait is tracked
    retries,    \* this.forceRetries: attempts, and the time to the next one
    pc,         \* "idle", "walk", "claimed" or "inject" for each call
    targets,    \* the agents a call has left
    held,       \* the message a call has claimed
    forced,     \* gate.forceOverride of that call
    restarts    \* how often the daemon restarted

registry == <<kind, activity, since>>
queue == <<sent, pending, delivered, dropped, age>>
memory == <<locks, seen, retries>>
calls == <<pc, targets, held, forced>>
vars == <<registry, queue, memory, calls, restarts>>

Least(a, b) == IF a < b THEN a ELSE b
Fresh == [attempts |-> 0, wait |-> 0]

\* No await stands between a claim and the second gate.
ThreadFree == \A c \in Calls : pc[c] # "claimed"

Holding(s) == {c \in Calls : held[c] # None /\ To[held[c]] = s}
-----------------------------------------------------------------------------
(* The gate.                                                               *)

\* The oldest message resolvePendingWait finds that may be injected.
OldestInjectable(s) ==
    LET at == {i \in DOMAIN pending[s] : pending[s][i] \in Injectable}
    IN  IF at = {} THEN None
        ELSE pending[s][CHOOSE i \in at : \A j \in at : i <= j]

\* Variant for the mutation runs: the wait counts for nothing.
GateNeverForced(s, e) ==
    IF kind[s] # "wrapper" THEN "refused"
    ELSE IF activity[s] = "ready" THEN "open"
    ELSE IF activity[s] = "blocked" /\ since[s] >= BlockedGrace THEN "grace"
    ELSE "closed"

\* resolveGate, for the message e whose wait counts.
Gate(s, e) ==
    IF kind[s] # "wrapper" THEN "refused"
    ELSE IF activity[s] = "ready" THEN "open"
    ELSE IF activity[s] = "blocked" /\ since[s] >= BlockedGrace THEN "grace"
    ELSE IF e = None THEN "closed"
    ELSE IF age[e] < ForceAfter THEN "closed"
    ELSE IF retries[e].wait > 0 THEN "backoff"
    ELSE "forced"

Passes(gate) == gate \in {"open", "grace", "forced"}

\* clearPendingTracking without an event: what is tracked is forgotten.
Forget(S) ==
    /\ seen' = [s \in Subscribers |-> IF s \in S THEN None ELSE seen[s]]
    /\ retries' = [e \in Events |-> IF To[e] \in S /\ seen[To[e]] = e THEN Fresh
                                                                    ELSE retries[e]]

\* What resolveGate leaves in pendingSeen and forceRetries.
Track(s, e, gate) ==
    IF gate \notin {"closed", "backoff", "forced"} THEN UNCHANGED <<seen, retries>>
    ELSE IF e = None THEN Forget({s})
    ELSE /\ seen' = [seen EXCEPT ![s] = e]
         /\ retries' = IF seen[s] \notin {None, e}
                       THEN [retries EXCEPT ![seen[s]] = Fresh] ELSE retries
-----------------------------------------------------------------------------
Init ==
    /\ sent = {} /\ delivered = {} /\ dropped = {}
    /\ pending = [s \in Subscribers |-> <<>>]
    /\ age = [e \in Events |-> 0]
    /\ kind \in [Subscribers -> Registrations]
    /\ activity = [s \in Subscribers |-> "working"]
    /\ since = [s \in Subscribers |-> 0]
    /\ locks = [s \in Subscribers |-> None]
    /\ seen = [s \in Subscribers |-> None]
    /\ retries = [e \in Events |-> Fresh]
    /\ pc = [c \in Calls |-> "idle"]
    /\ targets = [c \in Calls |-> {}]
    /\ held = [c \in Calls |-> None]
    /\ forced = [c \in Calls |-> FALSE]
    /\ restarts = 0

(* The environment: senders, agents, the clock.                            *)

AppendEvent(e) ==
    /\ e \notin sent
    /\ sent' = sent \cup {e}
    /\ pending' = [pending EXCEPT ![To[e]] = Append(@, e)]
    /\ UNCHANGED <<delivered, dropped, age, registry, memory, calls, restarts>>

\* "ufoo bus ack": the pending file is emptied.
AckPending(s) ==
    /\ pending[s] # <<>>
    /\ dropped' = dropped \cup {pending[s][i] : i \in DOMAIN pending[s]}
    /\ pending' = [pending EXCEPT ![s] = <<>>]
    /\ UNCHANGED <<sent, delivered, age, registry, memory, calls, restarts>>

\* writeActivityState of the agent's own process.
ReportActivity(s, a) ==
    /\ activity[s] # a
    /\ activity' = [activity EXCEPT ![s] = a]
    /\ since' = [since EXCEPT ![s] = 0]
    /\ UNCHANGED <<kind, queue, memory, calls, restarts>>

Register(s, k) ==
    /\ kind[s] # k
    /\ kind' = [kind EXCEPT ![s] = k]
    /\ UNCHANGED <<activity, since, queue, memory, calls, restarts>>

PassTime ==
    /\ age' = [e \in Events |-> IF e \in sent THEN Least(age[e] + 1, ForceAfter) ELSE 0]
    /\ since' = [s \in Subscribers |-> IF activity[s] = "blocked"
                                       THEN Least(since[s] + 1, BlockedGrace) ELSE 0]
    /\ retries' = [e \in Events |-> [retries[e] EXCEPT !.wait = IF @ > 0 THEN @ - 1 ELSE 0]]
    /\ UNCHANGED <<sent, pending, delivered, dropped, kind, activity, locks, seen,
                   calls, restarts>>

(* The scheduler.                                                          *)

\* listPendingSubscribers passes over these; what it tracked of them is cleared.
Skipped(s) == kind[s] \in {"inactive", "external"} \/ pending[s] = <<>>

\* tick: a walk over every agent that has pending messages.
Tick(c) ==
    /\ pc[c] = "idle" /\ c \in Timers
    /\ ThreadFree
    /\ Forget({s \in Subscribers : Skipped(s)})
    /\ targets' = [targets EXCEPT ![c] = {s \in Subscribers : ~ Skipped(s)}]
    /\ pc' = [pc EXCEPT ![c] = IF \A s \in Subscribers : Skipped(s) THEN "idle" ELSE "walk"]
    /\ UNCHANGED <<registry, queue, locks, held, forced, restarts>>

\* bus_send: deliverTargets for the resolved target.
Trigger(c, s) ==
    /\ pc[c] = "idle" /\ c \in Triggers
    /\ targets' = [targets EXCEPT ![c] = {s}]
    /\ pc' = [pc EXCEPT ![c] = "walk"]
    /\ UNCHANGED <<registry, queue, memory, held, forced, restarts>>

\* The walk goes on behind s: at once, or when the delivery to s is over.
WalkOn(c, s) ==
    /\ targets' = [targets EXCEPT ![c] = @ \ {s}]
    /\ pc' = [pc EXCEPT ![c] = IF targets[c] = {s} THEN "idle" ELSE "walk"]
    /\ held' = [held EXCEPT ![c] = None]
    /\ forced' = [forced EXCEPT ![c] = FALSE]

Walking(c, s) == pc[c] = "walk" /\ s \in targets[c] /\ ThreadFree

\* Variant: the lock is not looked at.
LockIgnored(s) == TRUE

LockFree(s) == locks[s] = None

\* deliverSubscriber while another call delivers to s.
SkipLocked(c, s) ==
    /\ Walking(c, s)
    /\ locks[s] # None
    /\ WalkOn(c, s)
    /\ UNCHANGED <<registry, queue, memory, restarts>>

\* The gate refuses, or there is nothing to claim.
Defer(c, s) ==
    LET e == OldestInjectable(s)
        gate == Gate(s, e)
    IN  /\ Walking(c, s) /\ LockFree(s)
        /\ ~ Passes(gate) \/ pending[s] = <<>>
        /\ IF Passes(gate) THEN Forget({s}) ELSE Track(s, e, gate)
        /\ WalkOn(c, s)
        /\ UNCHANGED <<registry, queue, locks, restarts>>

\* The claimed event is none to inject: it is completed.
CompleteUnsupported(c, s) ==
    LET e == OldestInjectable(s)
        gate == Gate(s, e)
    IN  /\ Walking(c, s) /\ LockFree(s)
        /\ Passes(gate) /\ pending[s] # <<>> /\ Head(pending[s]) \notin Injectable
        /\ Track(s, e, gate)
        /\ pending' = [pending EXCEPT ![s] = Tail(@)]
        /\ dropped' = dropped \cup {Head(pending[s])}
        /\ WalkOn(c, s)
        /\ UNCHANGED <<registry, sent, delivered, age, locks, restarts>>

\* claimNext: the first gate has passed.  An event that is not gated on idle goes
\* to the injector without another look.
Claim(c, s) ==
    LET e == OldestInjectable(s)
        gate == Gate(s, e)
        next == Head(pending[s])
    IN  /\ Walking(c, s) /\ LockFree(s)
        /\ Passes(gate) /\ pending[s] # <<>> /\ next \in Injectable
        /\ Track(s, e, gate)
        /\ locks' = [locks EXCEPT ![s] = c]
        /\ pending' = [pending EXCEPT ![s] = Tail(@)]
        /\ held' = [held EXCEPT ![c] = next]
        /\ forced' = [forced EXCEPT ![c] = gate = "forced"]
        /\ pc' = [pc EXCEPT ![c] = IF next \in IdleGated THEN "claimed" ELSE "inject"]
        /\ UNCHANGED <<registry, sent, delivered, dropped, age, targets, restarts>>

\* The second gate, for the claimed event itself, after another look at the
\* registry file.
PassSecondGate(c) ==
    LET s == To[held[c]]
        gate == Gate(s, held[c])
    IN  /\ pc[c] = "claimed"
        /\ Passes(gate)
        /\ Track(s, held[c], gate)
        /\ forced' = [forced EXCEPT ![c] = @ \/ gate = "forced"]
        /\ pc' = [pc EXCEPT ![c] = "inject"]
        /\ UNCHANGED <<registry, queue, locks, targets, held, restarts>>

\* Variant: the claim is not given back.
RestoreAtSecondGateNot(c) ==
    LET s == To[held[c]]
        gate == Gate(s, held[c])
    IN  /\ pc[c] = "claimed"
        /\ ~ Passes(gate)
        /\ Track(s, held[c], gate)
        /\ UNCHANGED pending
        /\ locks' = [locks EXCEPT ![s] = None]
        /\ WalkOn(c, s)
        /\ UNCHANGED <<registry, sent, delivered, dropped, age, restarts>>

RestoreAtSecondGate(c) ==
    LET s == To[held[c]]
        gate == Gate(s, held[c])
    IN  /\ pc[c] = "claimed"
        /\ ~ Passes(gate)
        /\ Track(s, held[c], gate)
        /\ pending' = [pending EXCEPT ![s] = <<held[c]>> \o @]
        /\ locks' = [locks EXCEPT ![s] = None]
        /\ WalkOn(c, s)
        /\ UNCHANGED <<registry, sent, delivered, dropped, age, restarts>>

\* clearPendingTracking for the event e.
ForgetEvent(s, e) ==
    /\ seen' = [seen EXCEPT ![s] = None]
    /\ retries' = [retries EXCEPT ![e] = Fresh]

\* The injection succeeds: the claim is completed and the agent marked working, if
\* its state can be written.
InjectResolves(c) ==
    LET e == held[c]
        s == To[held[c]]
    IN  /\ pc[c] = "inject" /\ s \notin Hung
        /\ delivered' = delivered \cup {e}
        /\ ForgetEvent(s, e)
        /\ \/ /\ activity' = [activity EXCEPT ![s] = "working"]
              /\ since' = [since EXCEPT ![s] = 0]
           \/ UNCHANGED <<activity, since>>
        /\ locks' = [locks EXCEPT ![s] = None]
        /\ WalkOn(c, s)
        /\ UNCHANGED <<kind, sent, pending, dropped, age, restarts>>

\* noteForceFailure: min(forceRetryMaxMs, forceRetryBaseMs * 2^(attempts - 1)).
Failed(retry) ==
    LET attempts == Least(retry.attempts + 1, AttemptCap)
    IN  [attempts |-> attempts, wait |-> Least(RetryMax, RetryBase * 2 ^ (attempts - 1))]

\* It fails: the claim is given back, and the event tried again after a while.
InjectRejects(c) ==
    LET e == held[c]
        s == To[held[c]]
    IN  /\ pc[c] = "inject" /\ s \notin Hung
        /\ pending' = [pending EXCEPT ![s] = <<e>> \o @]
        /\ retries' = IF forced[c] THEN [retries EXCEPT ![e] = Failed(@)] ELSE retries
        /\ locks' = [locks EXCEPT ![s] = None]
        /\ WalkOn(c, s)
        /\ UNCHANGED <<registry, sent, delivered, dropped, age, seen, restarts>>

\* The daemon dies and starts again: the queue gives back what it had claimed.
Restart ==
    /\ restarts < MaxRestarts
    /\ restarts' = restarts + 1
    /\ pending' = [s \in Subscribers |->
           LET back == {held[c] : c \in Holding(s)}
           IN  IF back = {} THEN pending[s]
               ELSE <<CHOOSE e \in back : TRUE>> \o pending[s]]
    /\ locks' = [s \in Subscribers |-> None]
    /\ seen' = [s \in Subscribers |-> None]
    /\ retries' = [e \in Events |-> Fresh]
    /\ pc' = [c \in Calls |-> "idle"]
    /\ targets' = [c \in Calls |-> {}]
    /\ held' = [c \in Calls |-> None]
    /\ forced' = [c \in Calls |-> FALSE]
    /\ UNCHANGED <<registry, sent, delivered, dropped, age>>

Deliver(c, s) ==
    SkipLocked(c, s) \/ Defer(c, s) \/ CompleteUnsupported(c, s) \/ Claim(c, s)

Finish(c) == InjectResolves(c) \/ InjectRejects(c)

SecondGate(c) == PassSecondGate(c) \/ RestoreAtSecondGate(c)

Next ==
    \/ \E e \in Events : AppendEvent(e)
    \/ \E s \in Subscribers :
        \/ AckPending(s)
        \/ \E a \in Activities : ReportActivity(s, a)
        \/ \E k \in Registrations : Register(s, k)
        \/ \E c \in Calls : Trigger(c, s) \/ Deliver(c, s)
    \/ PassTime
    \/ \E c \in Calls : Tick(c) \/ SecondGate(c) \/ Finish(c)
    \/ Restart

Spec == Init /\ [][Next]_vars

\* The clock and the timer go on, a call goes on, an injection comes back unless it
\* hangs, and one that is tried over and over succeeds in the end.
FairSpec ==
    /\ Spec
    /\ WF_vars(PassTime)
    /\ WF_vars(\E c \in Timers : Tick(c))
    /\ \A c \in Calls : WF_vars(\E s \in Subscribers : Deliver(c, s))
    /\ \A c \in Calls : WF_vars(SecondGate(c)) /\ WF_vars(Finish(c))
    /\ \A e \in Events : SF_vars(\E c \in Calls : held[c] = e /\ InjectResolves(c))
-----------------------------------------------------------------------------
Queued(e) == \E i \in DOMAIN pending[To[e]] : pending[To[e]][i] = e

TypeOK ==
    /\ sent \subseteq Events /\ delivered \subseteq sent /\ dropped \subseteq sent
    /\ pending \in [Subscribers -> Seq(Events)]
    /\ age \in [Events -> 0 .. ForceAfter]
    /\ kind \in [Subscribers -> Kinds]
    /\ activity \in [Subscribers -> Activities]
    /\ since \in [Subscribers -> 0 .. BlockedGrace]
    /\ locks \in [Subscribers -> Calls \cup {None}]
    /\ seen \in [Subscribers -> Events \cup {None}]
    /\ retries \in [Events -> [attempts : 0 .. AttemptCap, wait : 0 .. RetryMax]]
    /\ pc \in [Calls -> {"idle", "walk", "claimed", "inject"}]
    /\ targets \in [Calls -> SUBSET Subscribers]
    /\ held \in [Calls -> Events \cup {None}]
    /\ forced \in [Calls -> BOOLEAN]
    /\ restarts \in 0 .. MaxRestarts

\* The lock of an agent is held by the call that has one of its messages in hand,
\* and by no other.
LockInv ==
    \A c \in Calls :
        /\ held[c] # None <=> pc[c] \in {"claimed", "inject"}
        /\ held[c] # None => /\ locks[To[held[c]]] = c
                             /\ To[held[c]] \in targets[c]
        /\ \A s \in Subscribers : locks[s] = c => held[c] # None /\ To[held[c]] = s

\* At most one message at a time is typed into a terminal, however many calls the
\* timer and bus_send have started.
OneInjection ==
    \A c, d \in Calls :
        held[c] # None /\ held[d] # None /\ To[held[c]] = To[held[d]] => c = d

\* A message is in one place only: waiting, in the hand of one call, injected or
\* dropped; a refusal at the second gate or a failed injection leaves it waiting.
NothingStranded ==
    \A e \in sent :
        LET places == <<Queued(e), \E c \in Calls : held[c] = e,
                        e \in delivered, e \in dropped>>
        IN  \E i \in 1 .. 4 : /\ places[i]
                              /\ \A j \in 1 .. 4 : places[j] => i = j

\* deliveryScheduler.js:27 "a queued wrapper message must never be blocked
\* indefinitely by stale activity state".
EventuallyInjected ==
    \A e \in Events :
        e \in Injectable /\ To[e] \notin Hung /\ e \in sent ~> e \in delivered \cup dropped
=============================================================================
