---------------------------- MODULE AgentRegistry ----------------------------
(***************************************************************************)
(* The agent registry, all-agents.json, and those who write it: the bus    *)
(* commands (coordination/bus/index.js, subscriber.js, nickname.js), which *)
(* load the file, change their copy and save it, and the activity writer   *)
(* (agents/activity/activityStateWriter.js), which agents use all the time.*)
(*                                                                         *)
(* There is no lock.  saveAgentsData merges the activity states on disk    *)
(* into what it writes and nothing else.  Most commands load and save in   *)
(* one go and are one step here; join is not: between its load and its     *)
(* save it looks for terminals with the help of other processes and moves  *)
(* the queue of the agent whose terminal it takes over.  The setting says  *)
(* whether others get in meanwhile.  All agents are of one type, so a      *)
(* nickname is the number in it; nobody is launched in a nickname scope of  *)
(* its own, so scoped_nickname is what join and rename make of it.          *)
(***************************************************************************)
EXTENDS Naturals, FiniteSets, FiniteSetsExt

CONSTANTS
    Agents,
    Tty,         \* the terminal an agent runs in
    NoTty,
    Headless,    \* agents with launch_mode "internal"
    Resumable,   \* agents with a provider session to come back to
    Messages,
    MaxTime,     \* bound on the clock of activity_since
    MaxLaunches, \* bound on how often an agent is launched, for each agent
    MaxNick,     \* bound on nickname numbers
    Absent       \* an agent the registry does not know

ASSUME RegistryConstants ==
    /\ Headless \subseteq Agents /\ Resumable \subseteq Agents
    /\ MaxTime \in Nat /\ MaxNick \in Nat /\ MaxLaunches \in [Agents -> Nat]
    /\ \A a \in Headless : Tty[a] = NoTty

VARIABLES
    overlap,   \* do other processes get in during a join?
    disk,      \* all-agents.json
    queue,     \* the pending messages of each agent
    launched,  \* how often an agent was launched; its pid is this number
    alive,     \* the agents whose process runs
    pc,        \* where the join of an agent is
    mem,       \* the copy a join has loaded and changed
    todo,      \* the agents whose terminal it takes over
    source,    \* the one of them whose queue it moves
    taken,     \* the messages it has read from that queue
    now,
    member,    \* history: joined, and neither left nor driven out since
    sent,      \* history: messages sent
    handled    \* history: messages received

process == <<launched, alive>>
joining == <<pc, mem, todo, source, taken>>
mail == <<queue, sent, handled>>
vars == <<overlap, disk, mail, process, joining, now, member>>

Activities == {"", "starting", "working", "idle"}

Entry == [status : {"active", "inactive"}, nick : 1 .. MaxNick,
          scoped : 1 .. MaxNick, pid : Nat, act : Activities, since : Nat]

Registry == [Agents -> Entry \cup {Absent}]

ASSUME AbsentIsNoEntry == Absent \notin Entry

Nobody == [a \in Agents |-> Absent]

Known(reg) == {a \in Agents : reg[a] # Absent}

Init ==
    /\ overlap \in BOOLEAN
    /\ disk = Nobody
    /\ queue = [a \in Agents |-> {}]
    /\ launched = [a \in Agents |-> 0]
    /\ alive = {}
    /\ pc = [a \in Agents |-> "idle"]
    /\ mem = [a \in Agents |-> Nobody]
    /\ todo = [a \in Agents |-> {}]
    /\ source = [a \in Agents |-> a]
    /\ taken = [a \in Agents |-> {}]
    /\ now = 0
    /\ member = {}
    /\ sent = {} /\ handled = {}

-----------------------------------------------------------------------------
\* isMetaActive for an entry with a pid, but for its status.
Lives(a, entry) == a \in alive /\ entry.pid = launched[a]

Active(a, entry) == entry.status = "active" /\ Lives(a, entry)

\* cleanupInactive, which every command runs after loading: a headless agent
\* that is not active goes unless it can be resumed, others are marked.
Cleaned(reg) ==
    [a \in Agents |->
        IF reg[a] = Absent \/ Active(a, reg[a]) THEN reg[a]
        ELSE IF a \in Headless \ Resumable THEN Absent
        ELSE IF reg[a].status = "active"
             THEN [reg[a] EXCEPT !.status = "inactive", !.act = ""]
             ELSE reg[a]]

\* Variant for the mutation runs: the copy in memory wins.
MergeNothing(entry, onDisk) == entry

\* mergeExternalActivityFields: the activity on disk wins when it is newer, or
\* when the copy has none.
MergeActivity(entry, onDisk) ==
    IF onDisk # Absent /\ onDisk.act # ""
       /\ (entry.act = "" \/ onDisk.since > entry.since)
    THEN [entry EXCEPT !.act = onDisk.act, !.since = onDisk.since]
    ELSE entry

\* saveAgentsData: who is not in the copy is dropped from the file.
Save(reg) ==
    disk' = [a \in Agents |->
                IF reg[a] = Absent THEN Absent ELSE MergeActivity(reg[a], disk[a])]

\* No join is under way, or others get in.
Open == overlap \/ \A a \in Agents : pc[a] = "idle"

-----------------------------------------------------------------------------
Launch(a) ==
    /\ Open
    /\ a \notin alive
    /\ launched[a] < MaxLaunches[a]
    /\ launched' = [launched EXCEPT ![a] = @ + 1]
    /\ alive' = alive \cup {a}
    /\ UNCHANGED <<overlap, disk, mail, joining, now, member>>

\* The process ends, perhaps in the middle of a join.
Exit(a) ==
    /\ a \in alive
    /\ alive' = alive \ {a}
    /\ pc' = [pc EXCEPT ![a] = "idle"]
    /\ todo' = [todo EXCEPT ![a] = {}]
    /\ taken' = [taken EXCEPT ![a] = {}]
    /\ mem' = [mem EXCEPT ![a] = Nobody]
    /\ member' = member \ {a}
    /\ UNCHANGED <<overlap, disk, mail, launched, source, now>>

Displaced(a, reg) ==
    {b \in Known(reg) \ {a} : Tty[a] # NoTty /\ Tty[b] = Tty[a]}

\* Variant: the lowest number nobody active uses.
FreeNickActive(reg) ==
    Min({n \in 1 .. MaxNick + 1 :
            \A b \in Known(reg) : reg[b].status = "active" => reg[b].nick # n})

\* generateAutoNickname: one more than the largest number there is.
FreeNick(reg) == 1 + Max({0} \cup {reg[b].nick : b \in Known(reg)})

\* nicknameExists.
Conflict(a, n, reg) ==
    \E b \in Known(reg) \ {a} : n \in {reg[b].nick, reg[b].scoped}

\* The names a join may give: a new nickname that is free, under which an agent
\* that comes back keeps its scoped one; what it had; or a generated one, in place
\* of which the nickname, but not the scoped one, of the agent it displaces is taken.
Names(a, reg) ==
    LET new == {n \in 1 .. MaxNick : ~ Conflict(a, n, reg)}
        free == FreeNick(reg)
        inherited == {reg[b].nick : b \in Displaced(a, reg)}
    IN  IF reg[a] # Absent
        THEN {[nick |-> n, scoped |-> reg[a].scoped] : n \in new \cup {reg[a].nick}}
        ELSE {[nick |-> n, scoped |-> n] : n \in new}
               \cup {[nick |-> n, scoped |-> free] :
                        n \in IF inherited = {} THEN {free} ELSE inherited}

\* Variant: the fields of the old entry are kept, the pid among them.
NewEntryPreserving(a, name, old) ==
    [status |-> "active", nick |-> name.nick, scoped |-> name.scoped,
     pid |-> IF old = Absent THEN launched[a] ELSE old.pid,
     act |-> "starting", since |-> now + 1]

NewEntry(a, name, old) ==
    [status |-> "active", nick |-> name.nick, scoped |-> name.scoped,
     pid |-> launched[a], act |-> "starting", since |-> now + 1]

\* join, up to its first pause: load, clean up, choose a nickname, and make the
\* new entry in the copy, from which the displaced agents are deleted.
BeginJoin(a) ==
    /\ Open
    /\ a \in alive /\ pc[a] = "idle"
    /\ now < MaxTime
    /\ now' = now + 1
    /\ LET reg == Cleaned(disk) IN
       \E name \in Names(a, reg) :
        /\ name.nick <= MaxNick /\ name.scoped <= MaxNick
        /\ mem' = [mem EXCEPT ![a] =
             [b \in Agents |->
                IF b = a THEN NewEntry(a, name, reg[a])
                ELSE IF b \in Displaced(a, reg) THEN Absent
                ELSE reg[b]]]
        /\ todo' = [todo EXCEPT ![a] = Displaced(a, reg)]
        /\ pc' = [pc EXCEPT ![a] = IF Displaced(a, reg) = {} THEN "save" ELSE "read"]
    /\ UNCHANGED <<overlap, disk, mail, process, source, taken, member>>

\* cleanupDuplicateTty, for each displaced agent: read its queue,
ReadQueue(a) ==
    /\ pc[a] = "read"
    /\ \E b \in todo[a] :
        /\ source' = [source EXCEPT ![a] = b]
        /\ taken' = [taken EXCEPT ![a] = queue[b]]
    /\ pc' = [pc EXCEPT ![a] = "append"]
    /\ UNCHANGED <<overlap, disk, mail, process, mem, todo, now, member>>

\* Variant: the old queue is dropped before its messages are in the new one.
AppendClears(a) ==
    /\ pc[a] = "append"
    /\ queue' = [queue EXCEPT ![source[a]] = {}]
    /\ pc' = [pc EXCEPT ![a] = "clear"]
    /\ UNCHANGED <<overlap, disk, process, mem, todo, source, taken, now, member, sent, handled>>

\* append what was read to the queue of the new agent,
AppendQueue(a) ==
    /\ pc[a] = "append"
    /\ queue' = [queue EXCEPT ![a] = @ \cup taken[a]]
    /\ pc' = [pc EXCEPT ![a] = "clear"]
    /\ UNCHANGED <<overlap, disk, process, mem, todo, source, taken, now, member, sent, handled>>

\* and truncate the old one when there was something to move.
ClearQueue(a) ==
    /\ pc[a] = "clear"
    /\ queue' = IF taken[a] = {} THEN queue ELSE [queue EXCEPT ![source[a]] = {}]
    /\ todo' = [todo EXCEPT ![a] = @ \ {source[a]}]
    /\ taken' = [taken EXCEPT ![a] = {}]
    /\ pc' = [pc EXCEPT ![a] = IF todo[a] = {source[a]} THEN "save" ELSE "read"]
    /\ UNCHANGED <<overlap, disk, process, mem, source, now, member, sent, handled>>

EndJoin(a) ==
    /\ pc[a] = "save"
    /\ Save(mem[a])
    /\ member' = (member \ Displaced(a, disk)) \cup {a}
    /\ pc' = [pc EXCEPT ![a] = "idle"]
    /\ mem' = [mem EXCEPT ![a] = Nobody]
    /\ UNCHANGED <<overlap, mail, process, todo, source, taken, now>>

\* A command that changes nothing but last_seen: check, status, a send by an
\* agent the registry knows, the daemon's cleanup, the exit handler of the daemon.
Touch ==
    /\ Open
    /\ Save(Cleaned(disk))
    /\ UNCHANGED <<overlap, mail, process, joining, now, member>>

Leave(a) ==
    /\ Open
    /\ pc[a] = "idle"
    /\ LET reg == Cleaned(disk) IN
        /\ reg[a] # Absent
        /\ Save([reg EXCEPT ![a].status = "inactive", ![a].act = ""])
    /\ member' = member \ {a}
    /\ UNCHANGED <<overlap, mail, process, joining, now>>

Rename(a, n) ==
    /\ Open
    /\ LET reg == Cleaned(disk) IN
        /\ reg[a] # Absent
        /\ ~ Conflict(a, n, reg)
        /\ Save([reg EXCEPT ![a].nick = n, ![a].scoped = n])
    /\ UNCHANGED <<overlap, mail, process, joining, now, member>>

\* writeActivityState, forced: the file is read, changed and written at once.  The
\* time is the one the detector says the state began at, perhaps long ago.
WriteActivity(a, state) ==
    /\ Open
    /\ disk[a] # Absent
    /\ disk[a].act # state
    /\ now < MaxTime
    /\ now' = now + 1
    /\ \E since \in {1, now + 1} :
          disk' = [disk EXCEPT ![a].act = state, ![a].since = since]
    /\ UNCHANGED <<overlap, mail, process, joining, member>>

\* A message goes to the queue of an agent the registry knows.
Send(m, a) ==
    /\ Open
    /\ m \notin sent
    /\ Cleaned(disk)[a] # Absent
    /\ queue' = [queue EXCEPT ![a] = @ \cup {m}]
    /\ sent' = sent \cup {m}
    /\ UNCHANGED <<overlap, disk, process, joining, now, member, handled>>

Receive(a, m) ==
    /\ Open
    /\ a \in alive
    /\ m \in queue[a]
    /\ queue' = [queue EXCEPT ![a] = @ \ {m}]
    /\ handled' = handled \cup {m}
    /\ UNCHANGED <<overlap, disk, process, joining, now, member, sent>>

Continue(a) == ReadQueue(a) \/ AppendQueue(a) \/ ClearQueue(a) \/ EndJoin(a)

Next ==
    \/ Touch
    \/ \E a \in Agents :
        \/ Launch(a) \/ Exit(a) \/ BeginJoin(a) \/ Continue(a) \/ Leave(a)
        \/ \E n \in 1 .. MaxNick : Rename(a, n)
        \/ \E state \in {"working", "idle"} : WriteActivity(a, state)
        \/ \E m \in Messages : Send(m, a) \/ Receive(a, m)

Spec == Init /\ [][Next]_vars

-----------------------------------------------------------------------------
\* Every variable has its type.
TypeOK ==
    /\ overlap \in BOOLEAN
    /\ disk \in Registry
    /\ queue \in [Agents -> SUBSET Messages]
    /\ launched \in [Agents -> Nat]
    /\ alive \in SUBSET Agents
    /\ pc \in [Agents -> {"idle", "read", "append", "clear", "save"}]
    /\ mem \in [Agents -> Registry]
    /\ todo \in [Agents -> SUBSET Agents]
    /\ source \in [Agents -> Agents]
    /\ taken \in [Agents -> SUBSET Messages]
    /\ now \in 0 .. MaxTime
    /\ member \in SUBSET Agents
    /\ sent \in SUBSET Messages /\ handled \in SUBSET Messages

\* The parts of the invariant behind the three properties below, for a system in
\* which nobody gets in during a join.  One agent joins at a time, and it runs.
OneJoin ==
    /\ \A a, b \in Agents : pc[a] # "idle" /\ pc[b] # "idle" => a = b
    /\ \A a \in Agents : pc[a] # "idle" => a \in alive
    /\ member \subseteq alive

Stays(a, reg) == reg[a] # Absent /\ Active(a, reg[a])

UniqueIn(reg) == \A a, b \in Known(reg) : reg[a].nick = reg[b].nick => a = b

\* What a join is going to save: itself, and all members but those it displaces.
CopyInv ==
    \A a \in Agents : pc[a] # "idle" =>
        /\ \A b \in (member \ Displaced(a, disk)) \cup {a} : Stays(b, mem[a])
        /\ UniqueIn(mem[a])

\* The move of a queue: the messages read are in the old queue until they are in
\* the new one as well.
MoveInv ==
    \A a \in Agents :
        /\ a \notin todo[a]
        /\ pc[a] \in {"append", "clear"} => source[a] # a
        /\ pc[a] = "append" => taken[a] = queue[source[a]]
        /\ pc[a] = "clear" => queue[source[a]] \subseteq queue[a]

\* When nobody gets in during a join, an agent that has joined and runs stays in
\* the registry as active, with its own pid, until it leaves or another agent
\* takes over its terminal: no stale copy drops it and no cleanup takes it for dead.
JoinedIsKnown ==
    ~ overlap => \A a \in member : Stays(a, disk)

\* No two agents have the same nickname, when nobody gets in during a join.
NicknamesUnique ==
    ~ overlap => UniqueIn(disk)

\* When an agent takes over the terminal of another, no message is lost, wherever
\* the new agent dies; provided nobody sends to the old one meanwhile.
TakeoverKeepsMessages ==
    ~ overlap => sent \subseteq handled \cup UNION {queue[a] : a \in Agents}

RegistryInv ==
    /\ TypeOK
    /\ ~ overlap => OneJoin /\ CopyInv /\ MoveInv
    /\ JoinedIsKnown /\ NicknamesUnique /\ TakeoverKeepsMessages

\* A command that saves an old copy never replaces the activity an agent has in the
\* file with an older one, also when others get in between its load and its save: only
\* the agent itself may say that its state began earlier.
ActivityNeverOlder ==
    [][\A a \in Agents :
          /\ disk[a] # Absent /\ disk[a].act # ""
          /\ disk'[a] # Absent /\ disk'[a].since < disk[a].since
          => \E state \in Activities : WriteActivity(a, state)]_vars
=============================================================================
