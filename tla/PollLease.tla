------------------------------ MODULE PollLease ------------------------------
(***************************************************************************)
(* The receive lease, src/coordination/bus/poll.js: the pid file that lets *)
(* one receiver wait for the messages of a subscriber, a resident "ufoo    *)
(* bus poll --follow" process or a wait_for_message call in the daemon.    *)
(*                                                                         *)
(* Several receivers may live in one process (the daemon serves many wait  *)
(* calls); what one does between two awaits no other one of that process   *)
(* sees half done.  Other processes get in between two calls of the file   *)
(* system where windows, chosen once, says so.                             *)
(*                                                                         *)
(* The names every specification has carry the word Lease here, and Loop in*)
(* QueueConsumers, so that Receivers_proofs can extend both and ReceivePath.*)
(***************************************************************************)
EXTENDS Naturals, FiniteSets

CONSTANTS
    Receivers,   \* poll processes and wait_for_message calls
    Processes,
    In,          \* the process each receiver runs in
    Mortal,      \* processes that may die without cleaning up
    Openings,    \* the windows there may be
    NoFile

\* "read":   between existsSync and readFileSync of the pid file
\* "remove": between judging the file stale and removing it
\* "create": between removing a stale file and creating the new one
\* "stamp":  between creating the pid file and writing the pid into it
AllWindows == {"read", "remove", "create", "stamp"}

ASSUME LeaseConstants ==
    /\ In \in [Receivers -> Processes]
    /\ Mortal \subseteq Processes
    /\ Openings \subseteq SUBSET AllWindows
    /\ NoFile \notin [pid : Processes, stamped : BOOLEAN]

VARIABLES
    windows,  \* where another process may get in
    file,     \* the pid file
    alive,    \* processes that live
    pc,       \* the next step of each receiver
    created   \* history: the file a receiver's lease stands on is still there

leaseVars == <<windows, file, alive, pc, created>>

PCs == {"off", "read", "remove", "create", "stamp", "receiving", "refused"}

Goto(r, label) == pc' = [pc EXCEPT ![r] = label]
At(r, label) == In[r] \in alive /\ pc[r] = label

\* No other receiver of the process is in the middle of acquiring.
Between == {"read", "remove", "create", "stamp"}
ThreadFree(r) == \A q \in Receivers : In[q] = In[r] => pc[q] \notin Between

Created(p) == [pid |-> p, stamped |-> "stamp" \notin windows]
-----------------------------------------------------------------------------
LeaseInit ==
    /\ windows \in Openings
    /\ file = NoFile
    /\ alive = Processes
    /\ pc = [r \in Receivers |-> "off"]
    /\ created = {}

\* openSync with "wx": of those who find no file one creates it.
Create(r) ==
    IF file = NoFile
    THEN /\ file' = Created(In[r])
         /\ created' = {r}
         /\ Goto(r, IF "stamp" \in windows THEN "stamp" ELSE "receiving")
    ELSE Goto(r, "refused") /\ UNCHANGED <<file, created>>

\* After a stale file was removed: create the new one, now or later.
CreateFresh(r) ==
    IF "create" \in windows
    THEN file' = NoFile /\ created' = {} /\ Goto(r, "create")
    ELSE /\ file' = Created(In[r])
         /\ created' = {r}
         /\ Goto(r, IF "stamp" \in windows THEN "stamp" ELSE "receiving")

\* Variants for the mutation runs: any file is stale; a pid counts for a live one.
StaleAlways == TRUE
StaleTrusting == file = NoFile \/ ~ file.stamped

\* The file is gone, holds no pid yet, or the pid of a dead process.
Stale == file = NoFile \/ ~ file.stamped \/ file.pid \notin alive

\* isAlive of the pid in the file, and what follows.
Judge(r) ==
    IF ~ Stale THEN Goto(r, "refused") /\ UNCHANGED <<file, created>>
    ELSE IF "remove" \in windows THEN Goto(r, "remove") /\ UNCHANGED <<file, created>>
    ELSE CreateFresh(r)

\* acquirePollLease up to its first window.
Acquire(r) ==
    /\ At(r, "off") /\ ThreadFree(r)
    /\ IF file = NoFile
       THEN IF "create" \in windows
            THEN Goto(r, "create") /\ UNCHANGED <<file, created>>
            ELSE Create(r)
       ELSE IF "read" \in windows
            THEN Goto(r, "read") /\ UNCHANGED <<file, created>>
            ELSE Judge(r)
    /\ UNCHANGED <<windows, alive>>

ReadPid(r) == At(r, "read") /\ Judge(r) /\ UNCHANGED <<windows, alive>>

RemoveStale(r) == At(r, "remove") /\ CreateFresh(r) /\ UNCHANGED <<windows, alive>>

CreateFile(r) == At(r, "create") /\ Create(r) /\ UNCHANGED <<windows, alive>>

\* The pid goes into the file that was opened, also when its name is gone.
StampFile(r) ==
    /\ At(r, "stamp")
    /\ file' = IF r \in created THEN [file EXCEPT !.stamped = TRUE] ELSE file
    /\ Goto(r, "receiving")
    /\ UNCHANGED <<windows, alive, created>>

\* releasePollLease: the file goes if it holds the pid of the process.
Release(r) ==
    /\ At(r, "receiving") /\ ThreadFree(r)
    /\ IF file # NoFile /\ file.stamped /\ file.pid = In[r]
       THEN file' = NoFile /\ created' = {}
       ELSE UNCHANGED <<file, created>>
    /\ Goto(r, "off")
    /\ UNCHANGED <<windows, alive>>

\* The caller of a refused receiver tries again later.
TryAgain(r) == At(r, "refused") /\ Goto(r, "off") /\ UNCHANGED <<windows, file, alive, created>>

Crash(p) ==
    /\ p \in alive \cap Mortal
    /\ alive' = alive \ {p}
    /\ UNCHANGED <<windows, file, pc, created>>

Step(r) == Acquire(r) \/ ReadPid(r) \/ RemoveStale(r) \/ CreateFile(r) \/ StampFile(r)

LeaseNext ==
    \/ \E r \in Receivers : Step(r) \/ Release(r) \/ TryAgain(r)
    \/ \E p \in Processes : Crash(p)

LeaseSpec == LeaseInit /\ [][LeaseNext]_leaseVars

\* A call of acquirePollLease goes on, and the agents keep trying to receive.
LeaseFairSpec ==
    LeaseSpec /\ \A r \in Receivers : WF_leaseVars(Step(r)) /\ WF_leaseVars(TryAgain(r))
-----------------------------------------------------------------------------
Receiving(r) == At(r, "receiving")

LeaseTypeOK ==
    /\ windows \in Openings
    /\ file \in [pid : Processes, stamped : BOOLEAN] \cup {NoFile}
    /\ alive \in SUBSET Processes
    /\ pc \in [Receivers -> PCs]
    /\ created \in SUBSET Receivers

\* No process gets in between two calls of the file system.
Undisturbed == windows = {}

\* The pid in the file is that of the receiver whose lease it is.
HeldInv ==
    /\ LeaseTypeOK
    /\ \A r \in Receivers : pc[r] \notin Between
    /\ \A r \in Receivers : Receiving(r) =>
          file # NoFile /\ file.stamped /\ file.pid = In[r] /\ created = {r}

\* The inductive invariant behind OneReceiver.
LeaseInv == Undisturbed => HeldInv

\* PROJECT.md:92 "share one receive lease per subscriber": no two live receivers
\* wait for the messages of one subscriber, whoever dies, when acquirePollLease is
\* not disturbed.  With a window open two may.
OneReceiver ==
    Undisturbed => \A r, q \in Receivers : Receiving(r) /\ Receiving(q) => r = q

\* No step of another receiver takes the file of a live one away.
LeaseKept ==
    [][Undisturbed => \A r \in Receivers :
          Receiving(r) /\ Receiving(r)' => file' = file]_leaseVars

\* A crash does not lock the subscriber out: some receiver gets the lease again
\* and again while one is left that may try.
LeaseTakenOver ==
    \A r \in Receivers :
        []<>(In[r] \notin alive \/ \E q \in Receivers : Receiving(q))
=============================================================================
