---------------------------- MODULE DaemonLifecycle ----------------------------
(***************************************************************************)
(* Daemons that start and stop, and the commands that start and stop them. *)
(* The lock file names the daemon; a second file, the acquisition guard,   *)
(* serializes those who acquire the lock and clear a stale one away.       *)
(*                                                                         *)
(* One action is one operation on a file, or one await of start and stop.  *)
(* The read of a file that is replaced meanwhile fails: see Replace.       *)
(*                                                                         *)
(* apps/daemon/src/lifecycle, apps/cli/src/index.ts,                       *)
(* apps/cli/src/daemon-launcher.ts, apps/cli/src/daemon-worker.ts.         *)
(***************************************************************************)
EXTENDS Integers, FiniteSets

CONSTANTS
    Daemons,     \* daemon processes, each started once
    Starters,    \* start, open and run commands
    Stoppers,    \* stop commands
    Port,        \* the ports each daemon is configured with
    Ghost,       \* a process of an earlier boot, dead, whose files may be left
    Nobody,
    Uses         \* the behaviours checked: the clients that run, the faults that occur

Clients == Starters \cup Stoppers
Processes == Daemons \cup Clients
Owners == Processes \cup {Ghost}

\* "torn": a file is replaced while it is read, and the read fails;
\* "guard": a process has died while it held the acquisition guard.
ASSUME UsesAssumption == Uses \subseteq [clients : SUBSET Clients, faults : SUBSET {"torn", "guard"}]
ASSUME NamesAssumption ==
    /\ {Ghost, Nobody} \cap Processes = {} /\ Ghost # Nobody
    /\ Daemons \cap Clients = {}

VARIABLES
    faults,     \* the faults that may occur in this behaviour
    lock,       \* daemon.lock
    guard,      \* daemon.lock.acquire: whose nonce it holds
    alive,      \* the running processes
    acq,        \* where each process stands in DaemonLock.acquire
    daemon,     \* TekrionDaemon of each daemon process
    client      \* the command each client runs

vars == <<faults, lock, guard, alive, acq, daemon, client>>

LockStates == {"starting", "ready", "stopping"}
NoLock == [owner |-> Nobody, state |-> "none"]
Locks == [owner : Owners, state : LockStates] \cup {NoLock}
Held(state) == lock.owner \in alive /\ lock.state = state

Resources == {"store", "proxy", "control"}
NewDaemon == [state |-> "new", step |-> "none", stop |-> FALSE, open |-> {}]
NewClient == [pc |-> "look", target |-> Nobody]

Init ==
    /\ \E use \in Uses : faults = use.faults /\ alive = use.clients
    /\ lock \in {NoLock, [owner |-> Ghost, state |-> "ready"]}
    /\ guard = IF "guard" \in faults THEN Ghost ELSE Nobody
    /\ acq = [p \in Processes |-> "none"]
    /\ daemon = [d \in Daemons |-> NewDaemon]
    /\ client = [c \in Clients |-> NewClient]

-----------------------------------------------------------------------------
(* DaemonLock.acquire.  acq[p] names the file operation that is next.      *)

Acquiring(p, pc) == p \in alive /\ acq[p] = pc
Goto(p, pc) == acq' = [acq EXCEPT ![p] = pc]

CreateGuard(p) ==
    /\ Acquiring(p, "guard")
    /\ guard = Nobody
    /\ guard' = p
    /\ Goto(p, "lock")
    /\ UNCHANGED <<faults, lock, alive, daemon, client>>

\* The guard of a dead process is read a second time, and removed if it is
\* still the same; one of a live process is waited for.
ReadGuard(p) ==
    /\ \/ /\ Acquiring(p, "guard")
          /\ guard \notin alive \cup {Nobody}
          /\ Goto(p, "confirm guard")
       \/ /\ Acquiring(p, "confirm guard")
          /\ Goto(p, IF guard \notin alive \cup {Nobody} THEN "remove guard" ELSE "guard")
    /\ UNCHANGED <<faults, lock, guard, alive, daemon, client>>

RemoveGuard(p) ==
    /\ Acquiring(p, "remove guard")
    /\ guard' = Nobody
    /\ Goto(p, "guard")
    /\ UNCHANGED <<faults, lock, alive, daemon, client>>

\* 500 attempts, ten milliseconds apart.
GiveUpGuard(p) ==
    /\ Acquiring(p, "guard")
    /\ guard # Nobody
    /\ Goto(p, "lost")
    /\ UNCHANGED <<faults, lock, guard, alive, daemon, client>>

CreateLock(p) ==
    /\ Acquiring(p, "lock")
    /\ \/ lock = NoLock /\ lock' = [owner |-> p, state |-> "starting"] /\ Goto(p, "winning")
       \/ lock # NoLock /\ Goto(p, "read lock") /\ UNCHANGED lock
    /\ UNCHANGED <<faults, guard, alive, daemon, client>>

\* Faulty variant of ReadLock: a lock whose daemon is stopping is taken over.
ReadLockServing(p) ==
    /\ Acquiring(p, "read lock")
    /\ Goto(p, IF lock.owner \in alive /\ ~Held("stopping") THEN "losing" ELSE "remove lock")
    /\ UNCHANGED <<faults, lock, guard, alive, daemon, client>>

\* Only a lock that can be read and names a live process is respected.
ReadLock(p) ==
    /\ Acquiring(p, "read lock")
    /\ Goto(p, IF lock.owner \in alive THEN "losing" ELSE "remove lock")
    /\ UNCHANGED <<faults, lock, guard, alive, daemon, client>>

RemoveLock(p) ==
    /\ Acquiring(p, "remove lock")
    /\ lock' = NoLock
    /\ Goto(p, "lock")
    /\ UNCHANGED <<faults, guard, alive, daemon, client>>

ReleaseGuard(p) ==
    /\ \/ Acquiring(p, "winning") /\ Goto(p, "won")
       \/ Acquiring(p, "losing") /\ Goto(p, "lost")
    /\ guard' = IF guard = p THEN Nobody ELSE guard
    /\ UNCHANGED <<faults, lock, alive, daemon, client>>

AcquireStep(p) ==
    \/ CreateGuard(p) \/ ReadGuard(p) \/ RemoveGuard(p) \/ CreateLock(p)
    \/ ReadLock(p) \/ RemoveLock(p) \/ ReleaseGuard(p)

-----------------------------------------------------------------------------
(* TekrionDaemon: startInternal, stop, stopInternal, releaseResources.     *)

Does(d, step) == d \in alive /\ daemon[d].step = step
Step(d, step) == daemon' = [daemon EXCEPT ![d].step = step]

\* startInternal opens them in this order, releaseResources closes them in the
\* reverse order and releases the lock after the last.
OpenStep == [store |-> "open store", proxy |-> "open proxy", control |-> "open control"]
AfterOpen == [store |-> "open proxy", proxy |-> "open control", control |-> "update"]
CloseStep == [store |-> "close store", proxy |-> "close proxy", control |-> "close control"]

\* Faulty variant of NextClose: the lock goes before the store.
NextCloseLockFirst(open) ==
    IF "control" \in open THEN CloseStep.control
    ELSE IF "proxy" \in open THEN CloseStep.proxy ELSE "release"

NextClose(open) ==
    IF "control" \in open THEN CloseStep.control
    ELSE IF "proxy" \in open THEN CloseStep.proxy
    ELSE IF "store" \in open THEN CloseStep.store ELSE "release"

\* Startup fails: what was opened is closed again.
Fails(d) ==
    daemon' = [daemon EXCEPT ![d].state = "failing", ![d].step = NextClose(daemon[d].open)]

Locked(d) ==
    /\ Does(d, "acquire")
    /\ \/ acq[d] = "won" /\ Step(d, "open store")
       \/ acq[d] = "lost" /\ daemon' = [daemon EXCEPT ![d].state = "failed", ![d].step = "none"]
    /\ UNCHANGED <<faults, lock, guard, alive, acq, client>>

PortIsTaken(d) ==
    \E e \in alive \cap Daemons : e # d /\ Port[e] = Port[d] /\ "proxy" \in daemon[e].open

\* The store is opened, the proxy and the control server listen; any may fail.
OpenResource(d) ==
    /\ \E r \in Resources :
         /\ Does(d, OpenStep[r])
         /\ \/ /\ r = "proxy" => ~PortIsTaken(d)
               /\ daemon' = [daemon EXCEPT ![d].step = AfterOpen[r], ![d].open = @ \cup {r}]
            \/ Fails(d)
    /\ UNCHANGED <<faults, lock, guard, alive, acq, client>>

\* DaemonLock.update reads the lock, compares the owner, and replaces the file
\* whatever it is by then.
ReadForUpdate(d) ==
    /\ Does(d, "update")
    /\ IF lock.owner = d THEN Step(d, "replace")
       ELSE IF daemon[d].state = "starting" THEN Fails(d)
       ELSE Step(d, NextClose(daemon[d].open))
    /\ UNCHANGED <<faults, lock, guard, alive, acq, client>>

\* The rename of an update.  A process that has opened the old file finds
\* another one at its path: DaemonLock.acquire takes that for a corrupt lock and
\* removes what is there, and so does the stop command.
Replace(record) ==
    /\ lock' = record
    /\ \E torn \in SUBSET ({p \in alive : acq[p] = "read lock"}
                             \cup {c \in Stoppers \cap alive : client[c].pc = "look"}) :
         /\ torn = {} \/ "torn" \in faults
         /\ acq' = [p \in Processes |->
                      IF p \notin torn THEN acq[p]
                      ELSE IF acq[p] = "read lock" THEN "remove lock" ELSE "guard"]
         /\ client' = [c \in Clients |->
                         IF c \in torn THEN [client[c] EXCEPT !.pc = "recovering"] ELSE client[c]]

\* Faulty variant of WriteReady: a stop that came during the start is forgotten.
WriteReadyForgetful(d) ==
    /\ Does(d, "replace") /\ daemon[d].state = "starting"
    /\ Replace([owner |-> d, state |-> "ready"])
    /\ daemon' = [daemon EXCEPT ![d].state = "ready", ![d].step = "none"]
    /\ UNCHANGED <<faults, guard, alive>>

\* The start is over: a stop that came meanwhile begins at once.
WriteReady(d) ==
    /\ Does(d, "replace") /\ daemon[d].state = "starting"
    /\ Replace([owner |-> d, state |-> "ready"])
    /\ daemon' = [daemon EXCEPT ![d].state = IF daemon[d].stop THEN "stopping" ELSE "ready",
                                ![d].step = IF daemon[d].stop THEN "update" ELSE "none"]
    /\ UNCHANGED <<faults, guard, alive>>

WriteStopping(d) ==
    /\ Does(d, "replace") /\ daemon[d].state = "stopping"
    /\ Replace([owner |-> d, state |-> "stopping"])
    /\ Step(d, NextClose(daemon[d].open))
    /\ UNCHANGED <<faults, guard, alive>>

\* stop: at once when ready, after the start while starting, else nothing.
StopAsked(d) ==
    [daemon EXCEPT ![d] =
        IF @.stop \/ @.state \notin {"starting", "ready"} THEN @
        ELSE IF @.state = "starting" THEN [@ EXCEPT !.stop = TRUE]
        ELSE [@ EXCEPT !.stop = TRUE, !.state = "stopping", !.step = "update"]]

Signal(d) ==
    /\ d \in alive
    /\ daemon' = StopAsked(d)
    /\ UNCHANGED <<faults, lock, guard, alive, acq, client>>

CloseResource(d) ==
    /\ \E r \in Resources :
         /\ Does(d, CloseStep[r])
         /\ daemon' = [daemon EXCEPT ![d].open = @ \ {r},
                                     ![d].step = NextClose(daemon[d].open \ {r})]
    /\ UNCHANGED <<faults, lock, guard, alive, acq, client>>

Ended(d) ==
    [daemon EXCEPT ![d].state = IF @ = "failing" THEN "failed" ELSE "stopped", ![d].step = "none"]

\* DaemonLock.release reads the lock, compares the owner, and removes the file
\* whatever it is by then.
ReadForRelease(d) ==
    /\ Does(d, "release")
    /\ IF lock.owner = d THEN Step(d, "remove") ELSE daemon' = Ended(d)
    /\ UNCHANGED <<faults, lock, guard, alive, acq, client>>

RemoveOwnLock(d) ==
    /\ Does(d, "remove")
    /\ lock' = NoLock
    /\ daemon' = Ended(d)
    /\ UNCHANGED <<faults, guard, alive, acq, client>>

\* runDaemonWorker returns; or the process is killed, at any moment.
Exits(d) ==
    /\ d \in alive
    /\ guard # d
    /\ alive' = alive \ {d}
    /\ daemon' = [daemon EXCEPT ![d].open = {}, ![d].step = "none",
                                ![d].state = IF @ = "stopped" THEN @ ELSE "failed"]
    /\ UNCHANGED <<faults, lock, guard, acq, client>>

DaemonStep(d) ==
    \/ Locked(d) \/ OpenResource(d) \/ ReadForUpdate(d) \/ WriteReady(d) \/ WriteStopping(d)
    \/ CloseResource(d) \/ ReadForRelease(d) \/ RemoveOwnLock(d)

-----------------------------------------------------------------------------
(* The commands.                                                           *)

Runs(c, pc) == c \in alive /\ client[c].pc = pc
Turns(c, pc) == client' = [client EXCEPT ![c].pc = pc]
Targets(c, pc, d) == client' = [client EXCEPT ![c] = [pc |-> pc, target |-> d]]

\* ensureDaemonReady: a live record is waited for, unless its daemon is stopping.
LookToStart(c) ==
    /\ Runs(c, "look")
    /\ Turns(c, IF lock.owner \notin alive THEN "launching"
                ELSE IF lock.state = "stopping" THEN "error" ELSE "waiting")
    /\ UNCHANGED <<faults, lock, guard, alive, acq, daemon>>

Launch(c) ==
    /\ Runs(c, "launching")
    /\ \E d \in Daemons :
         /\ daemon[d] = NewDaemon
         /\ alive' = alive \cup {d}
         /\ daemon' = [daemon EXCEPT ![d].state = "starting", ![d].step = "acquire"]
         /\ Goto(d, "guard")
    /\ Turns(c, "waiting")
    /\ UNCHANGED <<faults, lock, guard>>

\* waitForReady: the record of a dead process ends it, whoever left the record.
WaitForReady(c) ==
    /\ Runs(c, "waiting")
    /\ \/ lock.owner \notin alive \cup {Nobody} /\ Turns(c, "error")
       \/ /\ Held("ready")
          /\ "control" \in daemon[lock.owner].open
          /\ Turns(c, "ready")
    /\ UNCHANGED <<faults, lock, guard, alive, acq, daemon>>

\* commandStop, up to the shutdown request; a starting daemon is waited for.
LookToStop(c) ==
    /\ Runs(c, "look")
    /\ \/ lock = NoLock /\ Turns(c, "stopped") /\ UNCHANGED <<acq, daemon>>
       \/ /\ lock.owner \notin alive \cup {Nobody}
          /\ Turns(c, "recovering") /\ Goto(c, "guard")
          /\ UNCHANGED daemon
       \/ /\ Held("stopping")
          /\ Targets(c, "stopping", lock.owner)
          /\ UNCHANGED <<acq, daemon>>
       \/ /\ Held("ready")
          /\ "control" \in daemon[lock.owner].open
          /\ daemon' = StopAsked(lock.owner)
          /\ Targets(c, "stopping", lock.owner)
          /\ UNCHANGED acq
    /\ UNCHANGED <<faults, lock, guard, alive>>

\* waitForStopped.
WaitForStopped(c) ==
    /\ Runs(c, "stopping")
    /\ \/ lock.owner # client[c].target /\ Turns(c, "stopped") /\ UNCHANGED acq
       \/ /\ lock.owner = client[c].target
          /\ lock.owner \notin alive
          /\ Turns(c, "recovering") /\ Goto(c, "guard")
    /\ UNCHANGED <<faults, lock, guard, alive, daemon>>

\* recoverAbandonedLock: the lock is acquired by the command and released again.
Recovered(c) ==
    /\ Runs(c, "recovering")
    /\ \/ acq[c] = "lost" /\ Turns(c, "error") /\ UNCHANGED lock
       \/ /\ acq[c] = "won"
          /\ lock' = IF lock.owner = c THEN NoLock ELSE lock
          /\ Turns(c, "stopped")
    /\ UNCHANGED <<faults, guard, alive, acq, daemon>>

Next ==
    \/ \E p \in Processes : AcquireStep(p) \/ GiveUpGuard(p)
    \/ \E d \in Daemons : DaemonStep(d) \/ Signal(d) \/ Exits(d)
    \/ \E c \in Starters : LookToStart(c) \/ Launch(c) \/ WaitForReady(c)
    \/ \E c \in Stoppers : LookToStop(c) \/ WaitForStopped(c) \/ Recovered(c)

\* A process that lives does its next step, and a held guard is waited for.
Fairness ==
    /\ \A p \in Processes : WF_vars(AcquireStep(p) \/ GiveUpGuard(p))
    /\ \A d \in Daemons : WF_vars(DaemonStep(d))

Spec == Init /\ [][Next]_vars /\ Fairness

-----------------------------------------------------------------------------
(* Properties.                                                             *)

DaemonStates == {"new", "starting", "ready", "stopping", "stopped", "failing", "failed"}

\* The files hold records of processes, and a daemon that has ended, its start
\* failed or its stop done, has nothing open.
TypeOK ==
    /\ lock \in Locks
    /\ guard \in Owners \cup {Nobody}
    /\ alive \subseteq Processes
    /\ \A d \in Daemons : daemon[d].state \in DaemonStates /\ daemon[d].open \subseteq Resources
    /\ \A c \in Clients : client[c].target \in Daemons \cup {Nobody}
    /\ \A d \in Daemons : daemon[d].state \in {"stopped", "failed"} => daemon[d].open = {}

\* Whatever a daemon has open it has open under its own lock, from the first
\* resource to the last and through every stale lock and crash, in behaviours in
\* which no read is torn and nobody dies with the guard.
ServesUnderLock ==
    faults = {} => \A d \in Daemons : daemon[d].open # {} => lock.owner = d

\* A command that reports a daemon as stopped reports it when the daemon has let
\* go of everything, the proxy's journals and the store included.
StoppedMeansReleased ==
    faults = {} =>
        \A c \in Stoppers :
            client[c].pc = "stopped" /\ client[c].target # Nobody =>
                daemon[client[c].target].open = {}

\* A stop that is asked for, at whatever point of the start, is carried out.
StopIsCarriedOut ==
    \A d \in Daemons : daemon[d].stop ~> daemon[d].state \in {"stopped", "failed"}

\* Two daemons never have the store open at once.
OneDaemonServes ==
    Cardinality({d \in Daemons : "store" \in daemon[d].open}) <= 1
=============================================================================
