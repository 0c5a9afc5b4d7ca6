------------------------ MODULE DaemonLifecycleProofs ------------------------
(***************************************************************************)
(* Proofs about DaemonLifecycle, for every set of daemons and commands:    *)
(* what the lock protects although it is three files' worth of separate    *)
(* reads, writes and removals.                                             *)
(***************************************************************************)
EXTENDS DaemonLifecycle, FiniteSetTheorems, TLAPS

OpenSteps == {"open store", "open proxy", "open control"}
CloseSteps == {"close store", "close proxy", "close control"}
Steps == {"none", "acquire", "update", "replace", "release", "remove"}
           \cup OpenSteps \cup CloseSteps

\* From the creation of the guard file to its removal.
InGuard == {"lock", "winning", "read lock", "remove lock", "losing"}
AcquireStates == {"none", "guard", "confirm guard", "remove guard", "won", "lost"} \cup InGuard

ClientStates == {"look", "launching", "waiting", "ready", "error", "stopping", "recovering",
                 "stopped"}

Gone == {"stopping", "stopped", "failed"}

DaemonRecord == [state : DaemonStates, step : Steps, stop : BOOLEAN, open : SUBSET Resources]
ClientRecord == [pc : ClientStates, target : Daemons \cup {Nobody}]

StateTypes ==
    /\ faults \subseteq {"torn", "guard"}
    /\ lock \in Locks
    /\ guard \in Owners \cup {Nobody}
    /\ alive \subseteq Processes
    /\ acq \in [Processes -> AcquireStates]
    /\ daemon \in [Daemons -> DaemonRecord]
    /\ client \in [Clients -> ClientRecord]

\* The states of a daemon in which each step of its thread is next, and what
\* is open then.
InControl(r, lives) ==
    /\ r.step = "none" => r.state \in {"new", "ready", "stopped", "failed"}
    /\ r.step \in {"acquire"} \cup OpenSteps => r.state = "starting"
    /\ r.step \in {"update", "replace"} => r.state \in {"starting", "stopping"}
    /\ r.step \in CloseSteps \cup {"release", "remove"} => r.state \in {"stopping", "failing"}
    /\ r.step \in {"acquire", "release", "remove"} => r.open = {}
    /\ r.state \in {"new", "stopped", "failed"} => r.open = {}
    /\ r.state = "ready" => ~r.stop
    /\ IF lives THEN r.state # "new" ELSE r.state \in {"new", "stopped", "failed"}

DaemonControl == \A d \in Daemons : InControl(daemon[d], d \in alive)

\* Only a daemon writes a lock file that says ready or stopping, and it is no
\* longer starting when it does; a stop command waits for one that will not
\* serve again.
LockControl ==
    /\ lock.owner \in Daemons => daemon[lock.owner].state # "new"
    /\ lock.state = "ready" => lock.owner \in Daemons \cup {Ghost}
    /\ lock.state = "stopping" => lock.owner \in Daemons \cup {Ghost}
    /\ lock.owner \in Daemons /\ lock.state = "ready" =>
          daemon[lock.owner].state \in Gone \cup {"ready"}
    /\ lock.owner \in Daemons /\ lock.state = "stopping" => daemon[lock.owner].state \in Gone
    /\ \A c \in Clients :
          /\ client[c].pc = "look" => client[c].target = Nobody
          /\ client[c].target # Nobody => daemon[client[c].target].state \in Gone

\* The guard file is held by the live process between its creation and its
\* removal, and a lock is removed only when its owner is dead.
GuardExcludes ==
    /\ guard \in alive \cup {Nobody}
    /\ \A p \in Processes :
          /\ acq[p] \notin {"confirm guard", "remove guard"}
          /\ acq[p] \in InGuard <=> guard = p
          /\ acq[p] = "remove lock" => lock.owner \notin alive
    /\ \A d \in Daemons : d \in alive /\ daemon[d].step # "acquire" => acq[d] \in {"won", "lost"}
    /\ \A c \in Clients : acq[c] \notin {"none", "won", "lost"} => client[c].pc = "recovering"

\* From winning the lock to removing it.
HoldsLock(d) ==
    /\ d \in alive
    /\ \/ daemon[d].step \notin {"none", "acquire"}
       \/ daemon[d].state = "ready"
       \/ daemon[d].step = "acquire" /\ acq[d] \in {"winning", "won"}

LockProtects == \A d \in Daemons : HoldsLock(d) => lock.owner = d

\* The daemon a stop command recovers from, or reports as stopped, holds nothing.
TargetReleased ==
    \A c \in Stoppers :
        client[c].pc \in {"recovering", "stopped"} /\ client[c].target # Nobody =>
            daemon[client[c].target].open = {}

LifecycleInv ==
    /\ StateTypes
    /\ DaemonControl
    /\ LockControl
    /\ faults = {} => GuardExcludes /\ LockProtects /\ TargetReleased
-----------------------------------------------------------------------------
(* What a step of a daemon makes of its record.                            *)

\* What a stop command may rely on: a daemon that has begun to stop, or has
\* ended, does not come back, and opens nothing; and it needs the lock for
\* whatever it does after DaemonLock.acquire.
Moves(d) ==
    LET r == daemon[d]
        new == daemon'[d]
    IN /\ InControl(new, TRUE)
       /\ r.state \in Gone => new.state \in Gone
       /\ r.state \in Gone \cup {"ready"} => new.state \in Gone \cup {"ready"}
       /\ r.state # "starting" => new.open \subseteq r.open
       /\ new.step \notin {"none", "acquire"} \/ new.state = "ready" => HoldsLock(d)
       /\ new.step = "acquire" => r.step = "acquire"
       /\ r.step = "acquire" /\ new.step # "acquire" => acq[d] \in {"won", "lost"}

OnlyChanges(d) ==
    /\ daemon' \in [Daemons -> DaemonRecord]
    /\ \A e \in Daemons \ {d} : daemon'[e] = daemon[e]

-----------------------------------------------------------------------------
(* Typing.                                                                 *)

\* What the names of the steps and states belong to.
LEMMA Names ==
    /\ {"none", "acquire", "update", "replace", "release", "remove"} \subseteq Steps
    /\ {"open store", "open proxy", "open control"} \subseteq Steps
    /\ {"new", "starting", "ready", "stopping", "stopped", "failing", "failed"} \subseteq DaemonStates
BY DEF Steps, OpenSteps, DaemonStates

\* What is closed next is one of the resources, or the lock.
LEMMA NextCloseIsStep ==
    ASSUME NEW open \in SUBSET Resources
    PROVE  /\ NextClose(open) \in CloseSteps \cup {"release"}
           /\ NextClose(open) \in Steps
           /\ NextClose(open) = "release" => open = {}
BY DEF Steps, CloseSteps, NextClose, CloseStep, Resources

\* Every file, process and command starts with a value of its type.
LEMMA InitStateTypes == Init => StateTypes
<1> SUFFICES ASSUME Init  PROVE StateTypes
  OBVIOUS
<1>1. faults \subseteq {"torn", "guard"} /\ alive \subseteq Processes
  BY UsesAssumption DEF Init, Processes
<1>2. lock \in Locks /\ guard \in Owners \cup {Nobody}
  BY DEF Init, Locks, NoLock, LockStates, Owners
<1>3. acq \in [Processes -> AcquireStates]
  BY DEF Init, AcquireStates
<1>4. daemon \in [Daemons -> DaemonRecord]
  BY Names DEF Init, NewDaemon, DaemonRecord
<1>5. client \in [Clients -> ClientRecord]
  BY DEF Init, NewClient, ClientRecord, ClientStates
<1> QED  BY <1>1, <1>2, <1>3, <1>4, <1>5 DEF StateTypes

\* The steps of DaemonLock.acquire keep the types.
LEMMA AcquireTypes ==
    ASSUME StateTypes, NEW p \in Processes, AcquireStep(p) \/ GiveUpGuard(p)
    PROVE  StateTypes'
<1> USE DEF StateTypes
<1>1. acq' \in [Processes -> AcquireStates]
  BY DEF AcquireStep, AcquireStates, InGuard, Goto, CreateGuard, ReadGuard, RemoveGuard, CreateLock,
         ReadLock, RemoveLock, ReleaseGuard, GiveUpGuard
<1>2. lock' \in Locks
  <2>1. CASE UNCHANGED lock
    BY <2>1
  <2>2. CASE lock' \in {NoLock, [owner |-> p, state |-> "starting"]}
    BY <2>2 DEF Locks, LockStates, Owners
  <2> QED
    BY <2>1, <2>2 DEF AcquireStep, CreateGuard, ReadGuard, RemoveGuard, CreateLock, ReadLock, RemoveLock,
                      ReleaseGuard, GiveUpGuard
<1>3. guard' \in Owners \cup {Nobody}
  BY DEF AcquireStep, CreateGuard, ReadGuard, RemoveGuard, CreateLock, ReadLock, RemoveLock,
         ReleaseGuard, GiveUpGuard, Owners
<1>4. UNCHANGED <<faults, alive, daemon, client>>
  BY DEF AcquireStep, CreateGuard, ReadGuard, RemoveGuard, CreateLock, ReadLock, RemoveLock,
         ReleaseGuard, GiveUpGuard
<1> QED  BY <1>1, <1>2, <1>3, <1>4

-----------------------------------------------------------------------------
(* The steps of a daemon.                                                  *)

\* Which step opens which resource, and which closes it.
LEMMA ResourceSteps ==
    \A x \in Resources :
        /\ OpenStep[x] \in OpenSteps /\ CloseStep[x] \in CloseSteps
        /\ AfterOpen[x] \in OpenSteps \cup {"update"}
<1>1. OpenStep["store"] = "open store" /\ OpenStep["proxy"] = "open proxy" /\ OpenStep["control"] = "open control"
  BY DEF OpenStep
<1>2. AfterOpen["store"] = "open proxy" /\ AfterOpen["proxy"] = "open control" /\ AfterOpen["control"] = "update"
  BY DEF AfterOpen
<1>3. CloseStep["store"] = "close store" /\ CloseStep["proxy"] = "close proxy" /\ CloseStep["control"] = "close control"
  BY DEF CloseStep
<1> QED  BY <1>1, <1>2, <1>3 DEF Resources, OpenSteps, CloseSteps

\* A step of a daemon's own thread, or a stop that is asked of it, moves it as
\* described.
LEMMA DaemonMoves ==
    ASSUME StateTypes, DaemonControl, NEW d \in Daemons,
           DaemonStep(d) \/ (d \in alive /\ daemon' = StopAsked(d))
    PROVE  OnlyChanges(d) /\ Moves(d)
<1> DEFINE r == daemon[d]
           new == daemon'[d]
<1>1. daemon \in [Daemons -> DaemonRecord] /\ r \in DaemonRecord /\ d \in alive
  BY DEF StateTypes, DaemonStep, Locked, OpenResource, ReadForUpdate, WriteReady, WriteStopping,
         CloseResource, ReadForRelease, RemoveOwnLock, Does
<1>2. InControl(r, TRUE)
  BY <1>1 DEF DaemonControl
<1>3. r.open \in SUBSET Resources
  BY <1>1 DEF DaemonRecord
<1>4. CASE Locked(d)
  <2>1. r.step = "acquire"
    BY <1>4 DEF Locked, Does
  <2>2. CASE acq[d] = "won" /\ Step(d, "open store")
    <3>1. OnlyChanges(d)
      BY <2>2, <1>1, Names DEF Step, OnlyChanges, DaemonRecord
    <3>2. new.state = r.state /\ new.step = "open store" /\ new.stop = r.stop /\ new.open = r.open
      BY <2>2, <1>1 DEF Step, DaemonRecord
    <3>3. Moves(d)
      BY <2>2, <3>2, <1>1, <1>2, <2>1, Names DEF DaemonRecord, Moves, InControl, HoldsLock, OpenSteps, CloseSteps, Gone
    <3> QED  BY <3>1, <3>3
  <2>3. CASE acq[d] = "lost" /\ daemon' = [daemon EXCEPT ![d].state = "failed", ![d].step = "none"]
    <3>1. OnlyChanges(d)
      BY <2>3, <1>1, Names DEF OnlyChanges, DaemonRecord
    <3>2. new.state = "failed" /\ new.step = "none" /\ new.stop = r.stop /\ new.open = r.open
      BY <2>3, <1>1 DEF DaemonRecord
    <3>3. Moves(d)
      BY <2>3, <3>2, <1>1, <1>2, <2>1, Names DEF DaemonRecord, Moves, InControl, HoldsLock, OpenSteps, CloseSteps, Gone
    <3> QED  BY <3>1, <3>3
  <2> QED  BY <1>4, <2>2, <2>3 DEF Locked
<1>5. CASE OpenResource(d)
  <2>1. PICK x \in Resources :
            /\ Does(d, OpenStep[x])
            /\ \/ daemon' = [daemon EXCEPT ![d].step = AfterOpen[x], ![d].open = @ \cup {x}]
               \/ Fails(d)
    BY <1>5 DEF OpenResource
  <2>2. r.step \in OpenSteps /\ AfterOpen[x] \in OpenSteps \cup {"update"}
    BY <2>1, ResourceSteps DEF Does
  <2>3. AfterOpen[x] \in Steps
    BY <2>2, Names DEF OpenSteps
  <2>4. CASE daemon' = [daemon EXCEPT ![d].step = AfterOpen[x], ![d].open = @ \cup {x}]
    <3>1. OnlyChanges(d)
      BY <2>4, <2>2, <2>3, <1>1, Names DEF OnlyChanges, DaemonRecord
    <3>2. new.state = r.state /\ new.step = AfterOpen[x] /\ new.stop = r.stop /\ new.open = r.open \cup {x}
      BY <2>4, <2>2, <2>3, <1>1 DEF DaemonRecord
    <3>3. Moves(d)
      BY <2>4, <2>2, <2>3, <3>2, <1>1, <1>2, Names DEF DaemonRecord, Moves, InControl, HoldsLock, OpenSteps, CloseSteps, Gone
    <3> QED  BY <3>1, <3>3
  <2>5. CASE Fails(d)
    <3>1. OnlyChanges(d)
      BY <2>5, <1>1, <1>3, Names, NextCloseIsStep DEF Fails, OnlyChanges, DaemonRecord
    <3>2. new.state = "failing" /\ new.step = NextClose(r.open) /\ new.stop = r.stop /\ new.open = r.open
      BY <2>5, <1>1 DEF Fails, DaemonRecord
    <3>3. Moves(d)
      BY <2>5, <3>2, <1>1, <1>2, <2>2, <1>3, Names, NextCloseIsStep DEF DaemonRecord, Moves, InControl, HoldsLock, OpenSteps, CloseSteps, Gone
    <3> QED  BY <3>1, <3>3
  <2> QED  BY <2>1, <2>4, <2>5
<1>6. CASE ReadForUpdate(d)
  <2>1. r.step = "update"
    BY <1>6 DEF ReadForUpdate, Does
  <2>2. CASE Step(d, "replace")
    <3>1. OnlyChanges(d)
      BY <2>2, <1>1, Names DEF Step, OnlyChanges, DaemonRecord
    <3>2. new.state = r.state /\ new.step = "replace" /\ new.stop = r.stop /\ new.open = r.open
      BY <2>2, <1>1 DEF Step, DaemonRecord
    <3>3. Moves(d)
      BY <2>2, <3>2, <1>1, <1>2, <2>1, Names DEF DaemonRecord, Moves, InControl, HoldsLock, OpenSteps, CloseSteps, Gone
    <3> QED  BY <3>1, <3>3
  <2>3. CASE r.state = "starting" /\ Fails(d)
    <3>1. OnlyChanges(d)
      BY <2>3, <1>1, <1>3, Names, NextCloseIsStep DEF Fails, OnlyChanges, DaemonRecord
    <3>2. new.state = "failing" /\ new.step = NextClose(r.open) /\ new.stop = r.stop /\ new.open = r.open
      BY <2>3, <1>1 DEF Fails, DaemonRecord
    <3>3. Moves(d)
      BY <2>3, <3>2, <1>1, <1>2, <2>1, <1>3, Names, NextCloseIsStep DEF DaemonRecord, Moves, InControl, HoldsLock, OpenSteps, CloseSteps, Gone
    <3> QED  BY <3>1, <3>3
  <2>4. CASE r.state # "starting" /\ Step(d, NextClose(r.open))
    <3>1. OnlyChanges(d)
      BY <2>4, <1>1, <1>3, Names, NextCloseIsStep DEF Step, OnlyChanges, DaemonRecord
    <3>2. new.state = r.state /\ new.step = NextClose(r.open) /\ new.stop = r.stop /\ new.open = r.open
      BY <2>4, <1>1 DEF Step, DaemonRecord
    <3>3. Moves(d)
      BY <2>4, <3>2, <1>1, <1>2, <2>1, <1>3, Names, NextCloseIsStep DEF DaemonRecord, Moves, InControl, HoldsLock, OpenSteps, CloseSteps, Gone
    <3> QED  BY <3>1, <3>3
  <2> QED  BY <1>6, <2>2, <2>3, <2>4 DEF ReadForUpdate
<1>7. CASE WriteReady(d)
  <2>1. r.step = "replace" /\ r.state = "starting"
    BY <1>7 DEF WriteReady, Does
  <2>2. CASE r.stop
    <3>1. OnlyChanges(d)
      BY <2>2, <1>7, <1>1, Names DEF WriteReady, OnlyChanges, DaemonRecord
    <3>2. new.state = "stopping" /\ new.step = "update" /\ new.stop = r.stop /\ new.open = r.open
      BY <2>2, <1>7, <1>1 DEF WriteReady, DaemonRecord
    <3>3. Moves(d)
      BY <2>2, <1>7, <3>2, <1>1, <1>2, <2>1, Names DEF DaemonRecord, Moves, InControl, HoldsLock, OpenSteps, CloseSteps, Gone
    <3> QED  BY <3>1, <3>3
  <2>3. CASE ~r.stop
    <3>1. OnlyChanges(d)
      BY <2>3, <1>7, <1>1, Names DEF WriteReady, OnlyChanges, DaemonRecord
    <3>2. new.state = "ready" /\ new.step = "none" /\ new.stop = r.stop /\ new.open = r.open
      BY <2>3, <1>7, <1>1 DEF WriteReady, DaemonRecord
    <3>3. Moves(d)
      BY <2>3, <1>7, <3>2, <1>1, <1>2, <2>1, Names DEF DaemonRecord, Moves, InControl, HoldsLock, OpenSteps, CloseSteps, Gone
    <3> QED  BY <3>1, <3>3
  <2> QED  BY <2>2, <2>3
<1>8. CASE WriteStopping(d)
  <2>1. OnlyChanges(d)
    BY <1>8, <1>1, <1>3, Names, NextCloseIsStep DEF WriteStopping, Step, OnlyChanges, DaemonRecord
  <2>2. new.state = r.state /\ new.step = NextClose(r.open) /\ new.stop = r.stop /\ new.open = r.open
    BY <1>8, <1>1 DEF WriteStopping, Step, DaemonRecord
  <2>3. Moves(d)
    BY <1>8, <2>2, <1>1, <1>2, <1>3, Names, NextCloseIsStep DEF WriteStopping, Does, DaemonRecord, Moves, InControl, HoldsLock, OpenSteps, CloseSteps, Gone
  <2> QED  BY <2>1, <2>3
<1>9. CASE CloseResource(d)
  <2>1. PICK x \in Resources :
            /\ Does(d, CloseStep[x])
            /\ daemon' = [daemon EXCEPT ![d].open = @ \ {x}, ![d].step = NextClose(daemon[d].open \ {x})]
    BY <1>9 DEF CloseResource
  <2>2. r.step \in CloseSteps
    BY <2>1, ResourceSteps DEF Does
  <2>3. r.open \ {x} \in SUBSET Resources
    BY <1>3
  <2>4. NextClose(r.open \ {x}) \in Steps
    BY <2>3, NextCloseIsStep
  <2>5. OnlyChanges(d)
    BY <2>1, <2>3, <2>4, <1>1 DEF OnlyChanges, DaemonRecord
  <2>6. new.state = r.state /\ new.step = NextClose(r.open \ {x}) /\ new.open = r.open \ {x}
    BY <2>1, <1>1 DEF DaemonRecord
  <2>7. Moves(d)
    BY <1>1, <1>2, <2>2, <2>3, <2>6, NextCloseIsStep DEF Moves, InControl, HoldsLock, OpenSteps, CloseSteps, Gone
  <2> QED  BY <2>5, <2>7
<1>10. ASSUME r.step \in {"release", "remove"}, daemon' = Ended(d)  PROVE OnlyChanges(d) /\ Moves(d)
  <2>1. OnlyChanges(d)
    BY <1>10, <1>1, Names DEF Ended, OnlyChanges, DaemonRecord
  <2>2. new.state \in {"failed", "stopped"} /\ new.step = "none" /\ new.open = r.open
    BY <1>10, <1>1 DEF Ended, DaemonRecord
  <2>3. Moves(d)
    BY <1>10, <1>1, <1>2, <2>2 DEF Moves, InControl, HoldsLock, OpenSteps, CloseSteps, Gone
  <2> QED  BY <2>1, <2>3
<1>11. CASE ReadForRelease(d)
  <2>1. r.step = "release"
    BY <1>11 DEF ReadForRelease, Does
  <2>2. CASE Step(d, "remove")
    <3>1. OnlyChanges(d)
      BY <2>2, <1>1, Names DEF Step, OnlyChanges, DaemonRecord
    <3>2. new.state = r.state /\ new.step = "remove" /\ new.stop = r.stop /\ new.open = r.open
      BY <2>2, <1>1 DEF Step, DaemonRecord
    <3>3. Moves(d)
      BY <2>2, <3>2, <1>1, <1>2, <2>1, Names DEF DaemonRecord, Moves, InControl, HoldsLock, OpenSteps, CloseSteps, Gone
    <3> QED  BY <3>1, <3>3
  <2> QED  BY <1>10, <1>11, <2>1, <2>2 DEF ReadForRelease
<1>12. CASE RemoveOwnLock(d)
  BY <1>10, <1>12 DEF RemoveOwnLock, Does
<1>13. CASE daemon' = StopAsked(d)
  <2>1. CASE daemon' = [daemon EXCEPT ![d] = @]
    BY <2>1, <1>1, <1>2 DEF OnlyChanges, Moves, InControl, HoldsLock, OpenSteps, CloseSteps, Gone
  <2>2. CASE r.state = "starting" /\ daemon' = [daemon EXCEPT ![d] = [@ EXCEPT !.stop = TRUE]]
    <3>1. OnlyChanges(d)
      BY <2>2, <1>1, Names DEF OnlyChanges, DaemonRecord
    <3>2. new.state = r.state /\ new.step = r.step /\ new.stop = TRUE /\ new.open = r.open
      BY <2>2, <1>1 DEF DaemonRecord
    <3>3. Moves(d)
      BY <2>2, <3>2, <1>1, <1>2, Names DEF DaemonRecord, Moves, InControl, HoldsLock, OpenSteps, CloseSteps, Gone
    <3> QED  BY <3>1, <3>3
  <2>3. CASE r.state = "ready" /\ daemon' = [daemon EXCEPT ![d] = [@ EXCEPT !.stop = TRUE, !.state = "stopping", !.step = "update"]]
    <3>1. OnlyChanges(d)
      BY <2>3, <1>1, Names DEF OnlyChanges, DaemonRecord
    <3>2. new.state = "stopping" /\ new.step = "update" /\ new.stop = TRUE /\ new.open = r.open
      BY <2>3, <1>1 DEF DaemonRecord
    <3>3. Moves(d)
      BY <2>3, <3>2, <1>1, <1>2, Names DEF DaemonRecord, Moves, InControl, HoldsLock, OpenSteps, CloseSteps, Gone
    <3> QED  BY <3>1, <3>3
  <2> QED  BY <1>13, <2>1, <2>2, <2>3 DEF StopAsked
<1> QED  BY <1>4, <1>5, <1>6, <1>7, <1>8, <1>9, <1>11, <1>12, <1>13 DEF DaemonStep

\* The steps of a daemon, a signal and an exit keep the types.
LEMMA DaemonTypes ==
    ASSUME StateTypes, DaemonControl, NEW d \in Daemons, DaemonStep(d) \/ Signal(d) \/ Exits(d)
    PROVE  StateTypes'
<1>1. daemon' \in [Daemons -> DaemonRecord]
  <2>1. CASE Exits(d)
    <3>1. daemon \in [Daemons -> DaemonRecord] /\ daemon[d] \in DaemonRecord
      BY DEF StateTypes
    <3>2. [daemon[d] EXCEPT !.open = {}, !.step = "none",
                            !.state = IF @ = "stopped" THEN @ ELSE "failed"] \in DaemonRecord
      BY <3>1, Names DEF DaemonRecord
    <3> QED  BY <2>1, <3>1, <3>2 DEF Exits
  <2> QED  BY <2>1, DaemonMoves DEF Signal, OnlyChanges
<1>2. lock' \in Locks
  <2>1. CASE UNCHANGED lock
    BY <2>1 DEF StateTypes
  <2>2. CASE lock' \in {NoLock, [owner |-> d, state |-> "ready"], [owner |-> d, state |-> "stopping"]}
    BY <2>2 DEF Locks, LockStates, Owners, Processes
  <2> QED
    BY <2>1, <2>2 DEF DaemonStep, Locked, OpenResource, ReadForUpdate, WriteReady, WriteStopping, Replace,
                      CloseResource, ReadForRelease, RemoveOwnLock, Signal, Exits
<1>3. acq' \in [Processes -> AcquireStates]
  BY DEF StateTypes, DaemonStep, Locked, OpenResource, ReadForUpdate, WriteReady, WriteStopping, Replace,
         CloseResource, ReadForRelease, RemoveOwnLock, Signal, Exits, AcquireStates, InGuard
<1>4. client' \in [Clients -> ClientRecord]
  <2> client \in [Clients -> ClientRecord]
    BY DEF StateTypes
  <2>1. ASSUME NEW record, Replace(record)  PROVE client' \in [Clients -> ClientRecord]
    <3>1. \A c \in Clients : [client[c] EXCEPT !.pc = "recovering"] \in ClientRecord
      BY DEF ClientRecord, ClientStates
    <3> QED  BY <2>1, <3>1 DEF Replace
  <2> QED
    BY <2>1 DEF DaemonStep, Locked, OpenResource, ReadForUpdate, WriteReady, WriteStopping,
                CloseResource, ReadForRelease, RemoveOwnLock, Signal, Exits
<1>5. UNCHANGED <<faults, guard>> /\ alive' \subseteq alive
  BY DEF DaemonStep, Locked, OpenResource, ReadForUpdate, WriteReady, WriteStopping, Replace,
         CloseResource, ReadForRelease, RemoveOwnLock, Signal, Exits
<1> QED  BY <1>1, <1>2, <1>3, <1>4, <1>5 DEF StateTypes

\* The commands keep them: a stop command takes its target from a lock that says
\* ready or stopping, and such a lock names a daemon.
LEMMA ClientTypes ==
    ASSUME StateTypes, LockControl,
           \/ \E c \in Starters : LookToStart(c) \/ Launch(c) \/ WaitForReady(c)
           \/ \E c \in Stoppers : LookToStop(c) \/ WaitForStopped(c) \/ Recovered(c)
    PROVE  StateTypes'
<1>1. client' \in [Clients -> ClientRecord]
  <2> client \in [Clients -> ClientRecord]
    BY DEF StateTypes
  <2>1. ASSUME NEW c \in Clients, NEW pc \in ClientStates, Turns(c, pc)
        PROVE  client' \in [Clients -> ClientRecord]
    BY <2>1 DEF Turns, ClientRecord
  <2>2. ASSUME NEW c \in Clients, Targets(c, "stopping", lock.owner), Held("stopping") \/ Held("ready")
        PROVE  client' \in [Clients -> ClientRecord]
    <3>1. lock.owner \in Daemons
      BY <2>2, NamesAssumption DEF Held, LockControl, StateTypes
    <3> QED  BY <2>2, <3>1 DEF Targets, ClientRecord, ClientStates
  <2> QED
    BY <2>1, <2>2 DEF LookToStart, Launch, WaitForReady, LookToStop, WaitForStopped, Recovered, Clients, ClientStates
<1>2. daemon' \in [Daemons -> DaemonRecord]
  <2> daemon \in [Daemons -> DaemonRecord]
    BY DEF StateTypes
  <2>1. ASSUME NEW c \in Starters, Launch(c)  PROVE daemon' \in [Daemons -> DaemonRecord]
    <3>1. PICK d \in Daemons :
             daemon' = [daemon EXCEPT ![d].state = "starting", ![d].step = "acquire"]
      BY <2>1 DEF Launch
    <3>2. [daemon[d] EXCEPT !.state = "starting", !.step = "acquire"] \in DaemonRecord
      BY Names DEF DaemonRecord
    <3> QED  BY <3>1, <3>2
  <2>2. ASSUME NEW c \in Stoppers, LookToStop(c)  PROVE daemon' \in [Daemons -> DaemonRecord]
    <3>1. CASE UNCHANGED daemon
      BY <3>1
    <3>2. CASE daemon' = StopAsked(lock.owner)
      BY <3>2, Names DEF StopAsked, DaemonRecord
    <3> QED  BY <2>2, <3>1, <3>2 DEF LookToStop
  <2> QED  BY <2>1, <2>2 DEF LookToStart, WaitForReady, WaitForStopped, Recovered
<1>3. acq' \in [Processes -> AcquireStates]
  BY DEF StateTypes, AcquireStates, InGuard, LookToStart, Launch, WaitForReady, LookToStop, WaitForStopped,
         Recovered, Goto
<1>4. lock' \in Locks
  BY DEF StateTypes, Locks, LookToStart, Launch, WaitForReady, LookToStop, WaitForStopped, Recovered
<1>5. UNCHANGED <<faults, guard>> /\ alive' \subseteq Processes
  BY DEF StateTypes, LookToStart, Launch, WaitForReady, LookToStop, WaitForStopped, Recovered, Processes
<1> QED  BY <1>1, <1>2, <1>3, <1>4, <1>5 DEF StateTypes

-----------------------------------------------------------------------------
(* DaemonLock.acquire.                                                     *)

\* The steps of DaemonLock.acquire leave the daemons and the commands alone, and
\* the lock they write belongs to a process that is starting.
LEMMA AcquireControl ==
    ASSUME StateTypes, DaemonControl, LockControl, NEW p \in Processes, AcquireStep(p) \/ GiveUpGuard(p)
    PROVE  DaemonControl' /\ LockControl'
<1>1. UNCHANGED <<faults, alive, daemon, client>> /\ p \in alive
  BY DEF AcquireStep, CreateGuard, ReadGuard, RemoveGuard, CreateLock, ReadLock, RemoveLock,
         ReleaseGuard, GiveUpGuard, Acquiring
<1>2. UNCHANGED lock \/ lock' = NoLock \/ lock' = [owner |-> p, state |-> "starting"]
  BY DEF AcquireStep, CreateGuard, ReadGuard, RemoveGuard, CreateLock, ReadLock, RemoveLock,
         ReleaseGuard, GiveUpGuard
<1>3. DaemonControl'
  BY <1>1 DEF DaemonControl, InControl
<1>4. p \in Daemons => daemon[p].state # "new"
  BY <1>1 DEF DaemonControl, InControl
<1>5. Nobody \notin Daemons
  BY NamesAssumption DEF Processes
<1>6. CASE UNCHANGED lock
  BY <1>1, <1>3, <1>6 DEF LockControl
<1>7. CASE lock' = NoLock
  BY <1>1, <1>3, <1>5, <1>7 DEF LockControl, NoLock
<1>8. CASE lock' = [owner |-> p, state |-> "starting"]
  BY <1>1, <1>3, <1>4, <1>8 DEF LockControl
<1> QED  BY <1>2, <1>6, <1>7, <1>8

\* Nothing that happens to the guard and the lock while they are acquired takes
\* the lock from a daemon that holds it.
LEMMA AcquireKeepsLock ==
    ASSUME StateTypes, DaemonControl, LockControl, GuardExcludes, LockProtects, TargetReleased,
           NEW p \in Processes, AcquireStep(p) \/ GiveUpGuard(p)
    PROVE  GuardExcludes' /\ LockProtects' /\ TargetReleased'
<1>1. UNCHANGED <<faults, alive, daemon, client>> /\ p \in alive
  BY DEF AcquireStep, CreateGuard, ReadGuard, RemoveGuard, CreateLock, ReadLock, RemoveLock,
         ReleaseGuard, GiveUpGuard, Acquiring
<1>2. TargetReleased'
  BY <1>1 DEF TargetReleased
<1>3. Nobody \notin Processes /\ Daemons \subseteq Processes /\ Clients \subseteq Processes
  BY NamesAssumption DEF Processes
<1>4. acq \in [Processes -> AcquireStates] /\ alive \subseteq Processes
  BY DEF StateTypes
<1>5. ASSUME NEW pc, Goto(p, pc)
      PROVE  acq' = [acq EXCEPT ![p] = pc] /\ acq'[p] = pc /\ \A q \in Processes \ {p} : acq'[q] = acq[q]
  BY <1>4, <1>5 DEF Goto
<1>6. ASSUME NEW pc, Goto(p, pc), pc \notin {"winning", "won"} \/ acq[p] = "winning"
       PROVE  \A d \in Daemons : HoldsLock(d)' => HoldsLock(d)
  <2>1. SUFFICES ASSUME NEW d \in Daemons, HoldsLock(d)'  PROVE HoldsLock(d)
    OBVIOUS
  <2>2. CASE d = p
    BY <1>1, <1>5, <1>6, <2>1, <2>2 DEF HoldsLock
  <2>3. CASE d # p
    BY <1>1, <1>3, <1>5, <1>6, <2>1, <2>3 DEF HoldsLock
  <2> QED  BY <2>2, <2>3
<1>7. CASE CreateGuard(p)
  <2>1. acq[p] = "guard" /\ guard = Nobody /\ guard' = p /\ UNCHANGED lock /\ Goto(p, "lock")
    BY <1>7 DEF CreateGuard, Acquiring
  <2>2. GuardExcludes'
    BY <1>1, <1>3, <1>4, <1>5, <2>1 DEF GuardExcludes, InGuard
  <2>3. LockProtects'
    BY <1>6, <2>1 DEF LockProtects
  <2> QED  BY <1>2, <2>2, <2>3
<1>8. ~ReadGuard(p) /\ ~RemoveGuard(p)
  BY DEF ReadGuard, RemoveGuard, Acquiring, GuardExcludes
<1>9. CASE GiveUpGuard(p)
  <2>1. acq[p] = "guard" /\ UNCHANGED <<guard, lock>> /\ Goto(p, "lost")
    BY <1>9 DEF GiveUpGuard, Acquiring
  <2>2. GuardExcludes'
    BY <1>1, <1>3, <1>4, <1>5, <2>1 DEF GuardExcludes, InGuard
  <2>3. LockProtects'
    BY <1>6, <2>1 DEF LockProtects
  <2> QED  BY <1>2, <2>2, <2>3
<1>10. CASE CreateLock(p)
  <2>1. acq[p] = "lock" /\ guard = p /\ UNCHANGED guard
    BY <1>10 DEF CreateLock, Acquiring, GuardExcludes, InGuard
  <2>2. CASE lock = NoLock /\ lock' = [owner |-> p, state |-> "starting"] /\ Goto(p, "winning")
    <3>1. GuardExcludes'
      BY <1>1, <1>3, <1>4, <1>5, <2>1, <2>2 DEF GuardExcludes, InGuard
    <3>2. \A d \in Daemons : ~HoldsLock(d)
      BY <1>3, <2>2 DEF LockProtects, NoLock
    <3>3. LockProtects'
      BY <1>1, <1>3, <1>5, <2>2, <3>2 DEF LockProtects, HoldsLock
    <3> QED  BY <1>2, <3>1, <3>3
  <2>3. CASE UNCHANGED lock /\ Goto(p, "read lock")
    <3>1. GuardExcludes'
      BY <1>1, <1>3, <1>4, <1>5, <2>1, <2>3 DEF GuardExcludes, InGuard
    <3>2. LockProtects'
      BY <1>6, <2>1, <2>3 DEF LockProtects
    <3> QED  BY <1>2, <3>1, <3>2
  <2> QED  BY <1>10, <2>2, <2>3 DEF CreateLock
<1>11. CASE ReadLock(p)
  <2>1. acq[p] = "read lock" /\ guard = p /\ UNCHANGED <<guard, lock>>
    BY <1>11 DEF ReadLock, Acquiring, GuardExcludes, InGuard
  <2>2. CASE lock.owner \in alive /\ Goto(p, "losing")
    <3>1. GuardExcludes'
      BY <1>1, <1>3, <1>4, <1>5, <2>1, <2>2 DEF GuardExcludes, InGuard
    <3>2. LockProtects'
      BY <1>6, <2>1, <2>2 DEF LockProtects
    <3> QED  BY <1>2, <3>1, <3>2
  <2>3. CASE lock.owner \notin alive /\ Goto(p, "remove lock")
    <3>1. GuardExcludes'
      BY <1>1, <1>3, <1>4, <1>5, <2>1, <2>3 DEF GuardExcludes, InGuard
    <3>2. LockProtects'
      BY <1>6, <2>1, <2>3 DEF LockProtects
    <3> QED  BY <1>2, <3>1, <3>2
  <2> QED  BY <1>11, <2>2, <2>3 DEF ReadLock
<1>12. CASE RemoveLock(p)
  <2>1. acq[p] = "remove lock" /\ guard = p /\ UNCHANGED guard /\ lock' = NoLock /\ Goto(p, "lock")
    BY <1>12 DEF RemoveLock, Acquiring, GuardExcludes, InGuard
  <2>2. \A d \in Daemons : ~HoldsLock(d)
    BY <2>1 DEF GuardExcludes, LockProtects, HoldsLock
  <2>3. GuardExcludes'
    BY <1>1, <1>3, <1>4, <1>5, <2>1 DEF GuardExcludes, InGuard, NoLock
  <2>4. LockProtects'
    BY <1>6, <2>1, <2>2 DEF LockProtects
  <2> QED  BY <1>2, <2>3, <2>4
<1>13. CASE ReleaseGuard(p)
  <2>1. guard = p /\ guard' = Nobody /\ UNCHANGED lock
    BY <1>13 DEF ReleaseGuard, Acquiring, GuardExcludes, InGuard
  <2>2. CASE acq[p] = "winning" /\ Goto(p, "won")
    <3>1. acq'[p] = "won" /\ \A q \in Processes \ {p} : acq'[q] = acq[q]
      BY <1>5, <2>2
    <3>2. \A q \in Processes : acq'[q] \notin InGuard /\ guard' # q
      BY <1>3, <2>1, <3>1 DEF GuardExcludes, InGuard
    <3>3. \A q \in Processes : acq'[q] \in {acq[q], "won"}
      BY <3>1
    <3>4. GuardExcludes'
      BY <1>1, <1>3, <2>1, <2>2, <3>1, <3>2, <3>3 DEF GuardExcludes, InGuard
    <3>5. LockProtects'
      BY <1>6, <2>1, <2>2 DEF LockProtects
    <3> QED  BY <1>2, <3>4, <3>5
  <2>3. CASE acq[p] = "losing" /\ Goto(p, "lost")
    <3>1. GuardExcludes'
      BY <1>1, <1>3, <1>4, <1>5, <2>1, <2>3 DEF GuardExcludes, InGuard
    <3>2. LockProtects'
      BY <1>6, <2>1, <2>3 DEF LockProtects
    <3> QED  BY <1>2, <3>1, <3>2
  <2> QED  BY <1>13, <2>2, <2>3 DEF ReleaseGuard, Acquiring
<1> QED  BY <1>7, <1>8, <1>9, <1>10, <1>11, <1>12, <1>13 DEF AcquireStep

-----------------------------------------------------------------------------
(* Start and stop.                                                         *)

\* What a step of a daemon's own thread does outside its record: it may write
\* its own name into the lock, or remove the lock, and only while it runs under
\* it; a command that sees the lock replaced recovers.
LEMMA DaemonFrame ==
    ASSUME StateTypes, NEW d \in Daemons, DaemonStep(d)
    PROVE  /\ UNCHANGED <<faults, guard, alive>> /\ d \in alive
           /\ \/ UNCHANGED lock
              \/ lock' = [owner |-> d, state |-> "ready"] /\ daemon[d].step = "replace"
                    /\ daemon'[d].state \in {"stopping", "ready"}
              \/ lock' = [owner |-> d, state |-> "stopping"] /\ daemon[d].step = "replace"
                    /\ daemon'[d].state = "stopping"
              \/ lock' = NoLock /\ daemon[d].step = "remove"
                    /\ daemon'[d].state \in {"failed", "stopped"} /\ daemon'[d].step = "none"
           /\ \A c \in Clients : client'[c].target = client[c].target
                                   /\ client'[c].pc \in {client[c].pc, "recovering"}
           /\ faults = {} => UNCHANGED <<acq, client>>
<1>1. /\ daemon \in [Daemons -> DaemonRecord] /\ acq \in [Processes -> AcquireStates]
      /\ client \in [Clients -> ClientRecord]
  BY DEF StateTypes
<1>2. ASSUME NEW record, Replace(record)
      PROVE  /\ lock' = record
             /\ \A c \in Clients : client'[c].target = client[c].target
                                     /\ client'[c].pc \in {client[c].pc, "recovering"}
             /\ faults = {} => UNCHANGED <<acq, client>>
  <2>1. PICK torn \in SUBSET ({p \in alive : acq[p] = "read lock"}
                                \cup {c \in Stoppers \cap alive : client[c].pc = "look"}) :
          /\ torn = {} \/ "torn" \in faults
          /\ acq' = [p \in Processes |->
                       IF p \notin torn THEN acq[p]
                       ELSE IF acq[p] = "read lock" THEN "remove lock" ELSE "guard"]
          /\ client' = [c \in Clients |->
                          IF c \in torn THEN [client[c] EXCEPT !.pc = "recovering"] ELSE client[c]]
    BY <1>2 DEF Replace
  <2>2. faults = {} => torn = {}
    BY <2>1
  <2>3. torn = {} => UNCHANGED <<acq, client>>
    BY <1>1, <2>1
  <2>4. \A c \in Clients : client'[c].target = client[c].target
                             /\ client'[c].pc \in {client[c].pc, "recovering"}
    BY <1>1, <2>1 DEF ClientRecord
  <2> QED  BY <1>2, <2>2, <2>3, <2>4 DEF Replace
<1>3. CASE WriteReady(d)
  <2>1. daemon'[d].state \in {"stopping", "ready"}
    BY <1>1, <1>3 DEF WriteReady, DaemonRecord
  <2> QED  BY <1>2, <1>3, <2>1 DEF WriteReady, Does
<1>4. CASE WriteStopping(d)
  <2>1. daemon'[d].state = "stopping"
    BY <1>1, <1>4 DEF WriteStopping, Step, DaemonRecord
  <2> QED  BY <1>2, <1>4, <2>1 DEF WriteStopping, Does
<1>5. CASE RemoveOwnLock(d)
  <2>1. daemon'[d].state \in {"failed", "stopped"} /\ daemon'[d].step = "none"
    BY <1>1, <1>5 DEF RemoveOwnLock, Ended, DaemonRecord
  <2> QED  BY <1>5, <2>1 DEF RemoveOwnLock, Does
<1>6. CASE Locked(d) \/ OpenResource(d) \/ ReadForUpdate(d) \/ CloseResource(d) \/ ReadForRelease(d)
  BY <1>6 DEF Locked, OpenResource, ReadForUpdate, CloseResource, ReadForRelease, Does
<1> QED  BY <1>3, <1>4, <1>5, <1>6 DEF DaemonStep

\* The steps of a daemon keep the control facts.
LEMMA DaemonStepControl ==
    ASSUME StateTypes, DaemonControl, LockControl, NEW d \in Daemons, DaemonStep(d)
    PROVE  DaemonControl' /\ LockControl'
<1>1. OnlyChanges(d) /\ Moves(d)
  BY DaemonMoves
<1>2. Nobody \notin Daemons
  BY NamesAssumption DEF Processes
<1>3. DaemonControl'
  BY <1>1, DaemonFrame DEF DaemonControl, OnlyChanges, Moves
<1>4. \A e \in Daemons : /\ daemon[e].state \in Gone => daemon'[e].state \in Gone
                         /\ daemon[e].state \in Gone \cup {"ready"} => daemon'[e].state \in Gone \cup {"ready"}
  BY <1>1 DEF OnlyChanges, Moves
<1>5. \A e \in Daemons : daemon[e].state # "new" => daemon'[e].state # "new"
  BY <1>1 DEF OnlyChanges, Moves, InControl
<1>6. \A c \in Clients :
          /\ client'[c].pc = "look" => client'[c].target = Nobody
          /\ client'[c].target # Nobody => daemon'[client'[c].target].state \in Gone
  BY <1>4, DaemonFrame DEF LockControl, StateTypes, ClientRecord
<1>7. CASE UNCHANGED lock
  BY <1>3, <1>4, <1>5, <1>6, <1>7 DEF LockControl
<1>8. CASE lock' = [owner |-> d, state |-> "ready"] /\ daemon'[d].state \in {"stopping", "ready"}
  BY <1>3, <1>6, <1>8 DEF LockControl, Gone
<1>9. CASE lock' = [owner |-> d, state |-> "stopping"] /\ daemon'[d].state = "stopping"
  BY <1>3, <1>6, <1>9 DEF LockControl, Gone
<1>10. CASE lock' = NoLock
  BY <1>3, <1>2, <1>6, <1>10 DEF LockControl, NoLock
<1> QED  BY <1>3, <1>7, <1>8, <1>9, <1>10, DaemonFrame

\* A daemon writes or removes the lock while it holds it, and never takes it from
\* another one.
LEMMA DaemonStepKeepsLock ==
    ASSUME StateTypes, DaemonControl, LockControl, faults = {},
           GuardExcludes, LockProtects, TargetReleased, NEW d \in Daemons, DaemonStep(d)
    PROVE  GuardExcludes' /\ LockProtects' /\ TargetReleased'
<1>1. OnlyChanges(d) /\ Moves(d)
  BY DaemonMoves
<1>2. UNCHANGED <<guard, alive, acq, client>> /\ d \in alive
  BY DaemonFrame
<1>3. Nobody \notin Processes /\ Daemons \subseteq Processes /\ alive \subseteq Processes
  BY NamesAssumption DEF Processes, StateTypes
<1>4. daemon[d].step \in {"replace", "remove"} => lock.owner = d
  BY <1>2 DEF LockProtects, HoldsLock
<1>5. lock'.owner \in {lock.owner, d, Nobody}
  BY DaemonFrame DEF NoLock
<1>6. \A p \in Processes : acq[p] = "remove lock" => lock'.owner \notin alive
  BY <1>2, <1>3, <1>4, DaemonFrame DEF GuardExcludes, NoLock
<1>7. \A e \in Daemons : e \in alive /\ daemon'[e].step # "acquire" => acq[e] \in {"won", "lost"}
  BY <1>1 DEF OnlyChanges, Moves, GuardExcludes
<1>8. GuardExcludes'
  BY <1>2, <1>6, <1>7 DEF GuardExcludes
<1>9. \A e \in Daemons : HoldsLock(e)' => HoldsLock(e)
  BY <1>1, <1>2 DEF OnlyChanges, Moves, HoldsLock
<1>10. lock' = lock \/ (lock.owner = d /\ (lock'.owner = d \/ ~HoldsLock(d)'))
  <2>1. CASE lock' = NoLock /\ daemon[d].step = "remove"
               /\ daemon'[d].state \in {"failed", "stopped"} /\ daemon'[d].step = "none"
    BY <1>4, <2>1 DEF HoldsLock
  <2>2. CASE lock'.owner = d /\ daemon[d].step = "replace"
    BY <1>4, <2>2
  <2>3. CASE lock' = lock
    BY <2>3
  <2>4. \/ lock' = lock
        \/ lock'.owner = d /\ daemon[d].step = "replace"
        \/ lock' = NoLock /\ daemon[d].step = "remove"
             /\ daemon'[d].state \in {"failed", "stopped"} /\ daemon'[d].step = "none"
    BY DaemonFrame
  <2> QED  BY <2>1, <2>2, <2>3, <2>4
<1>11. LockProtects'
  BY <1>9, <1>10 DEF LockProtects
<1>12. TargetReleased'
  <2>1. SUFFICES ASSUME NEW c \in Stoppers, client[c].pc \in {"recovering", "stopped"}, client[c].target # Nobody
                 PROVE  daemon'[client[c].target].open = {}
    BY <1>2 DEF TargetReleased
  <2>2. client[c].target \in Daemons /\ daemon[client[c].target].state \in Gone
    BY <2>1 DEF LockControl, Clients, StateTypes, ClientRecord
  <2>3. daemon[client[c].target].open = {}
    BY <2>1 DEF TargetReleased
  <2> QED  BY <1>1, <2>2, <2>3 DEF OnlyChanges, Moves, Gone
<1> QED  BY <1>8, <1>11, <1>12

\* A signal, or the shutdown request of a stop command, keeps the control facts;
\* a daemon that is asked while it is ready begins to stop at once.
LEMMA StopAskedMoves ==
    ASSUME StateTypes, DaemonControl, NEW d \in Daemons, d \in alive, daemon' = StopAsked(d), UNCHANGED alive
    PROVE  /\ DaemonControl' /\ OnlyChanges(d) /\ Moves(d)
           /\ \A e \in Daemons :
                /\ daemon[e].state \in Gone => daemon'[e].state \in Gone
                /\ daemon[e].state \in Gone \cup {"ready"} => daemon'[e].state \in Gone \cup {"ready"}
                /\ daemon[e].state # "new" => daemon'[e].state # "new"
                /\ daemon[e].state # "starting" => daemon'[e].open \subseteq daemon[e].open
                /\ daemon'[e].step = daemon[e].step \/ daemon[e].step # "acquire"
           /\ daemon[d].state \in Gone \cup {"ready"} => daemon'[d].state \in Gone
<1>1. OnlyChanges(d) /\ Moves(d)
  BY DaemonMoves
<1>2. DaemonControl'
  BY <1>1 DEF DaemonControl, OnlyChanges, Moves
<1>3. daemon \in [Daemons -> DaemonRecord]
  BY DEF StateTypes
<1>4. daemon[d].state \in Gone \cup {"ready"} => daemon'[d].state \in Gone
  BY <1>3 DEF StopAsked, DaemonControl, InControl, Gone, DaemonRecord
<1>5. daemon'[d].step = daemon[d].step \/ daemon[d].state = "ready"
  BY <1>3 DEF StopAsked, DaemonRecord
<1> QED  BY <1>1, <1>2, <1>4, <1>5 DEF OnlyChanges, Moves, DaemonControl, InControl

\* A signal keeps everything.
LEMMA SignalKeeps ==
    ASSUME StateTypes, DaemonControl, LockControl, NEW d \in Daemons, Signal(d)
    PROVE  /\ DaemonControl' /\ LockControl'
           /\ GuardExcludes => GuardExcludes'
           /\ LockProtects => LockProtects'
           /\ TargetReleased => TargetReleased'
<1>1. UNCHANGED <<faults, lock, guard, alive, acq, client>> /\ d \in alive /\ daemon' = StopAsked(d)
  BY DEF Signal
<1>2. LockControl'
  <2>1. \A c \in Clients : client[c].target \in Daemons \cup {Nobody}
    BY DEF StateTypes, ClientRecord
  <2>2. \A e \in Daemons :
            /\ daemon[e].state \in Gone => daemon'[e].state \in Gone
            /\ daemon[e].state \in Gone \cup {"ready"} => daemon'[e].state \in Gone \cup {"ready"}
            /\ daemon[e].state # "new" => daemon'[e].state # "new"
    BY <1>1, StopAskedMoves
  <2> QED  BY <1>1, <2>1, <2>2 DEF LockControl
<1>3. ASSUME GuardExcludes  PROVE GuardExcludes'
  BY <1>1, <1>3, StopAskedMoves DEF GuardExcludes, OnlyChanges, Moves
<1>4. ASSUME LockProtects  PROVE LockProtects'
  <2>1. OnlyChanges(d) /\ Moves(d)
    BY <1>1, StopAskedMoves
  <2>2. \A e \in Daemons : HoldsLock(e)' => HoldsLock(e)
    BY <1>1, <2>1 DEF OnlyChanges, Moves, HoldsLock
  <2> QED  BY <1>1, <1>4, <2>2 DEF LockProtects
<1>5. ASSUME TargetReleased  PROVE TargetReleased'
  <2>1. SUFFICES ASSUME NEW c \in Stoppers, client[c].pc \in {"recovering", "stopped"}, client[c].target # Nobody
                 PROVE  daemon'[client[c].target].open = {}
    BY <1>1 DEF TargetReleased
  <2>2. client[c].target \in Daemons /\ daemon[client[c].target].state \in Gone
    BY <2>1 DEF LockControl, Clients, StateTypes, ClientRecord
  <2> QED  BY <1>1, <1>5, <2>1, <2>2, StopAskedMoves DEF TargetReleased, Gone
<1> QED  BY <1>1, <1>2, <1>3, <1>4, <1>5, StopAskedMoves

\* So does the end of a daemon, whatever it was doing, unless it holds the guard.
LEMMA ExitKeeps ==
    ASSUME StateTypes, DaemonControl, LockControl, NEW d \in Daemons, Exits(d)
    PROVE  /\ DaemonControl' /\ LockControl'
           /\ GuardExcludes => GuardExcludes'
           /\ LockProtects => LockProtects'
           /\ TargetReleased => TargetReleased'
<1>1. /\ UNCHANGED <<faults, lock, guard, acq, client>> /\ guard # d
      /\ alive' = alive \ {d} /\ d \in alive
  BY DEF Exits
<1>2. /\ \A e \in Daemons \ {d} : daemon'[e] = daemon[e]
      /\ daemon'[d].open = {} /\ daemon'[d].step = "none" /\ daemon'[d].state \in {"stopped", "failed"}
  BY DEF Exits, StateTypes, DaemonRecord
<1>3. DaemonControl'
  BY <1>1, <1>2 DEF DaemonControl, InControl, OpenSteps, CloseSteps
<1>4. LockControl'
  BY <1>1, <1>2 DEF LockControl, StateTypes, ClientRecord, Gone
<1>5. ASSUME GuardExcludes  PROVE GuardExcludes'
  BY <1>1, <1>2, <1>5 DEF GuardExcludes
<1>6. ASSUME LockProtects  PROVE LockProtects'
  BY <1>1, <1>2, <1>6 DEF LockProtects, HoldsLock
<1>7. ASSUME TargetReleased  PROVE TargetReleased'
  BY <1>1, <1>2, <1>7 DEF TargetReleased, StateTypes, ClientRecord, Clients
<1> QED  BY <1>3, <1>4, <1>5, <1>6, <1>7

-----------------------------------------------------------------------------
(* The commands.                                                           *)

\* A step of a start command, the launch of a daemon apart, changes only where
\* the command stands, and keeps everything.
LEMMA StarterKeeps ==
    ASSUME StateTypes, DaemonControl, LockControl, NEW c \in Starters, LookToStart(c) \/ WaitForReady(c)
    PROVE  /\ DaemonControl' /\ LockControl'
           /\ GuardExcludes => GuardExcludes'
           /\ LockProtects => LockProtects'
           /\ TargetReleased => TargetReleased'
<1>1. UNCHANGED <<faults, lock, guard, alive, acq, daemon>> /\ client[c].pc # "recovering" /\ c \in Clients
  BY DEF LookToStart, WaitForReady, Runs, Clients
<1>2. PICK pc \in {"launching", "waiting", "ready", "error"} : client' = [client EXCEPT ![c].pc = pc]
  BY DEF LookToStart, WaitForReady, Turns
<1>3. /\ \A x \in Clients : client'[x].target = client[x].target
      /\ \A x \in Clients \ {c} : client'[x] = client[x]
      /\ client'[c].pc = pc
  BY <1>1, <1>2 DEF StateTypes, ClientRecord
<1>4. DaemonControl'
  BY <1>1 DEF DaemonControl
<1>5. LockControl'
  BY <1>1, <1>3 DEF LockControl
<1>6. ASSUME GuardExcludes  PROVE GuardExcludes'
  BY <1>1, <1>3, <1>6 DEF GuardExcludes
<1>7. ASSUME LockProtects  PROVE LockProtects'
  BY <1>1, <1>7 DEF LockProtects, HoldsLock
<1>8. ASSUME TargetReleased  PROVE TargetReleased'
  BY <1>1, <1>3, <1>8 DEF TargetReleased, Clients
<1> QED  BY <1>4, <1>5, <1>6, <1>7, <1>8

\* So does the launch of a daemon: it is no command, it owns no lock yet, and no
\* stop command has it for its target.
LEMMA LaunchKeeps ==
    ASSUME StateTypes, DaemonControl, LockControl, NEW c \in Starters, Launch(c)
    PROVE  /\ DaemonControl' /\ LockControl'
           /\ GuardExcludes => GuardExcludes'
           /\ LockProtects => LockProtects'
           /\ TargetReleased => TargetReleased'
<1>1. PICK d \in Daemons :
          /\ daemon[d] = NewDaemon
          /\ alive' = alive \cup {d}
          /\ daemon' = [daemon EXCEPT ![d].state = "starting", ![d].step = "acquire"]
          /\ acq' = [acq EXCEPT ![d] = "guard"]
  BY DEF Launch, Goto
<1>2. /\ UNCHANGED <<faults, lock, guard>> /\ client[c].pc = "launching" /\ c \in Clients
      /\ client' = [client EXCEPT ![c].pc = "waiting"]
  BY DEF Launch, Runs, Turns, Clients
<1>3. /\ \A x \in Clients : client'[x].target = client[x].target
      /\ \A x \in Clients \ {c} : client'[x] = client[x]
      /\ client'[c].pc = "waiting"
  BY <1>2 DEF StateTypes, ClientRecord
<1>4. /\ \A e \in Daemons \ {d} : daemon'[e] = daemon[e]
      /\ daemon'[d].state = "starting" /\ daemon'[d].step = "acquire"
      /\ daemon'[d].stop = FALSE /\ daemon'[d].open = {}
  BY <1>1 DEF StateTypes, DaemonRecord, NewDaemon
<1>5. acq'[d] = "guard" /\ \A p \in Processes \ {d} : acq'[p] = acq[p]
  BY <1>1 DEF StateTypes, Processes
<1>6. daemon[d].state = "new" /\ d \notin alive /\ lock.owner # d
  BY <1>1 DEF NewDaemon, DaemonControl, InControl, LockControl
<1>7. \A x \in Clients : client[x].target # d /\ x # d
  BY <1>6, NamesAssumption DEF LockControl, Gone, Processes
<1>8. \A x \in Clients : client[x].target \in Daemons \cup {Nobody}
  BY DEF StateTypes, ClientRecord
<1>9. DaemonControl'
  BY <1>1, <1>4 DEF DaemonControl, InControl, OpenSteps, CloseSteps
<1>10. LockControl'
  BY <1>2, <1>3, <1>4, <1>6, <1>7, <1>8 DEF LockControl
<1>11. ASSUME GuardExcludes  PROVE GuardExcludes'
  <2>1. d # guard /\ d \in Processes /\ Clients \subseteq Processes
    BY <1>6, <1>11, NamesAssumption DEF GuardExcludes, Processes
  <2>2. guard' \in alive' \cup {Nobody}
    BY <1>1, <1>2, <1>11 DEF GuardExcludes
  <2>3. \A p \in Processes :
            /\ acq'[p] \notin {"confirm guard", "remove guard"}
            /\ acq'[p] \in InGuard <=> guard' = p
            /\ acq'[p] = "remove lock" => lock'.owner \notin alive'
    BY <1>1, <1>2, <1>5, <1>6, <1>11, <2>1 DEF GuardExcludes, InGuard
  <2>4. \A e \in Daemons : e \in alive' /\ daemon'[e].step # "acquire" => acq'[e] \in {"won", "lost"}
    BY <1>1, <1>4, <1>5, <1>11 DEF GuardExcludes, Processes
  <2>5. \A x \in Clients : acq'[x] \notin {"none", "won", "lost"} => client'[x].pc = "recovering"
    BY <1>2, <1>3, <1>5, <1>7, <1>11, <2>1 DEF GuardExcludes
  <2> QED  BY <2>2, <2>3, <2>4, <2>5 DEF GuardExcludes
<1>12. ASSUME LockProtects  PROVE LockProtects'
  <2>1. \A e \in Daemons : HoldsLock(e)' => HoldsLock(e)
    BY <1>1, <1>4, <1>5 DEF HoldsLock, Processes
  <2> QED  BY <1>2, <1>12, <2>1 DEF LockProtects
<1>13. ASSUME TargetReleased  PROVE TargetReleased'
  BY <1>3, <1>4, <1>7, <1>8, <1>13 DEF TargetReleased, Clients
<1> QED  BY <1>9, <1>10, <1>11, <1>12, <1>13

\* What a step of a stop command changes.  It may ask a daemon to stop, and it may
\* begin to acquire an abandoned lock.
LEMMA StopperFrame ==
    ASSUME StateTypes, DaemonControl, LockControl,
           NEW c \in Stoppers, LookToStop(c) \/ WaitForStopped(c) \/ Recovered(c)
    PROVE  /\ UNCHANGED <<faults, guard, alive>> /\ c \in Clients
           /\ \A x \in Clients \ {c} : client'[x] = client[x]
           /\ \/ UNCHANGED acq
              \/ /\ acq' = [acq EXCEPT ![c] = "guard"]
                 /\ client[c].pc # "recovering" /\ client'[c].pc = "recovering"
           /\ client[c].pc = "recovering" => acq[c] \in {"won", "lost"} /\ UNCHANGED acq
           /\ UNCHANGED lock \/ (lock.owner = c /\ lock' = NoLock)
           /\ client'[c].pc # "look"
           /\ DaemonControl'
           /\ \A e \in Daemons :
                /\ daemon[e].state \in Gone => daemon'[e].state \in Gone
                /\ daemon[e].state \in Gone \cup {"ready"} => daemon'[e].state \in Gone \cup {"ready"}
                /\ daemon[e].state # "new" => daemon'[e].state # "new"
                /\ daemon[e].state # "starting" => daemon'[e].open \subseteq daemon[e].open
                /\ daemon'[e].step = daemon[e].step \/ daemon[e].step # "acquire"
                /\ daemon'[e].step \notin {"none", "acquire"} \/ daemon'[e].state = "ready" =>
                      daemon[e].step \notin {"none", "acquire"} \/ daemon[e].state = "ready"
                /\ daemon'[e].step = "acquire" => daemon[e].step = "acquire"
           /\ \/ client'[c].target = client[c].target
              \/ /\ client'[c].pc = "stopping" /\ client'[c].target \in Daemons
                 /\ daemon'[client'[c].target].state \in Gone
<1>1. /\ client \in [Clients -> ClientRecord] /\ c \in Clients /\ daemon \in [Daemons -> DaemonRecord]
      /\ alive \subseteq Processes
  BY DEF StateTypes, Clients
<1>2. ASSUME NEW pc, Turns(c, pc)
      PROVE  /\ \A x \in Clients \ {c} : client'[x] = client[x]
             /\ client'[c].pc = pc /\ client'[c].target = client[c].target
  BY <1>1, <1>2 DEF Turns, ClientRecord
<1>3. ASSUME NEW pc, NEW d, Targets(c, pc, d)
      PROVE  /\ \A x \in Clients \ {c} : client'[x] = client[x]
             /\ client'[c].pc = pc /\ client'[c].target = d
  BY <1>1, <1>3 DEF Targets
<1>4. ASSUME UNCHANGED <<alive, daemon>>  PROVE DaemonControl'
  BY <1>4 DEF DaemonControl
<1>5. ASSUME Held("stopping") \/ Held("ready")
      PROVE  /\ lock.owner \in Daemons /\ lock.owner \in alive
             /\ daemon[lock.owner].state \in Gone \cup {"ready"}
             /\ Held("stopping") => daemon[lock.owner].state \in Gone
  BY <1>1, <1>5, NamesAssumption DEF Held, LockControl
<1>6. CASE LookToStop(c)
  <2>1. client[c].pc = "look" /\ UNCHANGED <<faults, lock, guard, alive>>
    BY <1>6 DEF LookToStop, Runs
  <2>2. CASE Turns(c, "stopped") /\ UNCHANGED <<acq, daemon>>
    BY <1>1, <1>2, <1>4, <2>1, <2>2
  <2>3. CASE Turns(c, "recovering") /\ Goto(c, "guard") /\ UNCHANGED daemon
    BY <1>1, <1>2, <1>4, <2>1, <2>3 DEF Goto
  <2>4. CASE Held("stopping") /\ Targets(c, "stopping", lock.owner) /\ UNCHANGED <<acq, daemon>>
    BY <1>1, <1>3, <1>4, <1>5, <2>1, <2>4
  <2>5. CASE Held("ready") /\ daemon' = StopAsked(lock.owner) /\ Targets(c, "stopping", lock.owner)
             /\ UNCHANGED acq
    <3>1. lock.owner \in Daemons /\ lock.owner \in alive /\ daemon[lock.owner].state \in Gone \cup {"ready"}
      BY <1>5, <2>5
    <3>2. /\ DaemonControl' /\ OnlyChanges(lock.owner) /\ Moves(lock.owner)
          /\ \A e \in Daemons :
               /\ daemon[e].state \in Gone => daemon'[e].state \in Gone
               /\ daemon[e].state \in Gone \cup {"ready"} => daemon'[e].state \in Gone \cup {"ready"}
               /\ daemon[e].state # "new" => daemon'[e].state # "new"
               /\ daemon[e].state # "starting" => daemon'[e].open \subseteq daemon[e].open
               /\ daemon'[e].step = daemon[e].step \/ daemon[e].step # "acquire"
          /\ daemon'[lock.owner].state \in Gone
      BY <2>1, <2>5, <3>1, StopAskedMoves
    <3>3. \A e \in Daemons :
            /\ daemon'[e].step \notin {"none", "acquire"} \/ daemon'[e].state = "ready" =>
                  daemon[e].step \notin {"none", "acquire"} \/ daemon[e].state = "ready"
            /\ daemon'[e].step = "acquire" => daemon[e].step = "acquire"
      <4>1. daemon'[lock.owner].step = daemon[lock.owner].step \/ daemon[lock.owner].state = "ready"
        BY <1>1, <2>5, <3>1 DEF StopAsked, DaemonRecord
      <4> QED  BY <3>1, <3>2, <4>1 DEF OnlyChanges, Moves, Gone
    <3> QED  BY <1>1, <1>3, <2>1, <2>5, <3>1, <3>2, <3>3
  <2> QED  BY <1>6, <2>2, <2>3, <2>4, <2>5 DEF LookToStop
<1>7. CASE WaitForStopped(c)
  <2>1. client[c].pc = "stopping" /\ UNCHANGED <<faults, lock, guard, alive, daemon>>
    BY <1>7 DEF WaitForStopped, Runs
  <2>2. CASE Turns(c, "stopped") /\ UNCHANGED acq
    BY <1>1, <1>2, <1>4, <2>1, <2>2
  <2>3. CASE Turns(c, "recovering") /\ Goto(c, "guard")
    BY <1>1, <1>2, <1>4, <2>1, <2>3 DEF Goto
  <2> QED  BY <1>7, <2>2, <2>3 DEF WaitForStopped
<1>8. CASE Recovered(c)
  <2>1. client[c].pc = "recovering" /\ UNCHANGED <<faults, guard, alive, acq, daemon>>
    BY <1>8 DEF Recovered, Runs
  <2>2. CASE acq[c] = "lost" /\ Turns(c, "error") /\ UNCHANGED lock
    BY <1>1, <1>2, <1>4, <2>1, <2>2
  <2>3. CASE acq[c] = "won" /\ lock' = (IF lock.owner = c THEN NoLock ELSE lock) /\ Turns(c, "stopped")
    BY <1>1, <1>2, <1>4, <2>1, <2>3
  <2> QED  BY <1>8, <2>2, <2>3 DEF Recovered
<1> QED  BY <1>6, <1>7, <1>8

\* A daemon that has begun to stop and does not hold the lock any more has closed
\* everything.
LEMMA GoneWithoutLock ==
    ASSUME StateTypes, DaemonControl, LockProtects, NEW d \in Daemons,
           daemon[d].state \in Gone, lock.owner # d \/ d \notin alive
    PROVE  daemon[d].open = {}
<1>1. daemon[d].step \in Steps /\ InControl(daemon[d], d \in alive)
  BY DEF StateTypes, DaemonRecord, DaemonControl
<1>2. ~HoldsLock(d)
  BY DEF LockProtects, HoldsLock
<1> QED  BY <1>1, <1>2 DEF InControl, HoldsLock, Gone

\* A step of a stop command keeps everything: it reports a daemon as stopped
\* when the lock has another owner, or none, and recovers an abandoned lock under
\* the guard like everyone else.
LEMMA StopperKeeps ==
    ASSUME StateTypes, DaemonControl, LockControl,
           NEW c \in Stoppers, LookToStop(c) \/ WaitForStopped(c) \/ Recovered(c)
    PROVE  /\ DaemonControl' /\ LockControl'
           /\ GuardExcludes => GuardExcludes'
           /\ GuardExcludes /\ LockProtects => LockProtects'
           /\ LockProtects /\ TargetReleased => TargetReleased'
<1>1. /\ UNCHANGED <<faults, guard, alive>> /\ c \in Clients
      /\ \A x \in Clients \ {c} : client'[x] = client[x]
      /\ UNCHANGED lock \/ (lock.owner = c /\ lock' = NoLock)
  BY StopperFrame
<1>2. Nobody \notin Processes /\ Daemons \subseteq Processes /\ Clients \subseteq Processes
  BY NamesAssumption DEF Processes
<1>3. c \notin Daemons /\ alive \subseteq Processes /\ \A x \in Clients : client[x].target \in Daemons \cup {Nobody}
  BY <1>1, NamesAssumption DEF StateTypes, ClientRecord
<1>4. \A e \in Daemons : acq'[e] = acq[e]
  BY <1>2, <1>3, StopperFrame DEF StateTypes
<1>5. LockControl'
  <2>1. \A e \in Daemons :
            /\ daemon[e].state \in Gone => daemon'[e].state \in Gone
            /\ daemon[e].state \in Gone \cup {"ready"} => daemon'[e].state \in Gone \cup {"ready"}
            /\ daemon[e].state # "new" => daemon'[e].state # "new"
    BY StopperFrame
  <2>2. \A x \in Clients :
            /\ client'[x].pc = "look" => client'[x].target = Nobody
            /\ client'[x].target # Nobody => daemon'[client'[x].target].state \in Gone
    <3>1. client'[c].pc # "look" /\ (client'[c].target # Nobody => daemon'[client'[c].target].state \in Gone)
      BY <1>1, <1>3, <2>1, StopperFrame DEF LockControl
    <3> QED  BY <1>1, <1>3, <2>1, <3>1 DEF LockControl
  <2>3. CASE UNCHANGED lock
    BY <2>1, <2>2, <2>3 DEF LockControl
  <2>4. CASE lock' = NoLock
    BY <1>2, <2>2, <2>4 DEF LockControl, NoLock
  <2> QED  BY <1>1, <2>3, <2>4
<1>6. ASSUME GuardExcludes  PROVE GuardExcludes'
  <2>1. \/ UNCHANGED acq
        \/ /\ acq' = [acq EXCEPT ![c] = "guard"] /\ acq'[c] = "guard"
           /\ acq[c] \notin InGuard /\ client'[c].pc = "recovering"
    <3>1. CASE UNCHANGED acq
      BY <3>1
    <3>2. CASE acq' = [acq EXCEPT ![c] = "guard"] /\ client[c].pc # "recovering" /\ client'[c].pc = "recovering"
      <4>1. acq[c] \in {"none", "won", "lost"} /\ acq'[c] = "guard"
        BY <1>1, <1>2, <1>6, <3>2 DEF StateTypes, GuardExcludes
      <4> QED  BY <3>2, <4>1 DEF InGuard
    <3> QED  BY <3>1, <3>2, StopperFrame
  <2>2. \A p \in Processes \ {c} : acq'[p] = acq[p]
    BY <2>1 DEF StateTypes
  <2>3. \A p \in Processes :
            /\ acq'[p] \notin {"confirm guard", "remove guard"}
            /\ acq'[p] \in InGuard <=> acq[p] \in InGuard
            /\ acq'[p] = "remove lock" => acq[p] = "remove lock"
    BY <1>6, <2>1, <2>2 DEF GuardExcludes, InGuard
  <2>4. \A p \in Processes : acq'[p] = "remove lock" => lock'.owner \notin alive
    <3>1. lock'.owner \in {lock.owner, Nobody} /\ Nobody \notin alive
      BY <1>1, <1>2, <1>3 DEF NoLock
    <3> QED  BY <1>6, <2>3, <3>1 DEF GuardExcludes
  <2>5. \A e \in Daemons : e \in alive /\ daemon'[e].step # "acquire" => acq'[e] \in {"won", "lost"}
    BY <1>4, <1>6, StopperFrame DEF GuardExcludes
  <2>6. \A x \in Clients : acq'[x] \notin {"none", "won", "lost"} => client'[x].pc = "recovering"
    <3>1. acq'[c] \notin {"none", "won", "lost"} => client'[c].pc = "recovering"
      BY <1>1, <1>6, <2>1, StopperFrame DEF GuardExcludes
    <3> QED  BY <1>1, <1>2, <1>6, <2>2, <3>1 DEF GuardExcludes
  <2> QED  BY <1>1, <1>6, <2>3, <2>4, <2>5, <2>6 DEF GuardExcludes
<1>7. ASSUME GuardExcludes, LockProtects  PROVE LockProtects'
  <2>1. \A e \in Daemons : HoldsLock(e)' => HoldsLock(e)
    BY <1>1, <1>4, StopperFrame DEF HoldsLock
  <2> QED  BY <1>1, <1>3, <1>7, <2>1 DEF LockProtects
<1>8. ASSUME LockProtects, TargetReleased  PROVE TargetReleased'
  <2>1. \A e \in Daemons : daemon[e].state # "starting" => daemon'[e].open \subseteq daemon[e].open
    BY StopperFrame
  <2>2. SUFFICES ASSUME NEW x \in Stoppers, client'[x].pc \in {"recovering", "stopped"}, client'[x].target # Nobody
                 PROVE  daemon'[client'[x].target].open = {}
    BY DEF TargetReleased
  <2>3. x \in Clients /\ client'[x].target = client[x].target
    BY <1>1, <2>2, StopperFrame DEF Clients
  <2>4. client[x].target \in Daemons /\ daemon[client[x].target].state \in Gone
    BY <1>3, <2>2, <2>3 DEF LockControl
  <2>5. daemon[client[x].target].open = {}
    <3>1. CASE client[x].pc \in {"recovering", "stopped"}
      BY <1>8, <2>2, <2>3, <3>1 DEF TargetReleased
    <3>2. CASE client[x].pc \notin {"recovering", "stopped"}
      <4>1. x = c
        BY <1>1, <2>2, <2>3, <3>2
      <4>2. client[c].pc # "look"
        BY <2>2, <2>3, <4>1 DEF LockControl
      <4>3. WaitForStopped(c)
        BY <3>2, <4>1, <4>2 DEF LookToStop, Recovered, Runs
      <4>4. lock.owner # client[c].target \/ client[c].target \notin alive
        BY <4>3 DEF WaitForStopped
      <4> QED  BY <1>8, <2>4, <4>1, <4>4, GoneWithoutLock
    <3> QED  BY <3>1, <3>2
  <2> QED  BY <2>1, <2>3, <2>4, <2>5 DEF Gone
<1> QED  BY <1>5, <1>6, <1>7, <1>8, StopperFrame

-----------------------------------------------------------------------------
(* The invariant and what follows from it.                                 *)

\* Nothing has started, and nobody holds the guard unless one has died with it.
LEMMA InitLifecycle == Init => LifecycleInv
<1> SUFFICES ASSUME Init  PROVE LifecycleInv
  OBVIOUS
<1>1. StateTypes
  BY InitStateTypes
<1>2. Nobody \notin Processes /\ Ghost \notin Processes
  BY NamesAssumption
<1>3. alive \cap Daemons = {}
  BY UsesAssumption, NamesAssumption DEF Init
<1>4. \A d \in Daemons : daemon[d] = NewDaemon
  BY DEF Init
<1>5. \A c \in Clients : client[c] = NewClient
  BY DEF Init
<1>6. lock.owner \notin Daemons /\ lock.state # "stopping" /\ (lock.state = "ready" => lock.owner = Ghost)
  BY <1>2 DEF Init, NoLock, Processes
<1>7. DaemonControl
  <2>1. \A d \in Daemons : d \notin alive
    BY <1>3
  <2>2. NewDaemon.step = "none" /\ NewDaemon.state = "new" /\ NewDaemon.open = {}
    BY DEF NewDaemon
  <2>3. InControl(NewDaemon, FALSE)
    BY <2>2 DEF InControl, OpenSteps, CloseSteps
  <2> QED  BY <1>4, <2>1, <2>3 DEF DaemonControl, InControl
<1>8. LockControl
  BY <1>5, <1>6 DEF LockControl, NewClient
<1>9. ASSUME faults = {}  PROVE GuardExcludes
  BY <1>2, <1>3, <1>9 DEF Init, GuardExcludes, InGuard, Processes
<1>10. LockProtects
  BY <1>3 DEF LockProtects, HoldsLock
<1>11. TargetReleased
  BY <1>5 DEF TargetReleased, NewClient, Clients
<1> QED  BY <1>1, <1>7, <1>8, <1>9, <1>10, <1>11 DEF LifecycleInv

\* No step of a process breaks the invariant.
LEMMA StepLifecycle == LifecycleInv /\ [Next]_vars => LifecycleInv'
<1> SUFFICES ASSUME LifecycleInv, [Next]_vars  PROVE LifecycleInv'
  OBVIOUS
<1> USE DEF LifecycleInv
<1>1. ASSUME NEW p \in Processes, AcquireStep(p) \/ GiveUpGuard(p)  PROVE LifecycleInv'
  <2>1. UNCHANGED faults
    BY <1>1 DEF AcquireStep, CreateGuard, ReadGuard, RemoveGuard, CreateLock, ReadLock, RemoveLock,
                ReleaseGuard, GiveUpGuard
  <2> QED  BY <1>1, <2>1, AcquireTypes, AcquireControl, AcquireKeepsLock
<1>2. ASSUME NEW d \in Daemons, DaemonStep(d)  PROVE LifecycleInv'
  BY <1>2, DaemonTypes, DaemonStepControl, DaemonStepKeepsLock, DaemonFrame
<1>3. ASSUME NEW d \in Daemons, Signal(d)  PROVE LifecycleInv'
  BY <1>3, DaemonTypes, SignalKeeps DEF Signal
<1>4. ASSUME NEW d \in Daemons, Exits(d)  PROVE LifecycleInv'
  BY <1>4, DaemonTypes, ExitKeeps DEF Exits
<1>5. ASSUME NEW c \in Starters, LookToStart(c) \/ WaitForReady(c)  PROVE LifecycleInv'
  BY <1>5, ClientTypes, StarterKeeps DEF LookToStart, WaitForReady
<1>6. ASSUME NEW c \in Starters, Launch(c)  PROVE LifecycleInv'
  BY <1>6, ClientTypes, LaunchKeeps DEF Launch
<1>7. ASSUME NEW c \in Stoppers, LookToStop(c) \/ WaitForStopped(c) \/ Recovered(c)  PROVE LifecycleInv'
  BY <1>7, ClientTypes, StopperKeeps, StopperFrame
<1>8. CASE UNCHANGED vars
  BY <1>8 DEF vars, StateTypes, DaemonControl, LockControl, GuardExcludes, LockProtects, HoldsLock,
              TargetReleased
<1> QED  BY <1>1, <1>2, <1>3, <1>4, <1>5, <1>6, <1>7, <1>8 DEF Next

\* The invariant holds in every reachable state, for every number of daemons and
\* of commands.
THEOREM LifecycleInvHolds == Spec => []LifecycleInv
<1>1. Init => LifecycleInv
  BY InitLifecycle
<1>2. LifecycleInv /\ [Next]_vars => LifecycleInv'
  BY StepLifecycle
<1> QED  BY <1>1, <1>2, PTL DEF Spec

\* The files hold records of processes, and a daemon that has ended has nothing
\* open, torn reads and a guard left behind included.
THEOREM LifecycleTypes == Spec => []TypeOK
<1>1. LifecycleInv => TypeOK
  BY DEF LifecycleInv, StateTypes, TypeOK, DaemonRecord, ClientRecord, DaemonControl, InControl
<1> QED  BY <1>1, LifecycleInvHolds, PTL

\* Whatever a daemon has open it has open under its own lock, however many
\* daemons and commands race for the lock, clear a dead owner's away, die and
\* start again, as long as no read is torn and nobody dies with the guard.
THEOREM DaemonsServeUnderLock == Spec => []ServesUnderLock
<1>1. LifecycleInv => ServesUnderLock
  <2>1. SUFFICES ASSUME LifecycleInv, faults = {}, NEW d \in Daemons, daemon[d].open # {}
                 PROVE  lock.owner = d
    BY DEF ServesUnderLock
  <2>2. daemon[d].step \in Steps /\ daemon[d].state \in DaemonStates /\ InControl(daemon[d], d \in alive)
    BY <2>1 DEF LifecycleInv, StateTypes, DaemonRecord, DaemonControl
  <2>3. HoldsLock(d)
    BY <2>1, <2>2 DEF InControl, HoldsLock
  <2> QED  BY <2>1, <2>3 DEF LifecycleInv, LockProtects
<1> QED  BY <1>1, LifecycleInvHolds, PTL

\* A stop command reports a daemon as stopped when it has let go of everything.
THEOREM StoppedDaemonsHoldNothing == Spec => []StoppedMeansReleased
<1>1. LifecycleInv => StoppedMeansReleased
  BY DEF LifecycleInv, TargetReleased, StoppedMeansReleased
<1> QED  BY <1>1, LifecycleInvHolds, PTL

\* Two daemons never have the store open at once while no read is torn and nobody
\* dies with the guard: the lock has one owner.
THEOREM OneDaemonServesWithoutFaults == Spec => [](faults = {} => OneDaemonServes)
<1>1. ServesUnderLock => (faults = {} => OneDaemonServes)
  <2> SUFFICES ASSUME ServesUnderLock, faults = {} PROVE OneDaemonServes  OBVIOUS
  <2> DEFINE serving == {d \in Daemons : "store" \in daemon[d].open}
  <2>1. serving \subseteq {lock.owner}  BY DEF ServesUnderLock
  <2>2. IsFiniteSet({lock.owner}) /\ Cardinality({lock.owner}) = 1  BY FS_Singleton
  <2>3. Cardinality(serving) <= 1  BY <2>1, <2>2, FS_Subset
  <2> QED  BY <2>3 DEF OneDaemonServes
<1> QED  BY <1>1, DaemonsServeUnderLock, PTL
=============================================================================
