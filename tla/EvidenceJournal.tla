--------------------------- MODULE EvidenceJournal ---------------------------
(***************************************************************************)
(* The evidence journal of Tekrion: one SQLite database in which the       *)
(* daemon (recording proxied provider exchanges and the events normalized  *)
(* from them) and the wrapper process of every `tekrion run` (recording    *)
(* what the child process does) write under the same sessions, each from   *)
(* its own operating-system process.                                       *)
(*                                                                         *)
(* One action is one SQLite transaction.  The daemon is one JavaScript     *)
(* thread: a synchronous block that issues several transactions keeps      *)
(* daemon.pc away from "idle" until it ends, so no other daemon work gets  *)
(* in between, while the wrappers and a crash can.                         *)
(*                                                                         *)
(* packages/storage/src, apps/daemon/src/proxy/recorder-proxy.ts,          *)
(* apps/daemon/src/normalization/normalization-runner.ts and               *)
(* apps/cli/src/run/run-event-journal.ts.                                  *)
(***************************************************************************)
EXTENDS Integers, Sequences, FiniteSets

CONSTANTS
    RunSessions,     \* sessions opened by `tekrion run`, one wrapper each
    ProxySessions,   \* sessions the sessionizer opens for unwrapped clients
    Exchanges,       \* provider exchanges, each with a fresh random id
    SessionOf,       \* the session the sessionizer resolves an exchange to
    Normalized,      \* the kinds of the events the normalizer derives from it
    NoExchange,      \* "no exchange": the origin of an event of a wrapper
    MaxRecords       \* bound on the records a wrapper makes before its end

Sessions == RunSessions \cup ProxySessions

NormalizedKinds == {"model.event", "model.error"}

ASSUME SessionsAssumption == RunSessions \cap ProxySessions = {}
ASSUME SessionOfAssumption == SessionOf \in [Exchanges -> Sessions]
ASSUME NormalizedAssumption == Normalized \in [Exchanges -> Seq(NormalizedKinds)]
ASSUME NoExchangeAssumption == NoExchange \notin Exchanges
ASSUME MaxRecordsAssumption == MaxRecords \in Nat

VARIABLES
    sessions,           \* table sessions: status and the two counters
    nextSequence,       \* table session_sequences; 0 where there is no row
    rawExchanges,       \* table raw_exchanges
    events,             \* table events
    normalizationRuns,  \* table normalization_runs: the exchanges with a run
    daemon,             \* the daemon's thread: the synchronous block it is in
    jobs,               \* what the daemon still has to do for each exchange
    run                 \* the wrapper process of each run session

vars == <<sessions, nextSequence, rawExchanges, events, normalizationRuns,
          daemon, jobs, run>>

-----------------------------------------------------------------------------
(* Records of the tables and of the processes.                             *)

NoSession == [status |-> "absent", events |-> 0, errors |-> 0]
NoRow == [state |-> "absent", sequence |-> 0, outcome |-> "none", parse |-> "none"]
Idle == [pc |-> "idle", exchange |-> NoExchange, first |-> 0]
Down == [pc |-> "down", exchange |-> NoExchange, first |-> 0]

\* A transport outcome other than "completed" is persisted like
\* "client-disconnected"; "capture-incomplete" replaces any of them.
Outcomes == {"completed", "client-disconnected", "capture-incomplete"}

\* Kinds recorded before the child has a pid, while it runs, and at the end.
EarlyKinds == {"process.started", "workspace.error"}
RunningKinds == {"process.output", "workspace.error"}
TerminalKinds == {"session.ended", "session.crashed"}
RunKinds == EarlyKinds \cup RunningKinds \cup TerminalKinds
              \cup {"session.started", "file.change", "process.exited", "process.error"}

IsError(kind) ==
    kind \in {"workspace.error", "process.error", "session.crashed", "model.error"}

Event == [session : Sessions, sequence : Nat, kind : RunKinds \cup NormalizedKinds,
          exchange : Exchanges \cup {NoExchange}, index : Nat]

Started(x) == rawExchanges[x].state # "absent"

ProcessEvent(s, n, kind) ==
    [session |-> s, sequence |-> n, kind |-> kind, exchange |-> NoExchange, index |-> 0]

\* The rows of one normalization: its i-th event takes the i-th sequence of
\* the block reserved from `first` on.
NormalizedEvents(x, first) ==
    {[session |-> SessionOf[x], sequence |-> first + i - 1, kind |-> Normalized[x][i],
      exchange |-> x, index |-> i] : i \in 1 .. Len(Normalized[x])}

\* Faulty variant of RaisedAbove: next_sequence is assigned, not maximised.
RaisedAssigned(next, rows) ==
    IF rows = {} THEN next
    ELSE 1 + (CHOOSE n \in {e.sequence : e \in rows} : \A e \in rows : e.sequence <= n)

\* next_sequence after rows are inserted: never at or below one of theirs.
RaisedAbove(next, rows) ==
    IF \A e \in rows : e.sequence < next THEN next
    ELSE 1 + (CHOOSE n \in {e.sequence : e \in rows} : \A e \in rows : e.sequence <= n)

\* Faulty variant of InsertEvents: the counters are bumped once a transaction.
InsertEventsCountedOnce(s, rows, status, next) ==
    /\ \A e \in events, r \in rows : e.session = s => e.sequence # r.sequence
    /\ events' = events \cup rows
    /\ nextSequence' = [nextSequence EXCEPT ![s] = RaisedAbove(next, rows)]
    /\ sessions' = [sessions EXCEPT ![s] =
            [status |-> status,
             events |-> @.events + 1,
             errors |-> @.errors + (IF \E e \in rows : IsError(e.kind) THEN 1 ELSE 0)]]

\* EventRepository.insertRow for each row of `rows`, all of session s, whose
\* next_sequence is `next`: the rows (unique by session and sequence), the two
\* counters of the session, and next_sequence.
InsertEvents(s, rows, status, next) ==
    /\ \A e \in events, r \in rows : e.session = s => e.sequence # r.sequence
    /\ events' = events \cup rows
    /\ nextSequence' = [nextSequence EXCEPT ![s] = RaisedAbove(next, rows)]
    /\ sessions' = [sessions EXCEPT ![s] =
            [status |-> status,
             events |-> @.events + Cardinality(rows),
             errors |-> @.errors + Cardinality({e \in rows : IsError(e.kind)})]]

-----------------------------------------------------------------------------
Init ==
    /\ sessions = [s \in Sessions |-> NoSession]
    /\ nextSequence = [s \in Sessions |-> 0]
    /\ rawExchanges = [x \in Exchanges |-> NoRow]
    /\ events = {}
    /\ normalizationRuns = {}
    /\ daemon = Down
    /\ jobs = [x \in Exchanges |-> "new"]
    /\ run = [s \in RunSessions |-> [pc |-> "new", spawned |-> FALSE,
                                     kind |-> "session.started", sequence |-> 0,
                                     records |-> 0]]

-----------------------------------------------------------------------------
(* The daemon.                                                             *)

\* Faulty variant of DaemonStart: recovery selects the rows not yet parsed.
DaemonStartByParse ==
    /\ daemon.pc = "down"
    /\ daemon' = Idle
    /\ rawExchanges' = [x \in Exchanges |->
          LET row == rawExchanges[x] IN
          IF row.parse # "pending" THEN row
          ELSE [state |-> "recovered", sequence |-> row.sequence,
                outcome |-> "capture-incomplete", parse |-> "skipped"]]
    /\ UNCHANGED <<sessions, nextSequence, events, normalizationRuns, jobs, run>>

\* Faulty variant of DaemonStart: the database is opened without recovery.
DaemonStartUnrecovered ==
    /\ daemon.pc = "down"
    /\ daemon' = Idle
    /\ UNCHANGED <<sessions, nextSequence, rawExchanges, events, normalizationRuns,
                   jobs, run>>

\* openTekrionStorage of the daemon: every exchange left in `recording` by an
\* earlier daemon is marked recovered, in one transaction, before it serves.
DaemonStart ==
    /\ daemon.pc = "down"
    /\ daemon' = Idle
    /\ rawExchanges' = [x \in Exchanges |->
          LET row == rawExchanges[x] IN
          IF row.state # "recording" THEN row
          ELSE [state |-> "recovered", sequence |-> row.sequence,
                outcome |-> "capture-incomplete",
                parse |-> IF row.parse = "pending" THEN "skipped" ELSE row.parse]]
    /\ UNCHANGED <<sessions, nextSequence, events, normalizationRuns, jobs, run>>

\* The daemon is killed: what it holds in memory is lost, the tables stay.
DaemonCrash ==
    /\ daemon.pc # "down"
    /\ daemon' = Down
    /\ jobs' = [x \in Exchanges |-> IF jobs[x] = "new" THEN "new" ELSE "done"]
    /\ UNCHANGED <<sessions, nextSequence, rawExchanges, events, normalizationRuns, run>>

\* ensureSession: the session of a new exchange is created, active, when it
\* does not exist.  The id of a run session is a fresh random one, known to
\* clients only once its wrapper has opened it.
EnsureSession(x) ==
    LET s == SessionOf[x] IN
    /\ daemon.pc = "idle"
    /\ jobs[x] = "new"
    /\ s \in RunSessions => run[s].pc # "new"
    /\ IF sessions[s].status = "absent"
       THEN /\ sessions' = [sessions EXCEPT ![s] = [status |-> "active",
                                                    events |-> 0, errors |-> 0]]
            /\ nextSequence' = [nextSequence EXCEPT ![s] = 1]
       ELSE UNCHANGED <<sessions, nextSequence>>
    /\ daemon' = [pc |-> "reserve", exchange |-> x, first |-> 0]
    /\ jobs' = [jobs EXCEPT ![x] = "done"]
    /\ UNCHANGED <<rawExchanges, events, normalizationRuns, run>>

\* Faulty variant of ReserveForExchange: the sequence is read, not advanced.
ReserveForExchangeByRead ==
    /\ daemon.pc = "reserve"
    /\ nextSequence[SessionOf[daemon.exchange]] # 0
    /\ daemon' = [pc |-> "begin", exchange |-> daemon.exchange,
                  first |-> nextSequence[SessionOf[daemon.exchange]]]
    /\ UNCHANGED <<sessions, nextSequence, rawExchanges, events, normalizationRuns,
                   jobs, run>>

\* createEvidenceState: the sequence of the exchange, by one UPDATE.
ReserveForExchange ==
    LET s == SessionOf[daemon.exchange] IN
    /\ daemon.pc = "reserve"
    /\ nextSequence[s] # 0
    /\ daemon' = [pc |-> "begin", exchange |-> daemon.exchange, first |-> nextSequence[s]]
    /\ nextSequence' = [nextSequence EXCEPT ![s] = @ + 1]
    /\ UNCHANGED <<sessions, rawExchanges, events, normalizationRuns, jobs, run>>

\* RawExchangeRepository.begin: the row, unique by session and sequence, in
\* state `recording`.
BeginExchange ==
    LET x == daemon.exchange IN
    /\ daemon.pc = "begin"
    /\ sessions[SessionOf[x]].status # "absent"
    /\ \A y \in Exchanges : SessionOf[y] = SessionOf[x] /\ Started(y)
                            => rawExchanges[y].sequence # daemon.first
    /\ rawExchanges' = [rawExchanges EXCEPT ![x] =
          [state |-> "recording", sequence |-> daemon.first,
           outcome |-> "capture-incomplete", parse |-> "pending"]]
    /\ jobs' = [jobs EXCEPT ![x] = "open"]
    /\ daemon' = Idle
    /\ UNCHANGED <<sessions, nextSequence, events, normalizationRuns, run>>

\* finish and persistEvidence once the blobs are stored: RawExchangeRepository
\* .finalize of a row still in `recording`.
FinalizeExchange(x) ==
    /\ daemon.pc = "idle"
    /\ jobs[x] = "open"
    /\ rawExchanges[x].state = "recording"
    /\ \E outcome \in Outcomes :
          rawExchanges' = [rawExchanges EXCEPT ![x] =
              [state |-> "complete", sequence |-> @.sequence, outcome |-> outcome,
               parse |-> IF outcome = "completed" THEN "pending" ELSE "skipped"]]
    /\ jobs' = [jobs EXCEPT ![x] = "finalized"]
    /\ UNCHANGED <<sessions, nextSequence, events, normalizationRuns, daemon, run>>

\* normalizeExchange after the stored bodies are read back: the sequences of
\* its events, by one UPDATE (no UPDATE, and no change, for no events).
ReserveForEvents(x) ==
    LET s == SessionOf[x] IN
    /\ daemon.pc = "idle"
    /\ jobs[x] = "finalized"
    /\ Started(x)
    /\ daemon' = [pc |-> "normalize", exchange |-> x, first |-> nextSequence[s]]
    /\ nextSequence' = [nextSequence EXCEPT ![s] = @ + Len(Normalized[x])]
    /\ UNCHANGED <<sessions, rawExchanges, events, normalizationRuns, jobs, run>>

\* Faulty variant of InsertNormalization: the run is left to a later transaction.
InsertNormalizationWithoutRun ==
    LET x == daemon.exchange IN
    /\ daemon.pc = "normalize"
    /\ Started(x)
    /\ x \notin normalizationRuns
    /\ InsertEvents(SessionOf[x], NormalizedEvents(x, daemon.first),
                    sessions[SessionOf[x]].status, nextSequence[SessionOf[x]])
    /\ rawExchanges' = [rawExchanges EXCEPT ![x].parse = "parsed"]
    /\ jobs' = [jobs EXCEPT ![x] = "done"]
    /\ daemon' = Idle
    /\ UNCHANGED <<normalizationRuns, run>>

\* EventRepository.insertNormalization: the events, the run and the parse
\* status of the exchange in one transaction.  "parsed" stands for whichever
\* final status the normalizer returned (parsed, unsupported, malformed).
InsertNormalization ==
    LET x == daemon.exchange
        s == SessionOf[x] IN
    /\ daemon.pc = "normalize"
    /\ Started(x)
    /\ x \notin normalizationRuns
    /\ InsertEvents(s, NormalizedEvents(x, daemon.first), sessions[s].status,
                    nextSequence[s])
    /\ normalizationRuns' = normalizationRuns \cup {x}
    /\ rawExchanges' = [rawExchanges EXCEPT ![x].parse = "parsed"]
    /\ jobs' = [jobs EXCEPT ![x] = "done"]
    /\ daemon' = Idle
    /\ UNCHANGED run

\* A storage call of a synchronous block throws (the session was deleted, the
\* database is busy or full): the exchange is served unrecorded, or stays
\* without normalized events; what was reserved is lost.
DaemonBlockFails ==
    /\ daemon.pc \in {"reserve", "begin", "normalize"}
    /\ jobs' = [jobs EXCEPT ![daemon.exchange] = "done"]
    /\ daemon' = Idle
    /\ UNCHANGED <<sessions, nextSequence, rawExchanges, events, normalizationRuns, run>>

\* persistEvidence fails outside such a block: its row is gone, finalize is
\* refused, or the stored bodies cannot be read back for the normalizer.
PersistFails(x) ==
    /\ daemon.pc = "idle"
    /\ jobs[x] \in {"open", "finalized"}
    /\ jobs' = [jobs EXCEPT ![x] = "done"]
    /\ UNCHANGED <<sessions, nextSequence, rawExchanges, events, normalizationRuns,
                   daemon, run>>

-----------------------------------------------------------------------------
(* The wrapper of a run: RunEventJournal, whose operations run one by one. *)

\* Faulty variant of OpenRun: the wrapper opens the database with recovery on.
OpenRunRecovering(s) ==
    /\ run[s].pc = "new"
    /\ sessions[s].status = "absent"
    /\ events' = events \cup {ProcessEvent(s, 1, "session.started")}
    /\ sessions' = [sessions EXCEPT ![s] = [status |-> "active", events |-> 1, errors |-> 0]]
    /\ nextSequence' = [nextSequence EXCEPT ![s] = 2]
    /\ rawExchanges' = [x \in Exchanges |->
          IF rawExchanges[x].state # "recording" THEN rawExchanges[x]
          ELSE [rawExchanges[x] EXCEPT !.state = "recovered", !.parse = "skipped"]]
    /\ run' = [run EXCEPT ![s].pc = "ready"]
    /\ UNCHANGED <<normalizationRuns, daemon, jobs>>

\* The constructor: the session and `session.started`, in one transaction.
OpenRun(s) ==
    /\ run[s].pc = "new"
    /\ sessions[s].status = "absent"
    /\ events' = events \cup {ProcessEvent(s, 1, "session.started")}
    /\ sessions' = [sessions EXCEPT ![s] = [status |-> "active", events |-> 1, errors |-> 0]]
    /\ nextSequence' = [nextSequence EXCEPT ![s] = 2]
    /\ run' = [run EXCEPT ![s].pc = "ready"]
    /\ UNCHANGED <<rawExchanges, normalizationRuns, daemon, jobs>>

\* insertEvent outside a transaction, first half: the sequence is reserved.
ReserveForRun(s) ==
    /\ run[s].pc = "ready"
    /\ run[s].records < MaxRecords
    /\ \E kind \in IF run[s].spawned THEN RunningKinds ELSE EarlyKinds :
          run' = [run EXCEPT ![s] = [pc |-> "insert",
                                     spawned |-> @.spawned \/ kind = "process.started",
                                     kind |-> kind,
                                     sequence |-> nextSequence[s],
                                     records |-> @.records + 1]]
    /\ nextSequence' = [nextSequence EXCEPT ![s] = @ + 1]
    /\ UNCHANGED <<sessions, rawExchanges, events, normalizationRuns, daemon, jobs>>

\* insertEvent outside a transaction, second half: the row is inserted.
InsertRunEvent(s) ==
    /\ run[s].pc = "insert"
    /\ InsertEvents(s, {ProcessEvent(s, run[s].sequence, run[s].kind)}, sessions[s].status,
                    nextSequence[s])
    /\ run' = [run EXCEPT ![s].pc = "ready"]
    /\ UNCHANGED <<rawExchanges, normalizationRuns, daemon, jobs>>

\* recordFileChange and recordWorkspaceSnapshot: both halves in a transaction.
RecordWorkspace(s) ==
    /\ run[s].pc = "ready"
    /\ run[s].records < MaxRecords
    /\ InsertEvents(s, {ProcessEvent(s, nextSequence[s], "file.change")}, sessions[s].status,
                    nextSequence[s] + 1)
    /\ run' = [run EXCEPT ![s].records = @ + 1]
    /\ UNCHANGED <<rawExchanges, normalizationRuns, daemon, jobs>>

\* Faulty variant of EndRun: it does not wait for the operation in progress.
EndRunUnqueued(s, last, terminal, status) ==
    /\ run[s].pc \in {"ready", "insert"}
    /\ InsertEvents(s, {ProcessEvent(s, nextSequence[s], last),
                        ProcessEvent(s, nextSequence[s] + 1, terminal)}, status,
                    nextSequence[s] + 2)
    /\ run' = [run EXCEPT ![s].pc = IF @ = "ready" THEN "ended" ELSE "insert"]
    /\ UNCHANGED <<rawExchanges, normalizationRuns, daemon, jobs>>

\* The two last events of a run and the end of its session, one transaction.
EndRun(s, last, terminal, status) ==
    /\ run[s].pc = "ready"
    /\ InsertEvents(s, {ProcessEvent(s, nextSequence[s], last),
                        ProcessEvent(s, nextSequence[s] + 1, terminal)}, status,
                    nextSequence[s] + 2)
    /\ run' = [run EXCEPT ![s].pc = "ended"]
    /\ UNCHANGED <<rawExchanges, normalizationRuns, daemon, jobs>>

\* finish, after the child has exited.
FinishRun(s) ==
    run[s].spawned /\ EndRun(s, "process.exited", "session.ended", "completed")

\* Faulty variant of FailRun: a status the session schema does not have.
FailRunUnknownStatus(s) ==
    ~run[s].spawned /\ EndRun(s, "process.error", "session.crashed", "failed")

\* fail, when the child could not be spawned.
FailRun(s) ==
    ~run[s].spawned /\ EndRun(s, "process.error", "session.crashed", "crashed")

\* The wrapper is killed, or one of its storage calls throws and every later
\* operation of its queue is skipped: nothing more is written for the run.
LoseRun(s) ==
    /\ run[s].pc \in {"ready", "insert"}
    /\ run' = [run EXCEPT ![s].pc = "lost"]
    /\ UNCHANGED <<sessions, nextSequence, rawExchanges, events, normalizationRuns,
                   daemon, jobs>>

-----------------------------------------------------------------------------
\* Faulty variant of RemoveSession: active sessions may be deleted.
RemoveAnySession(s) ==
    /\ sessions[s].status # "absent"
    /\ sessions' = [sessions EXCEPT ![s] = NoSession]
    /\ nextSequence' = [nextSequence EXCEPT ![s] = 0]
    /\ rawExchanges' = [x \in Exchanges |->
                           IF SessionOf[x] = s THEN NoRow ELSE rawExchanges[x]]
    /\ events' = {e \in events : e.session # s}
    /\ normalizationRuns' = {x \in normalizationRuns : SessionOf[x] # s}
    /\ UNCHANGED <<daemon, jobs, run>>

\* executeEvidenceDeletion, in a CLI process of its own: a session that is not
\* active is deleted and every row of it goes with it.
RemoveSession(s) ==
    /\ sessions[s].status \in {"completed", "crashed"}
    /\ sessions' = [sessions EXCEPT ![s] = NoSession]
    /\ nextSequence' = [nextSequence EXCEPT ![s] = 0]
    /\ rawExchanges' = [x \in Exchanges |->
                           IF SessionOf[x] = s THEN NoRow ELSE rawExchanges[x]]
    /\ events' = {e \in events : e.session # s}
    /\ normalizationRuns' = {x \in normalizationRuns : SessionOf[x] # s}
    /\ UNCHANGED <<daemon, jobs, run>>

-----------------------------------------------------------------------------
DaemonStep ==
    \/ \E x \in Exchanges : EnsureSession(x) \/ FinalizeExchange(x)
                              \/ ReserveForEvents(x) \/ PersistFails(x)
    \/ ReserveForExchange
    \/ BeginExchange
    \/ InsertNormalization
    \/ DaemonBlockFails

RunStep(s) ==
    \/ OpenRun(s)
    \/ ReserveForRun(s)
    \/ InsertRunEvent(s)
    \/ RecordWorkspace(s)
    \/ FinishRun(s)
    \/ FailRun(s)
    \/ LoseRun(s)

Next ==
    \/ DaemonStart
    \/ DaemonCrash
    \/ DaemonStep
    \/ \E s \in RunSessions : RunStep(s)
    \/ \E s \in Sessions : RemoveSession(s)

\* A supervisor or the next `tekrion start` brings a dead daemon up again.
Spec == Init /\ [][Next]_vars /\ WF_vars(DaemonStart)
-----------------------------------------------------------------------------
(* Properties.                                                             *)

\* The type of every table and of every process.
TypeOK ==
    /\ sessions \in [Sessions -> [status : {"absent", "active", "completed", "crashed"},
                                  events : Nat, errors : Nat]]
    /\ nextSequence \in [Sessions -> Nat]
    /\ rawExchanges \in [Exchanges ->
          [state : {"absent", "recording", "complete", "recovered"}, sequence : Nat,
           outcome : Outcomes \cup {"none"},
           parse : {"none", "pending", "parsed", "skipped"}]]
    /\ events \subseteq Event
    /\ normalizationRuns \subseteq Exchanges
    /\ daemon \in [pc : {"down", "idle", "reserve", "begin", "normalize"},
                   exchange : Exchanges \cup {NoExchange}, first : Nat]
    /\ jobs \in [Exchanges -> {"new", "open", "finalized", "done"}]
    /\ run \in [RunSessions -> [pc : {"new", "ready", "insert", "ended", "lost"},
                                spawned : BOOLEAN, kind : RunKinds, sequence : Nat,
                                records : Nat]]

\* The sequences a process holds: reserved, and not yet in a row.
HeldByDaemon(s) ==
    IF daemon.pc \in {"begin", "normalize"} /\ SessionOf[daemon.exchange] = s
    THEN daemon.first .. daemon.first +
            (IF daemon.pc = "begin" THEN 0 ELSE Len(Normalized[daemon.exchange]) - 1)
    ELSE {}

HeldByRun(s) ==
    IF s \in RunSessions /\ run[s].pc = "insert" THEN {run[s].sequence} ELSE {}

EventsUnique ==
    \A e, f \in events : e.session = f.session /\ e.sequence = f.sequence => e = f

ExchangesUnique ==
    \A x, y \in Exchanges :
        Started(x) /\ Started(y) /\ SessionOf[x] = SessionOf[y]
          /\ rawExchanges[x].sequence = rawExchanges[y].sequence => x = y

EventsApartFromExchanges ==
    \A e \in events, x \in Exchanges :
        Started(x) /\ e.session = SessionOf[x] => e.sequence # rawExchanges[x].sequence

Unused(s, n) ==
    /\ n < nextSequence[s]
    /\ \A e \in events : e.session = s => e.sequence # n
    /\ \A x \in Exchanges : Started(x) /\ SessionOf[x] = s => rawExchanges[x].sequence # n

HeldAreUnused ==
    \A s \in Sessions : sessions[s].status # "absent" =>
        /\ HeldByDaemon(s) \cap HeldByRun(s) = {}
        /\ \A n \in HeldByDaemon(s) \cup HeldByRun(s) : Unused(s, n)

\* "Sequence gaps after crashes are allowed; reuse is not": in a session that
\* exists, no two exchanges, events or reservations ever have one sequence,
\* whichever process made them and whatever crashed in between.  The two
\* tables have a UNIQUE constraint each and none across them.
NoSequenceReuse ==
    EventsUnique /\ ExchangesUnique /\ EventsApartFromExchanges /\ HeldAreUnused

\* The counters a session row carries are those of the events stored for it,
\* although daemon and wrapper both bump them and the wrapper rewrites the row.
CountersMatchEvents ==
    \A s \in Sessions :
        LET stored == {e \in events : e.session = s} IN
        /\ sessions[s].events = Cardinality(stored)
        /\ sessions[s].errors = Cardinality({e \in stored : IsError(e.kind)})

\* A normalization is stored whole or not at all: an exchange has a run exactly
\* when it is complete and parsed, and then it has its events, in the parser's
\* order on consecutive sequences, after its own.
NormalizationAtomic ==
    \A x \in Exchanges :
        LET derived == {e \in events : e.exchange = x} IN
        /\ x \in normalizationRuns <=> rawExchanges[x].parse = "parsed"
        /\ IF x \in normalizationRuns
           THEN /\ rawExchanges[x].state = "complete"
                /\ \E first \in rawExchanges[x].sequence + 1 .. nextSequence[SessionOf[x]] :
                      derived = NormalizedEvents(x, first)
           ELSE derived = {}

\* Start-up recovery never closes an exchange the daemon is still recording:
\* its row stays `recording` until the daemon finalizes it itself or the
\* session is deleted; and outside start-up only a lost job leaves one behind.
OpenJobIsRecording ==
    \A x \in Exchanges :
        /\ jobs[x] = "open" => rawExchanges[x].state \in {"recording", "absent"}
        /\ jobs[x] = "finalized" => rawExchanges[x].state \in {"complete", "absent"}
        /\ jobs[x] = "new" => rawExchanges[x].state = "absent"

\* A run's terminal event comes after every other event of its wrapper, and
\* its session has then ended.
TerminalEventIsLast ==
    \A e \in events : e.kind \in TerminalKinds =>
        /\ sessions[e.session].status
             = (IF e.kind = "session.ended" THEN "completed" ELSE "crashed")
        /\ \A f \in events : f.session = e.session /\ f.exchange = NoExchange
                               => f.sequence <= e.sequence

\* The outcome of an exchange that is complete or recovered never changes, and
\* an event once stored never disappears, except with its whole session.
EvidenceIsImmutable ==
    [][/\ \A x \in Exchanges :
             rawExchanges[x].state \in {"complete", "recovered"} =>
                \/ [rawExchanges'[x] EXCEPT !.parse = rawExchanges[x].parse] = rawExchanges[x]
                \/ sessions'[SessionOf[x]].status = "absent"
       /\ \A e \in events : e \in events' \/ sessions'[e.session].status = "absent"]_vars

\* A sequence number is never taken back: next_sequence only grows while the
\* session exists, through crashes and restarts of every process.
SequencesOnlyGrow ==
    [][\A s \in Sessions : nextSequence'[s] >= nextSequence[s]
                             \/ sessions'[s].status = "absent"]_vars

\* An exchange a dead daemon left in `recording` does not stay in it.
CrashedRecordingIsClosed ==
    \A x \in Exchanges :
        daemon.pc = "down" /\ rawExchanges[x].state = "recording"
            ~> rawExchanges[x].state # "recording"

-----------------------------------------------------------------------------
(* The journal implements the abstract log.                                *)

LogRecords ==
    {[session |-> SessionOf[x], position |-> rawExchanges[x].sequence, entry |-> <<x, 0>>]
        : x \in {y \in Exchanges : Started(y)}}
    \cup
    {[session |-> e.session, position |-> e.sequence,
      entry |-> <<e.exchange, IF e.exchange = NoExchange THEN e.sequence ELSE e.index>>]
        : e \in events}

Log == INSTANCE EvidenceLog WITH
    LogSessions <- Sessions,
    LogExchanges <- Exchanges,
    LogOutcomes <- Outcomes,
    open <- {s \in Sessions : sessions[s].status = "active"},
    ended <- {s \in Sessions : sessions[s].status \in {"completed", "crashed"}},
    issued <- [s \in Sessions |-> IF nextSequence[s] = 0 THEN 0 ELSE nextSequence[s] - 1],
    written <- LogRecords,
    sealed <- {[exchange |-> x, outcome |-> rawExchanges[x].outcome]
                  : x \in {y \in Exchanges : rawExchanges[y].state \in {"complete", "recovered"}}}

\* Readers of the tables see an append-only log per session.
ImplementsLog == Log!LogSpec
=============================================================================
