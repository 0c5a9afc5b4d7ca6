# Tekrion in TLA+

Tekrion is a local flight recorder for AI coding agents. A daemon proxies the
agent's provider traffic and records every exchange byte for byte; a wrapper
process (`tekrion run`) starts the agent and records its output, its exit and
the changes of its workspace; normalizers turn recorded exchanges into
canonical events; a cockpit in the browser, reports and archives read what was
recorded. Everything ends up in one SQLite database and one blob directory,
which several processes open at the same time.

This directory holds TLA+ modules translated from that source, the TLC
configurations that check them, and proofs checked by TLAPS.

## Inventory

| Component | State it keeps | Operations | Hard behaviour | What makes it correct |
|---|---|---|---|---|
| Evidence storage (`packages/storage`) | sessions with counters, next sequence of each session, raw exchanges, events, normalization runs | create / replace / remove a session, reserve sequences, begin / finalize an exchange, insert events, insert a normalization, recover | several processes write one session; a crash between any two transactions; deletion under an exchange in flight | sequences are never reused; a finalized exchange is immutable; normalizations are atomic; counters agree with rows; recovery closes what a crash left open and nothing else |
| Normalization runner (`apps/daemon/src/normalization`) | none of its own | read the bodies, reserve, insert | reservation and insertion are two transactions with another process in between | one run per exchange and parser version, events contiguous and ordered |
| Recorder proxy (`apps/daemon/src/proxy`) | per exchange: two bounded captures, a manifest, flags; shared: memory budget, active exchanges, pending journals, health counters | handle a request and the stream events it causes, settle a session, close | the events that end an exchange race each other; evidence is persisted by an async function while bytes still flow | the first outcome stands; the row never claims more than was stored; memory is bounded and given back; close drains; recording fails open |
| Live stream (`apps/daemon/src/query`) and cockpit loading (`apps/viewer`) | server: a cursor per stream, the connection count; browser: loaded events and a cursor | pages, connect, poll, send, receive, reconnect | the two ends of a connection notice its death at different times; rows appear below a cursor | no event lost, repeated or reordered; connection places are not leaked |
| Run event journal (`apps/cli/src/run`) | promise queue, pid, terminal flag | open, start, output, workspace records, finish, fail | one failed record poisons the queue; two processes write the session | the terminal event is last; the session ends with it |
| Blob store (`packages/storage/src/blob-store.ts`) | rows, files, temporary files, quota | put, get, collect garbage, remove temporary files | put in one process against collection in another; crash between file and row | a referenced blob can always be read back |
| Daemon lifecycle and lock (`apps/daemon/src/lifecycle`) | lock file, acquisition guard, state of start and stop | acquire, update, release, recover a stale lock; start, stop, signals | two starters and a stale lock; stop during start; a kill at any step; a file replaced while it is read | what a daemon has open it has open under its lock; a stop that was asked for is carried out |
| Sessionizer (`apps/daemon/src/sessionization`) | response ancestry, heuristic sessions with an idle window | resolve, register a response, expire, rebuild after a restart | contradicting signals, expiry at its limit, restarts | analysis and investigated traffic never share a session; ancestry is what the evidence shows |
| CLI run supervision (`apps/cli/src`) | child process, watcher samples, snapshots, operation queue, deadline | baseline, spawn, forward signals, observe, final snapshot, end | a failed record poisons the queue; files change under the snapshots; the deadline passes | a run that does not call its evidence incomplete has all of it; the wrapper exits |
| Archive and retention (`apps/daemon/src/archive`) | none of its own | plan and execute deletion, export, verify, import | an export reads while the session grows; preview and execution are apart; import fails half way | an imported session is a snapshot with its bodies; a deletion keeps its preview |
| Schema migrations (`packages/storage/src/migrations.ts`, `storage.ts`) | version, ledger, triggers, backups | open, back up, migrate, refuse | several builds and processes on one store; triggers of one migration against the updates of the next | what is replaced is backed up; upgrades succeed |
| Normalizers (`packages/normalizers`) | the assemblies of one stream | decode, detect replays, assemble, diagnose | cuts at any place, interleaved, replayed and conflicting frames | each call from its own fragments; damage is visible |
| Context reconstruction (`packages/context`) | the chain so far | follow predecessors, label completeness | the evidence grows between the awaits; ids repeat or form cycles | a chain called complete is one |
| Analysis (`packages/analysis`, `apps/daemon/src/query/evidence-query-service.ts`) | cached analyses, runs of the provider | blame, report, preview, consent, transmission | requests at once on a growing session; preview and consent apart | later evidence changes nothing; equal answers; consent covers what is sent |
| Protocol schemas, cockpit components, adapters, demo, fixtures, scripts | none of interest | validation, rendering, stubs | | not modelled |

Interaction: the CLI starts the daemon and talks to its control server; the
daemon and every wrapper open the same database and blob directory, each in
its own process and without a common lock besides SQLite's; the proxy calls
the sessionizer, the storage and the normalization runner; `tekrion run`
settles its session in the proxy through the control server before it ends;
the cockpit reads through the query routes and follows the live stream.

## Modules

| Module | Models |
|---|---|
| `EvidenceJournal` | the tables and every transaction that writes them, with the daemon, the wrappers, deletion and crashes |
| `EvidenceLog` | what readers rely on: per session, a log with unique positions whose sealed exchanges never change |
| `LiveEventStream` | writers, the server's streams and the browser's loading and reconnecting |
| `RecorderExchange` | the callbacks of proxied exchanges, their captures, journals, settlement and close |
| `BlobStore` | rows, files and temporary files of the blob store, its puts, start-up cleaning and collection, in several processes |
| `DaemonLifecycle` | the lock and its guard, daemons that start, fail, stop and die, and the commands that start and stop them |
| `WorkspaceChanges`, `WrappedRun` | what a change of the workspace is, and one `tekrion run` from baseline to exit |
| `SseDecoder` | the incremental decoder of a body cut anywhere |
| `ParsedStream`, `ChatCompletions`, `ResponsesApi`, `AnthropicMessages`, `Normalizers` | what the normalizers share, each provider's state machine, and their composition over every short stream and whole body |
| `Sessionization` | the session of a request, ancestry, idle clients, restarts |
| `ContextReconstruction` | response chains followed while they are recorded |
| `DeterministicBlame`, `AnalysisService` | the analyzer as operators over a log of events, and the service that caches, reports and transmits, with concurrent requests |
| `ArchiveTransfer` | export, verification, import, prune plan, deletion |
| `SchemaMigration` | opening a store by processes of several builds |
| `EvidenceComponents` | instances of the sessionizer, the chains, the archives and deletion, the schema and the blob store with the assumptions about their constants |
| `Components` | those and the other components that share no state, one per behaviour, and their properties |
| `EvidenceJournalProofs`, `LiveEventStreamProofs`, `RecorderExchangeProofs`, `DaemonLifecycleProofs`, `WrappedRunProofs`, `AnalysisServiceProofs`, `EvidenceComponentsProofs` | the inductive invariants of those modules and what follows from them |
| `ComponentsProofs` | the properties of `Components`, from the invariants of its instances |
| `MC*` | constants for TLC |

### EvidenceJournal

One action is one SQLite transaction, because another process (or a crash) can
come between any two. The daemon is one JavaScript thread: `daemon.pc` is
"idle" between its synchronous blocks and names the next transaction inside
one (`createEvidenceState`: ensure session, reserve, begin; normalization:
reserve, insert), so blocks of two exchanges never mix, as in the code, while
the wrapper can step in everywhere. `jobs[x]` is what the thread still has to
do for an exchange. `run[s]` is a wrapper; its operations run one after the
other (the promise queue), and only output and error records consist of two
transactions (reserve, insert), the others being wrapped in one. Tables are
functions or sets of records; columns are kept as far as a property or a guard
reads them. A normalizer is the sequence of kinds it derives (`Normalized`).
An action with a refused insertion (a UNIQUE or foreign key violation) is not
enabled; the code's handling of the exception is `DaemonBlockFails`,
`PersistFails` or `LoseRun`. Identifiers are random and not reused, so a session
that was removed is not opened again by its wrapper, but a client that still
carries its id lets `EnsureSession` create it anew, as the proxy does.

Properties: `NoSequenceReuse`, `CountersMatchEvents`, `NormalizationAtomic`,
`OpenJobIsRecording`, `TerminalEventIsLast`, `EvidenceIsImmutable`,
`SequencesOnlyGrow`, `CrashedRecordingIsClosed`, and `ImplementsLog`:
`EvidenceLog` with `issued` as the sequences handed out, `written` as the rows
of both tables and `sealed` as the finalized or recovered exchanges.

### LiveEventStream

`streams[c]` is the server's end of a connection (cursor, the rest of the
batch, what is in flight), `viewers[v]` the browser's end (what was loaded,
the cursor it would reconnect from). `Drop` and `Reload` break the browser's
end; the server's stream keeps its place until `CloseStream`. Writers reserve
blocks and insert or abandon them later, as `EvidenceJournal` shows they do. A
viewer takes a set of sequences; identities and payloads of events are left
out. Heartbeats and delays change nothing but time.

`NoEventIsSkipped` holds with one writing process, and is checked there; with two it does
not, which `live_two_writers` shows through `OfflineEventsAreReplayed`.

### RecorderExchange

One action is one callback, or the part of `persistEvidence` between two
awaits. `upload` and `download` are the two streams as node reports them;
`captures` counts bytes; `journal[x]` is where `persistEvidence` stands and
what it copied before it waited. `Finish` is `finish` with the synchronous
start of `persistEvidence`, for a set of exchanges because `settleSession` and
`close` call it in a loop with no await. `proxy = "crashed"` is an exception
that nothing catches. The storage of the manifest is folded into the step that
finalizes the row: the last await before it, with nothing read in between that
a callback could not equally change before. An upstream timeout is an upstream
error.

### BlobStore

`rows`, `files` and `temps` are the table, the final paths and the temporary
files; `put[w]` is where one call of `put` stands between two awaits, and a
process may have several at once and dies with all of them. What a content is
made of, its codec and its digest are left out: a file is renamed whole, so it
is there or not. `Refer` is the caller's later transaction with its foreign
key; `GiveUp` is a caller that does not get that far. `Inspect` is a CLI command
that opens the store for writing only to read it. A failing `chmod` or directory
sync after the rename is the `Fail` of the insertion that follows.

Nothing in the code keeps a put apart from start-up cleaning, from collection
or from another put's clean-up after a failure, and each of these alone
can leave a row without its file. `overlapping` says which of them overlap puts in
a behaviour: `RowsAreReadable` is claimed where none does (puts still overlap
puts and crashes), `QuotaOvershootIsBounded` always, and `blob_collection` lets
collection overlap.

### DaemonLifecycle

One action is one file operation or one await. `acq[p]` is where a process stands
in `DaemonLock.acquire`, a daemon's or the one a command uses to clear an
abandoned lock (`recoverAbandonedLock`). `daemon[d].step` is the next await of
start or stop, `open` what it has open, and `client` a command and its waiting
loop. `Replace` is a rename over the lock: with the fault "torn", a process that is
reading the lock just then reads an error, as `readPrivateTextFile` raises one when
the file it opened is no longer the file at the path. With "guard" the guard of a
process that died is left; since two processes may then remove it one after the
other (the second a live one), that fault is checked with one starter. Time is
left out: a waiting loop may give up whenever it has not got its answer.

`ServesUnderLock` is per daemon: whatever is open is open while the lock names
that daemon. With "torn" two daemons can serve, which `daemon_torn_read` shows.

### WorkspaceChanges and WrappedRun

`WorkspaceChanges` has the functions on snapshots: the exact difference, the
guess of the watcher from its samples, and the pairing of deletion and creation
as a rename when the content is on both sides unique. `WrappedRun` is commandRun:
`queue` is the promise chain of the run journal with the owner of each operation,
`Rejects` the failure of one, after which every later one rejects as well. Files
change at any time, also under the snapshots; a path that changed while it was
read is in `reasons`. The deadline can expire at any await of the cleanup.

### SseDecoder, ParsedStream and the normalizers

A character is one of two line ends or any other. `SplitsAreInvisible` compares
the frames at every moment, and the incomplete rest at the end, with those of the
text read at once: one character after the other, without a buffer (`Reading`).
A frame of a provider's stream is [index, id, data] where `data` says what the
normalizer's `switch` asks of the JSON; a text is a sequence of pieces, and the
arguments of a call are readable when they are "open" and then "close". `Accept`
of each module is the switch, `Semantic` and `Finish` what follows the last
frame. `Normalizers` feeds every stream of up to three frames, reads whole bodies,
and checks `CallsAreAssembledOnce` and `DamageIsVisible` against definitions over
the frames themselves, which do not use the assemblies.

### Sessionization

A request carries at most an analysis key, an explicit id, an adapter id,
ancestors and a client. `Request` is `resolve` with the whole of `ensureSession`.
`Normalize` is the moment a response becomes known; a restart loses the maps and
`RestoreResponseAncestry` rebuilds them from the stored events, newest session
first. The limit of 1000 sessions read at a restart is not reached.

### ContextReconstruction

The log grows between the awaits of the reconstruction. `FollowAncestor` is one
turn of the loop with its checks in their order; the items are kinds with the
turn they came from.

### DeterministicBlame and AnalysisService

Events carry what the analyzer's patterns find in a text, not the text. Scores
are in thousandths, so the weights of the code are exact; bm25 is ranked by the
matches, without inverse document frequencies. `AnalysisService` has one job per
request of the API; a job gives way at every await (the cache, the context, the
blob write, the provider) while `Record` extends the session. A provider answers
with any confidence, or fails, or is refused.

### ArchiveTransfer

`store[m]` is a home with its sessions and blobs, `past[m][s]` the evidence the
session has held there since it ended; an archive remembers in `kept` that its session
was not deleted while it was read, and `from` which home. The export reads session, events, exchanges and runs one after the
other, as the code does outside a transaction; `Check`, `PutBlob`, `Commit`,
`CleanUp` are the import, of which any step can fail or be the last. `Plan` is
the preview of a deletion, `ExecuteEvidenceDeletion` re-reads what the code
re-reads.

### SchemaMigration

The database is its version, ledger, triggers and exchanges; a migration is a
function on it and aborts where a statement raises. Several processes, of builds
that know different versions, look, copy, apply, record and import. A build keeps
and imports only headers it does not know to be forbidden (`Retained`).

## Runs

| Run | Instance | Shows | States |
|---|---|---|---|
| `evidence_journal` | one wrapped run, two exchanges of its session (two events and none), two records of the wrapper | the properties of `EvidenceJournal` but `OpenJobIsRecording` | 510,000 |
| `live_stream` | one writer, one viewer, one connection place and two identities, pages of 1, batches of 2, 5 sequences, 2 drops | `FramesRise`, `NoEventIsSkipped`, `EveryEventIsSeen`, which a leaked connection place would break | 26,000 |
| `live_two_writers` | the same with two writers | violation of `OfflineEventsAreReplayed` | |
| `recorder_exchange` | one exchange with up to two chunks each way, a body limit that cuts the second, a budget that cuts the second body, a manifest of two entries, failing storage, settle and close | `BudgetIsExact`, `ResponseIsWhole`, `SettlementIsComplete`, `ClosedMeansDrained`, `FirstOutcomeStands`, `EverythingIsSettled` | 86,000 |
| `recorder_fail_open` | the same | violation of `RecordingFailsOpen` | |
| `daemon_lifecycle` | two daemons on common ports, two starters and a stopper without faults; and one starter with the stopper, torn reads and a guard left behind | `ServesUnderLock`, `StoppedMeansReleased`, `StopIsCarriedOut` | 144,000 |
| `daemon_torn_read` | two daemons on ports of their own, torn reads | violation of `OneDaemonServes` | |
| `wrapped_run` | two paths, one of them secret, two contents, two edits, two samples, one payload, one chunk of output | `SilenceMeansComplete`, `DeletionsAreReal`, `WrapperExits` | 780,000 |
| `components` | ten instances, see below | sixteen properties | 1,890,000 |
| `chain_withheld` | the context instance | violation of `CompleteMeansWhole` | |
| `guarded_upgrade` | the schema instance with one process at a time | violation of `UpgradesSucceed` | |
| `blob_collection` | one content stored by a daemon and a wrapper, collection overlaps puts | violation of `SharedBlobsAreProtected` | |

`components` checks, in one run because they share no state:

| Instance | Bounds | Properties |
|---|---|---|
| `Decoder` | every text of 7 characters and every way to cut it, frames of 5 characters, two frames | `SplitsAreInvisible` |
| `Normalizing` | every stream of three frames over ten to sixteen payloads per protocol, with and without identities; whole bodies | `CallsAreAssembledOnce`, `DamageIsVisible` |
| `Sessionizing` | three requests of six kinds, two response ids, an idle window of one tick, one restart | `AnalysisStaysApart`, `AncestryIsTheEvidence`, `IdleClientsStartAnew` |
| `Context` | three turns, a depth limit of two | `CompleteMeansLinked` |
| `Analysis` | three events (a call or a result only after another event), two requests, one failing blob write | `LaterEvidenceChangesNothing`, `AnswersAgree`, `ConsentCoversWhatIsSent` |
| `Transfer` | a home, two sessions that share a body, one archive, one import | `ImportsAreSnapshots` |
| `Retention` | a home, two sessions and an analysis of one of them | `DeletionsKeepThePreview` |
| `Schema` | builds that know version 3 and version 6, two processes, one exchange; no database, one of a later build, one with a forged ledger | `UpgradesAreBackedUp` |
| `Blobs` | a daemon with two puts and a ceiling of one blob, a wrapper with one put and no ceiling; a large content stored by both | `RowsAreReadable`, `QuotaOvershootIsBounded` |
| `Journal` | two exchanges of a session without a wrapper, and a wrapper with a session of its own and one record | `OpenJobIsRecording` |

Bounds. `MaxRecords`, `MaxSequence`, `MaxBlock`, `MaxDrops`, `MaxObserved`,
`MaxEdits`, `MaxOutputs`, `MaxText`, `MaxFrames`, `MaxTime`, `MaxRequests`,
`MaxRestarts`, `MaxLog`, `MaxEvents`, `MaxJobs`, `MaxPutFailures`, `MaxArchives`
and `MaxExchanges` bound what the code leaves unbounded; they stand in guards and
nothing else reads them. The others are limits of the code, made small enough to be
reached and passed. Two exchanges are the fewest that can meet in one session, two
writer records the fewest that leave one before and one between the daemon's. For
the stream one place with two identities makes a reconnect wait for the server to
notice the dead connection, and a page of one with a batch of two makes both
boundaries fall inside five sequences. Seven characters hold two frames with line
ends of two characters; three frames a fragment, a replay of it and its
completion, or two interleaved calls; three turns a chain that is one deeper
than its limit; three events an instruction, a call and its effect, or the same
with one that comes later; a tick more than the idle window both sides of its
limit. Two processes of different builds are the fewest between which a version
can change after one of them looked at it.

Deadlock is not checked: in every instance the actors may all be done.

Fairness. `EvidenceJournal`: a dead daemon is started again (any `tekrion`
command that needs it does so). `LiveEventStream`: the browser's loop retries
with a bounded delay, streams poll on a timer and writes have a deadline;
nothing is assumed of writers, drops and reloads. `RecorderExchange`: blob
writes return, timers fire, an ended response is flushed unless its connection
is reset; nothing is assumed of client or upstream. `DaemonLifecycle`: file
operations and awaits of a live process return, and the attempts at the guard
are counted; nothing is assumed of commands, signals and kills. `WrappedRun`: the
awaits of the wrapper, of its queue and of the watcher return; nothing is
assumed of the child, the edits and the deadline. The other modules state safety
only.

## What the runs found

- `live_two_writers`: rows can be committed below a viewer's cursor, because
  sequences are reserved before, and in a different transaction than, the rows
  are inserted, and the daemon and the wrapper are different processes.
  `docs/decisions/0006-authenticated-local-cockpit.md:23` promises a reconnect
  "without losing events committed while it was offline".
- `recorder_fail_open`: a request chunk after the captures were released ends
  the process; `docs/decisions/0003-byte-faithful-proxy-and-local-control.md:17`
  says recording failures fail open.
- `blob_collection`: a content that is stored again between the deletion of its
  row and the removal of its file loses the file;
  `docs/complete-project-guide.md:824` says shared blobs remain protected.
- `daemon_torn_read`: a starter that reads the lock while its owner replaces it
  takes it for corrupt and removes it; `docs/decisions/0003-...:20` says a live
  owner is rejected.
- `chain_withheld`: the output of a predecessor was withheld for a parser error,
  and the chain is still labelled complete; `README.md:295` says it is.
- `guarded_upgrade`: migrations 4 and 5 update exchanges that a trigger of an
  earlier migration keeps read-only, so a store with an imported exchange that
  retains one of their headers cannot be upgraded; `docs/operations.md:215` and
  `:226` say that `tekrion init` applies them.

### Known gaps

Seen in the models, and not a run of their own:

- Request bytes that arrive while the request body is being stored are neither
  stored nor counted as dropped, and the row calls the request complete
  (`recorder-proxy.ts:868`, `:954`).
- Every writable opening of the store, that of `tekrion sessions` included,
  removes the temporary files of puts in flight (`blob-store.ts:354`), whose
  rename then fails.
- The watcher can pair a deletion and a creation of one path, from a batch in
  which the path disappeared and came back, as a rename to itself
  (`workspace-watcher.ts:209`).
- `response.function_call_arguments.done` without a call id overwrites a call id
  that is known (`responses.ts:654`).
- Two processes that clear the guard of a dead one can remove each other's
  (`daemon-lock.ts:164`).
- A blame of a session that is still active is cached for ever, although the
  context of its request may become readable later
  (`evidence-query-service.ts:343`); a daemon that dies during a transmission leaves
  the run of the provider "running" (`:589`).
- A failed copy-and-migrate race of two processes ends for the second with a
  migration error although the store is current (`migrations.ts:859`).

## Proofs

A theorem holds for every value of the constants: any number of sessions,
exchanges, processes, puts, viewers, events or paths. What the constants have
to satisfy is an ASSUME of the module that declares them, which TLC evaluates on
the instance of each run; for a module that is taken by INSTANCE it is an ASSUME of
the module that takes it (`EvidenceComponents`, `Components`). The assumptions say that sets which name different
things are disjoint, that finite resources are finite, that limits are positive
numbers and that functions have their types; the code justifies each (limits
are checked where they are configured: `apps/cli/src/configuration.ts:379` for the
ceiling of the store).

Each module proves one inductive invariant, `Init => Inv` and
`Inv /\ [Next]_vars => Inv'` with a lemma per action or group of actions, and
takes the properties from it.

| Module | Inductive invariant | Properties of runs it proves |
|---|---|---|
| `EvidenceJournalProofs` | `IndInv`; `ContentInv` | `TypeOK`, `NoSequenceReuse`, `SequencesOnlyGrow`; `NormalizationAtomic`, `CountersMatchEvents`, `TerminalEventIsLast`, `EvidenceIsImmutable`, `ImplementsLog` |
| `LiveEventStreamProofs` | `StreamInv`; `CompleteInv` with one writer | `FramesRise`; `NoEventIsSkipped` with one writer |
| `RecorderExchangeProofs` | `ProxyInv` | `BudgetIsExact`, `ResponseIsWhole`, `SettlementIsComplete`, `ClosedMeansDrained`, `FirstOutcomeStands` |
| `DaemonLifecycleProofs` | `LifecycleInv` | `ServesUnderLock`, `StoppedMeansReleased` |
| `WrappedRunProofs` | `RunInv` | `SilenceMeansComplete`, `DeletionsAreReal` |
| `AnalysisServiceProofs` | `ServiceInv`, `HistoryInv` | the three of the service, through `ComponentsProofs` |
| `EvidenceComponentsProofs` | `KindsInv`, `EvidenceInv`, `ClientsInv`; `ChainInv`; `PreviewInv`; `SchemaInv`; `StoreInv`, `QuotaInv`; `TransferInv` | those of the six components, through `ComponentsProofs` |
| `ComponentsProofs` | `DecoderInv`; the above where `component` names their component | `SplitsAreInvisible`, `AnswersAgree`, `ConsentCoversWhatIsSent`, `LaterEvidenceChangesNothing`, `OpenJobIsRecording`, `AnalysisStaysApart`, `AncestryIsTheEvidence`, `IdleClientsStartAnew`, `CompleteMeansLinked`, `DeletionsKeepThePreview`, `ImportsAreSnapshots`, `UpgradesAreBackedUp`, `RowsAreReadable`, `QuotaOvershootIsBounded` |

Why the invariants say more than the properties:

- `IndInv`. `NoSequenceReuse` already speaks of held sequences (reserved, not
  inserted). `SequencesCoverRows` adds that a session has a row in
  `session_sequences` exactly while it exists and every row of the session lies
  below its `next_sequence`; `WrappersOwnTheirSession` that nothing is stored
  for a wrapper that has not opened its session, and that the session is active
  while it writes; `BlockHasExchange` that inside a block the daemon works on an
  exchange.
- `ContentInv`. `JobsMatchRows` says what the daemon's place in its block means for
  the row of its exchange, so that recovery, finalize and normalization find what
  they left although deletion can come in between; `TerminalMeansEnded` that a
  terminal event is one of a wrapper that has ended. The counters are
  cardinalities of sets of rows; that they are finite is part of the invariant.
  The refinement maps every transaction to a step of `EvidenceLog` (reserve, write,
  seal, drop) or to a stutter, one lemma each.
- `StreamInv` relates the two ends of a connection: cursor, batch and what is in
  flight rise, and begin beyond what the viewer has. A page is the events of
  the least ranks, so that it has no gap and is in order. `CompleteInv` adds, under
  `OneWriter` (no two writers differ), that rows are inserted in the order of their
  sequences, so that nothing appears below a cursor. The run `live_two_writers`
  shows that the hypothesis is needed.
- `ProxyInv`. `Budget` says that the counter is the sum over all exchanges of what
  their captures hold; sums over a finite set are defined by choice, shown to exist by
  a minimal counterexample among the subsets, and shown to change with one exchange.
  `Evidence` follows the bytes from the upstream to the row; `Lifecycle` relates
  streams, outcome and journal of an exchange; `SettlementControl` and
  `CloseControl` say which journals `settleSession` and `close` still wait for.
- `StoreInv` speaks of what overlaps: without a cleaning or a collection beside it, a
  put that saw the file finds it, one that renamed it knows it is there, and only a
  put that fails alone removes it. `UndisturbedEvidenceIsReadable` is
  `SharedBlobsAreProtected` for uses in which nothing overlaps; `blob_collection` shows
  that it fails otherwise. `QuotaInv` keeps room in the bound for each put that passed
  the check and has no row yet.
- `KindsInv` adds to the kinds of recorded exchanges those of the stored sessions, which
  the check before recording reads, and that only the session of an analysis has an id
  that begins with its kind, so that a client is never given one. `EvidenceInv` says
  that the evidence is of stored sessions: a restart finds what it reads there.
  `ClientsInv` says that what is remembered of a client is its last exchange in this
  life of the daemon, and that a client which was forgotten has been idle for longer
  than the window; that a heuristic id is never given twice follows from the number
  of exchanges in it.
- `ChainInv`: as long as the chain has no mark its turns are linked, and each was read
  to its end (`LinkedSoFar`), so that the label that is computed from the marks tells
  the truth although exchanges are recorded between the steps.
- `PreviewInv`: the selection of the plan that is shown holds every analysis of what it
  selects, because an expansion is the least set that does, and the projected size is
  that of the rest. The deletion, which may come many steps later, then leaves what
  was projected if the sessions are still those, and any analysis it leaves without
  its session is one that was not there when the plan was made.
- `TransferInv` follows an archive. A completed session only gains runs, each with its
  event and its origin, so what the export has read (`ExportOK`) is, of each table, what
  the session held at some moment, the moments in the order of the reads. The events
  can therefore be older than the exchanges, and the runs newer: the session went on in
  between. Such an archive names runs whose events or exchanges it lacks, so `Relates`
  refuses it, and one that `Relates` accepts (`IsWhole`) is what the session held when
  its exchanges were read, or, of a share, when its events were. On the other side an
  imported session is the digest of an archive (`SessionOK`, `ImportOK`): a damaged one
  does not verify, a put only adds bodies, and a cleaning or a collection removes
  none that a session names. The proof needs that the two events of a session itself
  are not called like an exchange, whose name stands for the events of its
  normalization (`RetentionAssumption`); in the database every event has an id of
  its own.
- `DecoderInv` says that the decoder has taken some number of the characters that
  arrived, that what it has made of them is what is read of them, and that the buffer
  is the rest (`TakenOf`). Of the two characters of a line end it has taken both or
  none: a CR is the last it took only when the next one is there and is no LF, or when
  no more will come. Without this, which is why the code waits for the character
  after a CR, the next step would read half a line end as an empty line. `Reading` is a
  recursive function; that there is one is proved by the least number for which there
  were none (`ReadingExists`). The frames read of a beginning of the body begin those of
  the body (`ReadingGrows`), so a decoder that failed at a limit has handed out no
  frame that is not part of it either.
- `SchemaInv`: what an opener has found is still there until the version is another,
  and it has its copy from then on; what others have migrated since it read the version
  is in the ledger. The version the transaction starts from is the one read before
  it, so an upgrade that another came before enters a version again and is rolled back
  (`UpgradeRecords`). That is why an upgrade that succeeds is from the version that
  was backed up.
- `LifecycleInv` has two parts. For any faults, daemons open and close in order and
  the lock names a process that may write it. Without faults (`faults = {}`)
  `GuardExcludes` and `LockProtects` say that one process decides about a stale lock,
  and that no other process replaces the lock of a daemon that lives. The run
  `daemon_torn_read` shows that a torn read breaks it.
- `RunInv` says where every change is between the watcher's sample and the stored
  record (queue, accepted, rejected, given up), for each place `commandRun` can be at
  (`NothingLost`, `ChangesAccounted`). `ChangesMakeTheSnapshot` is the lemma about
  data: the changes between two snapshots, applied to the first, make the second,
  renames included.
- `ServiceInv` ties each request to what is stored: one that has an analysis has the
  stored one; one that transmits has the snapshot its user agreed to, on record.
  `HistoryInv` says that what is stored about an action is what an analysis of the log
  as it is now would say. It rests on lemmas about `DeterministicBlame`: the call that
  had the effect is not later than the action, scores are numbers, so that the ranks of
  candidates are taken exactly once (an injection between finite sets of one size), and
  every operator reads the log up to the action only (`AnalysisIsLocal`). Parents and
  requests come before the events that name them, which `Record` sees to.

Induction over data uses the minimal element of a well-founded relation
(`WFMin`), since the induction theorems of the library take an operator as
parameter. Left to TLC:

- everything under fairness (`CrashedRecordingIsClosed`, `EveryEventIsSeen`,
  `EverythingIsSettled`, `StopIsCarriedOut`, `WrapperExits`), and ENABLED;
- what the normalizers make of every stream (`CallsAreAssembledOnce`,
  `DamageIsVisible`): folds over sequences, checked over all short streams.

## Not modelled

- Queries, full-text search and annotations of the storage; they read.
- Authentication, headers, static files and the plain read routes of the control
  server; the routing and forwarding of bytes by the proxy beyond its tees.
- The redaction patterns, and the share export that applies them; their output is
  a matter of texts.
- In archives: records of file changes, context edges, redactions and analysis
  runs, which travel as the events do. In analyses: stored provenance edges (they
  only come with an archive), content-hash and quotation relations, a provider that
  is not configured, analyses of imported sessions.
- In the decoder: UTF-8 and the limit on buffered characters, which depends on the
  cuts by design.
- Protocol schemas (shapes only), cockpit components beyond the timeline loading,
  adapters, the demo agent, fixtures and scripts.

## Plan

All components with control of their own are modelled, and of their safety properties
all but two are proved. What is left is what the normalizers compute: the assembly of a
call from its pieces could be read one frame after the other, as `Reading` reads a body,
and the state of each protocol be related to that reading.
