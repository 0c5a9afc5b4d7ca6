------------------------------ MODULE Components ------------------------------
(***************************************************************************)
(* The components that do not share state with one another: a behaviour is *)
(* a behaviour of the one component that `component` names, and the        *)
(* variables of the others stay unused.  A component that has a module of  *)
(* proofs is taken with them.                                              *)
(***************************************************************************)
EXTENDS EvidenceComponents

CONSTANTS
    Parts,                                                   \* the components
    MaxText, FrameLimit, CountLimit,                         \* SseDecoder
    ChatData, ResponsesData, AnthropicData, Identities,
    Recordings, WholeBodies, MaxFrames,                      \* Normalizers
    SessionEvents, MaximumCandidates, MaxEvents, MaxJobs,
    MaxPutFailures,                                          \* AnalysisService
    RunSessions, ProxySessions, Exchanges, SessionOf,
    Normalized, NoExchange, MaxRecords                       \* EvidenceJournal

VARIABLES
    component,   \* the one this behaviour is of
    arrived, textBuffer, frameLines, dispatched, phase,                  \* SseDecoder
    protocol, frames, parse, result,                                     \* Normalizers
    log, active, blames, reports, jobs, previews, sent, attempts,
    failures,                                                            \* AnalysisService
    sessions, nextSequence, rawExchanges, events, normalizationRuns,
    daemon, recordings, run                                              \* EvidenceJournal

decoding == <<arrived, textBuffer, frameLines, dispatched, phase>>
normalizing == <<protocol, frames, parse, result>>
sessionizing == <<now, responses, clients, stored, evidence, recorded, unparsed, restarts>>
reconstructing == <<chain, reading, turns, previous, visited, marks, answer>>
analysing == <<log, active, blames, reports, jobs, previews, sent, attempts, failures>>
archiving == <<store, past, archives, exporter, importer, preview>>
migrating == <<database, backups, opener>>
storing == <<overlapping, running, rows, files, temps, refs, put, collector>>
journaling == <<sessions, nextSequence, rawExchanges, events, normalizationRuns, daemon,
                recordings, run>>

-----------------------------------------------------------------------------
Decoder == INSTANCE SseDecoder

Normalizing == INSTANCE Normalizers WITH Exchanges <- Recordings, Bodies <- WholeBodies

Analysis == INSTANCE AnalysisServiceProofs WITH Events <- SessionEvents

Journal == INSTANCE EvidenceJournalProofs WITH jobs <- recordings

ASSUME JournalAssumption ==
    /\ RunSessions \cap ProxySessions = {}
    /\ SessionOf \in [Exchanges -> Journal!Sessions]
    /\ Normalized \in [Exchanges -> Seq(Journal!NormalizedKinds)]
    /\ NoExchange \notin Exchanges
    /\ MaxRecords \in Nat

-----------------------------------------------------------------------------
all == <<component, decoding, normalizing, sessionizing, reconstructing, analysing,
         archiving, migrating, storing, journaling>>

Unused == "unused"

NoDecoding ==
    /\ arrived = Unused /\ textBuffer = Unused /\ frameLines = Unused /\ dispatched = Unused
    /\ phase = Unused
NoNormalizing ==
    /\ protocol = Unused /\ frames = Unused /\ parse = Unused /\ result = Unused
NoSessionizing ==
    /\ now = Unused /\ responses = Unused /\ clients = Unused /\ stored = Unused
    /\ evidence = Unused /\ recorded = Unused /\ unparsed = Unused /\ restarts = Unused
NoReconstructing ==
    /\ chain = Unused /\ reading = Unused /\ turns = Unused /\ previous = Unused
    /\ visited = Unused /\ marks = Unused /\ answer = Unused
NoAnalysing ==
    /\ log = Unused /\ active = Unused /\ blames = Unused /\ reports = Unused
    /\ jobs = Unused /\ previews = Unused /\ sent = Unused /\ attempts = Unused
    /\ failures = Unused
NoArchiving ==
    /\ store = Unused /\ past = Unused /\ archives = Unused /\ exporter = Unused
    /\ importer = Unused /\ preview = Unused
NoMigrating ==
    /\ database = Unused /\ backups = Unused /\ opener = Unused
NoStoring ==
    /\ overlapping = Unused /\ running = Unused /\ rows = Unused /\ files = Unused
    /\ temps = Unused /\ refs = Unused /\ put = Unused /\ collector = Unused
NoJournaling ==
    /\ sessions = Unused /\ nextSequence = Unused /\ rawExchanges = Unused
    /\ events = Unused /\ normalizationRuns = Unused /\ daemon = Unused
    /\ recordings = Unused /\ run = Unused

Init ==
    /\ component \in Parts
    /\ IF component = "decoder" THEN Decoder!Init ELSE NoDecoding
    /\ IF component = "normalizers" THEN Normalizing!Init ELSE NoNormalizing
    /\ IF component = "sessions" THEN Sessionizing!Init ELSE NoSessionizing
    /\ IF component = "context" THEN Context!Init ELSE NoReconstructing
    /\ IF component = "analysis" THEN Analysis!Init ELSE NoAnalysing
    /\ CASE component = "transfer" -> Transfer!Init
         [] component = "retention" -> Retention!Init
         [] OTHER -> NoArchiving
    /\ IF component = "schema" THEN Schema!Init ELSE NoMigrating
    /\ IF component = "blobs" THEN Blobs!Init ELSE NoStoring
    /\ IF component = "journal" THEN Journal!Init ELSE NoJournaling

Next ==
    \/ /\ component = "decoder" /\ Decoder!Next
       /\ UNCHANGED <<component, normalizing, sessionizing, reconstructing,
                      analysing, archiving, migrating, storing, journaling>>
    \/ /\ component = "normalizers" /\ Normalizing!Next
       /\ UNCHANGED <<component, decoding, sessionizing, reconstructing,
                      analysing, archiving, migrating, storing, journaling>>
    \/ /\ component = "sessions" /\ Sessionizing!Next
       /\ UNCHANGED <<component, decoding, normalizing, reconstructing,
                      analysing, archiving, migrating, storing, journaling>>
    \/ /\ component = "context" /\ Context!Next
       /\ UNCHANGED <<component, decoding, normalizing, sessionizing,
                      analysing, archiving, migrating, storing, journaling>>
    \/ /\ component = "analysis" /\ Analysis!Next
       /\ UNCHANGED <<component, decoding, normalizing, sessionizing,
                      reconstructing, archiving, migrating, storing, journaling>>
    \/ /\ component = "transfer" /\ Transfer!Next
       /\ UNCHANGED <<component, decoding, normalizing, sessionizing,
                      reconstructing, analysing, migrating, storing, journaling>>
    \/ /\ component = "retention" /\ Retention!Next
       /\ UNCHANGED <<component, decoding, normalizing, sessionizing,
                      reconstructing, analysing, migrating, storing, journaling>>
    \/ /\ component = "schema" /\ Schema!Next
       /\ UNCHANGED <<component, decoding, normalizing, sessionizing,
                      reconstructing, analysing, archiving, storing, journaling>>
    \/ /\ component = "blobs" /\ Blobs!Next
       /\ UNCHANGED <<component, decoding, normalizing, sessionizing,
                      reconstructing, analysing, archiving, migrating, journaling>>
    \/ /\ component = "journal" /\ Journal!Next
       /\ UNCHANGED <<component, decoding, normalizing, sessionizing, reconstructing,
                      analysing, archiving, migrating, storing>>

Spec == Init /\ [][Next]_all

-----------------------------------------------------------------------------
(* The properties of the components.                                       *)

\* However the transport cut the body, the decoder hands out the same frames
\* and the same incomplete rest as for the whole body at once, and never a frame
\* that is not part of it (sse.ts and its test "is invariant to every transport
\* split").
SplitsAreInvisible == component = "decoder" => Decoder!SplitsAreInvisible

\* A tool call shows exactly the fragments the stream brought for it: those of
\* interleaved calls are never mixed, a replayed frame is not counted twice and
\* of two frames with one identity the first is authoritative (docs/decisions/
\* 0004, decision 4).
CallsAreAssembledOnce == component = "normalizers" => Normalizing!CallsAreAssembledOnce

\* Whatever the normalizer could not use leaves an event that names the frame:
\* a parser error for a frame it could not read or that contradicts an earlier
\* one, a note for a replay, and for an event it does not know the payload,
\* unless the whole stream is withheld for a parser error (decisions 3 and 4).
DamageIsVisible == component = "normalizers" => Normalizing!DamageIsVisible

\* No session holds both analysis and investigated traffic, whatever ids, keys
\* and ancestors the requests name and however often the daemon restarts
\* (docs/decisions/0004, decision 6).
AnalysisStaysApart == component = "sessions" => Sessionizing!AnalysisStaysApart

\* The proxy knows exactly the responses the evidence shows, each in a session
\* that shows it, also after a restart: a request that continues one of them is
\* never put in a session of its own (decision 5).
AncestryIsTheEvidence == component = "sessions" => Sessionizing!AncestryIsTheEvidence

\* Two requests that follow each other from one client are in one heuristic
\* session exactly when no more than the idle window lies between them, and two
\* clients never share one.
IdleClientsStartAnew == component = "sessions" => Sessionizing!IdleClientsStartAnew

\* A chain is called complete only if it is one: every turn continues a response
\* of the turn loaded next, which was recorded before it, the last continues
\* nothing, and each was read and captured to its end, whatever was recorded
\* while the chain was followed (packages/context/README.md).
CompleteMeansLinked == component = "context" => Context!CompleteMeansLinked

\* A chain that is called complete shows what each of its predecessors answered
\* (README.md: "The locally recorded response chain is complete").
CompleteMeansWhole == component = "context" => Context!CompleteMeansWhole

\* However much of the session is recorded after an action, and whoever asked
\* first: what is stored about the action is what an analysis of the session as
\* it is now would say, and its evidence comes before the call that had the
\* effect (docs/decisions/0008, decision 2 and consequences).
LaterEvidenceChangesNothing == component = "analysis" => Analysis!LaterEvidenceChangesNothing

\* Two requests about one action are given the same analysis, also when they run
\* at once and saw different contexts, and a report tells that analysis.
AnswersAgree == component = "analysis" => Analysis!AnswersAgree

\* The provider is only given what the user who asked was shown, although the
\* session goes on between the preview and the consent; it is on record before it
\* is sent, and no answer denies it (docs/decisions/0009, decisions 3 and 8).
ConsentCoversWhatIsSent == component = "analysis" => Analysis!ConsentCoversWhatIsSent

\* A session imported from an archive is what was exported, with its bodies, although
\* imports may have failed or died half way before; and an archive that can be imported
\* has what its session held at one moment, although the export reads table after table
\* while the daemon may be completing the session.  A session deleted under the reads
\* of its own export is left out.
ImportsAreSnapshots == component = "transfer" => Transfer!ImportsAreSnapshots

\* A deletion keeps what its preview promised: nothing changed since, the rest has
\* the projected size, and an analysis is left without its session only if it began
\* after the preview.
DeletionsKeepThePreview == [][component = "retention" => Retention!KeepsThePreview]_all

\* An opening that upgrades the version it found when it looked has made a backup
\* of that version that holds all it found, whoever opened, recorded or died in
\* between: the copy is awaited before applyMigrations reads the version again.
UpgradesAreBackedUp == [][component = "schema" => Schema!BacksUpFirst]_all

\* An upgrade that no other process disturbs succeeds, whatever the store holds:
\* the provider-support migrations remove the retained headers from it.
UpgradesSucceed == component = "schema" => Schema!UpgradesSucceed

\* A wrapper that opens the store, or dies, closes no exchange that the daemon is
\* still recording: only a start of the daemon recovers, and only lost ones.
OpenJobIsRecording == component = "journal" => Journal!OpenJobIsRecording

\* A row never stands for a file that is not there, whatever fails or dies
\* between the rename and the insert and whoever cleans up after a failed put, in
\* a use of the program where puts overlap only puts.
RowsAreReadable == component = "blobs" => Blobs!RowsAreReadable

\* The puts of the limited processes pass the ceiling by less than one blob for
\* each of them that may run at once: the quota is read before the awaits of
\* put and not again.  The contents an unlimited process stores are left out.
QuotaOvershootIsBounded == component = "blobs" => Blobs!QuotaOvershootIsBounded

\* What recorded evidence names can be read back while other sessions are deleted.
SharedBlobsAreProtected == component = "blobs" => Blobs!SharedBlobsAreProtected
=============================================================================
