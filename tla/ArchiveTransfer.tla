--------------------------- MODULE ArchiveTransfer ---------------------------
(***************************************************************************)
(* Moving evidence between stores and out of them: a session is exported   *)
(* to an archive file while its daemon may still be completing it, an      *)
(* archive is imported, possibly twice at once, while the store records    *)
(* the same contents, and sessions are deleted after a preview.            *)
(*                                                                         *)
(* One action is one statement or transaction on a database, or what is    *)
(* done between two awaits.  Every record counts for one unit of size and  *)
(* so does every stored body.                                              *)
(*                                                                         *)
(* apps/daemon/src/archive.                                                *)
(***************************************************************************)
EXTENDS Integers, FiniteSets, SequencesExt

CONSTANTS
    Stores,        \* the evidence homes
    Sessions,
    Analyses,      \* those of Sessions that hold an AI analysis of another
    TargetOf,      \* the session each of Analyses is about
    HomeOf,        \* the store each session is recorded in
    Exchanges,
    SessionOf,     \* the session of each exchange
    BodyOf,        \* the stored body of each exchange
    Imports,       \* the import commands
    MaxArchives,   \* the bound on archives written
    Limits         \* what --max-bytes may be

VARIABLES
    store,         \* by store: the session records and the blobs
    past,          \* by store: the evidence each session has held since it ended
    archives,      \* the files written
    exporter,      \* one export command
    importer,      \* the progress of each import
    preview        \* one deletion plan

vars == <<store, past, archives, exporter, importer, preview>>

Absent == [status |-> "absent", events |-> {}, origins |-> {}, exchanges |-> {},
           recording |-> {}, runs |-> {}, ended |-> 0]

Session(m, s) == store[m].sessions[s]
Exists(m, s) == Session(m, s).status # "absent"
Bodies(exchanges) == {BodyOf[x] : x \in exchanges}
Referenced(sessions) == UNION {Bodies(sessions[s].exchanges) : s \in Sessions}

\* What the evidence of a session is: its records, and no row in progress.
Evidence(r) == [events |-> r.events, origins |-> r.origins, exchanges |-> r.exchanges,
                runs |-> r.runs]

\* History, for the properties only.
HasHeld(m, s, evidence) == past' = [past EXCEPT ![m][s] = @ \cup {evidence}]

Init ==
    /\ store = [m \in Stores |-> [sessions |-> [s \in Sessions |-> Absent], blobs |-> {}]]
    /\ past = [m \in Stores |-> [s \in Sessions |-> {}]]
    /\ archives = {}
    /\ exporter = [pc |-> "idle"]
    /\ importer = [i \in Imports |-> [pc |-> "idle"]]
    /\ preview = [pc |-> "none"]

-----------------------------------------------------------------------------
(* The recording processes, as far as an archive can tell.                 *)

Records(s, record) ==
    /\ store' = [store EXCEPT ![HomeOf[s]].sessions[s] = record]
    /\ IF record.status = "active" THEN past' = past
       ELSE HasHeld(HomeOf[s], s, Evidence(record))
    /\ UNCHANGED <<archives, exporter, importer, preview>>

Start(s) ==
    /\ ~Exists(HomeOf[s], s) /\ past[HomeOf[s]][s] = {}
    /\ s \in Analyses => Session(HomeOf[s], TargetOf[s]).status = "completed"
    /\ Records(s, [Absent EXCEPT !.status = "active", !.events = {"started"}])

BeginExchange(x) ==
    LET r == Session(HomeOf[SessionOf[x]], SessionOf[x]) IN
    /\ r.status \in {"active", "completed"}
    /\ x \notin r.recording \cup r.exchanges
    /\ Records(SessionOf[x], [r EXCEPT !.recording = @ \cup {x}])

StoreBody(x) ==
    /\ x \in Session(HomeOf[SessionOf[x]], SessionOf[x]).recording
    /\ BodyOf[x] \notin store[HomeOf[SessionOf[x]]].blobs
    /\ store' = [store EXCEPT ![HomeOf[SessionOf[x]]].blobs = @ \cup {BodyOf[x]}]
    /\ UNCHANGED <<past, archives, exporter, importer, preview>>

\* The reference is a foreign key, so a body that was collected meanwhile fails it.
Finalize(x) ==
    LET r == Session(HomeOf[SessionOf[x]], SessionOf[x]) IN
    /\ x \in r.recording
    /\ BodyOf[x] \in store[HomeOf[SessionOf[x]]].blobs
    /\ Records(SessionOf[x], [r EXCEPT !.recording = @ \ {x}, !.exchanges = @ \cup {x}])

Normalize(x) ==
    LET r == Session(HomeOf[SessionOf[x]], SessionOf[x]) IN
    /\ x \in r.exchanges \ r.runs
    /\ r.status # "imported-readonly"
    /\ Records(SessionOf[x], [r EXCEPT !.events = @ \cup {x}, !.origins = @ \cup {x},
                                       !.runs = @ \cup {x}])

End(s) ==
    LET r == Session(HomeOf[s], s) IN
    /\ r.status = "active"
    /\ Records(s, [r EXCEPT !.status = "completed", !.events = @ \cup {"ended"},
                            !.ended = Cardinality({t \in Sessions : past[HomeOf[t]][t] # {}})])

-----------------------------------------------------------------------------
(* exportTekrionArchive: one SELECT after the other, outside a transaction. *)

ExportStep(next) ==
    /\ exporter' = next
    /\ UNCHANGED <<store, past, archives, importer, preview>>

\* `kept` remembers that the session has not been deleted since.
ReadSession(m, s, profile) ==
    /\ exporter.pc = "idle"
    /\ Cardinality(archives) < MaxArchives
    /\ Session(m, s).status \in {"completed", "imported-readonly"}
    /\ ExportStep([pc |-> "events", store |-> m, session |-> s, profile |-> profile,
                   kept |-> TRUE, counted |-> Cardinality(Session(m, s).events),
                   events |-> {}, origins |-> {}, exchanges |-> {}, runs |-> {}])

ReadEvents ==
    /\ exporter.pc = "events"
    /\ ExportStep([exporter EXCEPT !.pc = "exchanges",
                       !.events = Session(exporter.store, exporter.session).events,
                       !.origins = Session(exporter.store, exporter.session).origins])

\* A row that is still being recorded stops the export.
ReadExchanges ==
    LET r == Session(exporter.store, exporter.session) IN
    /\ exporter.pc = "exchanges"
    /\ ExportStep(IF r.recording # {} THEN [pc |-> "idle"]
                  ELSE [exporter EXCEPT !.pc = "runs", !.exchanges = r.exchanges])

ReadRuns ==
    /\ exporter.pc = "runs"
    /\ ExportStep([exporter EXCEPT !.pc = "blobs",
                       !.runs = Session(exporter.store, exporter.session).runs])

\* The share profile leaves out the exchanges, the runs, the bodies and the origin
\* of each event.  A body that is gone by now stops a forensic export.
Contents(e) ==
    [session |-> e.session, profile |-> e.profile, counted |-> e.counted,
     events |-> e.events,
     origins |-> IF e.profile = "share" THEN {} ELSE e.origins,
     exchanges |-> IF e.profile = "share" THEN {} ELSE e.exchanges,
     runs |-> IF e.profile = "share" THEN {} ELSE e.runs]

\* The archive is written to a temporary file and published whole; its digest is
\* of its contents.
WriteArchive ==
    /\ exporter.pc = "blobs"
    /\ LET contents == Contents(exporter)
           here == Bodies(contents.exchanges) \subseteq store[exporter.store].blobs IN
       archives' = IF ~here THEN archives ELSE
           archives \cup {[contents |-> contents, digest |-> contents,
                           from |-> exporter.store, kept |-> exporter.kept]}
    /\ exporter' = [pc |-> "idle"]
    /\ UNCHANGED <<store, past, importer, preview>>

\* A file that loses an event on its way, with a count that fits what is left.
Damage(a) ==
    /\ a \in archives /\ a.digest = a.contents
    /\ \E e \in a.contents.events :
           archives' = (archives \ {a}) \cup
               {[a EXCEPT !.contents.events = @ \ {e}, !.contents.origins = @ \ {e},
                          !.contents.counted = @ - 1]}
    /\ UNCHANGED <<store, past, exporter, importer, preview>>

-----------------------------------------------------------------------------
(* importTekrionArchive.                                                   *)

\* verifyTekrionArchive: every digest matches.
Verifies(a) == a.digest = a.contents

\* Faulty variant of Relates: what the normalization runs name is not looked up.
RelatesOrigins(c) == c.origins \subseteq c.exchanges /\ c.runs \subseteq c.exchanges

\* Every record names records of the archive, and no other.
Relates(c) ==
    /\ c.origins \subseteq c.exchanges
    /\ c.runs \subseteq c.exchanges /\ c.runs \subseteq c.events

ImportStep(i, next) ==
    /\ importer' = [importer EXCEPT ![i] = next]
    /\ UNCHANGED <<archives, exporter, preview>>

Check(i, m, a) ==
    /\ importer[i].pc = "idle"
    /\ a \in archives
    /\ Verifies(a)
    /\ a.contents.counted = Cardinality(a.contents.events)
    /\ Relates(a.contents)
    /\ ~Exists(m, a.contents.session)
    /\ ImportStep(i, [pc |-> "putting", store |-> m, archive |-> a,
                      left |-> Bodies(a.contents.exchanges), created |-> {}])
    /\ UNCHANGED <<store, past>>

\* A put may be refused by the quota of the store or a full disk.
PutBlob(i, c) ==
    LET m == importer[i].store IN
    /\ importer[i].pc = "putting" /\ c \in importer[i].left
    /\ \/ /\ store' = [store EXCEPT ![m].blobs = @ \cup {c}]
          /\ ImportStep(i, [importer[i] EXCEPT !.left = @ \ {c},
                                !.created = IF c \in store[m].blobs THEN @ ELSE @ \cup {c}])
       \/ /\ ImportStep(i, [importer[i] EXCEPT !.pc = "cleaning"])
          /\ UNCHANGED store
    /\ UNCHANGED past

\* One transaction, which a session or a blob that came or went meanwhile undoes.
Commit(i) ==
    LET m == importer[i].store
        c == importer[i].archive.contents
        fits == ~Exists(m, c.session) /\ Bodies(c.exchanges) \subseteq store[m].blobs
    IN
    /\ importer[i].pc = "putting" /\ importer[i].left = {}
    /\ \/ /\ fits
          /\ store' = [store EXCEPT ![m].sessions[c.session] =
                 [Absent EXCEPT !.status = "imported-readonly", !.events = c.events,
                                !.origins = c.origins, !.exchanges = c.exchanges,
                                !.runs = c.runs]]
          /\ HasHeld(m, c.session, Evidence(c))
          /\ ImportStep(i, [pc |-> "idle"])
       \/ /\ ~fits
          /\ ImportStep(i, [importer[i] EXCEPT !.pc = "cleaning"])
          /\ UNCHANGED <<store, past>>

\* The blobs of a failed import go, except those some record has come to name.
CleanUp(i) ==
    LET m == importer[i].store IN
    /\ importer[i].pc = "cleaning"
    /\ store' = [store EXCEPT ![m].blobs =
           @ \ (importer[i].created \ Referenced(store[m].sessions))]
    /\ ImportStep(i, [pc |-> "idle"])
    /\ UNCHANGED past

Crash(i) ==
    /\ importer[i].pc \in {"putting", "cleaning"}
    /\ ImportStep(i, [pc |-> "idle"])
    /\ UNCHANGED <<store, past>>

-----------------------------------------------------------------------------
(* Deleting and pruning.                                                   *)

\* summary: the records of the sessions retained, and the bodies one of them names.
RecordsOf(s, r) ==
    LET rows(table, keys) == {[session |-> s, table |-> table, key |-> k] : k \in keys}
    IN  rows("sessions", {s}) \cup rows("events", r.events) \cup rows("runs", r.runs)
            \cup rows("exchanges", r.exchanges \cup r.recording)

Usage(sessions, removed) ==
    LET retained == {s \in Sessions \ removed : sessions[s].status # "absent"}
    IN  Cardinality(UNION {RecordsOf(s, sessions[s]) : s \in retained})
            + Cardinality(UNION {Bodies(sessions[s].exchanges) : s \in retained})

\* Faulty variant of Linked: the analyses of a session are not looked for.
LinkedToNone(sessions, selected) == {}

Linked(sessions, selected) ==
    {a \in Analyses : sessions[a].status # "absent" /\ TargetOf[a] \in selected}

\* expandLinkedSessions: the least set with the selected sessions and what is linked.
Expanded(sessions, selected) ==
    {s \in Sessions : \A closed \in SUBSET Sessions :
        selected \subseteq closed /\ Linked(sessions, closed) \subseteq closed => s \in closed}

Over(sessions) == {s \in Sessions : sessions[s].status \in {"completed", "imported-readonly"}}

OldestFirst(sessions) ==
    SetToSortSeq(Over(sessions), LAMBDA s, t : sessions[s].ended < sessions[t].ended)

\* planEvidencePrune: by age first, then the oldest until the rest fits.
Pruned(sessions, cutoff, limit) ==
    LET aged == {s \in Over(sessions) : sessions[s].ended < cutoff}
        oldest(n) == {OldestFirst(sessions)[k] : k \in 1 .. n}
        taken(n) == Expanded(sessions, aged \cup oldest(n))
        enough(n) == Usage(sessions, taken(n)) <= limit \/ oldest(n) = Over(sessions)
    IN  taken(CHOOSE n \in 0 .. Cardinality(Over(sessions)) :
                  enough(n) /\ \A k \in 0 .. n - 1 : ~enough(k))

\* A plan that comes upon an active analysis of what it selects is given up.
Plan(m, selected) ==
    /\ preview.pc = "none"
    /\ \A s \in selected : Session(m, s).status # "active"
    /\ selected # {}
    /\ preview' = [pc |-> "shown", store |-> m, selected |-> selected,
                   sessions |-> store[m].sessions,
                   projected |-> Usage(store[m].sessions, selected)]
    /\ UNCHANGED <<store, past, archives, exporter, importer>>

PlanSessionDeletion(m, s) ==
    /\ s \in Over(store[m].sessions)
    /\ Plan(m, Expanded(store[m].sessions, {s}))

PlanEvidencePrune(m, cutoff, limit) ==
    Plan(m, Pruned(store[m].sessions, cutoff, limit))

\* The transaction: what the plan lists is there and over, or nothing is removed.
ExecuteEvidenceDeletion ==
    LET m == preview.store
        valid == \A s \in preview.selected : s \in Over(store[m].sessions)
    IN
    /\ preview.pc = "shown"
    /\ store' = IF ~valid THEN store ELSE
           [store EXCEPT ![m].sessions =
               [s \in Sessions |-> IF s \in preview.selected THEN Absent ELSE @[s]]]
    /\ preview' = IF valid THEN [pc |-> "collecting", store |-> m] ELSE [pc |-> "none"]
    /\ exporter' = IF valid /\ exporter.pc # "idle" /\ exporter.store = m
                           /\ exporter.session \in preview.selected
                   THEN [exporter EXCEPT !.kept = FALSE] ELSE exporter
    /\ UNCHANGED <<past, archives, importer>>

RemoveUnreferenced ==
    /\ preview.pc = "collecting"
    /\ store' = [store EXCEPT ![preview.store].blobs =
           @ \cap Referenced(store[preview.store].sessions)]
    /\ preview' = [pc |-> "none"]
    /\ UNCHANGED <<past, archives, exporter, importer>>

-----------------------------------------------------------------------------
Next ==
    \/ \E s \in Sessions : Start(s) \/ End(s)
    \/ \E x \in Exchanges : BeginExchange(x) \/ StoreBody(x) \/ Finalize(x) \/ Normalize(x)
    \/ \E m \in Stores, s \in Sessions, profile \in {"share", "forensic"} :
           ReadSession(m, s, profile)
    \/ ReadEvents \/ ReadExchanges \/ ReadRuns \/ WriteArchive
    \/ \E a \in archives : Damage(a)
    \/ \E i \in Imports, m \in Stores, a \in archives : Check(i, m, a)
    \/ \E i \in Imports : Commit(i) \/ CleanUp(i) \/ Crash(i)
    \/ \E i \in Imports, x \in Exchanges : PutBlob(i, BodyOf[x])
    \/ \E m \in Stores, s \in Sessions : PlanSessionDeletion(m, s)
    \/ \E m \in Stores, cutoff \in 0 .. 1, limit \in Limits : PlanEvidencePrune(m, cutoff, limit)
    \/ ExecuteEvidenceDeletion \/ RemoveUnreferenced

Spec == Init /\ [][Next]_vars

-----------------------------------------------------------------------------
(* Properties.                                                             *)

\* An archive has what its session held at one moment, but for what a share leaves out.
IsSnapshot(c, evidence) ==
    /\ c.events = evidence.events
    /\ c.profile = "share" \/ Evidence(c) = evidence

\* A session imported from an archive is what was exported, with its bodies, although
\* imports may have failed or died half way before; and an archive that can be imported
\* has what the session held at one moment, although the export reads table after table
\* while the daemon may be completing the session.  A session deleted under the reads of
\* its own export is left out.
ImportsAreSnapshots ==
    /\ \A m \in Stores, s \in Sessions :
           Session(m, s).status = "imported-readonly" =>
               /\ Bodies(Session(m, s).exchanges) \subseteq store[m].blobs
               /\ \E a \in archives :
                      /\ a.digest.session = s /\ Relates(a.digest)
                      /\ Evidence(a.digest) = Evidence(Session(m, s))
    /\ \A a \in archives :
           a.kept /\ Relates(a.digest) =>
               \E evidence \in past[a.from][a.digest.session] : IsSnapshot(a.digest, evidence)

\* A deletion keeps what its preview promised: nothing changed since, the rest has
\* the projected size, and an analysis is left without its session only if it began
\* after the preview.
KeepsThePreview ==
    ExecuteEvidenceDeletion /\ preview'.pc = "collecting" =>
        LET rest == store'[preview.store].sessions IN
        /\ store[preview.store].sessions = preview.sessions
               => Usage(rest, {}) = preview.projected
        /\ \A a \in Analyses : rest[a].status # "absent" /\ TargetOf[a] \in preview.selected
               => preview.sessions[a].status = "absent"
DeletionsKeepThePreview == [][KeepsThePreview]_vars

=============================================================================
