-------------------------- MODULE EvidenceComponents --------------------------
(***************************************************************************)
(* The components that keep or read the recorded evidence and are proved   *)
(* about together: the sessionizer, the reconstruction of a chain,         *)
(* archives and deletion, the schema of the database and the blob store.   *)
(* They share no state, so each is an instance with variables of its own;  *)
(* Components composes them with the others.                               *)
(***************************************************************************)
EXTENDS Integers, Sequences, FiniteSets

CONSTANTS
    Signals, Answers, IdleWindow, MaxTime, MaxRequests,
    MaxRestarts,                                             \* Sessionization
    Turns, MaximumDepth, MaxTurns,                           \* ContextReconstruction
    Homes, HomeOf, Held, HolderOf, BodyOf, TargetOf,         \* ArchiveTransfer:
    Moved, Imports, MaxArchives,                             \*   sessions in archives
    Kept, Analyses, Limits,                                  \*   and under retention
    Openers, Builds, Databases, MaxExchanges,                \* SchemaMigration
    Processes, Puts, ProcessOf, BlobContents, PutContents,
    External, Limited, MaxStored, Uses                       \* BlobStore

VARIABLES
    now, responses, clients, stored, evidence, recorded, unparsed,
    restarts,                                                            \* Sessionization
    chain, reading, turns, previous, visited, marks, answer,             \* Context
    store, past, archives, exporter, importer, preview,                  \* ArchiveTransfer
    database, backups, opener,                                           \* SchemaMigration
    overlapping, running, rows, files, temps, refs, put, collector       \* BlobStore

Sessionizing == INSTANCE Sessionization

Context == INSTANCE ContextReconstruction WITH
    log <- chain, phase <- reading, Exchanges <- Turns, MaxLog <- MaxTurns

\* Once for the way of an archive and once for deletion.
Transfer == INSTANCE ArchiveTransfer WITH
    Stores <- Homes, Exchanges <- Held, SessionOf <- HolderOf,
    Sessions <- Moved, Analyses <- {}, Limits <- {}

Retention == INSTANCE ArchiveTransfer WITH
    Stores <- Homes, Exchanges <- Held, SessionOf <- HolderOf,
    Sessions <- Kept, Imports <- {}, MaxArchives <- 0

Schema == INSTANCE SchemaMigration WITH Found <- Databases

Blobs == INSTANCE BlobStore WITH
    Contents <- BlobContents, Stores <- PutContents

-----------------------------------------------------------------------------
(* What the theorems ask of the parameters.                                *)

\* The key of an analysis is made of strings.
ASSUME SignalsAssumption ==
    /\ \A s \in Signals : s.analysis \in Seq(STRING)
    /\ IdleWindow \in Nat

ASSUME TurnsAssumption == \A x \in Turns : {x.kept, x.conversation, x.managed} \subseteq BOOLEAN

\* An analysis is a session of its own, every session is recorded in a home, and the
\* events of a session itself are not those of an exchange.
ASSUME RetentionAssumption ==
    /\ Analyses \subseteq Kept
    /\ HomeOf \in [Moved \cup Kept -> Homes]
    /\ HolderOf \in [Held -> Moved \cap Kept]
    /\ {"started", "ended"} \cap Held = {}

\* The builds know the migrations there are, and a file that is found is a database.
IsDatabase(d) ==
    /\ DOMAIN d = {"exists", "version", "ledger", "guards", "exchanges", "aborted"}
    /\ d.version \in Nat /\ d.aborted \in BOOLEAN

ASSUME MigrationsAssumption ==
    /\ Builds \subseteq 1 .. 6
    /\ \A d \in Databases : IsDatabase(d)

\* A put runs in one process and stores contents of its own, there are finitely many,
\* and the ceiling admits a blob.
ConfigurationOK ==
    /\ External \subseteq BlobContents
    /\ ProcessOf \in [Puts -> Processes]
    /\ PutContents \in [Puts -> SUBSET BlobContents]
    /\ IsFiniteSet(Puts)
    /\ MaxStored \in Nat \ {0}

ASSUME BlobsAssumption == ConfigurationOK
=============================================================================
