--------------------------- MODULE SchemaMigration ---------------------------
(***************************************************************************)
(* Opening the evidence database: an older one is copied to the backup     *)
(* directory and upgraded in one transaction, a newer one is refused, and  *)
(* several processes, of several builds of the program, may be opening,    *)
(* recording into and importing into the same database at once.            *)
(*                                                                         *)
(* packages/storage/src/storage.ts, packages/storage/src/migrations.ts.    *)
(***************************************************************************)
EXTENDS Integers, FiniteSets

CONSTANTS
    Openers,       \* the processes
    Builds,        \* the last schema version each build of the program knows
    Found,         \* the databases that may be there at the start
    MaxExchanges   \* the bound on stored exchanges

VARIABLES
    database,      \* the file: exists, user_version, ledger, triggers, raw_exchanges
    backups,       \* the complete copies under backups/
    opener         \* the progress of each call of openTekrionStorage

vars == <<database, backups, opener>>

-----------------------------------------------------------------------------
(* The migrations.                                                         *)

\* The header each scrubbing migration removes, by its version.
Forbidden == [v \in 4 .. 6 |-> CASE v = 4 -> "x-api-key"
                                  [] v = 5 -> "chatgpt-account-id"
                                  [] v = 6 -> "anthropic-organization-id"]

Records == {"raw_exchanges", "events", "normalization_runs", "file_changes",
            "context_edges", "analysis_runs", "redactions"}

InitialSchema(d) == [d EXCEPT !.guards = {}, !.exchanges = {}]

\* The triggers that refuse to touch the rows of a session imported read-only.
ImportedGuards(d) ==
    [d EXCEPT !.guards = @ \cup (Records \X {"insert"})
        \cup ({"sessions", "session_sequences", "raw_exchanges", "analysis_runs"} \X {"update"})]

CompleteGuards(d) ==
    [d EXCEPT !.guards = @ \cup (Records \X {"update"})
                           \cup ((Records \cup {"session_sequences"}) \X {"delete"})]

Scrubbed(d, header) == [d EXCEPT !.exchanges = {[x EXCEPT !.headers = @ \ {header}] : x \in @}]

\* The UPDATE fires the trigger for every imported row it changes.
Refuses(d, header) ==
    /\ <<"raw_exchanges", "update">> \in d.guards
    /\ \E x \in d.exchanges : x.imported /\ header \in x.headers

RemoveApiKey(d) == [Scrubbed(d, Forbidden[4]) EXCEPT !.aborted = @ \/ Refuses(d, Forbidden[4])]

RemoveAccountId(d) == [Scrubbed(d, Forbidden[5]) EXCEPT !.aborted = @ \/ Refuses(d, Forbidden[5])]

\* The last migration takes the trigger away and puts it back.
RemoveOrganizationId(d) == Scrubbed(d, Forbidden[6])

Migrated(d, v) ==
    LET changed == CASE v = 1 -> InitialSchema(d)
                     [] v = 2 -> ImportedGuards(d)
                     [] v = 3 -> CompleteGuards(d)
                     [] v = 4 -> RemoveApiKey(d)
                     [] v = 5 -> RemoveAccountId(d)
                     [] v = 6 -> RemoveOrganizationId(d)
    IN  [changed EXCEPT !.version = v,
                        !.ledger = @ \cup {v},
                        !.aborted = @ \/ v \in d.ledger]

\* All pending migrations, in the one transaction.
Pending(d, v, from, latest) == IF v \in from + 1 .. latest THEN Migrated(d, v) ELSE d

Upgraded(d, from, latest) ==
    LET d1 == Pending(d, 1, from, latest)
        d2 == Pending(d1, 2, from, latest)
        d3 == Pending(d2, 3, from, latest)
        d4 == Pending(d3, 4, from, latest)
        d5 == Pending(d4, 5, from, latest)
    IN  Pending(d5, 6, from, latest)

LedgerMatches(d, latest) == \A v \in 1 .. latest : v <= d.version => v \in d.ledger

-----------------------------------------------------------------------------
Idle == [pc |-> "idle", build |-> 0, looked |-> 0, seen |-> 0, found |-> {}]

Empty == [exists |-> FALSE, version |-> 0, ledger |-> {}, guards |-> {}, exchanges |-> {},
          aborted |-> FALSE]

At(p, pc) == opener[p].pc = pc
Moves(p, pc) == opener' = [opener EXCEPT ![p].pc = pc]

Init ==
    /\ database \in Found
    /\ backups = {}
    /\ opener = [p \in Openers |-> Idle]

\* Faulty variant of NeedsBackup: a copy made before an earlier upgrade will do.
NeedsBackupOnce(d, latest) == d.exists /\ d.version < latest /\ backups = {}

NeedsBackup(d, latest) == d.exists /\ d.version < latest

\* The size and the version are read, and a newer database is refused.  Setting
\* the WAL mode makes a file of a database that was not there.
Look(p, build) ==
    /\ At(p, "idle")
    /\ opener' = [opener EXCEPT ![p] =
           [pc |-> IF database.version > build THEN "refused"
                   ELSE IF NeedsBackup(database, build) THEN "copying"
                   ELSE "applying",
            build |-> build,
            looked |-> database.version,
            seen |-> 0,
            found |-> IF database.exists THEN database.exchanges ELSE {}]]
    /\ database' = IF database.version > build THEN database ELSE [database EXCEPT !.exists = TRUE]
    /\ UNCHANGED backups

\* database.backup ends: the copy is of the moment it ends, named for what was seen.
CreateMigrationBackup(p) ==
    /\ At(p, "copying")
    /\ backups' = backups \cup {[named |-> opener[p].looked, version |-> database.version,
                                 exchanges |-> database.exchanges]}
    /\ Moves(p, "applying")
    /\ UNCHANGED database

\* applyMigrations reads the version again before it begins the transaction.
ApplyMigrations(p) ==
    /\ At(p, "applying")
    /\ opener' = [opener EXCEPT ![p].seen = database.version,
                                ![p].pc =
           IF database.version > opener[p].build THEN "refused"
           ELSE IF ~LedgerMatches(database, opener[p].build) THEN "refused"
           ELSE IF database.version = opener[p].build THEN "open"
           ELSE "migrating"]
    /\ UNCHANGED <<database, backups>>

\* The transaction, which is rolled back when one of its statements fails.
Migrate(p) ==
    /\ At(p, "migrating")
    /\ LET result == Upgraded(database, opener[p].seen, opener[p].build) IN
       \/ /\ ~result.aborted
          /\ database' = result
          /\ Moves(p, "open")
       \/ /\ result.aborted
          /\ Moves(p, "failed")
          /\ UNCHANGED database
    /\ UNCHANGED backups

\* The commands that only read open without a copy, a migration or a write.
OpenReadOnly(p, build) ==
    /\ At(p, "idle")
    /\ database.exists
    /\ opener' = [opener EXCEPT ![p] =
           [Idle EXCEPT !.build = build,
                        !.pc = IF database.version > build \/ ~LedgerMatches(database, build)
                               THEN "refused" ELSE "reading"]]
    /\ UNCHANGED <<database, backups>>

\* A process ends, or dies in the middle.
Leave(p) ==
    /\ ~At(p, "idle")
    /\ opener' = [opener EXCEPT ![p] = Idle]
    /\ UNCHANGED <<database, backups>>

\* The headers that a build does not know to be forbidden.
Retained(build) == {Forbidden[v] : v \in {w \in 4 .. 6 : w > build}}

\* A recorder strips the headers that its build knows to be forbidden.
Record(p) ==
    /\ At(p, "open")
    /\ Cardinality(database.exchanges) < MaxExchanges
    /\ \E header \in Retained(opener[p].build) :
           database' = [database EXCEPT !.exchanges =
                            @ \cup {[imported |-> FALSE, headers |-> {header}]}]
    /\ UNCHANGED <<backups, opener>>

\* An archive brings the headers its exchanges were recorded with, and the parser of
\* a build refuses the ones that build knows to be forbidden.
Import(p) ==
    /\ At(p, "open")
    /\ opener[p].build >= 2
    /\ Cardinality(database.exchanges) < MaxExchanges
    /\ \E header \in Retained(opener[p].build) :
           database' = [database EXCEPT !.exchanges =
                            @ \cup {[imported |-> TRUE, headers |-> {header}]}]
    /\ UNCHANGED <<backups, opener>>

Next ==
    \E p \in Openers :
        \/ \E build \in Builds : Look(p, build) \/ OpenReadOnly(p, build)
        \/ CreateMigrationBackup(p) \/ ApplyMigrations(p) \/ Migrate(p)
        \/ Leave(p) \/ Record(p) \/ Import(p)

Spec == Init /\ [][Next]_vars

-----------------------------------------------------------------------------
(* Properties.                                                             *)

\* An opening that upgrades the version it found when it looked has made a backup
\* of that version that holds all it found, whoever opened, recorded or died in
\* between: the copy is awaited before applyMigrations reads the version again.
HasItsBackup(p) ==
    \E b \in backups : b.version = database.version /\ opener[p].found \subseteq b.exchanges
BacksUpFirst ==
    \A p \in Openers :
        /\ Migrate(p)
        /\ database'.version > database.version
        /\ database.version = opener[p].looked
        /\ opener[p].found # {}
        => HasItsBackup(p)
UpgradesAreBackedUp == [][BacksUpFirst]_vars

\* An upgrade that no other process disturbs succeeds, whatever the store holds:
\* the provider-support migrations remove the retained headers from it.
UpgradesSucceed == \A p \in Openers : ~At(p, "failed")

=============================================================================
