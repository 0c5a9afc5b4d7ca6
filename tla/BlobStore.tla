------------------------------- MODULE BlobStore -------------------------------
(***************************************************************************)
(* The content-addressed blob store: a row per content in the database and *)
(* a file per large content beside it, both shared by every process.  A    *)
(* put writes a temporary file, renames it and inserts the row; each       *)
(* writable opening of the store deletes the temporary files; a collection *)
(* deletes the rows nothing refers to and then their files.                *)
(*                                                                         *)
(* One action is what a process does between two awaits, or one statement  *)
(* on the database.  Every content is stored in one unit of the quota.     *)
(*                                                                         *)
(* packages/storage/src/blob-store.ts, packages/storage/src/storage.ts.    *)
(***************************************************************************)
EXTENDS Integers, FiniteSets

CONSTANTS
    Processes,    \* the daemon and the wrappers
    Puts,         \* the calls of put a process may have under way
    ProcessOf,    \* the process of each of Puts
    Contents,
    Stores,       \* the contents each of Puts stores
    External,     \* the contents above inlineThresholdBytes
    Limited,      \* the processes opened with maxStoredBytes
    MaxStored,    \* maxStoredBytes
    Uses          \* what may overlap a put: see below

\* Uses is a set of subsets of {"cleaning", "collection", "failure"}:
\* "cleaning": the store is opened while a put has a temporary file;
\* "collection": garbage is collected while a put is under way;
\* "failure": a put fails while another of the same content is under way.
\* The code forbids none of them: a set that lacks one describes a use of
\* the program in which it does not happen.

VARIABLES
    overlapping,  \* the one of Uses this behaviour is of
    running,    \* the processes that have opened the store
    rows,       \* table blobs
    files,      \* the contents whose file is at its final path
    temps,      \* the puts whose temporary file is in the blob directory
    refs,       \* the contents that an exchange, event, change or analysis names
    put,        \* the progress of each put
    collector   \* one removeUnreferenced call

vars == <<overlapping, running, rows, files, temps, refs, put, collector>>

IdlePut == [pc |-> "idle"]
IdleCollector == [pc |-> "idle", contents |-> {}]

Waiting == {"looking", "writing", "renaming", "inserting", "confirming", "verifying",
            "recovering", "unlinking"}
PutStates == {IdlePut} \cup [pc : Waiting \cup {"returned"}, content : Contents,
                             existed : BOOLEAN]

At(w, pc) == put[w].pc = pc
Moves(w, pc) == put' = [put EXCEPT ![w].pc = pc]
Ends(w) == put' = [put EXCEPT ![w] = IdlePut]
Underway(w) == put[w].pc \in Waiting
UnderwayOf(c) == {w \in Puts : Underway(w) /\ put[w].content = c}

\* What get(c) can read back: the row, and the file unless the row holds the data.
Readable == rows \cap (files \cup (Contents \ External))

Init ==
    /\ overlapping \in Uses
    /\ running = {}
    /\ rows = {} /\ files = {} /\ temps = {} /\ refs = {}
    /\ put = [w \in Puts |-> IdlePut]
    /\ collector = IdleCollector

-----------------------------------------------------------------------------
(* Opening, and dying.                                                     *)

\* initialize: every temporary file goes, whosever it is.
CleanTemps ==
    /\ "cleaning" \in overlapping \/ \A w \in temps : ~Underway(w)
    /\ temps' = {}

Open(p) ==
    /\ p \notin running
    /\ running' = running \cup {p}
    /\ CleanTemps
    /\ UNCHANGED <<overlapping, rows, files, refs, put, collector>>

\* An inspection command opens the same store for writing.
Inspect ==
    /\ temps # {}
    /\ CleanTemps
    /\ UNCHANGED <<overlapping, running, rows, files, refs, put, collector>>

Crash(p) ==
    /\ p \in running
    /\ running' = running \ {p}
    /\ put' = [w \in Puts |-> IF ProcessOf[w] = p THEN IdlePut ELSE put[w]]
    /\ UNCHANGED <<overlapping, rows, files, temps, refs, collector>>

-----------------------------------------------------------------------------
(* put, and what its caller does with the reference it returns.            *)

\* In a use of the program where failures or collections overlap nothing, no
\* put starts in the middle of one.
MayBegin(c) ==
    /\ "failure" \in overlapping
         \/ \A w \in UnderwayOf(c) : ~At(w, "recovering") /\ ~At(w, "unlinking")
    /\ "collection" \in overlapping \/ collector = IdleCollector

\* Faulty variant of WithinQuota: it lets a put through that starts with the store exactly full.
WithinQuotaUnlessOver(w) == ProcessOf[w] \in Limited => Cardinality(rows) <= MaxStored

WithinQuota(w) == ProcessOf[w] \in Limited => Cardinality(rows) + 1 <= MaxStored

Begins(w, c) ==
    /\ ProcessOf[w] \in running
    /\ put[w] = IdlePut
    /\ c \in Stores[w]
    /\ MayBegin(c)

PutExisting(w, c) ==
    /\ Begins(w, c)
    /\ c \in rows
    /\ put' = [put EXCEPT ![w] = [pc |-> "verifying", content |-> c, existed |-> FALSE]]
    /\ UNCHANGED <<overlapping, running, rows, files, temps, refs, collector>>

PutInline(w, c) ==
    /\ Begins(w, c)
    /\ c \notin rows \cup External
    /\ WithinQuota(w)
    /\ rows' = rows \cup {c}
    /\ put' = [put EXCEPT ![w] = [pc |-> "returned", content |-> c, existed |-> FALSE]]
    /\ UNCHANGED <<overlapping, running, files, temps, refs, collector>>

PutExternal(w, c) ==
    /\ Begins(w, c)
    /\ c \in External \ rows
    /\ WithinQuota(w)
    /\ put' = [put EXCEPT ![w] = [pc |-> "looking", content |-> c, existed |-> FALSE]]
    /\ UNCHANGED <<overlapping, running, rows, files, temps, refs, collector>>

LookForFile(w) ==
    /\ At(w, "looking")
    /\ put' = [put EXCEPT ![w].pc = "writing", ![w].existed = put[w].content \in files]
    /\ UNCHANGED <<overlapping, running, rows, files, temps, refs, collector>>

Write(w) ==
    /\ At(w, "writing")
    /\ temps' = temps \cup {w}
    /\ Moves(w, "renaming")
    /\ UNCHANGED <<overlapping, running, rows, files, refs, collector>>

\* The rename fails when the temporary file is gone.
Publish(w) ==
    /\ At(w, "renaming")
    /\ temps' = temps \ {w}
    /\ \/ /\ w \in temps
          /\ files' = files \cup {put[w].content}
          /\ Moves(w, "inserting")
       \/ /\ w \notin temps
          /\ Moves(w, "recovering")
          /\ UNCHANGED files
    /\ UNCHANGED <<overlapping, running, rows, refs, collector>>

\* INSERT OR IGNORE: a row of another process is verified before it is returned.
Insert(w) ==
    /\ At(w, "inserting")
    /\ rows' = rows \cup {put[w].content}
    /\ Moves(w, IF put[w].content \in rows THEN "confirming" ELSE "returned")
    /\ UNCHANGED <<overlapping, running, files, temps, refs, collector>>

\* get, outside the try block and inside it.  The row was read just before.
Verify(w) ==
    /\ Underway(w)
    /\ LET found == put[w].content \in files \cup (Contents \ External) IN
       \/ At(w, "verifying") /\ found /\ Moves(w, "returned")
       \/ At(w, "verifying") /\ ~found /\ Ends(w)
       \/ At(w, "confirming") /\ Moves(w, IF found THEN "returned" ELSE "recovering")
    /\ UNCHANGED <<overlapping, running, rows, files, temps, refs, collector>>

\* A full disk or a failing database anywhere in the try block.
Fail(w) ==
    /\ put[w].pc \in {"writing", "renaming", "inserting"}
    /\ "failure" \in overlapping \/ UnderwayOf(put[w].content) = {w}
    /\ temps' = temps \ {w}
    /\ Moves(w, "recovering")
    /\ UNCHANGED <<overlapping, running, rows, files, refs, collector>>

\* Faulty variant of Recover: the catch block removes its file without looking for another's row.
RecoverBlindly(w) ==
    /\ At(w, "recovering")
    /\ IF put[w].existed THEN Ends(w) ELSE Moves(w, "unlinking")
    /\ UNCHANGED <<overlapping, running, rows, files, temps, refs, collector>>

\* The catch block: another's row is used, a file that was there before stays.
Recover(w) ==
    /\ At(w, "recovering")
    /\ \/ put[w].content \in rows /\ Moves(w, "verifying")
       \/ put[w].content \notin rows /\ ~put[w].existed /\ Moves(w, "unlinking")
       \/ put[w].content \notin rows /\ put[w].existed /\ Ends(w)
    /\ UNCHANGED <<overlapping, running, rows, files, temps, refs, collector>>

Unlink(w) ==
    /\ At(w, "unlinking")
    /\ files' = files \ {put[w].content}
    /\ Ends(w)
    /\ UNCHANGED <<overlapping, running, rows, temps, refs, collector>>

\* The caller stores a record that names the blob (a foreign key), or gives up.
Refer(w) ==
    /\ At(w, "returned")
    /\ refs' = refs \cup ({put[w].content} \cap rows)
    /\ Ends(w)
    /\ UNCHANGED <<overlapping, running, rows, files, temps, collector>>

GiveUp(w) ==
    /\ At(w, "returned")
    /\ Ends(w)
    /\ UNCHANGED <<overlapping, running, rows, files, temps, refs, collector>>

-----------------------------------------------------------------------------
(* removeUnreferenced, after the sessions that named a blob are deleted.   *)

Release(c) ==
    /\ c \in refs
    /\ refs' = refs \ {c}
    /\ UNCHANGED <<overlapping, running, rows, files, temps, put, collector>>

FindUnreferenced ==
    /\ collector = IdleCollector
    /\ "collection" \in overlapping \/ \A w \in Puts : ~Underway(w)
    /\ rows \ refs # {}
    /\ collector' = [pc |-> "deleting", contents |-> rows \ refs]
    /\ UNCHANGED <<overlapping, running, rows, files, temps, refs, put>>

DeleteUnreferenced ==
    /\ collector.pc = "deleting"
    /\ LET deleted == (collector.contents \cap rows) \ refs IN
       /\ rows' = rows \ deleted
       /\ collector' = [pc |-> "unlinking", contents |-> deleted \cap External]
    /\ UNCHANGED <<overlapping, running, files, temps, refs, put>>

\* The files go in any order; the collecting process may die on the way.
UnlinkCollected ==
    /\ collector.pc = "unlinking"
    /\ \E gone \in SUBSET collector.contents : files' = files \ gone
    /\ collector' = IdleCollector
    /\ UNCHANGED <<overlapping, running, rows, temps, refs, put>>

-----------------------------------------------------------------------------
PutStep(w) ==
    \/ \E c \in Contents : PutExisting(w, c) \/ PutInline(w, c) \/ PutExternal(w, c)
    \/ LookForFile(w) \/ Write(w) \/ Publish(w) \/ Insert(w) \/ Verify(w)
    \/ Fail(w) \/ Recover(w) \/ Unlink(w) \/ Refer(w) \/ GiveUp(w)

Next ==
    \/ \E p \in Processes : Open(p) \/ Crash(p)
    \/ Inspect
    \/ \E w \in Puts : PutStep(w)
    \/ \E c \in Contents : Release(c)
    \/ FindUnreferenced \/ DeleteUnreferenced \/ UnlinkCollected

Spec == Init /\ [][Next]_vars

-----------------------------------------------------------------------------
(* Properties.                                                             *)

\* Each variable holds what the code keeps in it, and a record names only a
\* blob that has a row (the foreign keys of the schema).
TypeOK ==
    /\ overlapping \in Uses
    /\ running \subseteq Processes
    /\ temps \subseteq Puts
    /\ files \subseteq External
    /\ rows \subseteq Contents
    /\ refs \subseteq rows
    /\ put \in [Puts -> PutStates]
    /\ collector \in [pc : {"idle", "deleting", "unlinking"},
                     contents : SUBSET Contents]

\* A row never stands for a file that is not there, whatever fails or dies
\* between the rename and the insert and whoever cleans up after a failed put, in
\* a use of the program where puts overlap only puts.
RowsAreReadable == overlapping = {} => rows = Readable

\* The puts of the limited processes pass the ceiling by less than one blob for
\* each of them that may run at once: the quota is read before the awaits of
\* put and not again.  The contents an unlimited process stores are left out.
QuotaOvershootIsBounded ==
    LET limited == {w \in Puts : ProcessOf[w] \in Limited}
        unlimited == UNION {Stores[w] : w \in Puts \ limited}
    IN  Cardinality(rows \ unlimited) <= MaxStored + Cardinality(limited) - 1

\* What recorded evidence names can be read back while other sessions are deleted.
SharedBlobsAreProtected == refs \subseteq Readable

=============================================================================
