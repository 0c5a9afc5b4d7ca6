---------------------------- MODULE WorkspaceChanges ----------------------------
(***************************************************************************)
(* What a change of the workspace is: the difference of two snapshots, the *)
(* watcher's guess from what it sampled, and the pairing of a deletion and *)
(* a creation of one content as a rename.  A snapshot maps a path to its   *)
(* content (kind, size, mode and digest in the code) or to Absent.         *)
(*                                                                         *)
(* apps/cli/src/run/workspace-observer.ts, workspace-watcher.ts.           *)
(***************************************************************************)
EXTENDS Integers, Sequences, FiniteSets, SequencesExt

CONSTANTS
    Paths,
    Contents,
    Absent,
    Secret       \* the paths whose content is never kept

ASSUME PathsAssumption == IsFiniteSet(Paths)
ASSUME AbsentAssumption == Absent \notin Contents
ASSUME SecretAssumption == Secret \subseteq Paths

States == Contents \cup {Absent}
Files == [Paths -> States]

\* `from` differs from `path` in a rename only.
Changes == [path : Paths, from : Paths, operation : {"create", "modify", "delete", "rename"},
            before : States, after : States]

\* What a path went through, if anything.
Direct(p, before, after) ==
    IF before = after THEN {}
    ELSE {[path |-> p, from |-> p, before |-> before, after |-> after,
           operation |-> IF before = Absent THEN "create"
                         ELSE IF after = Absent THEN "delete" ELSE "modify"]}

\* A path that is back in its first state, and was seen in another: two changes.
Transient(p, baseline, current, samples) ==
    LET other == SelectInSeq(samples, LAMBDA s : s \notin {baseline, Absent})
        gone == SelectInSeq(samples, LAMBDA s : s = Absent)
        via == IF other # 0 THEN samples[other] ELSE IF gone # 0 THEN Absent ELSE baseline
    IN Direct(p, baseline, via) \cup Direct(p, via, current)

\* The changes of one path in a batch of the watcher.
Observed(p, baseline, current, samples) ==
    IF baseline # current THEN Direct(p, baseline, current)
    ELSE Transient(p, baseline, current, samples)

Deletions(changes, content) == {c \in changes : c.operation = "delete" /\ c.before = content}
Creations(changes, content) == {c \in changes : c.operation = "create" /\ c.after = content}

\* Contents that left one path and appeared at one.
Moved(changes) ==
    {v \in Contents : Cardinality(Deletions(changes, v)) = 1
                        /\ Cardinality(Creations(changes, v)) = 1}

PairRenames(changes) ==
    LET Rename(v) == [path |-> (CHOOSE c \in Creations(changes, v) : TRUE).path,
                      from |-> (CHOOSE c \in Deletions(changes, v) : TRUE).path,
                      operation |-> "rename", before |-> v, after |-> v]
    IN (changes \ UNION {Deletions(changes, v) \cup Creations(changes, v) : v \in Moved(changes)})
         \cup {Rename(v) : v \in Moved(changes)}

\* changesBetween, of the entries of two snapshots.
ChangesBetween(baseline, final) ==
    PairRenames(UNION {Direct(p, baseline[p], final[p]) : p \in Paths})

\* Whether the content of a change may be kept: a rename has two paths.
ContentAllowed(c) == {c.path, c.from} \cap Secret = {}

-----------------------------------------------------------------------------
\* The workspace that the changes make of `baseline`.
Applied(changes, baseline) ==
    [p \in Paths |->
       IF \E c \in changes : c.path = p THEN (CHOOSE c \in changes : c.path = p).after
       ELSE IF \E c \in changes : c.from = p THEN Absent ELSE baseline[p]]
=============================================================================
