--------------------------- MODULE WrappedRunProofs ---------------------------
(***************************************************************************)
(* Proofs about WrappedRun and WorkspaceChanges, for every workspace, every *)
(* number of edits and outputs, and every limit.                           *)
(***************************************************************************)
EXTENDS WrappedRun, FiniteSetTheorems, SequenceTheorems, TLAPS

Before == {"baseline", "record baseline", "record error", "spawn", "record crash", "killed"}
After == {"settle", "drain", "record watcher", "change", "record change", "record final",
          "record failure", "finish", "record end"}
Awaiting == {"record baseline", "record error", "record crash", "record watcher",
             "record change", "record final", "record failure", "record end"}
PCs == Before \cup After \cup {"running", "close", "exited"}

\* The kind of the operation commandRun waits for.
KindAt(pc) ==
    CASE pc = "record baseline" -> "baseline"
      [] pc = "record crash" -> "crashed"
      [] pc = "record change" -> "exact"
      [] pc = "record final" -> "final"
      [] pc = "record end" -> "ended"
      [] OTHER -> "error"

ExactChanges == [change : Changes, payload : BOOLEAN]

\* What is queued by whom.
GoodOp(op) ==
    /\ op.owner \in {"main", "stream", "watcher"} /\ op.kind \in Kinds
    /\ op.kind \in {"started", "output"} <=> op.owner = "stream"
    /\ op.kind = "guess" => op.owner = "watcher" /\ op.change \in Changes
    /\ op.kind = "exact" =>
          /\ op.owner = "main" /\ op.change \in ExactChanges
          /\ op.change.payload => ContentAllowed(op.change.change)

Ops == [owner : {"main", "stream", "watcher"}, kind : Kinds,
        change : Changes \cup {{}} \cup ExactChanges]

Wrappers == [pc : PCs, failed : BOOLEAN, answer : {"none", "done", "rejected"},
             expired : BOOLEAN]
Watchers == [state : {"off", "on", "failed", "stopping", "stopped"},
             samples : [Paths -> Seq(States)], emit : SUBSET Changes, last : SUBSET Changes,
             error : BOOLEAN]
Snapshots == [taken : BOOLEAN, files : Files, reasons : SUBSET Paths]
Stores == [kinds : SUBSET Kinds, guesses : SUBSET Changes, exact : SUBSET ExactChanges,
           payloads : SUBSET {c \in Changes : ContentAllowed(c)}]

RunTypes ==
    /\ wrapper \in Wrappers
    /\ child \in {"none", "running", "closed"}
    /\ files \in Files
    /\ baseline \in Snapshots
    /\ final \in Snapshots
    /\ watcher \in Watchers
    /\ queue \in Seq(Ops)
    /\ \A i \in 1 .. Len(queue) : GoodOp(queue[i])
    /\ stored \in Stores
    /\ todo \subseteq Changes

\* The child runs in one state of the wrapper, which passed others before and
\* passes others after.
ChildControl ==
    /\ child = "running" <=> wrapper.pc = "running"
    /\ wrapper.pc \in Before => child = "none"
    /\ wrapper.pc \in After => child = "closed"

\* At most the operation commandRun waits for is queued for it, and what it was
\* told is done is recorded.
QueueControl ==
    wrapper.pc # "killed" =>
        /\ \A i \in 1 .. Len(queue) : queue[i].owner = "main" =>
              /\ wrapper.pc \in Awaiting /\ wrapper.answer = "none"
              /\ queue[i].kind = KindAt(wrapper.pc)
              /\ \A j \in 1 .. Len(queue) : queue[j].owner = "main" => i = j
        /\ wrapper.answer # "none" => wrapper.pc \in Awaiting
        /\ wrapper.answer = "done" => KindAt(wrapper.pc) \in stored.kinds

\* The end of the run is queued behind all output of the child.
OutputBeforeEnd ==
    child = "closed" =>
        /\ wrapper.pc = "record end" /\ wrapper.answer = "none" =>
              \A i, j \in 1 .. Len(queue) :
                 queue[i].owner = "stream" /\ queue[j].owner = "main" => i < j
        /\ wrapper.pc \in {"close", "exited"} \/ (wrapper.pc = "record end" /\ Answered) =>
              \A i \in 1 .. Len(queue) : queue[i].owner # "stream"

ExactOnes == {c.change : c \in stored.exact}

\* The changes recorded, queued and still to record, together those between
\* the two snapshots.
ChangesAccounted ==
    LET all == ChangesBetween(baseline.files, final.files) IN
    /\ wrapper.pc = "change" \/ (wrapper.pc = "record change" /\ wrapper.answer = "done") =>
          ExactOnes \cup todo = all
    /\ wrapper.pc = "record change" /\ wrapper.answer = "none" =>
          \A i \in 1 .. Len(queue) : queue[i].owner = "main" =>
             ExactOnes \cup todo \cup {queue[i].change.change} = all
    /\ wrapper.pc = "record final" => ExactOnes = all
    /\ wrapper.pc \in {"finish", "record end", "close", "exited"} /\ child = "closed" =>
          ExactOnes = all /\ "final" \in stored.kinds

\* What has been recorded while nothing was found to fail.
NothingLost ==
    ~wrapper.failed =>
        /\ child # "none" =>
              \/ "started" \in stored.kinds
              \/ \E i \in 1 .. Len(queue) : queue[i].kind = "started"
        /\ wrapper.pc \in {"spawn", "running"} \cup After \/ child = "closed" =>
              "baseline" \in stored.kinds /\ watcher.state # "off"
        /\ wrapper.pc \in {"close", "exited"} /\ child = "closed" => "ended" \in stored.kinds
        /\ ChangesAccounted

RunInv ==
    /\ RunTypes
    /\ ChildControl
    /\ QueueControl
    /\ OutputBeforeEnd
    /\ wrapper.pc \in Before \cup {"running", "settle", "drain"} => stored.exact = {}
    /\ wrapper.pc \in {"record error", "record watcher", "record failure"} => wrapper.failed
    /\ NothingLost

-----------------------------------------------------------------------------
(* Changes of the workspace.                                               *)

\* What a path went through is one change of that path.
LEMMA DirectChanges ==
    ASSUME NEW p \in Paths, NEW x \in States, NEW y \in States
    PROVE  /\ Direct(p, x, y) \subseteq Changes
           /\ x = y => Direct(p, x, y) = {}
           /\ x # y => \E d : Direct(p, x, y) = {d}
           /\ \A d \in Direct(p, x, y) :
                 /\ x # y /\ d.path = p /\ d.from = p /\ d.before = x /\ d.after = y
                 /\ d.operation = "create" <=> x = Absent
                 /\ d.operation = "delete" <=> y = Absent
                 /\ d.operation # "rename"
  <1> DEFINE operation == IF x = Absent THEN "create" ELSE IF y = Absent THEN "delete" ELSE "modify"
             d == [path |-> p, from |-> p, before |-> x, after |-> y, operation |-> operation]
  <1>1. Direct(p, x, y) = IF x = y THEN {} ELSE {d}  BY DEF Direct
  <1>2. operation \in {"create", "modify", "delete", "rename"}  OBVIOUS
  <1>3. d \in Changes
    <2> HIDE DEF operation
    <2> QED  BY <1>2 DEF Changes
  <1>4. /\ d.path = p /\ d.from = p /\ d.before = x /\ d.after = y /\ d.operation = operation
    OBVIOUS
  <1>5. x # y => /\ operation = "create" <=> x = Absent
                 /\ operation = "delete" <=> y = Absent
                 /\ operation # "rename"
    OBVIOUS
  <1> HIDE DEF d, operation
  <1> QED  BY <1>1, <1>3, <1>4, <1>5

\* The unpaired differences of two snapshots.
Differences(f, g) == UNION {Direct(p, f[p], g[p]) : p \in Paths}

\* There is one difference per path that differs, finitely many in all.
LEMMA DifferencesPerPath ==
    ASSUME NEW f \in Files, NEW g \in Files
    PROVE  LET D == Differences(f, g) IN
           /\ D \subseteq Changes /\ IsFiniteSet(D)
           /\ \A d \in D : /\ f[d.path] # g[d.path] /\ d.from = d.path
                           /\ d.before = f[d.path] /\ d.after = g[d.path]
                           /\ d.operation = "create" <=> f[d.path] = Absent
                           /\ d.operation = "delete" <=> g[d.path] = Absent
                           /\ d.operation # "rename"
           /\ \A p \in Paths : f[p] # g[p] => \E d \in D : d.path = p
           /\ \A d, e \in D : d.path = e.path => d = e
  <1> DEFINE D == Differences(f, g)
             Differing == {p \in Paths : f[p] # g[p]}
             At0 == [p \in Differing |-> CHOOSE d \in Direct(p, f[p], g[p]) : TRUE]
  <1>1. \A p \in Paths : f[p] \in States /\ g[p] \in States  BY DEF Files
  <1>2. \A p \in Differing : \E d : Direct(p, f[p], g[p]) = {d}
    BY <1>1, DirectChanges
  <1>3. \A p \in Differing : Direct(p, f[p], g[p]) = {At0[p]}
    BY <1>2
  <1>4. \A d \in D : d \in Changes /\ d.path \in Differing /\ d \in Direct(d.path, f[d.path], g[d.path])
    BY <1>1, DirectChanges DEF Differences
  <1>5. At0 \in Surjection(Differing, D)
    <2>1. \A p \in Differing : At0[p] \in D  BY <1>3 DEF Differences
    <2>2. \A d \in D : At0[d.path] = d /\ d.path \in Differing  BY <1>3, <1>4
    <2> HIDE DEF D
    <2>3. At0 \in [Differing -> D]  BY <2>1
    <2> HIDE DEF At0, Differing
    <2> QED  BY <2>2, <2>3 DEF Surjection
  <1>6. IsFiniteSet(D)
    <2>1. Differing \in SUBSET Paths  OBVIOUS
    <2>2. IsFiniteSet(Differing)  BY <2>1, FS_Subset, PathsAssumption
    <2> HIDE DEF D, At0, Differing
    <2> QED  BY <1>5, <2>2, FS_Surjection
  <1>7. \A d \in D : /\ f[d.path] # g[d.path] /\ d.from = d.path
                     /\ d.before = f[d.path] /\ d.after = g[d.path]
                     /\ d.operation = "create" <=> f[d.path] = Absent
                     /\ d.operation = "delete" <=> g[d.path] = Absent
                     /\ d.operation # "rename"
    BY <1>1, <1>4, DirectChanges
  <1>8. \A p \in Paths : f[p] # g[p] => \E d \in D : d.path = p
    <2> SUFFICES ASSUME NEW p \in Paths, f[p] # g[p] PROVE \E d \in D : d.path = p
      OBVIOUS
    <2>1. At0[p] \in Direct(p, f[p], g[p])  BY <1>3
    <2>2. At0[p].path = p  BY <1>1, <2>1, DirectChanges
    <2> QED  BY <2>1, <2>2 DEF Differences
  <1>9. \A d, e \in D : d.path = e.path => d = e
    <2>1. \A d \in D : d = At0[d.path]  BY <1>3, <1>4
    <2> HIDE DEF D, At0
    <2> QED  BY <2>1
  <1> QED  BY <1>4, <1>6, <1>7, <1>8, <1>9

\* A content that moved left exactly one path and appeared at exactly one.
LEMMA MovedOnce ==
    ASSUME NEW D, IsFiniteSet(D), NEW v \in Moved(D)
    PROVE  /\ v \in Contents
           /\ \E c : Creations(D, v) = {c}
           /\ \E d : Deletions(D, v) = {d}
  <1>1. Creations(D, v) \in SUBSET D /\ Deletions(D, v) \in SUBSET D
    BY DEF Creations, Deletions
  <1>2. IsFiniteSet(Creations(D, v)) /\ IsFiniteSet(Deletions(D, v))
    BY <1>1, FS_Subset
  <1>3. v \in Contents /\ Cardinality(Creations(D, v)) = 1 /\ Cardinality(Deletions(D, v)) = 1
    BY DEF Moved
  <1> QED  BY <1>2, <1>3, FS_Singleton

\* Pairing renames keeps changes what they are.
LEMMA PairedChanges ==
    ASSUME NEW D, D \subseteq Changes
    PROVE  /\ PairRenames(D) \subseteq Changes
           /\ \A c \in PairRenames(D) : c.operation # "rename" => c \in D
  <1>1. ASSUME NEW v \in Moved(D)
        PROVE  Creations(D, v) # {} /\ Deletions(D, v) # {} /\ v \in States
    <2>1. Cardinality(Creations(D, v)) = 1 /\ Cardinality(Deletions(D, v)) = 1 /\ v \in Contents
      BY DEF Moved
    <2>2. Cardinality({}) = 0  BY FS_EmptySet
    <2> QED  BY <2>1, <2>2 DEF States
  <1>2. ASSUME NEW v \in Moved(D)
        PROVE  /\ (CHOOSE c \in Creations(D, v) : TRUE).path \in Paths
               /\ (CHOOSE c \in Deletions(D, v) : TRUE).path \in Paths
    <2>1. (CHOOSE c \in Creations(D, v) : TRUE) \in D  BY <1>1 DEF Creations
    <2>2. (CHOOSE c \in Deletions(D, v) : TRUE) \in D  BY <1>1 DEF Deletions
    <2> QED  BY <2>1, <2>2 DEF Changes
  <1>3. ASSUME NEW c \in PairRenames(D), c \notin D
        PROVE  c \in Changes /\ c.operation = "rename"
    <2>1. PICK v \in Moved(D) :
             c = [path |-> (CHOOSE x \in Creations(D, v) : TRUE).path,
                  from |-> (CHOOSE x \in Deletions(D, v) : TRUE).path,
                  operation |-> "rename", before |-> v, after |-> v]
      BY <1>3 DEF PairRenames
    <2> QED  BY <1>1, <1>2, <2>1 DEF Changes
  <1> QED  BY <1>3

\* The changes between two snapshots, applied to the first, make the second.
THEOREM ChangesMakeTheSnapshot ==
    ASSUME NEW f \in Files, NEW g \in Files
    PROVE  /\ ChangesBetween(f, g) \subseteq Changes
           /\ Applied(ChangesBetween(f, g), f) = g
  <1> DEFINE D == Differences(f, g)
             all == ChangesBetween(f, g)
  <1>1. /\ D \subseteq Changes /\ IsFiniteSet(D)
        /\ \A d \in D : /\ f[d.path] # g[d.path] /\ d.from = d.path
                        /\ d.before = f[d.path] /\ d.after = g[d.path]
                        /\ d.operation = "create" <=> f[d.path] = Absent
                        /\ d.operation = "delete" <=> g[d.path] = Absent
                        /\ d.operation # "rename"
        /\ \A p \in Paths : f[p] # g[p] => \E d \in D : d.path = p
        /\ \A d, e \in D : d.path = e.path => d = e
    BY DifferencesPerPath
  <1>2. all = PairRenames(D)  BY DEF ChangesBetween, Differences
  <1> HIDE DEF D
  <1> DEFINE Paired == UNION {Deletions(D, v) \cup Creations(D, v) : v \in Moved(D)}
             To(v) == CHOOSE c \in Creations(D, v) : TRUE
             Gone(v) == CHOOSE c \in Deletions(D, v) : TRUE
             Rename(v) == [path |-> To(v).path, from |-> Gone(v).path,
                           operation |-> "rename", before |-> v, after |-> v]
  <1>3. all = (D \ Paired) \cup {Rename(v) : v \in Moved(D)}
    BY <1>2 DEF PairRenames
  <1>4. ASSUME NEW v \in Moved(D)
        PROVE  /\ Creations(D, v) = {To(v)} /\ Deletions(D, v) = {Gone(v)}
               /\ To(v) \in D /\ To(v).operation = "create" /\ To(v).after = v
               /\ Gone(v) \in D /\ Gone(v).operation = "delete" /\ Gone(v).before = v
    <2>1. Creations(D, v) = {To(v)} /\ Deletions(D, v) = {Gone(v)}
      BY <1>1, MovedOnce
    <2> QED  BY <2>1 DEF Creations, Deletions
  <1> HIDE DEF all, To, Gone
  <1>5. \A c \in Paired : \E v \in Moved(D) : c = To(v) \/ c = Gone(v)
    BY <1>4
  <1> HIDE DEF Paired
  <1>6. ASSUME NEW p \in Paths, NEW c \in all, c.path = p
        PROVE  c.after = g[p] /\ f[p] # g[p]
               /\ \A d \in D : d.path = p => d \notin Paired \/ d.operation = "create"
    <2>1. CASE c \in D \ Paired  BY <1>1, <1>6, <2>1
    <2>2. CASE \E v \in Moved(D) : c = Rename(v)
      <3>1. PICK v \in Moved(D) : c = Rename(v)  BY <2>2
      <3>2. To(v).path = p /\ c.after = v  BY <1>6, <3>1
      <3> QED  BY <1>1, <1>4, <3>2
    <2> QED  BY <1>3, <2>1, <2>2
  <1>7. ASSUME NEW p \in Paths PROVE Applied(all, f)[p] = g[p]
    <2>0. Applied(all, f)[p] =
            IF \E c \in all : c.path = p THEN (CHOOSE c \in all : c.path = p).after
            ELSE IF \E c \in all : c.from = p THEN Absent ELSE f[p]
      BY DEF Applied
    <2>1. CASE \E c \in all : c.path = p
      <3>1. (CHOOSE c \in all : c.path = p) \in all /\ (CHOOSE c \in all : c.path = p).path = p
        BY <2>1
      <3>2. (CHOOSE c \in all : c.path = p).after = g[p]  BY <1>6, <3>1
      <3> QED  BY <2>0, <2>1, <3>2
    <2>2. CASE ~\E c \in all : c.path = p
      <3>1. CASE f[p] = g[p]
        <4>1. ~\E c \in all : c.from = p
          <5> SUFFICES ASSUME NEW c \in all, c.from = p PROVE FALSE  OBVIOUS
          <5>1. CASE c \in D \ Paired  BY <1>1, <3>1, <5>1
          <5>2. CASE \E v \in Moved(D) : c = Rename(v)
            <6>1. PICK v \in Moved(D) : c = Rename(v)  BY <5>2
            <6>2. Gone(v).path = p  BY <6>1
            <6> QED  BY <1>1, <1>4, <3>1, <6>2
          <5> QED  BY <1>3, <5>1, <5>2
        <4> QED  BY <2>0, <2>2, <3>1, <4>1
      <3>2. CASE f[p] # g[p]
        <4>1. PICK d \in D : d.path = p  BY <1>1, <3>2
        <4>2. d \in Paired  BY <1>3, <2>2, <4>1
        <4>3. PICK v \in Moved(D) : d = To(v) \/ d = Gone(v)  BY <1>5, <4>2
        <4>4. Rename(v) \in all /\ Rename(v).path = To(v).path /\ Rename(v).from = Gone(v).path
          BY <1>3
        <4>5. d = Gone(v)  BY <2>2, <4>1, <4>3, <4>4
        <4>6. g[p] = Absent  BY <1>1, <1>4, <4>1, <4>5
        <4>7. \E c \in all : c.from = p  BY <4>1, <4>4, <4>5
        <4> QED  BY <2>0, <2>2, <4>6, <4>7
      <3> QED  BY <3>1, <3>2
    <2> QED  BY <2>1, <2>2
  <1>8. Applied(all, f) = [p \in Paths |-> Applied(all, f)[p]]  BY DEF Applied
  <1>9. g = [p \in Paths |-> g[p]]  BY DEF Files
  <1>10. Applied(all, f) = g  BY <1>7, <1>8, <1>9
  <1>11. all \subseteq Changes  BY <1>1, <1>2, PairedChanges
  <1> QED  BY <1>10, <1>11 DEF all

\* A nonempty set of positions has a first one.
LEMMA FirstPosition ==
    ASSUME NEW I, I \subseteq Nat, I # {}
    PROVE  Min(I) \in I
  <1> DEFINE R == {ss \in Nat \X Nat : ss[1] < ss[2]}
  <1>1. IsWellFoundedOn(R, Nat)  BY NatLessThanWellFounded DEF OpToRel
  <1> HIDE DEF R
  <1>2. PICK x \in I : \A y \in I : ~(<<y, x>> \in R)  BY <1>1, WFMin
  <1>3. \A y \in I : x <= y
    <2> TAKE y \in I
    <2>1. x \in Nat /\ y \in Nat /\ ~(<<y, x>> \in R)  BY <1>2
    <2> QED  BY <2>1 DEF R
  <1> QED  BY <1>3 DEF Min

\* What the watcher makes of its samples of a path are changes.
LEMMA ObservedChanges ==
    ASSUME NEW p \in Paths, NEW x \in States, NEW y \in States, NEW samples \in Seq(States)
    PROVE  Observed(p, x, y, samples) \subseteq Changes
  <1> DEFINE I == {i \in 1 .. Len(samples) : samples[i] \notin {x, Absent}}
             other == SelectInSeq(samples, LAMBDA s : s \notin {x, Absent})
             gone == SelectInSeq(samples, LAMBDA s : s = Absent)
             via == IF other # 0 THEN samples[other] ELSE IF gone # 0 THEN Absent ELSE x
  <1>1. other = IF I # {} THEN Min(I) ELSE 0  BY DEF SelectInSeq
  <1>2. I \subseteq Nat /\ I \subseteq 1 .. Len(samples)  BY LenProperties
  <1>3. other # 0 => other \in 1 .. Len(samples)
    <2>1. I # {} => Min(I) \in I
      <3> HIDE DEF I
      <3> QED  BY <1>2, FirstPosition
    <2> HIDE DEF I, other
    <2> QED  BY <1>1, <1>2, <2>1
  <1>4. other # 0 => samples[other] \in States
    <2> HIDE DEF other
    <2> QED  BY <1>3, ElementOfSeq
  <1>5. Transient(p, x, y, samples) = Direct(p, x, via) \cup Direct(p, via, y)
    BY DEF Transient
  <1>6. via \in States
    <2>1. Absent \in States  BY DEF States
    <2> HIDE DEF other, gone
    <2> QED  BY <1>4, <2>1
  <1> HIDE DEF via
  <1>7. Direct(p, x, via) \subseteq Changes /\ Direct(p, via, y) \subseteq Changes
        /\ Direct(p, x, y) \subseteq Changes
    BY <1>6, DirectChanges
  <1> QED  BY <1>5, <1>7 DEF Observed

-----------------------------------------------------------------------------
(* The queue.                                                              *)

\* What an operation appended to the queue changes.
LEMMA Appended ==
    ASSUME RunTypes, NEW op \in Ops, GoodOp(op)
    PROVE  /\ Append(queue, op) \in Seq(Ops)
           /\ Len(queue) \in Nat /\ Len(Append(queue, op)) = Len(queue) + 1
           /\ \A i \in 1 .. Len(queue) : i \in 1 .. Len(queue) + 1 /\ Append(queue, op)[i] = queue[i]
           /\ Append(queue, op)[Len(queue) + 1] = op
           /\ \A i \in 1 .. Len(queue) + 1 :
                 i \in 1 .. Len(queue) \/ (i = Len(queue) + 1 /\ i \notin 1 .. Len(queue))
           /\ \A i \in 1 .. Len(Append(queue, op)) : GoodOp(Append(queue, op)[i])
  <1>1. /\ Append(queue, op) \in Seq(Ops)
        /\ Len(queue) \in Nat /\ Len(Append(queue, op)) = Len(queue) + 1
        /\ \A i \in 1 .. Len(queue) : Append(queue, op)[i] = queue[i]
        /\ Append(queue, op)[Len(queue) + 1] = op
    BY AppendProperties, LenProperties DEF RunTypes
  <1>2. /\ \A i \in 1 .. Len(queue) : i \in 1 .. Len(queue) + 1
        /\ \A i \in 1 .. Len(queue) + 1 :
              i \in 1 .. Len(queue) \/ (i = Len(queue) + 1 /\ i \notin 1 .. Len(queue))
    BY <1>1
  <1>3. \A i \in 1 .. Len(Append(queue, op)) : GoodOp(Append(queue, op)[i])
    BY <1>1, <1>2 DEF RunTypes
  <1> QED  BY <1>1, <1>2, <1>3

\* What is left of the queue without its first operation.
LEMMA Shortened ==
    ASSUME RunTypes, queue # <<>>
    PROVE  /\ Tail(queue) \in Seq(Ops)
           /\ 1 \in 1 .. Len(queue) /\ Head(queue) = queue[1]
           /\ Head(queue) \in Ops /\ GoodOp(Head(queue))
           /\ \A i \in 1 .. Len(Tail(queue)) :
                 i + 1 \in 1 .. Len(queue) /\ i + 1 # 1 /\ Tail(queue)[i] = queue[i + 1]
           /\ \A i \in 1 .. Len(queue) :
                 i # 1 => i - 1 \in 1 .. Len(Tail(queue)) /\ Tail(queue)[i - 1] = queue[i]
           /\ \A i \in 1 .. Len(Tail(queue)) : GoodOp(Tail(queue)[i])
  <1>1. /\ Head(queue) \in Ops /\ Tail(queue) \in Seq(Ops) /\ Len(Tail(queue)) = Len(queue) - 1
        /\ \A i \in 1 .. Len(Tail(queue)) : Tail(queue)[i] = queue[i + 1]
    BY HeadTailProperties DEF RunTypes
  <1>2. Len(queue) \in Nat \ {0} /\ queue \in Seq(Ops)  BY EmptySeq DEF RunTypes
  <1>3. Head(queue) = queue[1] /\ 1 \in 1 .. Len(queue)  BY <1>2
  <1>4. \A i \in 1 .. Len(Tail(queue)) : i + 1 \in 1 .. Len(queue) /\ i + 1 # 1  BY <1>1, <1>2
  <1>5. \A i \in 1 .. Len(queue) : i # 1 => i - 1 \in 1 .. Len(Tail(queue)) /\ (i - 1) + 1 = i
    BY <1>1, <1>2
  <1>6. \A i \in 1 .. Len(queue) :
           i # 1 => i - 1 \in 1 .. Len(Tail(queue)) /\ Tail(queue)[i - 1] = queue[i]
    BY <1>1, <1>5
  <1>7. \A i \in 1 .. Len(Tail(queue)) : GoodOp(Tail(queue)[i])
    BY <1>1, <1>4 DEF RunTypes
  <1>8. GoodOp(Head(queue))  BY <1>3 DEF RunTypes
  <1> QED  BY <1>1, <1>3, <1>4, <1>6, <1>7, <1>8

\* When commandRun goes on it has nothing queued, and it queues at most what it
\* waits for next.
LEMMA Move ==
    ASSUME RunTypes, QueueControl, NEW to \in PCs, to # "killed",
           Goes(to) \/ GoesFailed(to),
           wrapper.pc \notin Awaiting \/ Answered, wrapper.pc # "killed",
           stored' = stored,
           queue' = queue
             \/ \E op \in Ops :
                   /\ GoodOp(op) /\ (op.owner = "main" => to \in Awaiting /\ op.kind = KindAt(to))
                   /\ queue' = Append(queue, op)
    PROVE  /\ wrapper' \in Wrappers /\ wrapper'.pc = to /\ wrapper'.answer = "none"
           /\ wrapper'.expired = wrapper.expired
           /\ wrapper.failed => wrapper'.failed
           /\ GoesFailed(to) => wrapper'.failed
           /\ queue' \in Seq(Ops) /\ (\A i \in 1 .. Len(queue') : GoodOp(queue'[i]))
           /\ QueueControl'
           /\ \A i \in 1 .. Len(queue) : queue[i].owner # "main"
           /\ \A i \in 1 .. Len(queue) : i \in 1 .. Len(queue') /\ queue'[i] = queue[i]
           /\ \A i \in 1 .. Len(queue') : i \notin 1 .. Len(queue) =>
                 /\ \A j \in 1 .. Len(queue) : j < i
                 /\ \A j \in 1 .. Len(queue') : j \notin 1 .. Len(queue) => i = j
  <1>1. /\ wrapper' \in Wrappers /\ wrapper'.pc = to /\ wrapper'.answer = "none"
        /\ wrapper'.expired = wrapper.expired
        /\ wrapper.failed => wrapper'.failed
        /\ GoesFailed(to) => wrapper'.failed
    BY DEF Goes, GoesFailed, RunTypes, Wrappers
  <1>2. \A i \in 1 .. Len(queue) : queue[i].owner # "main"
    BY DEF QueueControl, Answered
  <1>3. CASE queue' = queue
    BY <1>1, <1>2, <1>3 DEF QueueControl, RunTypes
  <1>4. ASSUME NEW op \in Ops,
               GoodOp(op), op.owner = "main" => to \in Awaiting /\ op.kind = KindAt(to),
               queue' = Append(queue, op)
        PROVE  /\ queue' \in Seq(Ops) /\ (\A i \in 1 .. Len(queue') : GoodOp(queue'[i]))
               /\ QueueControl'
               /\ \A i \in 1 .. Len(queue) : i \in 1 .. Len(queue') /\ queue'[i] = queue[i]
               /\ \A i \in 1 .. Len(queue') : i \notin 1 .. Len(queue) =>
                     /\ \A j \in 1 .. Len(queue) : j < i
                     /\ \A j \in 1 .. Len(queue') : j \notin 1 .. Len(queue) => i = j
    <2>1. /\ queue' \in Seq(Ops)
          /\ Len(queue) \in Nat /\ Len(queue') = Len(queue) + 1
          /\ \A i \in 1 .. Len(queue) : i \in 1 .. Len(queue') /\ queue'[i] = queue[i]
          /\ queue'[Len(queue) + 1] = op
          /\ \A i \in 1 .. Len(queue') :
                i \in 1 .. Len(queue) \/ (i = Len(queue) + 1 /\ i \notin 1 .. Len(queue))
          /\ \A i \in 1 .. Len(queue') : GoodOp(queue'[i])
      BY <1>4, Appended
    <2>2. \A i \in 1 .. Len(queue') : queue'[i].owner = "main" => i = Len(queue) + 1
      BY <1>2, <2>1
    <2>3. QueueControl'  BY <1>1, <1>4, <2>1, <2>2 DEF QueueControl
    <2>4. \A i \in 1 .. Len(queue') : i \notin 1 .. Len(queue) =>
             /\ \A j \in 1 .. Len(queue) : j < i
             /\ \A j \in 1 .. Len(queue') : j \notin 1 .. Len(queue) => i = j
      BY <2>1
    <2> QED  BY <2>1, <2>3, <2>4
  <1>5. queue' = queue => \A i \in 1 .. Len(queue') : i \in 1 .. Len(queue)
    OBVIOUS
  <1> QED  BY <1>1, <1>2, <1>3, <1>4, <1>5 DEF RunTypes

\* The operations without a change are good ones.
LEMMA PlainOps ==
    /\ \A kind \in {"baseline", "error", "final", "ended", "crashed"} :
          /\ Op("main", kind, {}) \in Ops /\ GoodOp(Op("main", kind, {}))
          /\ Op("main", kind, {}).owner = "main" /\ Op("main", kind, {}).kind = kind
    /\ \A kind \in {"started", "output"} :
          /\ Op("stream", kind, {}) \in Ops /\ GoodOp(Op("stream", kind, {}))
          /\ Op("stream", kind, {}).owner = "stream" /\ Op("stream", kind, {}).kind = kind
  BY DEF Op, Ops, GoodOp, Kinds

\* A move of commandRun keeps the invariant when what it claims is true.
LEMMA MoveInv ==
    ASSUME RunInv, NEW to \in PCs, to # "killed",
           Goes(to) \/ GoesFailed(to),
           wrapper.pc \notin Awaiting \/ Answered, wrapper.pc # "killed",
           files' = files, stored' = stored,
           queue' = queue
             \/ \E op \in Ops :
                   /\ GoodOp(op) /\ (op.owner = "main" => to \in Awaiting /\ op.kind = KindAt(to))
                   /\ queue' = Append(queue, op),
           child' \in {"none", "running", "closed"}, baseline' \in Snapshots,
           final' \in Snapshots, watcher' \in Watchers, todo' \subseteq Changes,
           child' = "running" <=> to = "running",
           to \in Before => child' = "none",
           to \in After => child' = "closed",
           child' = "closed" /\ to \in {"close", "exited"} =>
              queue' = queue /\ child = "closed" /\ wrapper.pc \in {"record end", "close"},
           to \in Before \cup {"running", "settle", "drain"} =>
              wrapper.pc \in Before \cup {"running", "settle", "drain"},
           to \in {"record error", "record watcher", "record failure"} => wrapper'.failed,
           ~wrapper'.failed =>
              /\ child' # "none" =>
                    child # "none" \/ \E i \in 1 .. Len(queue') : queue'[i].kind = "started"
              /\ to \in {"spawn", "running"} \cup After \/ child' = "closed" =>
                    "baseline" \in stored.kinds /\ watcher'.state # "off"
              /\ to \in {"close", "exited"} /\ child' = "closed" => "ended" \in stored.kinds
              /\ ChangesAccounted'
    PROVE  RunInv'
  <1>1. /\ wrapper' \in Wrappers /\ wrapper'.pc = to /\ wrapper'.answer = "none"
        /\ wrapper.failed => wrapper'.failed
        /\ queue' \in Seq(Ops) /\ (\A i \in 1 .. Len(queue') : GoodOp(queue'[i]))
        /\ QueueControl'
        /\ \A i \in 1 .. Len(queue) : queue[i].owner # "main"
        /\ \A i \in 1 .. Len(queue) : i \in 1 .. Len(queue') /\ queue'[i] = queue[i]
        /\ \A i \in 1 .. Len(queue') : i \notin 1 .. Len(queue) =>
              /\ \A j \in 1 .. Len(queue) : j < i
              /\ \A j \in 1 .. Len(queue') : j \notin 1 .. Len(queue) => i = j
    <2>1. RunTypes /\ QueueControl  BY DEF RunInv
    <2> QED  BY <2>1, Move
  <1>2. RunTypes'
    BY <1>1 DEF RunInv, RunTypes
  <1>3. ChildControl'  BY <1>1 DEF ChildControl
  <1>4. OutputBeforeEnd'
    <2>1. ASSUME NEW i \in 1 .. Len(queue'), NEW j \in 1 .. Len(queue'),
                 queue'[i].owner = "stream", queue'[j].owner = "main"
          PROVE  i < j
      BY <1>1, <2>1
    <2>2. ASSUME to \in {"close", "exited"}, child' = "closed"
          PROVE  \A i \in 1 .. Len(queue') : queue'[i].owner # "stream"
      <3>1. queue' = queue /\ child = "closed" /\ wrapper.pc \in {"record end", "close"}
        BY <2>2
      <3>2. wrapper.pc = "record end" => Answered  BY DEF Awaiting
      <3> QED  BY <3>1, <3>2 DEF RunInv, OutputBeforeEnd
    <2> QED  BY <1>1, <2>1, <2>2 DEF OutputBeforeEnd, Answered
  <1>5. (wrapper.pc \in Before \cup {"running", "settle", "drain"} => stored.exact = {})'
    BY <1>1 DEF RunInv
  <1>6. NothingLost'
    <2> SUFFICES ASSUME ~wrapper'.failed PROVE NothingLost'  BY DEF NothingLost
    <2>1. child # "none" => "started" \in stored.kinds
                            \/ \E i \in 1 .. Len(queue) : queue[i].kind = "started"
      BY <1>1 DEF RunInv, NothingLost
    <2>2. child' # "none" => "started" \in stored'.kinds
                            \/ \E i \in 1 .. Len(queue') : queue'[i].kind = "started"
      BY <1>1, <2>1
    <2> QED  BY <1>1, <2>2 DEF NothingLost
  <1>7. (wrapper.pc \in {"record error", "record watcher", "record failure"} => wrapper.failed)'
    BY <1>1
  <1> QED  BY <1>2, <1>3, <1>1, <1>4, <1>5, <1>6, <1>7 DEF RunInv

-----------------------------------------------------------------------------
(* The steps of commandRun.                                                *)

\* A step that calls the evidence incomplete keeps the invariant.
LEMMA IncompleteInv ==
    ASSUME RunInv, Incomplete, wrapper.pc \in After,
           wrapper.pc \notin Awaiting \/ Answered,
           UNCHANGED <<child, files, baseline, final, stored, todo>>, watcher' \in Watchers
    PROVE  RunInv'
  <1>1. GoesFailed("record failure") /\ queue' = Append(queue, Op("main", "error", {}))
    BY DEF Incomplete, Enqueue
  <1>2. wrapper'.failed
    BY <1>1 DEF GoesFailed, RunInv, RunTypes, Wrappers
  <1>3. Op("main", "error", {}) \in Ops /\ GoodOp(Op("main", "error", {}))
        /\ Op("main", "error", {}).kind = KindAt("record failure")
    BY PlainOps DEF KindAt
  <1>4. child = "closed"  BY DEF RunInv, ChildControl
  <1>5. /\ child \in {"none", "running", "closed"} /\ baseline \in Snapshots /\ final \in Snapshots
        /\ todo \subseteq Changes
    BY DEF RunInv, RunTypes
  <1>6. /\ "record failure" \in PCs /\ "record failure" \notin Before /\ "record failure" \in Awaiting
        /\ wrapper.pc # "killed"
    BY DEF PCs, After, Before, Awaiting
  <1> QED
    BY <1>1, <1>2, <1>3, <1>4, <1>5, <1>6, MoveInv

\* The facts every step of commandRun starts from.
LEMMA Typed ==
    RunInv =>
        /\ wrapper \in Wrappers /\ child \in {"none", "running", "closed"}
        /\ files \in Files /\ baseline \in Snapshots /\ final \in Snapshots
        /\ watcher \in Watchers /\ todo \subseteq Changes /\ stored \in Stores
  BY DEF RunInv, RunTypes

\* A snapshot of a workspace is one.
LEMMA SnapshotTyped ==
    ASSUME files \in Files, NEW missed \in SUBSET Paths
    PROVE  /\ Snapshot(missed) \in Snapshots
           /\ \A p \in Paths : Snapshot(missed).files[p] = Absent => p \in missed \/ files[p] = Absent
           /\ Snapshot(missed).reasons = missed
  <1> DEFINE read == [p \in Paths |-> IF p \in missed THEN Absent ELSE files[p]]
  <1>1. read \in Files  BY DEF Files, States
  <1>2. \A p \in Paths : read[p] = Absent => p \in missed \/ files[p] = Absent  OBVIOUS
  <1>3. Snapshot(missed) = [taken |-> TRUE, files |-> read, reasons |-> missed]
    BY DEF Snapshot
  <1> HIDE DEF read
  <1> QED  BY <1>1, <1>2, <1>3 DEF Snapshots

\* The baseline is taken, or cannot be.
LEMMA TakeBaselineStep == RunInv /\ TakeBaseline => RunInv'
  <1> SUFFICES ASSUME RunInv, TakeBaseline PROVE RunInv'  OBVIOUS
  <1>1. /\ wrapper.pc = "baseline" /\ child = "none"
        /\ UNCHANGED <<child, files, final, watcher, stored, todo>>
    BY DEF TakeBaseline, At, process, workspace, RunInv, ChildControl, Before
  <1>2. CASE Goes("record baseline") /\ Enqueue(Op("main", "baseline", {}))
             /\ \E missed \in SUBSET Paths : baseline' = Snapshot(missed)
    <2>1. baseline' \in Snapshots  BY <1>2, Typed, SnapshotTyped
    <2>2. ChangesAccounted'
      <3>1. wrapper'.pc = "record baseline"
        BY <1>2, Typed DEF Goes, Wrappers
      <3> QED  BY <3>1 DEF ChangesAccounted
    <2>3. queue' = Append(queue, Op("main", "baseline", {}))
          /\ Op("main", "baseline", {}).kind = KindAt("record baseline")
      BY <1>2, PlainOps DEF Enqueue, KindAt
    <2>4. /\ "record baseline" \in PCs /\ "record baseline" \in Before
          /\ "record baseline" \in Awaiting /\ "record baseline" \notin After
          /\ wrapper.pc \in Before /\ wrapper.pc \notin Awaiting
      BY <1>1 DEF PCs, Before, After, Awaiting
    <2> QED
      BY <1>1, <1>2, <2>1, <2>2, <2>3, <2>4, PlainOps, Typed, MoveInv
  <1>3. CASE GoesFailed("record error") /\ Enqueue(Op("main", "error", {}))
             /\ UNCHANGED baseline
    <2>1. wrapper'.failed  BY <1>3, Typed DEF GoesFailed, Wrappers
    <2>2. queue' = Append(queue, Op("main", "error", {}))
          /\ Op("main", "error", {}).kind = KindAt("record error")
      BY <1>3, PlainOps DEF Enqueue, KindAt
    <2>3. /\ "record error" \in PCs /\ "record error" \in Before
          /\ "record error" \in Awaiting /\ "record error" \notin After
          /\ wrapper.pc \in Before /\ wrapper.pc \notin Awaiting
      BY <1>1 DEF PCs, Before, After, Awaiting
    <2> QED
      BY <1>1, <1>3, <2>1, <2>2, <2>3, PlainOps, Typed, MoveInv
  <1> QED  BY <1>2, <1>3 DEF TakeBaseline

\* What commandRun knows when it goes on without a rejection.
LEMMA DoneIsRecorded ==
    ASSUME RunInv, Answered, ~Rejected, wrapper.pc # "killed"
    PROVE  wrapper.answer = "done" /\ KindAt(wrapper.pc) \in stored.kinds
  <1>1. wrapper.answer = "done"
    BY Typed DEF Answered, Rejected, Wrappers
  <1> QED  BY <1>1 DEF RunInv, QueueControl

\* The watcher is started on a recorded baseline only.
LEMMA StartWatchingStep == RunInv /\ StartWatching => RunInv'
  <1> SUFFICES ASSUME RunInv, StartWatching PROVE RunInv'  OBVIOUS
  <1>1. /\ wrapper.pc = "record baseline" /\ Answered /\ child = "none"
        /\ UNCHANGED <<child, files, baseline, final, stored, todo>>
    BY DEF StartWatching, Awaits, At, process, workspace, snapshots, RunInv, ChildControl, Before
  <1>2. /\ wrapper.pc \in Before /\ wrapper.pc # "killed"
    BY <1>1 DEF Before
  <1>3. CASE ~Rejected /\ watcher' = [watcher EXCEPT !.state = "on"] /\ Goes("spawn")
             /\ UNCHANGED queue
    <2>1. "baseline" \in stored.kinds
      BY <1>1, <1>3, DoneIsRecorded DEF KindAt
    <2>2. watcher' \in Watchers /\ watcher'.state = "on"
      BY <1>3, Typed DEF Watchers
    <2>3. ChangesAccounted'
      <3>1. wrapper'.pc = "spawn"  BY <1>3, Typed DEF Goes, Wrappers
      <3> QED  BY <3>1 DEF ChangesAccounted
    <2>4. "spawn" \in PCs /\ "spawn" \in Before /\ "spawn" \notin After
      BY DEF PCs, Before, After
    <2> QED
      BY <1>1, <1>2, <1>3, <2>1, <2>2, <2>3, <2>4, Typed, MoveInv
  <1>4. CASE Enqueue(Op("main", "error", {})) /\ GoesFailed("record error")
             /\ watcher' = [watcher EXCEPT !.state = IF Rejected THEN "off" ELSE "failed"]
    <2>1. wrapper'.failed  BY <1>4, Typed DEF GoesFailed, Wrappers
    <2>2. watcher' \in Watchers  BY <1>4, Typed DEF Watchers
    <2>3. queue' = Append(queue, Op("main", "error", {}))
          /\ Op("main", "error", {}).kind = KindAt("record error")
      BY <1>4, PlainOps DEF Enqueue, KindAt
    <2>4. /\ "record error" \in PCs /\ "record error" \in Before
          /\ "record error" \in Awaiting /\ "record error" \notin After
      BY DEF PCs, Before, After, Awaiting
    <2> QED
      BY <1>1, <1>2, <1>4, <2>1, <2>2, <2>3, <2>4, PlainOps, Typed, MoveInv
  <1> QED  BY <1>3, <1>4 DEF StartWatching

\* Going on without the watcher is going on failed.
LEMMA ErrorRecordedStep == RunInv /\ ErrorRecorded => RunInv'
  <1> SUFFICES ASSUME RunInv, ErrorRecorded PROVE RunInv'  OBVIOUS
  <1>1. /\ wrapper.pc = "record error" /\ Answered /\ child = "none"
        /\ UNCHANGED <<child, files, baseline, final, watcher, queue, stored, todo>>
        /\ Goes("spawn") \/ GoesFailed("spawn")
    BY DEF ErrorRecorded, Awaits, At, process, workspace, snapshots, RunInv, ChildControl, Before
  <1>2. /\ wrapper.pc \in Before /\ wrapper.pc # "killed" /\ "spawn" \in PCs /\ "spawn" \in Before
        /\ "spawn" \notin After
    BY <1>1 DEF Before, PCs, After
  <1>3. wrapper'.failed
    BY <1>1, Typed DEF Goes, GoesFailed, Wrappers, RunInv
  <1> QED  BY <1>1, <1>2, <1>3, Typed, MoveInv

\* The child starts, or cannot be.
LEMMA SpawnStep == RunInv /\ Spawn => RunInv'
  <1> SUFFICES ASSUME RunInv, Spawn PROVE RunInv'  OBVIOUS
  <1>1. /\ wrapper.pc = "spawn" /\ child = "none"
        /\ UNCHANGED <<files, baseline, final, watcher, stored, todo>>
    BY DEF Spawn, At, workspace, snapshots, RunInv, ChildControl, Before
  <1>2. /\ wrapper.pc \in Before /\ wrapper.pc \notin Awaiting /\ wrapper.pc # "killed"
    BY <1>1 DEF Before, Awaiting
  <1>3. CASE child' = "running" /\ Enqueue(Op("stream", "started", {})) /\ Goes("running")
    <2> DEFINE op == Op("stream", "started", {})
    <2>1. queue' = Append(queue, op) /\ op \in Ops /\ GoodOp(op) /\ op.owner = "stream"
          /\ op.kind = "started"
      BY <1>3, PlainOps DEF Enqueue
    <2> HIDE DEF op
    <2>2. \E i \in 1 .. Len(queue') : queue'[i].kind = "started"
      <3>1. RunTypes  BY DEF RunInv
      <3>2. Len(queue) + 1 \in 1 .. Len(queue') /\ queue'[Len(queue) + 1] = op
        <4>1. /\ Len(queue) \in Nat /\ Len(Append(queue, op)) = Len(queue) + 1
              /\ Append(queue, op)[Len(queue) + 1] = op
          BY <2>1, <3>1, Appended
        <4> QED  BY <2>1, <4>1
      <3> QED  BY <2>1, <3>2
    <2>3. ChangesAccounted'
      <3>1. wrapper'.pc = "running"  BY <1>3, Typed DEF Goes, Wrappers
      <3> QED  BY <3>1 DEF ChangesAccounted
    <2>4. ~wrapper'.failed => "baseline" \in stored.kinds /\ watcher.state # "off"
      BY <1>1, <1>3, Typed DEF Goes, Wrappers, RunInv, NothingLost
    <2>5. "running" \in PCs /\ "running" \notin Before /\ "running" \notin After
      BY DEF PCs, Before, After
    <2> QED
      BY <1>1, <1>2, <1>3, <2>1, <2>2, <2>3, <2>4, <2>5, Typed, MoveInv
  <1>4. CASE child' = child /\ Enqueue(Op("main", "crashed", {})) /\ Goes("record crash")
    <2>1. queue' = Append(queue, Op("main", "crashed", {}))
          /\ Op("main", "crashed", {}).kind = KindAt("record crash")
      BY <1>4, PlainOps DEF Enqueue, KindAt
    <2>2. ChangesAccounted'
      <3>1. wrapper'.pc = "record crash"  BY <1>4, Typed DEF Goes, Wrappers
      <3> QED  BY <3>1 DEF ChangesAccounted
    <2>3. /\ "record crash" \in PCs /\ "record crash" \in Before
          /\ "record crash" \in Awaiting /\ "record crash" \notin After
      BY DEF PCs, Before, After, Awaiting
    <2> QED
      BY <1>1, <1>2, <1>4, <2>1, <2>2, <2>3, PlainOps, Typed, MoveInv
  <1> QED  BY <1>3, <1>4 DEF Spawn

\* The end of the child.
LEMMA ChildClosesStep == RunInv /\ ChildCloses => RunInv'
  <1> SUFFICES ASSUME RunInv, ChildCloses PROVE RunInv'  OBVIOUS
  <1>1. /\ wrapper.pc = "running" /\ child = "running" /\ child' = "closed"
        /\ Goes("settle")
        /\ UNCHANGED <<files, baseline, final, watcher, queue, stored, todo>>
    BY DEF ChildCloses, workspace, snapshots, RunInv, ChildControl
  <1>2. ChangesAccounted'
    <2>1. wrapper'.pc = "settle"  BY <1>1, Typed DEF Goes, Wrappers
    <2> QED  BY <2>1 DEF ChangesAccounted
  <1>3. ~wrapper'.failed => "baseline" \in stored.kinds /\ watcher.state # "off"
    BY <1>1, Typed DEF Goes, Wrappers, RunInv, NothingLost
  <1>4. /\ "settle" \in PCs /\ "settle" \notin Before /\ "settle" \in After
        /\ wrapper.pc \notin Awaiting
    BY <1>1 DEF PCs, Before, After, Awaiting
  <1> QED  BY <1>1, <1>2, <1>3, <1>4, Typed, MoveInv

\* Without a watcher there is no final snapshot, and the run has failed.
LEMMA SettleStep == RunInv /\ Settle => RunInv'
  <1> SUFFICES ASSUME RunInv, Settle PROVE RunInv'  OBVIOUS
  <1> DEFINE to == IF watcher.state = "off" THEN "finish" ELSE "drain"
  <1>1. /\ wrapper.pc = "settle" /\ child = "closed"
        /\ UNCHANGED <<child, files, baseline, final, queue, stored, todo>>
        /\ Goes(to) \/ GoesFailed(to)
        /\ watcher' = [watcher EXCEPT !.state = IF @ = "on" THEN "stopping" ELSE @]
    BY DEF Settle, At, process, snapshots, RunInv, ChildControl, After
  <1>2. watcher' \in Watchers /\ (watcher'.state = "off" => watcher.state = "off")
    BY <1>1, Typed DEF Watchers
  <1>3. ~wrapper'.failed => "baseline" \in stored.kinds /\ watcher.state # "off"
    BY <1>1, Typed DEF Goes, GoesFailed, Wrappers, RunInv, NothingLost, After
  <1>4. ~wrapper'.failed => ChangesAccounted'
    <2>1. ~wrapper'.failed => wrapper'.pc = "drain"
      BY <1>1, <1>3, Typed DEF Goes, GoesFailed, Wrappers
    <2> QED  BY <2>1 DEF ChangesAccounted
  <1>5. to \in PCs /\ to \notin Before /\ to \in After /\ to \notin {"close", "exited", "running", "killed"}
        /\ to \notin {"record error", "record watcher", "record failure"}
    BY DEF PCs, Before, After
  <1>6. wrapper.pc \notin Awaiting /\ wrapper.pc # "killed"  BY <1>1 DEF Awaiting
  <1> HIDE DEF to
  <1> QED  BY <1>1, <1>2, <1>3, <1>4, <1>5, <1>6, Typed, MoveInv

\* The final snapshot says what is to be recorded.
LEMMA TakeFinalStep == RunInv /\ TakeFinal => RunInv'
  <1> SUFFICES ASSUME RunInv, TakeFinal PROVE RunInv'  OBVIOUS
  <1>1. /\ wrapper.pc = "drain" /\ child = "closed"
        /\ UNCHANGED <<child, files, baseline, stored>>
        /\ watcher' = [watcher EXCEPT !.state = "stopped"]
    BY DEF TakeFinal, At, process, workspace, RunInv, ChildControl, After
  <1>2. watcher' \in Watchers /\ watcher'.state = "stopped"
    BY <1>1, Typed DEF Watchers
  <1>3. wrapper.pc \in After /\ wrapper.pc \notin Awaiting /\ wrapper.pc # "killed"
    BY <1>1 DEF After, Awaiting
  <1>4. CASE Incomplete /\ UNCHANGED <<final, todo>>
    BY <1>1, <1>2, <1>3, <1>4, IncompleteInv
  <1>5. ASSUME NEW missed \in SUBSET Paths,
               final' = Snapshot(missed),
               todo' = ChangesBetween(baseline.files, Snapshot(missed).files),
               \/ Enqueue(Op("main", "error", {})) /\ GoesFailed("record watcher")
               \/ Goes("change") /\ UNCHANGED queue
        PROVE  RunInv'
    <2>1. Snapshot(missed) \in Snapshots  BY Typed, SnapshotTyped
    <2>2. baseline.files \in Files /\ Snapshot(missed).files \in Files
      BY <2>1, Typed DEF Snapshots
    <2>3. todo' \subseteq Changes /\ final' \in Snapshots
      BY <1>5, <2>1, <2>2, ChangesMakeTheSnapshot
    <2>4. CASE Enqueue(Op("main", "error", {})) /\ GoesFailed("record watcher")
      <3>1. wrapper'.failed  BY <2>4, Typed DEF GoesFailed, Wrappers
      <3>2. queue' = Append(queue, Op("main", "error", {}))
            /\ Op("main", "error", {}).kind = KindAt("record watcher")
        BY <2>4, PlainOps DEF Enqueue, KindAt
      <3>3. /\ "record watcher" \in PCs /\ "record watcher" \notin Before
            /\ "record watcher" \in Awaiting /\ "record watcher" \in After
        BY DEF PCs, Before, After, Awaiting
      <3> QED
        BY <1>1, <1>2, <1>3, <2>3, <2>4, <3>1, <3>2, <3>3, PlainOps, Typed, MoveInv
    <2>5. CASE Goes("change") /\ UNCHANGED queue
      <3>1. wrapper'.pc = "change"  BY <2>5, Typed DEF Goes, Wrappers
      <3>2. stored.exact = {}  BY <1>1 DEF RunInv
      <3>3. ChangesAccounted'
        <4>1. (ExactOnes \cup todo = ChangesBetween(baseline.files, final.files))'
          BY <1>1, <1>5, <3>2 DEF ExactOnes
        <4> QED  BY <3>1, <4>1 DEF ChangesAccounted
      <3>4. ~wrapper'.failed => "baseline" \in stored.kinds
        BY <1>1, <1>3, <2>5, Typed DEF Goes, Wrappers, RunInv, NothingLost
      <3>5. "change" \in PCs /\ "change" \notin Before /\ "change" \in After
        BY DEF PCs, Before, After
      <3> QED
        BY <1>1, <1>2, <1>3, <2>3, <2>5, <3>3, <3>4, <3>5, Typed, MoveInv
    <2> QED  BY <1>5, <2>4, <2>5
  <1> QED  BY <1>4, <1>5 DEF TakeFinal

\* After an error of the watcher the changes are recorded, in a failed run.
LEMMA WatcherErrorRecordedStep == RunInv /\ WatcherErrorRecorded => RunInv'
  <1> SUFFICES ASSUME RunInv, WatcherErrorRecorded PROVE RunInv'  OBVIOUS
  <1>1. /\ wrapper.pc = "record watcher" /\ Answered /\ child = "closed"
        /\ UNCHANGED <<child, files, baseline, final, watcher, stored, todo>>
        /\ Incomplete \/ (Goes("change") /\ UNCHANGED queue)
    BY DEF WatcherErrorRecorded, Awaits, At, process, workspace, snapshots, RunInv, ChildControl,
           After
  <1>2. wrapper.pc \in After /\ wrapper.pc # "killed"  BY <1>1 DEF After
  <1>3. CASE Incomplete  BY <1>1, <1>2, <1>3, Typed, IncompleteInv
  <1>4. CASE Goes("change") /\ UNCHANGED queue
    <2>1. wrapper'.failed  BY <1>1, <1>4, Typed DEF Goes, Wrappers, RunInv
    <2>2. "change" \in PCs /\ "change" \notin Before /\ "change" \in After
      BY DEF PCs, Before, After
    <2> QED  BY <1>1, <1>2, <1>4, <2>1, <2>2, Typed, MoveInv
  <1> QED  BY <1>1, <1>3, <1>4

\* One change is queued and leaves the list; the end of the list is recorded.
LEMMA RecordChangeStep == RunInv /\ RecordChange => RunInv'
  <1> SUFFICES ASSUME RunInv, RecordChange PROVE RunInv'  OBVIOUS
  <1>1. /\ wrapper.pc = "change" /\ child = "closed"
        /\ UNCHANGED <<child, files, baseline, final, watcher, stored>>
    BY DEF RecordChange, At, process, workspace, snapshots, RunInv, ChildControl, After
  <1>2. wrapper.pc \in After /\ wrapper.pc \notin Awaiting /\ wrapper.pc # "killed"
    BY <1>1 DEF After, Awaiting
  <1>3. ~wrapper.failed => /\ "baseline" \in stored.kinds /\ watcher.state # "off"
                           /\ ExactOnes \cup todo = ChangesBetween(baseline.files, final.files)
    BY <1>1, <1>2 DEF RunInv, NothingLost, ChangesAccounted
  <1>4. CASE Incomplete /\ UNCHANGED todo
    BY <1>1, <1>2, <1>4, Typed, IncompleteInv
  <1>5. ASSUME NEW c \in todo, NEW kept \in Payloads(c),
               todo' = todo \ {c},
               Enqueue(Op("main", "exact", [change |-> c, payload |-> kept])),
               Goes("record change")
        PROVE  RunInv'
    <2> DEFINE op == Op("main", "exact", [change |-> c, payload |-> kept])
    <2>1. /\ op.owner = "main" /\ op.kind = "exact" /\ op.change.change = c
          /\ op.change.payload => ContentAllowed(op.change.change)
          /\ op.change \in ExactChanges /\ op \in Ops
      <3>1. c \in Changes  BY Typed
      <3>2. kept \in BOOLEAN /\ (kept => ContentAllowed(c))  BY DEF Payloads
      <3>3. [change |-> c, payload |-> kept] \in ExactChanges
        BY <3>1, <3>2 DEF ExactChanges
      <3> QED  BY <3>2, <3>3 DEF Op, Ops, Kinds
    <2>2. queue' = Append(queue, op)  BY <1>5 DEF Enqueue
    <2> HIDE DEF op
    <2>3. GoodOp(op) /\ op.kind = KindAt("record change")
      BY <2>1 DEF GoodOp, KindAt, Kinds
    <2>4. wrapper'.pc = "record change" /\ wrapper'.answer = "none"
          /\ (~wrapper'.failed => ~wrapper.failed)
      BY <1>5, Typed DEF Goes, Wrappers
    <2>5. ~wrapper'.failed => ChangesAccounted'
      <3> SUFFICES ASSUME ~wrapper'.failed PROVE ChangesAccounted'  OBVIOUS
      <3>1. \A i \in 1 .. Len(queue') : queue'[i].owner = "main" => queue'[i] = op
        <4>1. RunTypes /\ QueueControl  BY DEF RunInv
        <4>2. \A i \in 1 .. Len(queue) : queue[i].owner # "main"
          BY <1>1, <1>2, <4>1 DEF QueueControl
        <4>3. /\ Len(Append(queue, op)) = Len(queue) + 1
              /\ \A i \in 1 .. Len(queue) : Append(queue, op)[i] = queue[i]
              /\ Append(queue, op)[Len(queue) + 1] = op
              /\ \A i \in 1 .. Len(queue) + 1 : i \in 1 .. Len(queue) \/ i = Len(queue) + 1
          BY <2>1, <2>3, <4>1, Appended
        <4> QED  BY <2>2, <4>2, <4>3
      <3>2. ExactOnes \cup todo' \cup {c} = ChangesBetween(baseline.files, final.files)
        BY <1>3, <1>5, <2>4
      <3>3. ExactOnes' = ExactOnes  BY <1>1 DEF ExactOnes
      <3> QED  BY <1>1, <2>1, <2>4, <3>1, <3>2, <3>3 DEF ChangesAccounted
    <2>6. /\ "record change" \in PCs /\ "record change" \notin Before
          /\ "record change" \in Awaiting /\ "record change" \in After
      BY DEF PCs, Before, After, Awaiting
    <2>7. todo' \subseteq Changes  BY <1>5, Typed
    <2> QED
      BY <1>1, <1>2, <1>3, <1>5, <2>1, <2>2, <2>3, <2>4, <2>5, <2>6, <2>7, Typed, MoveInv
  <1>6. CASE todo = {} /\ Enqueue(Op("main", "final", {})) /\ Goes("record final")
             /\ UNCHANGED todo
    <2>1. queue' = Append(queue, Op("main", "final", {}))
          /\ Op("main", "final", {}).kind = KindAt("record final")
      BY <1>6, PlainOps DEF Enqueue, KindAt
    <2>2. wrapper'.pc = "record final" /\ (~wrapper'.failed => ~wrapper.failed)
      BY <1>6, Typed DEF Goes, Wrappers
    <2>3. ~wrapper'.failed => ChangesAccounted'
      BY <1>1, <1>3, <1>6, <2>2 DEF ChangesAccounted, ExactOnes
    <2>4. /\ "record final" \in PCs /\ "record final" \notin Before
          /\ "record final" \in Awaiting /\ "record final" \in After
      BY DEF PCs, Before, After, Awaiting
    <2> QED
      BY <1>1, <1>2, <1>3, <1>6, <2>1, <2>2, <2>3, <2>4, PlainOps, Typed, MoveInv
  <1> QED  BY <1>4, <1>5, <1>6 DEF RecordChange

\* A recorded change is among those recorded; a rejected one is missing, and said so.
LEMMA ChangeRecordedStep == RunInv /\ ChangeRecorded => RunInv'
  <1> SUFFICES ASSUME RunInv, ChangeRecorded PROVE RunInv'  OBVIOUS
  <1>1. /\ wrapper.pc = "record change" /\ Answered /\ child = "closed"
        /\ UNCHANGED <<child, files, baseline, final, watcher, stored, todo>>
        /\ (Rejected /\ Incomplete) \/ (~Rejected /\ Goes("change") /\ UNCHANGED queue)
    BY DEF ChangeRecorded, Awaits, At, process, workspace, snapshots, RunInv, ChildControl, After
  <1>2. wrapper.pc \in After /\ wrapper.pc # "killed"  BY <1>1 DEF After
  <1>3. CASE Incomplete  BY <1>1, <1>2, <1>3, Typed, IncompleteInv
  <1>4. CASE ~Rejected /\ Goes("change") /\ UNCHANGED queue
    <2>1. wrapper'.pc = "change" /\ (~wrapper'.failed => ~wrapper.failed)
      BY <1>4, Typed DEF Goes, Wrappers
    <2>2. wrapper.answer = "done"  BY <1>1, <1>2, <1>4, DoneIsRecorded
    <2>3. ~wrapper'.failed => /\ "baseline" \in stored.kinds /\ watcher.state # "off"
                              /\ ExactOnes \cup todo = ChangesBetween(baseline.files, final.files)
      BY <1>1, <1>2, <2>1, <2>2 DEF RunInv, NothingLost, ChangesAccounted
    <2>4. ~wrapper'.failed => ChangesAccounted'
      BY <1>1, <2>1, <2>3 DEF ChangesAccounted, ExactOnes
    <2>5. "change" \in PCs /\ "change" \notin Before /\ "change" \in After
      BY DEF PCs, Before, After
    <2> QED  BY <1>1, <1>2, <1>4, <2>3, <2>4, <2>5, Typed, MoveInv
  <1> QED  BY <1>1, <1>3, <1>4

\* The run is finished without a failure only behind a recorded final snapshot.
LEMMA FinalRecordedStep == RunInv /\ FinalRecorded => RunInv'
  <1> SUFFICES ASSUME RunInv, FinalRecorded PROVE RunInv'  OBVIOUS
  <1>1. /\ wrapper.pc = "record final" /\ Answered /\ child = "closed"
        /\ UNCHANGED <<child, files, baseline, final, watcher, stored, todo>>
        /\ Incomplete \/ (~Rejected /\ Goes("finish") /\ UNCHANGED queue)
    BY DEF FinalRecorded, Awaits, At, process, workspace, snapshots, RunInv, ChildControl, After
  <1>2. wrapper.pc \in After /\ wrapper.pc # "killed"  BY <1>1 DEF After
  <1>3. CASE Incomplete  BY <1>1, <1>2, <1>3, Typed, IncompleteInv
  <1>4. CASE ~Rejected /\ Goes("finish") /\ UNCHANGED queue
    <2>1. wrapper'.pc = "finish" /\ (~wrapper'.failed => ~wrapper.failed)
      BY <1>4, Typed DEF Goes, Wrappers
    <2>2. "final" \in stored.kinds  BY <1>1, <1>2, <1>4, DoneIsRecorded DEF KindAt
    <2>3. ~wrapper'.failed => /\ "baseline" \in stored.kinds /\ watcher.state # "off"
                              /\ ExactOnes = ChangesBetween(baseline.files, final.files)
      BY <1>1, <1>2, <2>1 DEF RunInv, NothingLost, ChangesAccounted
    <2>4. ~wrapper'.failed => ChangesAccounted'
      BY <1>1, <2>1, <2>2, <2>3 DEF ChangesAccounted, ExactOnes
    <2>5. "finish" \in PCs /\ "finish" \notin Before /\ "finish" \in After
      BY DEF PCs, Before, After
    <2> QED  BY <1>1, <1>2, <1>4, <2>3, <2>4, <2>5, Typed, MoveInv
  <1> QED  BY <1>1, <1>3, <1>4

\* What is called incomplete stays failed.
LEMMA FailureRecordedStep == RunInv /\ FailureRecorded => RunInv'
  <1> SUFFICES ASSUME RunInv, FailureRecorded PROVE RunInv'  OBVIOUS
  <1>1. /\ wrapper.pc = "record failure" /\ Answered /\ child = "closed"
        /\ UNCHANGED <<child, files, baseline, final, watcher, queue, stored, todo>>
        /\ Goes("finish") \/ GoesFailed("finish")
    BY DEF FailureRecorded, Awaits, At, process, workspace, snapshots, RunInv, ChildControl, After
  <1>2. wrapper.pc \in After /\ wrapper.pc # "killed"  BY <1>1 DEF After
  <1>3. wrapper'.failed  BY <1>1, Typed DEF Goes, GoesFailed, Wrappers, RunInv
  <1>4. "finish" \in PCs /\ "finish" \notin Before /\ "finish" \in After
    BY DEF PCs, Before, After
  <1> QED  BY <1>1, <1>2, <1>3, <1>4, Typed, MoveInv

\* The end of the run is queued last.
LEMMA FinishStep == RunInv /\ Finish => RunInv'
  <1> SUFFICES ASSUME RunInv, Finish PROVE RunInv'  OBVIOUS
  <1>1. /\ wrapper.pc = "finish" /\ child = "closed" /\ Goes("record end")
        /\ UNCHANGED <<child, files, baseline, final, watcher, stored, todo>>
        /\ queue' = Append(queue, Op("main", "ended", {}))
        /\ Op("main", "ended", {}).kind = KindAt("record end")
    BY PlainOps
       DEF Finish, At, process, workspace, snapshots, RunInv, ChildControl, After, Enqueue, KindAt
  <1>2. wrapper.pc \in After /\ wrapper.pc \notin Awaiting /\ wrapper.pc # "killed"
    BY <1>1 DEF After, Awaiting
  <1>3. wrapper'.pc = "record end" /\ (~wrapper'.failed => ~wrapper.failed)
    BY <1>1, Typed DEF Goes, Wrappers
  <1>4. ~wrapper'.failed => /\ "baseline" \in stored.kinds /\ watcher.state # "off"
                            /\ ExactOnes = ChangesBetween(baseline.files, final.files)
                            /\ "final" \in stored.kinds
    BY <1>1, <1>2, <1>3 DEF RunInv, NothingLost, ChangesAccounted
  <1>5. ~wrapper'.failed => ChangesAccounted'
    BY <1>1, <1>3, <1>4 DEF ChangesAccounted, ExactOnes
  <1>6. /\ "record end" \in PCs /\ "record end" \notin Before
        /\ "record end" \in Awaiting /\ "record end" \in After
    BY DEF PCs, Before, After, Awaiting
  <1> QED  BY <1>1, <1>2, <1>4, <1>5, <1>6, PlainOps, Typed, MoveInv

\* commandRun closes without a failure only when the end has been recorded.
LEMMA EndRecordedStep == RunInv /\ EndRecorded => RunInv'
  <1> SUFFICES ASSUME RunInv, EndRecorded PROVE RunInv'  OBVIOUS
  <1>1. /\ wrapper.pc \in {"record end", "record crash"} /\ Answered
        /\ UNCHANGED <<child, files, baseline, final, watcher, queue, stored, todo>>
        /\ (Rejected /\ GoesFailed("close")) \/ (~Rejected /\ Goes("close"))
    BY DEF EndRecorded, Awaits, At, process, workspace, snapshots
  <1>2. /\ wrapper.pc = "record end" => child = "closed"
        /\ wrapper.pc = "record crash" => child = "none"
        /\ wrapper.pc # "killed"
    BY <1>1 DEF RunInv, ChildControl, Before, After
  <1>3. wrapper'.pc = "close" /\ (~wrapper'.failed => ~wrapper.failed /\ ~Rejected)
    BY <1>1, Typed DEF Goes, GoesFailed, Wrappers
  <1>4. ~wrapper'.failed /\ child = "closed" =>
           /\ "baseline" \in stored.kinds /\ watcher.state # "off"
           /\ ExactOnes = ChangesBetween(baseline.files, final.files)
           /\ "final" \in stored.kinds
    BY <1>1, <1>2, <1>3 DEF RunInv, NothingLost, ChangesAccounted
  <1>5. ~wrapper'.failed /\ child = "closed" => "ended" \in stored.kinds
    BY <1>1, <1>2, <1>3, DoneIsRecorded DEF KindAt
  <1>6. ~wrapper'.failed => ChangesAccounted'
    BY <1>1, <1>3, <1>4 DEF ChangesAccounted, ExactOnes
  <1>7. "close" \in PCs /\ "close" \notin Before /\ "close" \notin After
    BY DEF PCs, Before, After
  <1>8. child # "running"  BY <1>1, <1>2
  <1> QED  BY <1>1, <1>2, <1>4, <1>5, <1>6, <1>7, <1>8, Typed, MoveInv

-----------------------------------------------------------------------------
(* The steps aside of commandRun.                                          *)

\* A step that moves neither commandRun nor the queue keeps the invariant.
LEMMA AsideInv ==
    ASSUME RunInv, wrapper' \in Wrappers, wrapper'.pc = wrapper.pc,
           wrapper'.failed = wrapper.failed, wrapper'.answer = wrapper.answer,
           UNCHANGED <<child, baseline, final, queue, stored, todo>>,
           files' \in Files, watcher' \in Watchers,
           watcher'.state = "off" => watcher.state = "off"
    PROVE  RunInv'
  <1>1. RunTypes'  BY DEF RunInv, RunTypes
  <1>2. ChildControl'  BY DEF RunInv, ChildControl
  <1>3. QueueControl'  BY DEF RunInv, QueueControl
  <1>4. OutputBeforeEnd'  BY DEF RunInv, OutputBeforeEnd, Answered
  <1>5. NothingLost'  BY DEF RunInv, NothingLost, ChangesAccounted, ExactOnes
  <1> QED  BY <1>1, <1>2, <1>3, <1>4, <1>5 DEF RunInv

\* The wrapper exits as it was when it closed.
LEMMA CloseStep == RunInv /\ Close => RunInv'
  <1> SUFFICES ASSUME RunInv, Close PROVE RunInv'  OBVIOUS
  <1>1. /\ wrapper.pc = "close"
        /\ UNCHANGED <<child, files, baseline, final, queue, stored, todo>>
    BY DEF Close, At, process, snapshots
  <1>2. CASE watcher' = [watcher EXCEPT !.state = "stopping"] /\ UNCHANGED wrapper
    <2>1. watcher' \in Watchers /\ watcher'.state = "stopping"  BY <1>2, Typed DEF Watchers
    <2> QED  BY <1>1, <1>2, <2>1, Typed, AsideInv
  <1>3. CASE Goes("exited") /\ UNCHANGED watcher
    <2>1. wrapper'.pc = "exited" /\ (~wrapper'.failed => ~wrapper.failed)
      BY <1>3, Typed DEF Goes, Wrappers
    <2>2. ~wrapper'.failed /\ child = "closed" =>
             /\ "baseline" \in stored.kinds /\ watcher.state # "off" /\ "ended" \in stored.kinds
             /\ ExactOnes = ChangesBetween(baseline.files, final.files)
             /\ "final" \in stored.kinds
      BY <1>1, <2>1 DEF RunInv, NothingLost, ChangesAccounted
    <2>3. ~wrapper'.failed => ChangesAccounted'
      BY <1>1, <2>1, <2>2 DEF ChangesAccounted, ExactOnes
    <2>4. /\ "exited" \in PCs /\ "exited" \notin Before /\ "exited" \notin After
          /\ wrapper.pc \notin Awaiting
      BY <1>1 DEF PCs, Before, After, Awaiting
    <2>5. child # "running"  BY <1>1 DEF RunInv, ChildControl
    <2> QED  BY <1>1, <1>3, <2>2, <2>3, <2>4, <2>5, Typed, MoveInv
  <1> QED  BY <1>2, <1>3 DEF Close

\* A signal before the child runs ends the wrapper.
LEMMA SignalStep == RunInv /\ Signal => RunInv'
  <1> SUFFICES ASSUME RunInv, Signal PROVE RunInv'  OBVIOUS
  <1>1. /\ wrapper.pc \in {"baseline", "record baseline", "record error", "spawn"}
        /\ Goes("killed")
        /\ UNCHANGED <<child, files, baseline, final, watcher, queue, stored, todo>>
    BY DEF Signal, process, workspace, snapshots
  <1>2. wrapper.pc \in Before /\ "killed" \in Before /\ "killed" \notin After /\ "killed" \in PCs
    BY <1>1 DEF Before, After, PCs
  <1>3. child = "none" /\ stored.exact = {}  BY <1>2 DEF RunInv, ChildControl
  <1>4. wrapper' \in Wrappers /\ wrapper'.pc = "killed"
    BY <1>1, <1>2, Typed DEF Goes, Wrappers
  <1>5. RunTypes'  BY <1>1, <1>4 DEF RunInv, RunTypes
  <1>6. ChildControl' /\ QueueControl' /\ OutputBeforeEnd'
    BY <1>1, <1>2, <1>3, <1>4 DEF ChildControl, QueueControl, OutputBeforeEnd
  <1>7. NothingLost'
    BY <1>1, <1>2, <1>3, <1>4 DEF NothingLost, ChangesAccounted
  <1> QED  BY <1>1, <1>3, <1>4, <1>5, <1>6, <1>7 DEF RunInv

\* A written file is a state of the workspace.
LEMMA EditStep == ASSUME NEW p \in Paths PROVE RunInv /\ Edit(p) => RunInv'
  <1> SUFFICES ASSUME RunInv, Edit(p) PROVE RunInv'  OBVIOUS
  <1>1. UNCHANGED <<wrapper, child, baseline, final, watcher, queue, stored, todo>>
    BY DEF Edit, process, snapshots
  <1>2. PICK content \in States \ {files[p]} : files' = [files EXCEPT ![p] = content]
    BY DEF Edit
  <1>3. files' \in Files  BY <1>2, Typed DEF Files
  <1> QED  BY <1>1, <1>3, Typed, AsideInv

\* The watcher takes a sample, or refuses it.
LEMMA ObserveStep == ASSUME NEW p \in Paths PROVE RunInv /\ Observe(p) => RunInv'
  <1> SUFFICES ASSUME RunInv, Observe(p) PROVE RunInv'  OBVIOUS
  <1>1. UNCHANGED <<wrapper, child, files, baseline, final, queue, stored, todo>>
    BY DEF Observe, process, snapshots
  <1>2. watcher \in Watchers /\ files[p] \in States /\ watcher.samples[p] \in Seq(States)
    BY Typed DEF Files, Watchers
  <1>3. CASE watcher' = [watcher EXCEPT !.error = TRUE]
    <2>1. watcher' \in Watchers /\ watcher'.state = watcher.state  BY <1>2, <1>3 DEF Watchers
    <2> QED  BY <1>1, <2>1, Typed, AsideInv
  <1>4. CASE watcher' = [watcher EXCEPT !.samples[p] = Append(@, files[p])]
    <2>1. Append(watcher.samples[p], files[p]) \in Seq(States)
      BY <1>2, AppendProperties
    <2> DEFINE samples == [watcher.samples EXCEPT ![p] = Append(watcher.samples[p], files[p])]
    <2>2. samples \in [Paths -> Seq(States)]  BY <1>2, <2>1 DEF Watchers
    <2>3. watcher' = [watcher EXCEPT !.samples = samples]  BY <1>2, <1>4 DEF Watchers
    <2> HIDE DEF samples
    <2>4. watcher' \in Watchers /\ watcher'.state = watcher.state
      BY <1>2, <2>2, <2>3 DEF Watchers
    <2> QED  BY <1>1, <2>4, Typed, AsideInv
  <1> QED  BY <1>3, <1>4 DEF Observe

\* A batch of the watcher becomes changes of the workspace.
LEMMA FlushStep == RunInv /\ Flush => RunInv'
  <1> SUFFICES ASSUME RunInv, Flush PROVE RunInv'  OBVIOUS
  <1> DEFINE seen == UNION {Observed(p, baseline.files[p], files[p], watcher.samples[p])
                              : p \in Pending}
             batch == IF wrapper.expired THEN {} ELSE PairRenames(seen)
  <1>1. /\ UNCHANGED <<wrapper, child, files, baseline, final, queue, stored, todo>>
        /\ watcher' = [watcher EXCEPT !.samples = NoSamples, !.emit = batch]
    BY DEF Flush, process, workspace, snapshots
  <1>2. ASSUME NEW p \in Pending
        PROVE  Observed(p, baseline.files[p], files[p], watcher.samples[p]) \subseteq Changes
    <2>1. /\ p \in Paths /\ baseline.files[p] \in States /\ files[p] \in States
          /\ watcher.samples[p] \in Seq(States)
      BY Typed DEF Pending, Files, Snapshots, Watchers
    <2> QED  BY <2>1, ObservedChanges
  <1>3. seen \subseteq Changes  BY <1>2
  <1>4. batch \subseteq Changes
    <2> HIDE DEF seen
    <2> QED  BY <1>3, PairedChanges
  <1>5. NoSamples \in [Paths -> Seq(States)]
    <2>1. <<>> \in Seq(States)  BY EmptySeq
    <2> QED  BY <2>1 DEF NoSamples
  <1> HIDE DEF batch
  <1>6. watcher' \in Watchers /\ watcher'.state = watcher.state
    BY <1>1, <1>4, <1>5, Typed DEF Watchers
  <1> QED  BY <1>1, <1>6, Typed, AsideInv

\* The deadline only sets a flag.
LEMMA DeadlineExpiresStep == RunInv /\ DeadlineExpires => RunInv'
  <1> SUFFICES ASSUME RunInv, DeadlineExpires PROVE RunInv'  OBVIOUS
  <1>1. /\ wrapper' = [wrapper EXCEPT !.expired = TRUE]
        /\ UNCHANGED <<child, files, baseline, final, watcher, queue, stored, todo>>
    BY DEF DeadlineExpires, process, workspace, snapshots
  <1>2. /\ wrapper' \in Wrappers /\ wrapper'.pc = wrapper.pc /\ wrapper'.failed = wrapper.failed
        /\ wrapper'.answer = wrapper.answer
    BY <1>1, Typed DEF Wrappers
  <1> QED  BY <1>1, <1>2, Typed, AsideInv

\* What others queue does not come between commandRun and its operation, and the
\* child queues nothing once it is closed.
LEMMA AppendInv ==
    ASSUME RunInv, NEW op \in Ops, GoodOp(op), op.owner # "main",
           op.owner = "stream" => child = "running",
           queue' = Append(queue, op),
           UNCHANGED <<wrapper, child, files, baseline, final, stored, todo>>,
           watcher' \in Watchers, watcher'.state = watcher.state
    PROVE  RunInv'
  <1>1. /\ queue' \in Seq(Ops)
        /\ \A i \in 1 .. Len(queue) : i \in 1 .. Len(queue') /\ queue'[i] = queue[i]
        /\ \A i \in 1 .. Len(queue') : i \in 1 .. Len(queue) \/ queue'[i] = op
        /\ \A i \in 1 .. Len(queue') : GoodOp(queue'[i])
    <2>1. RunTypes  BY DEF RunInv
    <2> QED  BY <2>1, Appended
  <1>2. \A i \in 1 .. Len(queue') : queue'[i].owner = "main" =>
           i \in 1 .. Len(queue) /\ queue[i].owner = "main" /\ queue'[i] = queue[i]
    BY <1>1
  <1>3. RunTypes'  BY <1>1 DEF RunInv, RunTypes
  <1>4. ChildControl'  BY DEF RunInv, ChildControl
  <1>5. QueueControl'
    <2> SUFFICES ASSUME wrapper.pc # "killed" PROVE QueueControl'  BY DEF QueueControl
    <2>1. QueueControl  BY DEF RunInv
    <2>2. ASSUME NEW i \in 1 .. Len(queue'), queue'[i].owner = "main"
          PROVE  /\ wrapper.pc \in Awaiting /\ wrapper.answer = "none"
                 /\ queue'[i].kind = KindAt(wrapper.pc)
                 /\ \A j \in 1 .. Len(queue') : queue'[j].owner = "main" => i = j
      BY <1>2, <2>1, <2>2 DEF QueueControl
    <2> QED  BY <2>1, <2>2 DEF QueueControl
  <1>6. OutputBeforeEnd'
    <2> SUFFICES ASSUME child = "closed" PROVE OutputBeforeEnd'  BY DEF OutputBeforeEnd
    <2>1. \A i \in 1 .. Len(queue') : queue'[i].owner = "stream" =>
             i \in 1 .. Len(queue) /\ queue[i].owner = "stream"
      BY <1>1
    <2>2. OutputBeforeEnd  BY DEF RunInv
    <2>3. wrapper.pc = "record end" /\ wrapper.answer = "none" =>
             \A i, j \in 1 .. Len(queue') :
                queue'[i].owner = "stream" /\ queue'[j].owner = "main" => i < j
      BY <1>2, <2>1, <2>2 DEF OutputBeforeEnd
    <2>4. wrapper.pc \in {"close", "exited"} \/ (wrapper.pc = "record end" /\ Answered) =>
             \A i \in 1 .. Len(queue') : queue'[i].owner # "stream"
      BY <2>1, <2>2 DEF OutputBeforeEnd
    <2> QED  BY <2>3, <2>4 DEF OutputBeforeEnd, Answered
  <1>7. ChangesAccounted => ChangesAccounted'
    BY <1>2 DEF ChangesAccounted, ExactOnes
  <1>8. NothingLost'  BY <1>1, <1>7 DEF RunInv, NothingLost
  <1> QED  BY <1>3, <1>4, <1>5, <1>6, <1>8 DEF RunInv

\* The child writes only while it runs.
LEMMA OutputStep == RunInv /\ Output => RunInv'
  <1> SUFFICES ASSUME RunInv, Output PROVE RunInv'  OBVIOUS
  <1>1. /\ child = "running" /\ queue' = Append(queue, Op("stream", "output", {}))
        /\ UNCHANGED <<wrapper, child, files, baseline, final, watcher, stored, todo>>
    BY DEF Output, Enqueue, workspace, snapshots
  <1> QED  BY <1>1, PlainOps, Typed, AppendInv

\* The watcher queues changes of the workspace.
LEMMA EmitStep == RunInv /\ Emit => RunInv'
  <1> SUFFICES ASSUME RunInv, Emit PROVE RunInv'  OBVIOUS
  <1>1. UNCHANGED <<wrapper, child, files, baseline, final, stored, todo>>
    BY DEF Emit, process, workspace, snapshots
  <1>2. PICK c \in watcher.emit :
          /\ watcher' = [watcher EXCEPT
                !.emit = @ \ {c},
                !.last = {d \in @ : d.path \notin {c.path, c.from}} \cup {c},
                !.error = @ \/ (c \notin watcher.last /\ (journal.terminal \/ journal.final))]
          /\ queue' = queue \/ queue' = Append(queue, Op("watcher", "guess", c))
    BY DEF Emit, Enqueue
  <1>3. c \in Changes  BY Typed DEF Watchers
  <1> DEFINE kept == {d \in watcher.last : d.path \notin {c.path, c.from}} \cup {c}
             error == watcher.error \/ (c \notin watcher.last /\ (journal.terminal \/ journal.final))
  <1>4. watcher' \in Watchers /\ watcher'.state = watcher.state
    <2>1. watcher.emit \ {c} \subseteq Changes  BY Typed DEF Watchers
    <2>2. kept \subseteq Changes  BY <1>3, Typed DEF Watchers
    <2>3. error \in BOOLEAN  OBVIOUS
    <2>4. watcher' = [watcher EXCEPT !.emit = watcher.emit \ {c}, !.last = kept, !.error = error]
      BY <1>2, Typed DEF Watchers
    <2> HIDE DEF kept, error
    <2> QED  BY <2>1, <2>2, <2>3, <2>4, Typed DEF Watchers
  <1>5. CASE queue' = queue  BY <1>1, <1>4, <1>5, Typed, AsideInv
  <1>6. CASE queue' = Append(queue, Op("watcher", "guess", c))
    <2>1. /\ Op("watcher", "guess", c) \in Ops /\ GoodOp(Op("watcher", "guess", c))
          /\ Op("watcher", "guess", c).owner = "watcher"
      BY <1>3 DEF Op, Ops, GoodOp, Kinds
    <2> QED  BY <1>1, <1>4, <1>6, <2>1, Typed, AppendInv
  <1> QED  BY <1>2, <1>5, <1>6

\* The operation at the head of the queue is over: it was recorded, or it and all
\* behind it are rejected; whoever waited for it is told.
LEMMA DequeueStep == RunInv /\ Dequeue => RunInv'
  <1> SUFFICES ASSUME RunInv, Dequeue PROVE RunInv'  OBVIOUS
  <1> DEFINE op == Head(queue)
  <1>1. /\ queue # <<>> /\ queue' = Tail(queue) /\ wrapper.pc # "killed"
        /\ UNCHANGED <<child, files, baseline, final, todo>>
    BY DEF Dequeue, Ended, process, workspace, snapshots
  <1>2. PICK answer \in {"done", "rejected"} :
           /\ Answer(op, answer)
           /\ answer = "done" => stored' = Recorded(op)
           /\ answer = "rejected" => stored' = stored
    BY DEF Dequeue, Rejects
  <1>3. /\ queue' \in Seq(Ops)
        /\ 1 \in 1 .. Len(queue) /\ op = queue[1] /\ op \in Ops /\ GoodOp(op)
        /\ \A i \in 1 .. Len(queue') :
              i + 1 \in 1 .. Len(queue) /\ i + 1 # 1 /\ queue'[i] = queue[i + 1]
        /\ \A i \in 1 .. Len(queue) :
              i # 1 => i - 1 \in 1 .. Len(queue') /\ queue'[i - 1] = queue[i]
        /\ \A i \in 1 .. Len(queue') : GoodOp(queue'[i])
    <2>1. RunTypes  BY DEF RunInv
    <2> QED  BY <1>1, <2>1, Shortened
  <1>4. /\ wrapper' \in Wrappers /\ wrapper'.pc = wrapper.pc
        /\ op.owner = "main" => wrapper'.answer = answer
        /\ op.owner # "main" => wrapper'.answer = wrapper.answer
        /\ wrapper.failed => wrapper'.failed
        /\ op.owner = "stream" /\ answer = "rejected" => wrapper'.failed
    <2> HIDE DEF op
    <2> DEFINE told == IF op.owner = "main" THEN answer ELSE wrapper.answer
               failed == wrapper.failed \/ (op.owner = "stream" /\ answer = "rejected")
    <2>1. told \in {"none", "done", "rejected"} /\ failed \in BOOLEAN
      BY Typed DEF Wrappers
    <2>2. wrapper' = [wrapper EXCEPT !.answer = told, !.failed = failed]
      BY <1>2, Typed DEF Answer, Wrappers
    <2>3. /\ op.owner = "main" => told = answer
          /\ op.owner # "main" => told = wrapper.answer
          /\ wrapper.failed => failed
          /\ op.owner = "stream" /\ answer = "rejected" => failed
      OBVIOUS
    <2> HIDE DEF told, failed
    <2> QED  BY <2>1, <2>2, <2>3, Typed DEF Wrappers
  <1>5. watcher' \in Watchers /\ watcher'.state = watcher.state
    <2> HIDE DEF op
    <2> DEFINE error == watcher.error \/ (op.owner = "watcher" /\ answer = "rejected")
    <2>1. error \in BOOLEAN  OBVIOUS
    <2>2. watcher' = [watcher EXCEPT !.error = error]
      BY <1>2, Typed DEF Answer, Watchers
    <2> HIDE DEF error
    <2> QED  BY <2>1, <2>2, Typed DEF Watchers
  <1> HIDE DEF op
  <1>6. /\ Recorded(op) \in Stores
        /\ Recorded(op).kinds = stored.kinds \cup {op.kind}
        /\ op.kind # "exact" => Recorded(op).exact = stored.exact
        /\ op.kind = "exact" => Recorded(op).exact = stored.exact \cup {op.change}
    <2> DEFINE guess == IF op.kind = "guess" THEN {op.change} ELSE {}
               exact == IF op.kind = "exact" THEN {op.change} ELSE {}
               payload == IF op.kind = "exact" /\ op.change.payload THEN {op.change.change} ELSE {}
    <2>1. guess \subseteq Changes /\ exact \subseteq ExactChanges
      BY <1>3 DEF GoodOp
    <2>2. payload \subseteq {c \in Changes : ContentAllowed(c)}
      BY <1>3 DEF GoodOp, ExactChanges
    <2>3. Recorded(op) = [kinds |-> stored.kinds \cup {op.kind}, guesses |-> stored.guesses \cup guess,
                          exact |-> stored.exact \cup exact,
                          payloads |-> stored.payloads \cup payload]
      BY DEF Recorded
    <2>4. op.kind \in Kinds  BY <1>3 DEF GoodOp
    <2>5. /\ op.kind # "exact" => exact = {}
          /\ op.kind = "exact" => exact = {op.change}
      OBVIOUS
    <2> HIDE DEF guess, exact, payload
    <2> QED  BY <2>1, <2>2, <2>3, <2>4, <2>5, Typed DEF Stores
  <1>7. /\ stored' \in Stores /\ stored.kinds \subseteq stored'.kinds
        /\ answer = "done" => op.kind \in stored'.kinds
        /\ op.kind # "exact" => stored'.exact = stored.exact
        /\ answer = "done" /\ op.kind = "exact" => stored'.exact = stored.exact \cup {op.change}
    BY <1>2, <1>6, Typed
  <1>8. /\ op.owner = "main" =>
              /\ wrapper.pc \in Awaiting /\ wrapper.answer = "none" /\ op.kind = KindAt(wrapper.pc)
              /\ \A i \in 1 .. Len(queue) : queue[i].owner = "main" => i = 1
        /\ wrapper.answer # "none" => op.owner # "main"
    BY <1>1, <1>3 DEF RunInv, QueueControl
  <1>9. op.kind = "exact" => op.owner = "main" /\ wrapper.pc = "record change"
    BY <1>3, <1>8 DEF GoodOp, KindAt, Awaiting
  <1>10. RunTypes'  BY <1>1, <1>3, <1>4, <1>5, <1>7 DEF RunInv, RunTypes
  <1>11. ChildControl'  BY <1>1, <1>4 DEF RunInv, ChildControl
  <1>12. QueueControl'
    <2>1. ASSUME NEW i \in 1 .. Len(queue'), queue'[i].owner = "main"
          PROVE  /\ wrapper.pc \in Awaiting /\ wrapper.answer = "none"
                 /\ queue'[i].kind = KindAt(wrapper.pc)
                 /\ op.owner # "main"
                 /\ \A j \in 1 .. Len(queue') : queue'[j].owner = "main" => i = j
      <3>1. /\ i + 1 \in 1 .. Len(queue) /\ i + 1 # 1 /\ queue'[i] = queue[i + 1]
            /\ queue[i + 1].owner = "main"
        BY <1>3, <2>1
      <3>2. /\ wrapper.pc \in Awaiting /\ wrapper.answer = "none"
            /\ queue[i + 1].kind = KindAt(wrapper.pc)
            /\ \A j \in 1 .. Len(queue) : queue[j].owner = "main" => i + 1 = j
        BY <1>1, <3>1 DEF RunInv, QueueControl
      <3>3. op.owner # "main"  BY <1>8, <3>1
      <3>4. ASSUME NEW j \in 1 .. Len(queue'), queue'[j].owner = "main" PROVE i = j
        <4>1. j + 1 \in 1 .. Len(queue) /\ queue[j + 1].owner = "main"
          BY <1>3, <3>4
        <4> QED  BY <3>2, <4>1
      <3> QED  BY <3>1, <3>2, <3>3, <3>4
    <2>2. wrapper'.answer # "none" => wrapper.pc \in Awaiting
      BY <1>1, <1>4, <1>8 DEF RunInv, QueueControl
    <2>3. wrapper'.answer = "done" => KindAt(wrapper.pc) \in stored'.kinds
      <3>1. CASE op.owner = "main"  BY <1>4, <1>7, <1>8, <3>1
      <3>2. CASE op.owner # "main"
        BY <1>1, <1>4, <1>7, <3>2 DEF RunInv, QueueControl
      <3> QED  BY <3>1, <3>2
    <2> QED  BY <1>4, <2>1, <2>2, <2>3 DEF QueueControl
  <1>13. OutputBeforeEnd'
    <2> SUFFICES ASSUME child = "closed" PROVE OutputBeforeEnd'
      BY <1>1 DEF OutputBeforeEnd
    <2>1. OutputBeforeEnd  BY DEF RunInv
    <2>2. ASSUME wrapper.pc = "record end", wrapper.answer = "none",
                 NEW i \in 1 .. Len(queue'), NEW j \in 1 .. Len(queue'),
                 queue'[i].owner = "stream", queue'[j].owner = "main"
          PROVE  i < j
      <3>1. /\ i + 1 \in 1 .. Len(queue) /\ queue[i + 1].owner = "stream"
            /\ j + 1 \in 1 .. Len(queue) /\ queue[j + 1].owner = "main"
        BY <1>3, <2>2
      <3>2. i + 1 < j + 1  BY <2>1, <2>2, <3>1 DEF OutputBeforeEnd
      <3> QED  BY <3>2
    <2>3. ASSUME wrapper.pc = "record end", op.owner = "main", NEW i \in 1 .. Len(queue)
          PROVE  queue[i].owner # "stream"
      <3>1. queue[i].owner = "stream" => i < 1
        BY <1>3, <1>8, <2>1, <2>3 DEF OutputBeforeEnd
      <3> QED  BY <3>1
    <2>4. ASSUME \A i \in 1 .. Len(queue) : queue[i].owner # "stream"
          PROVE  \A i \in 1 .. Len(queue') : queue'[i].owner # "stream"
      BY <1>3, <2>4
    <2>5. ASSUME \/ wrapper.pc \in {"close", "exited"}
                 \/ wrapper.pc = "record end" /\ wrapper'.answer # "none"
          PROVE  \A i \in 1 .. Len(queue') : queue'[i].owner # "stream"
      BY <1>4, <2>1, <2>3, <2>4, <2>5 DEF OutputBeforeEnd, Answered
    <2>6. wrapper'.answer = "none" => wrapper.answer = "none"
      BY <1>2, <1>4, <1>8
    <2> QED  BY <1>4, <2>2, <2>5, <2>6 DEF OutputBeforeEnd, Answered
  <1>14. wrapper'.pc \in Before \cup {"running", "settle", "drain"} => stored'.exact = {}
    <2>1. "record change" \notin Before \cup {"running", "settle", "drain"}  BY DEF Before
    <2> QED  BY <1>4, <1>7, <1>9, <2>1 DEF RunInv
  <1>15. wrapper'.pc \in {"record error", "record watcher", "record failure"} => wrapper'.failed
    BY <1>4 DEF RunInv
  <1>16. NothingLost'
    <2> SUFFICES ASSUME ~wrapper'.failed PROVE NothingLost'  BY DEF NothingLost
    <2>1. ~wrapper.failed /\ NothingLost  BY <1>4 DEF RunInv
    <2>2. child # "none" => \/ "started" \in stored'.kinds
                            \/ \E i \in 1 .. Len(queue') : queue'[i].kind = "started"
      <3>1. ASSUME NEW i \in 1 .. Len(queue), queue[i].kind = "started"
            PROVE  \/ "started" \in stored'.kinds
                   \/ \E k \in 1 .. Len(queue') : queue'[k].kind = "started"
        <4>1. CASE i = 1
          <5>1. op.owner = "stream"  BY <1>3, <3>1, <4>1 DEF GoodOp
          <5>2. answer = "done"  BY <1>2, <1>4, <5>1
          <5> QED  BY <1>3, <1>7, <3>1, <4>1, <5>2
        <4>2. CASE i # 1  BY <1>3, <3>1, <4>2
        <4> QED  BY <4>1, <4>2
      <3> QED  BY <1>7, <2>1, <3>1 DEF NothingLost
    <2>3. ChangesAccounted'
      <3> DEFINE all == ChangesBetween(baseline.files, final.files)
      <3>1. ChangesAccounted  BY <2>1 DEF NothingLost
      <3>2. op.kind # "exact" => ExactOnes' = ExactOnes  BY <1>7 DEF ExactOnes
      <3>3. op.kind = "exact" /\ answer = "done" => ExactOnes' = ExactOnes \cup {op.change.change}
        BY <1>7 DEF ExactOnes
      <3>4. wrapper.pc = "record change" /\ op.owner = "main" => op.kind = "exact"
        BY <1>8 DEF KindAt
      <3>5. ASSUME \/ wrapper.pc = "change"
                   \/ wrapper.pc = "record change" /\ wrapper'.answer = "done"
            PROVE  ExactOnes' \cup todo = all
        <4>1. CASE op.owner = "main"
          <5>1. wrapper.pc = "record change" /\ answer = "done" /\ wrapper.answer = "none"
            BY <1>4, <1>8, <3>5, <4>1 DEF Awaiting
          <5>2. ExactOnes \cup todo \cup {op.change.change} = all
            BY <1>3, <3>1, <4>1, <5>1 DEF ChangesAccounted
          <5> QED  BY <3>3, <3>4, <4>1, <5>1, <5>2
        <4>2. CASE op.owner # "main"
          <5>1. ExactOnes' = ExactOnes  BY <1>9, <3>2, <4>2
          <5> QED  BY <1>4, <3>1, <3>5, <4>2, <5>1 DEF ChangesAccounted
        <4> QED  BY <4>1, <4>2
      <3>6. ASSUME wrapper.pc = "record change", wrapper'.answer = "none",
                   NEW i \in 1 .. Len(queue'), queue'[i].owner = "main"
            PROVE  ExactOnes' \cup todo \cup {queue'[i].change.change} = all
        <4>1. op.owner # "main"  BY <1>2, <1>4, <3>6
        <4>2. ExactOnes' = ExactOnes /\ wrapper.answer = "none"
          BY <1>4, <1>9, <3>2, <3>6, <4>1
        <4>3. /\ i + 1 \in 1 .. Len(queue) /\ queue[i + 1].owner = "main"
              /\ queue'[i] = queue[i + 1]
          BY <1>3, <3>6
        <4>4. ExactOnes \cup todo \cup {queue[i + 1].change.change} = all
          BY <3>1, <3>6, <4>2, <4>3 DEF ChangesAccounted
        <4> QED  BY <4>2, <4>3, <4>4
      <3>7. wrapper.pc # "record change" => ExactOnes' = ExactOnes
        BY <1>9, <3>2
      <3>8. wrapper.pc = "record final" => ExactOnes' = all
        BY <3>1, <3>7 DEF ChangesAccounted
      <3>9. wrapper.pc \in {"finish", "record end", "close", "exited"} /\ child = "closed" =>
               ExactOnes' = all /\ "final" \in stored'.kinds
        BY <1>7, <3>1, <3>7 DEF ChangesAccounted
      <3> QED  BY <1>1, <1>4, <3>5, <3>6, <3>8, <3>9 DEF ChangesAccounted
    <2> QED  BY <1>1, <1>4, <1>5, <1>7, <2>1, <2>2, <2>3 DEF NothingLost
  <1> QED  BY <1>10, <1>11, <1>12, <1>13, <1>14, <1>15, <1>16 DEF RunInv

-----------------------------------------------------------------------------
(* The theorems.                                                           *)

\* The first states satisfy the invariant.
LEMMA InitRunInv == Init => RunInv
  <1> SUFFICES ASSUME Init PROVE RunInv  OBVIOUS
  <1>1. /\ wrapper = [pc |-> "baseline", failed |-> FALSE, answer |-> "none", expired |-> FALSE]
        /\ child = "none" /\ files \in Files /\ queue = <<>> /\ todo = {}
        /\ baseline = NoSnapshot /\ final = NoSnapshot
        /\ watcher = [state |-> "off", samples |-> NoSamples, emit |-> {}, last |-> {},
                      error |-> FALSE]
        /\ stored = [kinds |-> {}, guesses |-> {}, exact |-> {}, payloads |-> {}]
    BY FirstFilesAssumption DEF Init
  <1>2. wrapper \in Wrappers /\ wrapper.pc = "baseline" /\ wrapper.answer = "none"
    BY <1>1 DEF Wrappers, PCs, Before
  <1>3. NoSnapshot \in Snapshots
    <2> DEFINE nothing == [p \in Paths |-> Absent]
    <2>1. nothing \in Files  BY DEF Files, States
    <2>2. NoSnapshot = [taken |-> FALSE, files |-> nothing, reasons |-> {}]  BY DEF NoSnapshot
    <2> HIDE DEF nothing
    <2> QED  BY <2>1, <2>2 DEF Snapshots
  <1>4. watcher \in Watchers
    <2>1. NoSamples \in [Paths -> Seq(States)]
      <3>1. <<>> \in Seq(States)  BY EmptySeq
      <3> QED  BY <3>1 DEF NoSamples
    <2> QED  BY <1>1, <2>1 DEF Watchers
  <1>5. stored \in Stores  BY <1>1 DEF Stores
  <1>6. queue \in Seq(Ops) /\ 1 .. Len(queue) = {}  BY <1>1, EmptySeq
  <1>7. RunTypes  BY <1>1, <1>2, <1>3, <1>4, <1>5, <1>6 DEF RunTypes
  <1>8. ChildControl  BY <1>1, <1>2 DEF ChildControl, After
  <1>9. QueueControl  BY <1>2, <1>6 DEF QueueControl
  <1>10. OutputBeforeEnd  BY <1>1 DEF OutputBeforeEnd
  <1>11. NothingLost  BY <1>1, <1>2 DEF NothingLost, ChangesAccounted, After
  <1> QED  BY <1>1, <1>2, <1>7, <1>8, <1>9, <1>10, <1>11 DEF RunInv

\* Every step keeps the invariant.
LEMMA StepRunInv == RunInv /\ [Next]_vars => RunInv'
  <1> SUFFICES ASSUME RunInv, [Next]_vars PROVE RunInv'  OBVIOUS
  <1>1. CASE MainStep
    BY <1>1, TakeBaselineStep, StartWatchingStep, ErrorRecordedStep, SpawnStep, SettleStep,
       TakeFinalStep, WatcherErrorRecordedStep, RecordChangeStep, ChangeRecordedStep,
       FinalRecordedStep, FailureRecordedStep, FinishStep, EndRecordedStep, CloseStep
       DEF MainStep
  <1>2. CASE Dequeue \/ Flush \/ Emit
    BY <1>2, DequeueStep, FlushStep, EmitStep
  <1>3. ASSUME NEW p \in Paths, Edit(p) \/ Observe(p) PROVE RunInv'
    BY <1>3, EditStep, ObserveStep
  <1>4. CASE Output \/ ChildCloses \/ Signal \/ DeadlineExpires
    BY <1>4, OutputStep, ChildClosesStep, SignalStep, DeadlineExpiresStep
  <1>5. CASE UNCHANGED vars
    <2>1. UNCHANGED <<wrapper, child, files, baseline, final, watcher, queue, stored, todo>>
      BY <1>5 DEF vars
    <2> QED  BY <2>1, Typed, AsideInv
  <1> QED  BY <1>1, <1>2, <1>3, <1>4, <1>5 DEF Next

\* Every run of the wrapper satisfies the invariant.
THEOREM RunInvHolds == Spec => []RunInv
  BY InitRunInv, StepRunInv, PTL DEF Spec

\* The records are what they are said to be, and no content of a secret path is
\* kept, for every workspace and whatever the watcher sampled.
THEOREM RunsAreTyped == Spec => []TypeOK
  <1>1. RunInv => TypeOK
    <2> SUFFICES ASSUME RunInv PROVE TypeOK  OBVIOUS
    <2>1. /\ files \in Files /\ baseline.files \in Files /\ final.files \in Files
          /\ stored.kinds \subseteq Kinds
      BY Typed DEF Snapshots, Stores
    <2>2. watcher.emit \cup stored.guesses \subseteq Changes
      BY Typed DEF Watchers, Stores
    <2>3. {c.change : c \in stored.exact} \cup todo \subseteq Changes
      BY Typed DEF Stores, ExactChanges
    <2>4. \A c \in stored.payloads : {c.path, c.from} \cap Secret = {}
      BY Typed DEF Stores, ContentAllowed
    <2> QED  BY <2>1, <2>2, <2>3, <2>4 DEF TypeOK
  <1> QED  BY <1>1, RunInvHolds, PTL

\* A run that exits without calling its evidence incomplete has recorded its
\* beginning and its end, and changes that make the final workspace of the first:
\* whatever was rejected, missed or given up in between.
THEOREM SilentRunsAreComplete == Spec => []SilenceMeansComplete
  <1>1. RunInv => SilenceMeansComplete
    <2> SUFFICES ASSUME RunInv, wrapper.pc = "exited", child = "closed", ~wrapper.failed
                 PROVE  /\ {"baseline", "started", "final", "ended"} \subseteq stored.kinds
                        /\ Applied({c.change : c \in stored.exact}, baseline.files) = final.files
      BY DEF SilenceMeansComplete
    <2>1. /\ "baseline" \in stored.kinds /\ "ended" \in stored.kinds /\ "final" \in stored.kinds
          /\ {c.change : c \in stored.exact} = ChangesBetween(baseline.files, final.files)
      BY DEF RunInv, NothingLost, ChangesAccounted, ExactOnes
    <2>2. "started" \in stored.kinds
      <3>1. \A i \in 1 .. Len(queue) : queue[i].owner # "stream" /\ GoodOp(queue[i])
        BY DEF RunInv, RunTypes, OutputBeforeEnd
      <3>2. \A i \in 1 .. Len(queue) : queue[i].kind # "started"
        BY <3>1 DEF GoodOp
      <3> QED  BY <3>2 DEF RunInv, NothingLost
    <2>3. Applied(ChangesBetween(baseline.files, final.files), baseline.files) = final.files
      BY Typed, ChangesMakeTheSnapshot DEF Snapshots
    <2> QED  BY <2>1, <2>2, <2>3
  <1> QED  BY <1>1, RunInvHolds, PTL

\* A deletion that is to be recorded as exact is one of the workspace the final
\* snapshot read, or of a path it says it missed.
THEOREM ExactDeletionsAreReal == Spec => DeletionsAreReal
  <1> DEFINE Real == \A c \in todo' \ todo :
                        c.operation = "delete" => files[c.path] = Absent \/ c.path \in final'.reasons
  <1>1. RunInv /\ [Next]_vars => [Real]_vars
    <2> SUFFICES ASSUME RunInv, Next, NEW c \in todo' \ todo, c.operation = "delete"
                 PROVE  files[c.path] = Absent \/ c.path \in final'.reasons
      OBVIOUS
    <2>1. todo' \subseteq todo \/ TakeFinal
      BY DEF Next, MainStep, TakeBaseline, StartWatching, ErrorRecorded, Spawn, Settle,
             WatcherErrorRecorded, RecordChange, ChangeRecorded, FinalRecorded,
             FailureRecorded, Finish, EndRecorded, Close, Dequeue, Flush, Emit, Edit, Observe,
             Output, ChildCloses, Signal, DeadlineExpires
    <2>2. PICK missed \in SUBSET Paths :
             /\ final' = Snapshot(missed)
             /\ todo' = ChangesBetween(baseline.files, Snapshot(missed).files)
      BY <2>1 DEF TakeFinal
    <2> DEFINE f == baseline.files
               g == Snapshot(missed).files
    <2>3. /\ f \in Files /\ g \in Files
          /\ \A p \in Paths : g[p] = Absent => p \in missed \/ files[p] = Absent
          /\ final'.reasons = missed
      BY <2>2, Typed, SnapshotTyped DEF Snapshots
    <2>4. c \in PairRenames(Differences(f, g))
      BY <2>2 DEF ChangesBetween, Differences
    <2> HIDE DEF f, g
    <2>5. Differences(f, g) \subseteq Changes  BY <2>3, DifferencesPerPath
    <2>6. c \in Differences(f, g)  BY <2>4, <2>5, PairedChanges
    <2>7. g[c.path] = Absent  BY <2>3, <2>6, DifferencesPerPath
    <2>8. c.path \in Paths  BY <2>5, <2>6 DEF Changes
    <2> QED  BY <2>3, <2>7, <2>8
  <1> QED  BY <1>1, RunInvHolds, PTL DEF Spec, DeletionsAreReal
=============================================================================
