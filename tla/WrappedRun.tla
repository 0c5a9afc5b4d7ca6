------------------------------- MODULE WrappedRun -------------------------------
(***************************************************************************)
(* One `tekrion run`: the wrapper takes a snapshot of the workspace, spawns *)
(* the child, records its output through a queue of promises while a       *)
(* watcher records file changes through the same queue, and after the child *)
(* has closed settles its session, takes the final snapshot under a        *)
(* deadline, and ends the session.                                         *)
(*                                                                         *)
(* One action is one callback, or the part of commandRun, of a queued      *)
(* operation or of the watcher between two awaits.  Owner "main" marks the *)
(* operation commandRun waits for.                                         *)
(*                                                                         *)
(* apps/cli/src/index.ts (commandRun), apps/cli/src/run.                   *)
(***************************************************************************)
EXTENDS WorkspaceChanges

CONSTANTS
    FirstFiles,     \* the workspaces a run may begin with
    MaxEdits,       \* bound on the changes of the workspace during the run
    MaxSamples,     \* MAX_SAMPLES_PER_PATH
    MaxPayloads,    \* MAX_FILE_PAYLOADS
    MaxOutputs      \* bound on the chunks of output

ASSUME FirstFilesAssumption == FirstFiles \subseteq Files

VARIABLES
    wrapper,     \* commandRun: where it is, recordingFailure, the last await's answer
    child,
    outputs,     \* chunks of output so far
    files,       \* the workspace
    edits,
    notices,     \* paths whose change the watcher has not been told of
    baseline,    \* the baseline snapshot
    final,       \* the final snapshot and its incompleteReasons
    watcher,     \* DebouncedWorkspaceWatcher
    queue,       \* RunEventJournal.pending: operations not yet done
    journal,     \* the flags of RunEventJournal
    stored,      \* what has been recorded
    todo         \* exact changes still to record

vars == <<wrapper, child, outputs, files, edits, notices, baseline, final, watcher, queue,
          journal, stored, todo>>
workspace == <<files, edits, notices>>
process == <<child, outputs>>
snapshots == <<baseline, final>>

NoSnapshot == [taken |-> FALSE, files |-> [p \in Paths |-> Absent], reasons |-> {}]
NoSamples == [p \in Paths |-> <<>>]
Op(owner, kind, change) == [owner |-> owner, kind |-> kind, change |-> change]

Init ==
    /\ wrapper = [pc |-> "baseline", failed |-> FALSE, answer |-> "none", expired |-> FALSE]
    /\ child = "none"
    /\ outputs = 0
    /\ files \in FirstFiles
    /\ edits = 0
    /\ notices = {}
    /\ baseline = NoSnapshot
    /\ final = NoSnapshot
    /\ watcher = [state |-> "off", samples |-> NoSamples, emit |-> {}, last |-> {},
                  error |-> FALSE]
    /\ queue = <<>>
    /\ journal = [poisoned |-> FALSE, terminal |-> FALSE, final |-> FALSE]
    /\ stored = [kinds |-> {}, guesses |-> {}, exact |-> {}, payloads |-> {}]
    /\ todo = {}

At(pc) == wrapper.pc = pc
Ended == wrapper.pc \in {"exited", "killed"}
Goes(pc) == wrapper' = [wrapper EXCEPT !.pc = pc, !.answer = "none"]
GoesFailed(pc) == wrapper' = [wrapper EXCEPT !.pc = pc, !.answer = "none", !.failed = TRUE]
Enqueue(op) == queue' = Append(queue, op)
Answered == wrapper.answer # "none"
Rejected == wrapper.answer = "rejected"
Awaits(pc) == At(pc) /\ Answered

-----------------------------------------------------------------------------
(* RunEventJournal: each operation runs when the one before has fulfilled. *)

Recorded(op) ==
    [kinds |-> stored.kinds \cup {op.kind},
     guesses |-> stored.guesses \cup (IF op.kind = "guess" THEN {op.change} ELSE {}),
     exact |-> stored.exact \cup (IF op.kind = "exact" THEN {op.change} ELSE {}),
     payloads |-> stored.payloads \cup (IF op.kind = "exact" /\ op.change.payload
                                         THEN {op.change.change} ELSE {})]

\* The caller of an operation that is over: commandRun goes on; a stream's
\* rejection is only remembered; the watcher keeps an error.
Answer(op, answer) ==
    /\ wrapper' = [wrapper EXCEPT
          !.answer = IF op.owner = "main" THEN answer ELSE @,
          !.failed = @ \/ (op.owner = "stream" /\ answer = "rejected")]
    /\ watcher' = [watcher EXCEPT !.error = @ \/ (op.owner = "watcher" /\ answer = "rejected")]

\* Faulty variant of Rejects: the chain goes on, and the caller is not told.
RejectsUnseen(op) ==
    /\ journal' = [journal EXCEPT !.poisoned = TRUE]
    /\ Answer(op, "done")
    /\ UNCHANGED stored

\* Faulty variant of Rejects: the promises of what is skipped never settle.
RejectsUnanswered(op) ==
    /\ journal' = [journal EXCEPT !.poisoned = TRUE]
    /\ UNCHANGED <<wrapper, watcher, stored>>

\* enqueue chains with then: after one rejection nothing runs any more.
Rejects(op) ==
    /\ journal' = [journal EXCEPT !.poisoned = TRUE]
    /\ Answer(op, "rejected")
    /\ UNCHANGED stored

Dequeue ==
    /\ ~Ended
    /\ queue # <<>>
    /\ queue' = Tail(queue)
    /\ \/ /\ ~journal.poisoned
          /\ stored' = Recorded(Head(queue))
          /\ Answer(Head(queue), "done")
          /\ UNCHANGED journal
       \/ Rejects(Head(queue))
    /\ UNCHANGED <<process, workspace, snapshots, todo>>

-----------------------------------------------------------------------------
(* The workspace, and the watcher.                                         *)

\* The child, what it started, or anybody else writes a file.
Edit(p) ==
    /\ edits < MaxEdits /\ baseline.taken /\ ~Ended
    /\ edits' = edits + 1
    /\ \E content \in States \ {files[p]} : files' = [files EXCEPT ![p] = content]
    /\ notices' = IF watcher.state = "on" THEN notices \cup {p} ELSE notices
    /\ UNCHANGED <<wrapper, process, snapshots, watcher, queue, journal, stored, todo>>

\* observe, and the sample it takes; one event may stand for several changes.
Observe(p) ==
    /\ watcher.state = "on" /\ ~Ended
    /\ p \in notices
    /\ notices' = notices \ {p}
    /\ watcher' = IF Len(watcher.samples[p]) < MaxSamples
                  THEN [watcher EXCEPT !.samples[p] = Append(@, files[p])]
                  ELSE [watcher EXCEPT !.error = TRUE]
    /\ UNCHANGED <<wrapper, process, files, edits, snapshots, queue, journal, stored, todo>>

Pending == {p \in Paths : watcher.samples[p] # <<>>}

\* flush: the batch becomes changes, renames paired; after the deadline it is dropped.
Flush ==
    /\ watcher.state \in {"on", "stopping"} /\ ~Ended
    /\ watcher.emit = {} /\ Pending # {}
    /\ watcher' = [watcher EXCEPT
          !.samples = NoSamples,
          !.emit = IF wrapper.expired THEN {}
                   ELSE PairRenames(UNION {Observed(p, baseline.files[p], files[p],
                                                    watcher.samples[p]) : p \in Pending})]
    /\ UNCHANGED <<wrapper, process, workspace, snapshots, queue, journal, stored, todo>>

\* The listener: a change that repeats the last one of its paths is dropped; the
\* journal refuses one that comes after the end of the run.
Emit ==
    /\ ~Ended
    /\ \A i \in 1 .. Len(queue) : queue[i].owner # "watcher"
    /\ \E c \in watcher.emit :
         LET known == c \in watcher.last
             refused == journal.terminal \/ journal.final
         IN /\ watcher' = [watcher EXCEPT
                  !.emit = @ \ {c},
                  !.last = {d \in @ : d.path \notin {c.path, c.from}} \cup {c},
                  !.error = @ \/ (~known /\ refused)]
            /\ IF known \/ refused THEN UNCHANGED queue ELSE Enqueue(Op("watcher", "guess", c))
    /\ UNCHANGED <<wrapper, process, workspace, snapshots, journal, stored, todo>>

\* drain: nothing is pending, and no flush is active.
Drained ==
    /\ Pending = {} /\ watcher.emit = {}
    /\ \A i \in 1 .. Len(queue) : queue[i].owner # "watcher"

-----------------------------------------------------------------------------
(* commandRun, until the child runs.                                       *)

\* A snapshot misses the files that changed while it read them.
Snapshot(missed) ==
    [taken |-> TRUE, files |-> [p \in Paths |-> IF p \in missed THEN Absent ELSE files[p]],
     reasons |-> missed]

TakeBaseline ==
    /\ At("baseline")
    /\ \/ /\ \E missed \in SUBSET Paths : baseline' = Snapshot(missed)
          /\ Enqueue(Op("main", "baseline", {}))
          /\ Goes("record baseline")
       \/ /\ Enqueue(Op("main", "error", {}))
          /\ GoesFailed("record error")
          /\ UNCHANGED baseline
    /\ UNCHANGED <<process, workspace, final, watcher, journal, stored, todo>>

\* The watcher starts, or cannot; without a recorded baseline there is none.
StartWatching ==
    /\ Awaits("record baseline")
    /\ \/ ~Rejected /\ watcher' = [watcher EXCEPT !.state = "on"] /\ Goes("spawn") /\ UNCHANGED queue
       \/ /\ Enqueue(Op("main", "error", {}))
          /\ watcher' = [watcher EXCEPT !.state = IF Rejected THEN "off" ELSE "failed"]
          /\ GoesFailed("record error")
    /\ UNCHANGED <<process, workspace, snapshots, journal, stored, todo>>

ErrorRecorded ==
    /\ Awaits("record error")
    /\ IF Rejected THEN GoesFailed("spawn") ELSE Goes("spawn")
    /\ UNCHANGED <<process, workspace, snapshots, watcher, queue, journal, stored, todo>>

Spawn ==
    /\ At("spawn")
    /\ \/ /\ child' = "running"
          /\ Enqueue(Op("stream", "started", {}))
          /\ Goes("running")
          /\ UNCHANGED journal
       \/ /\ Enqueue(Op("main", "crashed", {}))
          /\ journal' = [journal EXCEPT !.terminal = TRUE]
          /\ Goes("record crash")
          /\ UNCHANGED child
    /\ UNCHANGED <<outputs, workspace, snapshots, watcher, stored, todo>>

Output ==
    /\ child = "running" /\ ~Ended
    /\ outputs < MaxOutputs
    /\ outputs' = outputs + 1
    /\ Enqueue(Op("stream", "output", {}))
    /\ UNCHANGED <<wrapper, child, workspace, snapshots, watcher, journal, stored, todo>>

\* The child closes, by itself or by a signal that was forwarded to it.
ChildCloses ==
    /\ child = "running" /\ ~Ended
    /\ child' = "closed"
    /\ Goes("settle")
    /\ UNCHANGED <<outputs, workspace, snapshots, watcher, queue, journal, stored, todo>>

\* Before the child is spawned, and after its signals are no longer forwarded,
\* a signal ends the wrapper.
Signal ==
    /\ wrapper.pc \in {"baseline", "record baseline", "record error", "spawn"}
    /\ Goes("killed")
    /\ UNCHANGED <<process, workspace, snapshots, watcher, queue, journal, stored, todo>>

-----------------------------------------------------------------------------
(* commandRun, after the child has closed.                                 *)

\* The daemon settles the session, or is gone; then the watcher is closed.
Settle ==
    /\ At("settle")
    /\ \E pc \in {IF watcher.state = "off" THEN "finish" ELSE "drain"} : Goes(pc) \/ GoesFailed(pc)
    /\ watcher' = [watcher EXCEPT !.state = IF @ = "on" THEN "stopping" ELSE @]
    /\ notices' = {}
    /\ UNCHANGED <<process, files, edits, snapshots, queue, journal, stored, todo>>

\* withCleanupDeadline aborts; what runs is not interrupted.
DeadlineExpires ==
    /\ wrapper.pc \in {"drain", "record watcher", "change", "record change", "record final", "close"}
    /\ ~wrapper.expired
    /\ wrapper' = [wrapper EXCEPT !.expired = TRUE]
    /\ UNCHANGED <<process, workspace, snapshots, watcher, queue, journal, stored, todo>>

Incomplete ==
    /\ Enqueue(Op("main", "error", {}))
    /\ GoesFailed("record failure")

\* Faulty variant of TakeFinal: what the snapshot missed is not noted.
TakeFinalUnmarked ==
    /\ At("drain") /\ Drained
    /\ \/ wrapper.expired /\ Incomplete /\ UNCHANGED <<final, todo>>
       \/ /\ ~wrapper.expired
          /\ \E missed \in SUBSET Paths :
               /\ final' = [Snapshot(missed) EXCEPT !.reasons = {}]
               /\ todo' = ChangesBetween(baseline.files, Snapshot(missed).files)
          /\ IF watcher.error THEN Enqueue(Op("main", "error", {})) /\ GoesFailed("record watcher")
             ELSE Goes("change") /\ UNCHANGED queue
    /\ watcher' = [watcher EXCEPT !.state = "stopped"]
    /\ UNCHANGED <<process, workspace, baseline, journal, stored>>

\* WorkspaceObserver.complete.
TakeFinal ==
    /\ At("drain") /\ Drained
    /\ \/ wrapper.expired /\ Incomplete /\ UNCHANGED <<final, todo>>
       \/ /\ ~wrapper.expired
          /\ \E missed \in SUBSET Paths :
               /\ final' = Snapshot(missed)
               /\ todo' = ChangesBetween(baseline.files, Snapshot(missed).files)
          /\ IF watcher.error THEN Enqueue(Op("main", "error", {})) /\ GoesFailed("record watcher")
             ELSE Goes("change") /\ UNCHANGED queue
    /\ watcher' = [watcher EXCEPT !.state = "stopped"]
    /\ UNCHANGED <<process, workspace, baseline, journal, stored>>

WatcherErrorRecorded ==
    /\ Awaits("record watcher")
    /\ IF Rejected THEN Incomplete ELSE Goes("change") /\ UNCHANGED queue
    /\ UNCHANGED <<process, workspace, snapshots, watcher, journal, stored, todo>>

\* A payload is kept if both contents may be, up to MaxPayloads of them, and if
\* it fits what is left of the limits.
Payloads(c) ==
    {kept \in BOOLEAN : kept => ContentAllowed(c) /\ Cardinality(stored.payloads) < MaxPayloads}

RecordChange ==
    /\ At("change")
    /\ \/ wrapper.expired /\ Incomplete /\ UNCHANGED <<todo, journal>>
       \/ /\ ~wrapper.expired /\ todo # {}
          /\ \E c \in todo : \E kept \in Payloads(c) :
               /\ todo' = todo \ {c}
               /\ Enqueue(Op("main", "exact", [change |-> c, payload |-> kept]))
          /\ Goes("record change")
          /\ UNCHANGED journal
       \/ /\ ~wrapper.expired /\ todo = {}
          /\ Enqueue(Op("main", "final", {}))
          /\ journal' = [journal EXCEPT !.final = TRUE]
          /\ Goes("record final")
          /\ UNCHANGED todo
    /\ UNCHANGED <<process, workspace, snapshots, watcher, stored>>

ChangeRecorded ==
    /\ Awaits("record change")
    /\ IF Rejected THEN Incomplete ELSE Goes("change") /\ UNCHANGED queue
    /\ UNCHANGED <<process, workspace, snapshots, watcher, journal, stored, todo>>

FinalRecorded ==
    /\ Awaits("record final")
    /\ IF Rejected \/ wrapper.expired THEN Incomplete ELSE Goes("finish") /\ UNCHANGED queue
    /\ UNCHANGED <<process, workspace, snapshots, watcher, journal, stored, todo>>

FailureRecorded ==
    /\ Awaits("record failure")
    /\ IF Rejected THEN GoesFailed("finish") ELSE Goes("finish")
    /\ UNCHANGED <<process, workspace, snapshots, watcher, queue, journal, stored, todo>>

Finish ==
    /\ At("finish")
    /\ Enqueue(Op("main", "ended", {}))
    /\ journal' = [journal EXCEPT !.terminal = TRUE]
    /\ Goes("record end")
    /\ UNCHANGED <<process, workspace, snapshots, watcher, stored, todo>>

EndRecorded ==
    /\ Awaits("record end") \/ Awaits("record crash")
    /\ IF Rejected THEN GoesFailed("close") ELSE Goes("close")
    /\ UNCHANGED <<process, workspace, snapshots, watcher, queue, journal, stored, todo>>

\* finally: a watcher that still runs is stopped and drained, and the store is
\* closed.
Close ==
    /\ At("close")
    /\ \/ /\ watcher.state = "on"
          /\ watcher' = [watcher EXCEPT !.state = "stopping"]
          /\ notices' = {}
          /\ UNCHANGED wrapper
       \/ /\ watcher.state # "on" /\ Drained
          /\ Goes("exited")
          /\ UNCHANGED <<watcher, notices>>
    /\ UNCHANGED <<process, files, edits, snapshots, queue, journal, stored, todo>>

MainStep ==
    \/ TakeBaseline \/ StartWatching \/ ErrorRecorded \/ Spawn \/ Settle \/ TakeFinal
    \/ WatcherErrorRecorded \/ RecordChange \/ ChangeRecorded \/ FinalRecorded
    \/ FailureRecorded \/ Finish \/ EndRecorded \/ Close

Next ==
    \/ MainStep \/ Dequeue \/ Flush \/ Emit
    \/ \E p \in Paths : Edit(p) \/ Observe(p)
    \/ Output \/ ChildCloses \/ Signal \/ DeadlineExpires

\* The store answers, and timers fire; nothing is assumed of child and workspace.
Fairness == WF_vars(MainStep) /\ WF_vars(Dequeue) /\ WF_vars(Flush) /\ WF_vars(Emit)

Spec == Init /\ [][Next]_vars /\ Fairness

-----------------------------------------------------------------------------
(* Properties.                                                             *)

Kinds == {"baseline", "error", "started", "output", "guess", "exact", "final", "ended", "crashed"}

\* The records are of known kinds, the watcher's guesses and the exact changes are
\* changes of the workspace, and no content of a secret path is kept, from where
\* a file came included.
TypeOK ==
    /\ files \in Files /\ baseline.files \in Files /\ final.files \in Files
    /\ stored.kinds \subseteq Kinds
    /\ watcher.emit \cup stored.guesses \subseteq Changes
    /\ {c.change : c \in stored.exact} \cup todo \subseteq Changes
    /\ \A c \in stored.payloads : {c.path, c.from} \cap Secret = {}

\* A run that exits without calling its evidence incomplete has all of it: the
\* session has ended, and the exact changes make the final snapshot of the first.
SilenceMeansComplete ==
    wrapper.pc = "exited" /\ child = "closed" /\ ~wrapper.failed =>
        /\ {"baseline", "started", "final", "ended"} \subseteq stored.kinds
        /\ Applied({c.change : c \in stored.exact}, baseline.files) = final.files

\* A deletion that is reported as exact has happened, or the final snapshot says
\* that it missed the path.
DeletionsAreReal ==
    [][\A c \in todo' \ todo :
         c.operation = "delete" => files[c.path] = Absent \/ c.path \in final'.reasons]_vars

\* When the child has closed the wrapper exits, whatever the store and the
\* daemon answer.
WrapperExits == child = "closed" ~> wrapper.pc = "exited"

=============================================================================
