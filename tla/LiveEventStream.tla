--------------------------- MODULE LiveEventStream ---------------------------
(***************************************************************************)
(* The live channel of the cockpit for one session: viewers load the       *)
(* timeline page by page, then follow it over server-sent events, while    *)
(* the processes that record evidence insert events at sequences they      *)
(* reserved some time before.                                              *)
(*                                                                         *)
(* The server's stream and the browser end notice a broken connection at   *)
(* different times, so they are two pieces of state.  A connection drops   *)
(* when the network, the browser, the daemon or the write deadline ends    *)
(* it; the frames then in flight are lost.                                 *)
(*                                                                         *)
(* apps/daemon/src/query/live-event-stream.ts,                             *)
(* packages/storage/src/event-repository.ts, apps/viewer/src/app.tsx.      *)
(***************************************************************************)
EXTENDS Integers, Sequences, FiniteSets, SequencesExt

CONSTANTS
    Writers,             \* processes inserting events of the session
    Viewers,             \* browser tabs
    Connections,         \* identities of the server's streams
    NoConnection,        \* the connection of a viewer that has none
    MaximumConnections,  \* configuration.maximumConnections
    BatchSize,           \* configuration.batchSize
    PageSize,            \* the limit of an event page
    MaxBlock,            \* bound on the sequences one reservation takes
    MaxSequence,         \* bound on the sequences of the session
    MaxDrops             \* bound on dropped connections and page reloads, per viewer

ASSUME NoConnectionAssumption == NoConnection \notin Connections
ASSUME LimitsAssumption ==
    /\ MaximumConnections \in Nat \ {0}
    /\ BatchSize \in Nat \ {0}
    /\ PageSize \in Nat \ {0}
    /\ MaxBlock \in Nat \ {0}
    /\ MaxSequence \in Nat
    /\ MaxDrops \in Nat

VARIABLES
    nextSequence,       \* next_sequence of the session
    held,               \* the sequences each writer reserved and has not inserted
    stored,             \* the sequences of the rows of table events
    activeConnections,  \* activeConnectionsValue
    streams,            \* the server's end of each connection
    viewers             \* the browser's end

vars == <<nextSequence, held, stored, activeConnections, streams, viewers>>

FreeStream == [pc |-> "free", cursor |-> 0, batch |-> <<>>, inFlight |-> <<>>]

NewViewer(drops) ==
    [pc |-> "loading", seen |-> {}, after |-> 0, connection |-> NoConnection, drops |-> drops]

Init ==
    /\ nextSequence = 1
    /\ held = [w \in Writers |-> {}]
    /\ stored = {}
    /\ activeConnections = 0
    /\ streams = [c \in Connections |-> FreeStream]
    /\ viewers = [v \in Viewers |-> NewViewer(0)]

\* ORDER BY sequence ASC LIMIT limit: at place i the row with i - 1 before it.
FirstOf(S, limit) ==
    LET count == Cardinality(S)
    IN  [i \in 1 .. IF count < limit THEN count ELSE limit |->
            CHOOSE n \in S : Cardinality({m \in S : m < n}) = i - 1]

-----------------------------------------------------------------------------
(* The writers: reservations and insertions of EvidenceJournal.            *)

\* allocateSequence or allocateSequences, a transaction of its own.
Reserve(w) ==
    /\ held[w] = {}
    /\ \E k \in 1 .. MaxBlock :
          /\ nextSequence + k - 1 <= MaxSequence
          /\ held' = [held EXCEPT ![w] = nextSequence .. nextSequence + k - 1]
          /\ nextSequence' = nextSequence + k
    /\ UNCHANGED <<stored, activeConnections, streams, viewers>>

\* The rows at the reserved sequences are inserted, in one transaction.
Insert(w) ==
    /\ held[w] # {}
    /\ stored' = stored \cup held[w]
    /\ held' = [held EXCEPT ![w] = {}]
    /\ UNCHANGED <<nextSequence, activeConnections, streams, viewers>>

\* The writer fails or is killed between the two: the sequences stay empty.
Abandon(w) ==
    /\ held[w] # {}
    /\ held' = [held EXCEPT ![w] = {}]
    /\ UNCHANGED <<nextSequence, stored, activeConnections, streams, viewers>>

-----------------------------------------------------------------------------
(* The browser.                                                            *)

\* One page of listEvents, from the cursor of the page before; after the last
\* page the live channel is opened from the last event loaded.
LoadPage(v) ==
    LET rest == {n \in stored : n > viewers[v].after}
        page == FirstOf(rest, PageSize) IN
    /\ viewers[v].pc = "loading"
    /\ viewers' = [viewers EXCEPT
          ![v].seen = @ \cup ToSet(page),
          ![v].after = IF page = <<>> THEN @ ELSE Last(page),
          ![v].pc = IF Cardinality(rest) > PageSize THEN "loading" ELSE "offline"]
    /\ UNCHANGED <<nextSequence, held, stored, activeConnections, streams>>

\* streamEvents and the head of LiveEventStreamer.stream: over the limit the
\* request is refused and the browser stays offline until its next attempt.
Connect(v, c) ==
    /\ viewers[v].pc = "offline"
    /\ streams[c].pc = "free"
    /\ activeConnections < MaximumConnections
    /\ activeConnections' = activeConnections + 1
    /\ streams' = [streams EXCEPT ![c] = [FreeStream EXCEPT !.pc = "poll",
                                                            !.cursor = viewers[v].after]]
    /\ viewers' = [viewers EXCEPT ![v].pc = "online", ![v].connection = c]
    /\ UNCHANGED <<nextSequence, held, stored>>

\* onEvent for the next frame of the connection.
Receive(v) ==
    LET c == viewers[v].connection
        n == Head(streams[c].inFlight) IN
    /\ viewers[v].pc = "online"
    /\ streams[c].inFlight # <<>>
    /\ viewers' = [viewers EXCEPT ![v].seen = @ \cup {n},
                                  ![v].after = IF n > @ THEN n ELSE @]
    /\ streams' = [streams EXCEPT ![c].inFlight = Tail(@)]
    /\ UNCHANGED <<nextSequence, held, stored, activeConnections>>

\* The connection of v, if it has one, ends with what is in flight.
Broken(v) ==
    [c \in Connections |->
        IF c = viewers[v].connection
        THEN [streams[c] EXCEPT !.pc = "broken", !.inFlight = <<>>]
        ELSE streams[c]]

\* A page request fails: the error is shown and nothing is retried.
LoadFails(v) ==
    /\ viewers[v].pc = "loading"
    /\ viewers[v].drops < MaxDrops
    /\ viewers' = [viewers EXCEPT ![v].pc = "failed", ![v].drops = @ + 1]
    /\ UNCHANGED <<nextSequence, held, stored, activeConnections, streams>>

\* The connection drops; the browser keeps what it has and will reconnect.
Drop(v) ==
    /\ viewers[v].pc = "online"
    /\ viewers[v].drops < MaxDrops
    /\ streams' = Broken(v)
    /\ viewers' = [viewers EXCEPT ![v].pc = "offline", ![v].connection = NoConnection,
                                  ![v].drops = @ + 1]
    /\ UNCHANGED <<nextSequence, held, stored, activeConnections>>

\* The page is reloaded, or another session was shown meanwhile.
Reload(v) ==
    /\ viewers[v].drops < MaxDrops
    /\ streams' = Broken(v)
    /\ viewers' = [viewers EXCEPT ![v] = NewViewer(viewers[v].drops + 1)]
    /\ UNCHANGED <<nextSequence, held, stored, activeConnections>>

-----------------------------------------------------------------------------
(* The server's stream.                                                    *)

\* Faulty variant of Poll: the rows from the cursor on, the cursor included.
PollInclusive(c) ==
    /\ streams[c].pc = "poll"
    /\ \E n \in stored : n >= streams[c].cursor
    /\ streams' = [streams EXCEPT
          ![c].pc = "send",
          ![c].batch = FirstOf({n \in stored : n >= streams[c].cursor}, BatchSize)]
    /\ UNCHANGED <<nextSequence, held, stored, activeConnections, viewers>>

\* Faulty variant of Poll: rows are sent once they fill a batch.
PollFullBatch(c) ==
    /\ streams[c].pc = "poll"
    /\ Cardinality({n \in stored : n > streams[c].cursor}) >= BatchSize
    /\ streams' = [streams EXCEPT
          ![c].pc = "send",
          ![c].batch = FirstOf({n \in stored : n > streams[c].cursor}, BatchSize)]
    /\ UNCHANGED <<nextSequence, held, stored, activeConnections, viewers>>

\* listAfterSequence: the first rows after the cursor.  (An empty answer only
\* costs a delay or a heartbeat before the next poll.)
Poll(c) ==
    /\ streams[c].pc = "poll"
    /\ \E n \in stored : n > streams[c].cursor
    /\ streams' = [streams EXCEPT
          ![c].pc = "send",
          ![c].batch = FirstOf({n \in stored : n > streams[c].cursor}, BatchSize)]
    /\ UNCHANGED <<nextSequence, held, stored, activeConnections, viewers>>

\* Faulty variant of Send: the cursor is that of the newest row, not of the frame.
SendFromNewest(c) ==
    /\ streams[c].pc = "send"
    /\ streams' = [streams EXCEPT
          ![c].inFlight = Append(@, Head(streams[c].batch)),
          ![c].cursor = nextSequence - 1,
          ![c].batch = Tail(@),
          ![c].pc = IF Len(streams[c].batch) = 1 THEN "poll" ELSE "send"]
    /\ UNCHANGED <<nextSequence, held, stored, activeConnections, viewers>>

\* One frame is written, then the cursor moves to it.
Send(c) ==
    /\ streams[c].pc = "send"
    /\ streams' = [streams EXCEPT
          ![c].inFlight = Append(@, Head(streams[c].batch)),
          ![c].cursor = Head(streams[c].batch),
          ![c].batch = Tail(@),
          ![c].pc = IF Len(streams[c].batch) = 1 THEN "poll" ELSE "send"]
    /\ UNCHANGED <<nextSequence, held, stored, activeConnections, viewers>>

\* The stream notices, by its abort signal or a failed write, and ends.
CloseStream(c) ==
    /\ streams[c].pc = "broken"
    /\ streams' = [streams EXCEPT ![c] = FreeStream]
    /\ activeConnections' = activeConnections - 1
    /\ UNCHANGED <<nextSequence, held, stored, viewers>>

-----------------------------------------------------------------------------
Next ==
    \/ \E w \in Writers : Reserve(w) \/ Insert(w) \/ Abandon(w)
    \/ \E v \in Viewers : LoadPage(v) \/ LoadFails(v) \/ Receive(v) \/ Drop(v) \/ Reload(v)
    \/ \E v \in Viewers, c \in Connections : Connect(v, c)
    \/ \E c \in Connections : Poll(c) \/ Send(c) \/ CloseStream(c)

\* The browser retries with a bounded delay, the stream polls on a timer, and
\* writes or heartbeats with a deadline reveal a dead connection.  Nothing is
\* assumed of the writers, of drops or of reloads.
Fairness ==
    /\ \A v \in Viewers : WF_vars(LoadPage(v)) /\ WF_vars(Receive(v))
    /\ \A v \in Viewers : WF_vars(\E c \in Connections : Connect(v, c))
    /\ \A c \in Connections : WF_vars(Poll(c)) /\ WF_vars(Send(c)) /\ WF_vars(CloseStream(c))

Spec == Init /\ [][Next]_vars /\ Fairness
-----------------------------------------------------------------------------
(* Properties.                                                             *)

\* The type of the table and of both ends of every connection.
TypeOK ==
    /\ nextSequence \in 1 .. MaxSequence + 1
    /\ held \in [Writers -> SUBSET (1 .. MaxSequence)]
    /\ stored \subseteq 1 .. MaxSequence
    /\ activeConnections \in 0 .. MaximumConnections
    /\ streams \in [Connections -> [pc : {"free", "poll", "send", "broken"},
                                    cursor : 0 .. MaxSequence,
                                    batch : Seq(1 .. MaxSequence),
                                    inFlight : Seq(1 .. MaxSequence)]]
    /\ viewers \in [Viewers -> [pc : {"loading", "failed", "offline", "online"},
                                seen : SUBSET (1 .. MaxSequence),
                                after : 0 .. MaxSequence,
                                connection : Connections \cup {NoConnection},
                                drops : 0 .. MaxDrops]]

\* No viewer is sent an event it has, or events out of order, across pages,
\* batches and reconnects: what is in flight and what will be sent of the
\* batch rises strictly from the last sequence the viewer took.
FramesRise ==
    \A v \in Viewers :
        LET c == viewers[v].connection
            frames == <<viewers[v].after>> \o streams[c].inFlight \o streams[c].batch IN
        viewers[v].pc = "online" => \A i \in 1 .. Len(frames) - 1 : frames[i] < frames[i + 1]

\* A viewer has every stored event up to its cursor: there is none that it
\* passed and that no reconnect from its cursor would replay.
NoEventIsSkipped ==
    \A v \in Viewers : \A n \in stored : n <= viewers[v].after => n \in viewers[v].seen

\* An event committed while a viewer is offline lies beyond the viewer's
\* cursor, so that its reconnect replays it.
OfflineEventsAreReplayed ==
    [][\A v \in Viewers : \A n \in stored' \ stored :
          viewers[v].pc = "offline" => n > viewers[v].after]_vars

\* Every event reaches every viewer whose page could be loaded, through drops,
\* reloads and refusals.
EveryEventIsSeen ==
    \A v \in Viewers : \A n \in 1 .. MaxSequence :
        n \in stored ~> n \in viewers[v].seen \/ viewers[v].pc = "failed"
=============================================================================
