--------------------------- MODULE RecorderExchange ---------------------------
(***************************************************************************)
(* The recorder proxy's exchanges: the bytes of a request and of its       *)
(* response flow through tees that copy a bounded prefix into memory; one  *)
(* of many events makes the exchange terminal, and its evidence is then    *)
(* persisted in steps while the connection may live on.                    *)
(*                                                                         *)
(* One action is one callback or one stretch of an async function between  *)
(* two awaits.  Streams, sockets and the order of their events are those   *)
(* of node:http, and are modelled as the code uses them.                   *)
(*                                                                         *)
(* apps/daemon/src/proxy/recorder-proxy.ts, apps/daemon/src/proxy/         *)
(* capture.ts, packages/storage/src/chunk-manifest.ts.                     *)
(***************************************************************************)
EXTENDS Integers, FiniteSets, FiniteSetsExt

CONSTANTS
    Exchanges,       \* requests that reach the proxy
    InSession,       \* those of the session that is settled
    BodyLimit,       \* maxRequestBodyBytes and maxResponseBodyBytes
    BudgetLimit,     \* captureQueueMaxBytes
    ManifestLimit,   \* maxChunkManifestEntries
    ChunkBytes,      \* the size of a chunk
    PutAnswers,      \* whether BlobStore.put may succeed, and whether it may fail
    Calls,           \* the calls made to the proxy: "settle", once, and "close"
    MaxObserved      \* bound on the bytes of one body

ASSUME ExchangesAssumption == IsFiniteSet(Exchanges)
ASSUME InSessionAssumption == InSession \subseteq Exchanges
ASSUME LimitsAssumption ==
    /\ {BodyLimit, BudgetLimit, ManifestLimit, ChunkBytes} \subseteq Nat \ {0}
    /\ PutAnswers \subseteq BOOLEAN
    /\ MaxObserved \in Nat

VARIABLES
    proxy,       \* the server: listening, closing, cut, flushing, closed, crashed
    upload,      \* the request stream of each exchange
    download,    \* the response stream of each exchange
    captures,    \* state.requestCapture and state.responseCapture
    manifest,    \* state.manifest: entries kept, entries dropped
    used,        \* CaptureMemoryBudget.retainedBytes
    active,      \* activeExchanges
    pending,     \* pendingJournals
    journal,     \* persistEvidence of each exchange
    rows,        \* the raw exchange in the store
    requests,    \* healthState: started and completed
    settlement   \* one settleSession call

vars == <<proxy, upload, download, captures, manifest, used, active, pending, journal,
          rows, requests, settlement>>

Bodies == {"request", "response"}
NoRef == -1

EmptyCapture == [retained |-> 0, dropped |-> 0, closed |-> FALSE, released |-> FALSE]
NoRow == [state |-> "absent", outcome |-> "none", requestComplete |-> FALSE,
          responseComplete |-> FALSE, request |-> NoRef, response |-> NoRef]
Begun == [NoRow EXCEPT !.state = "recording", !.outcome = "capture-incomplete"]
NoJournal == [pc |-> "none", outcome |-> "none", failed |-> FALSE, request |-> NoRef,
              response |-> NoRef]

Init ==
    /\ proxy = "listening"
    /\ upload = [x \in Exchanges |-> "none"]
    /\ download = [x \in Exchanges |-> "none"]
    /\ captures = [x \in Exchanges |-> [b \in Bodies |-> EmptyCapture]]
    /\ manifest = [x \in Exchanges |-> [kept |-> 0, dropped |-> 0]]
    /\ used = 0
    /\ active = {}
    /\ pending = {}
    /\ journal = [x \in Exchanges |-> NoJournal]
    /\ rows = [x \in Exchanges |-> NoRow]
    /\ requests = [started |-> 0, completed |-> 0]
    /\ settlement = [pc |-> "none", begun |-> {}]

\* A closed proxy, and a dead process, run no callback.
Serving == proxy \notin {"closed", "crashed"}
Terminal(x) == journal[x].pc # "none"
Observed(c) == c.retained + c.dropped
Smallest(S) == CHOOSE n \in S : \A m \in S : n <= m
ResponseEnded(x) == download[x] \in {"ended", "flushed", "lost"}
HeadSeen(x) == ResponseEnded(x) \/ download[x] \in {"streaming", "cut"}

-----------------------------------------------------------------------------
(* BoundedByteCapture.                                                     *)

\* What CaptureMemoryBudget.claim and the body limit grant of one chunk.
Granted(c) ==
    Smallest({ChunkBytes,
              IF c.closed \/ Observed(c) > BodyLimit THEN 0 ELSE BodyLimit - Observed(c),
              IF used > BudgetLimit THEN 0 ELSE BudgetLimit - used})

\* ChunkManifestBuilder.append.
WithEntry(entries) ==
    IF entries.kept < ManifestLimit
    THEN [entries EXCEPT !.kept = @ + 1]
    ELSE [entries EXCEPT !.dropped = @ + 1]

\* append to a capture and to the manifest; a chunk that is cut closes the
\* capture for good.
Capture(x, b) ==
    LET c == captures[x][b] IN
    /\ captures' = [captures EXCEPT ![x][b] =
          [retained |-> c.retained + Granted(c),
           dropped |-> c.dropped + ChunkBytes - Granted(c),
           closed |-> c.closed \/ Granted(c) < ChunkBytes,
           released |-> FALSE]]
    /\ used' = used + Granted(c)
    /\ manifest' = [manifest EXCEPT ![x] = WithEntry(@)]

\* What the captures of x still hold of the budget.
Holds(x) ==
    IF captures[x]["request"].released THEN 0
    ELSE captures[x]["request"].retained + captures[x]["response"].retained

\* Faulty variant of Release: the budget gets back the request's bytes only.
ReleaseRequestOnly(S) ==
    /\ used' = used - MapThenSumSet(LAMBDA x : IF captures[x]["request"].released THEN 0
                                               ELSE captures[x]["request"].retained, S)
    /\ captures' = [x \in Exchanges |->
          IF x \in S THEN [b \in Bodies |-> [captures[x][b] EXCEPT !.released = TRUE]]
          ELSE captures[x]]

\* release of both captures of every exchange of S.
Release(S) ==
    /\ used' = used - MapThenSumSet(Holds, S)
    /\ captures' = [x \in Exchanges |->
          IF x \in S THEN [b \in Bodies |-> [captures[x][b] EXCEPT !.released = TRUE]]
          ELSE captures[x]]

-----------------------------------------------------------------------------
(* finish and settle.                                                      *)

\* Faulty variant of Finish: an exchange that is terminal is ended again.
FinishAgain(S, outcome) ==
    LET recorded == {x \in S : rows[x].state # "absent"} IN
    /\ active' = active \ S
    /\ requests' = [requests EXCEPT !.completed = @ + Cardinality(S)]
    /\ pending' = pending \cup recorded
    /\ journal' = [x \in Exchanges |->
          IF x \notin recorded THEN journal[x]
          ELSE [NoJournal EXCEPT !.pc = "request", !.outcome = outcome,
                                 !.request = captures[x]["request"].retained]]
    /\ UNCHANGED <<captures, used>>

\* finish, and persistEvidence up to its first await, for those exchanges of S
\* that are not terminal yet: the request body is copied for the store.  An
\* exchange that could not be begun is released at once.
Finish(S, outcome) ==
    LET ending == {x \in S : ~Terminal(x)}
        recorded == {x \in ending : rows[x].state # "absent"} IN
    /\ active' = active \ ending
    /\ requests' = [requests EXCEPT !.completed = @ + Cardinality(ending)]
    /\ pending' = pending \cup recorded
    /\ journal' = [x \in Exchanges |->
          IF x \notin ending THEN journal[x]
          ELSE IF x \notin recorded
          THEN [NoJournal EXCEPT !.pc = "done", !.outcome = outcome]
          ELSE [NoJournal EXCEPT !.pc = "request", !.outcome = outcome,
                                 !.request = captures[x]["request"].retained]]
    /\ Release(ending \ recorded)

\* settle destroys both streams after finish.
Stop(S) ==
    /\ upload' = [x \in Exchanges |->
          IF x \in S /\ upload[x] = "sending" THEN "stopped" ELSE upload[x]]
    /\ download' = [x \in Exchanges |->
          IF x \in S THEN CASE download[x] = "waiting" -> "failed"
                            [] download[x] = "streaming" -> "cut"
                            [] OTHER -> download[x]
          ELSE download[x]]

Settle(S, outcome) == Finish(S, outcome) /\ Stop(S)

-----------------------------------------------------------------------------
(* handleRequest and the callbacks it installs.                            *)

\* createEvidenceState, which may fail: the exchange is then served unrecorded.
Begin(x) ==
    /\ proxy \in {"listening", "closing"}
    /\ upload[x] = "none"
    /\ \E recorded \in BOOLEAN :
          rows' = [rows EXCEPT ![x] = IF recorded THEN Begun ELSE NoRow]
    /\ active' = active \cup {x}
    /\ upload' = [upload EXCEPT ![x] = "sending"]
    /\ download' = [download EXCEPT ![x] = "waiting"]
    /\ requests' = [requests EXCEPT !.started = @ + 1]
    /\ UNCHANGED <<proxy, captures, manifest, used, pending, journal, settlement>>

\* An invalid proxy path is answered 400 before there is an exchange.
Refuse(x) ==
    /\ proxy \in {"listening", "closing"}
    /\ upload[x] = "none"
    /\ upload' = [upload EXCEPT ![x] = "stopped"]
    /\ download' = [download EXCEPT ![x] = "failed"]
    /\ requests' = [started |-> requests.started + 1, completed |-> requests.completed + 1]
    /\ UNCHANGED <<proxy, captures, manifest, used, active, pending, journal, rows,
                   settlement>>

\* requestTee: a chunk of the request, before or after the exchange is
\* terminal.  Appending to a released capture throws inside the transform, and
\* nothing catches that.
RequestChunk(x) ==
    /\ Serving
    /\ upload[x] = "sending"
    /\ Observed(captures[x]["request"]) + ChunkBytes <= MaxObserved
    /\ IF captures[x]["request"].released
       THEN proxy' = "crashed" /\ UNCHANGED <<captures, used, manifest>>
       ELSE Capture(x, "request") /\ UNCHANGED proxy
    /\ UNCHANGED <<upload, download, active, pending, journal, rows, requests, settlement>>

RequestEnd(x) ==
    /\ Serving
    /\ upload[x] = "sending"
    /\ upload' = [upload EXCEPT ![x] = "ended"]
    /\ UNCHANGED <<proxy, download, captures, manifest, used, active, pending, journal,
                   rows, requests, settlement>>

\* "aborted" of the request, or "close" of a response that was not ended.
ClientAborts(x) ==
    /\ Serving
    /\ upload[x] = "sending" \/ download[x] \in {"waiting", "streaming"}
    /\ upload[x] # "none"
    /\ Settle({x}, "client-disconnected")
    /\ UNCHANGED <<proxy, manifest, rows, settlement>>

\* The upstream answers, before or after it has the whole request.
ResponseHead(x) ==
    /\ Serving
    /\ download[x] = "waiting"
    /\ download' = [download EXCEPT ![x] = "streaming"]
    /\ UNCHANGED <<proxy, upload, captures, manifest, used, active, pending, journal,
                   rows, requests, settlement>>

\* responseTee.
ResponseChunk(x) ==
    /\ Serving
    /\ download[x] = "streaming"
    /\ Observed(captures[x]["response"]) + ChunkBytes <= MaxObserved
    /\ IF captures[x]["response"].released
       THEN proxy' = "crashed" /\ UNCHANGED <<captures, used, manifest>>
       ELSE Capture(x, "response") /\ UNCHANGED proxy
    /\ UNCHANGED <<upload, download, active, pending, journal, rows, requests, settlement>>

ResponseEnd(x) ==
    /\ Serving
    /\ download[x] = "streaming"
    /\ download' = [download EXCEPT ![x] = "ended"]
    /\ UNCHANGED <<proxy, upload, captures, manifest, used, active, pending, journal,
                   rows, requests, settlement>>

\* "finish" of the response.
ResponseFinish(x) ==
    /\ Serving
    /\ download[x] = "ended"
    /\ download' = [download EXCEPT ![x] = "flushed"]
    /\ Finish({x}, "completed")
    /\ UNCHANGED <<proxy, upload, manifest, rows, settlement>>

\* "aborted" or "error" of the upstream's response.
UpstreamBreaks(x) ==
    /\ Serving
    /\ download[x] = "streaming"
    /\ Settle({x}, "upstream-disconnected")
    /\ UNCHANGED <<proxy, manifest, rows, settlement>>

\* "error" of the upstream request, its timeout included, before a response:
\* a 502 is answered and the request is left to flow.
UpstreamFails(x) ==
    /\ Serving
    /\ download[x] = "waiting"
    /\ download' = [download EXCEPT ![x] = "failed"]
    /\ Finish({x}, "upstream-error")
    /\ UNCHANGED <<proxy, upload, manifest, rows, settlement>>

\* "error" of the upstream request after the head of its response: the response
\* is destroyed, the request is left to flow.
UpstreamResets(x) ==
    /\ Serving
    /\ ~Terminal(x)
    /\ download[x] \in {"streaming", "ended"}
    /\ download' = [download EXCEPT ![x] = IF @ = "ended" THEN "lost" ELSE "cut"]
    /\ Finish({x}, "upstream-error")
    /\ UNCHANGED <<proxy, upload, manifest, rows, settlement>>

\* The client's connection is reset while an ended response is being flushed:
\* "finish" never comes, and "close" finds the response ended.
ClientResets(x) ==
    /\ Serving
    /\ download[x] = "ended"
    /\ download' = [download EXCEPT ![x] = "lost"]
    /\ upload' = [upload EXCEPT ![x] = IF @ = "sending" THEN "stopped" ELSE @]
    /\ IF upload[x] = "sending" THEN Finish({x}, "client-disconnected")
       ELSE UNCHANGED <<captures, used, active, pending, journal, requests>>
    /\ UNCHANGED <<proxy, manifest, rows, settlement>>

-----------------------------------------------------------------------------
(* persistEvidence after its first await.                                  *)

\* The request body is stored or not; the response body is copied next.
PutRequest(x) ==
    /\ Serving
    /\ journal[x].pc = "request"
    /\ \E stored \in PutAnswers :
          journal' = [journal EXCEPT ![x] =
              [journal[x] EXCEPT
                  !.pc = IF HeadSeen(x) THEN "response" ELSE "manifest",
                  !.failed = ~stored,
                  !.request = IF stored THEN @ ELSE NoRef,
                  !.response = IF HeadSeen(x) THEN captures[x]["response"].retained
                               ELSE NoRef]]
    /\ UNCHANGED <<proxy, upload, download, captures, manifest, used, active, pending,
                   rows, requests, settlement>>

PutResponse(x) ==
    /\ Serving
    /\ journal[x].pc = "response"
    /\ \E stored \in PutAnswers :
          journal' = [journal EXCEPT ![x] =
              [journal[x] EXCEPT !.pc = "manifest",
                                 !.failed = @ \/ ~stored,
                                 !.response = IF stored THEN @ ELSE NoRef]]
    /\ UNCHANGED <<proxy, upload, download, captures, manifest, used, active, pending,
                   rows, requests, settlement>>

\* What the exchange is judged to have lost, from the captures as they are now.
DroppedRequest(x) ==
    LET c == captures[x]["request"] IN
    c.dropped + (IF journal[x].request = NoRef THEN c.retained ELSE 0)

\* Faulty variant of DroppedResponse: bytes beyond a limit are not counted.
DroppedResponseIfLost(x) ==
    IF HeadSeen(x) /\ journal[x].response = NoRef THEN captures[x]["response"].retained ELSE 0

DroppedResponse(x) ==
    LET c == captures[x]["response"] IN
    c.dropped + (IF HeadSeen(x) /\ journal[x].response = NoRef THEN c.retained ELSE 0)

\* The manifest is stored or not, and the row is finalized.
FinalizeExchange(x) ==
    /\ Serving
    /\ journal[x].pc = "manifest"
    /\ \E stored \in PutAnswers :
          LET incomplete == \/ journal[x].failed \/ ~stored
                            \/ manifest[x].dropped > 0
                            \/ DroppedRequest(x) > 0
                            \/ DroppedResponse(x) > 0 IN
          rows' = [rows EXCEPT ![x] =
              [state |-> "complete",
               outcome |-> IF incomplete THEN "capture-incomplete" ELSE journal[x].outcome,
               requestComplete |-> upload[x] = "ended" /\ DroppedRequest(x) = 0,
               responseComplete |-> ResponseEnded(x) /\ DroppedResponse(x) = 0,
               request |-> journal[x].request,
               response |-> journal[x].response]]
    /\ journal' = [journal EXCEPT ![x].pc = "normalize"]
    /\ UNCHANGED <<proxy, upload, download, captures, manifest, used, active, pending,
                   requests, settlement>>

\* Faulty variant of EndJournal: a journal whose storage call threw stays pending.
EndJournalPending(x) ==
    /\ Serving
    /\ journal[x].pc \in {"manifest", "normalize"}
    /\ journal' = [journal EXCEPT ![x] = [NoJournal EXCEPT !.pc = "done",
                                                           !.outcome = journal[x].outcome]]
    /\ pending' = IF journal[x].pc = "manifest" THEN pending ELSE pending \ {x}
    /\ Release({x})
    /\ UNCHANGED <<proxy, upload, download, manifest, active, rows, requests, settlement>>

\* The end of persistEvidence, after the normalization or after a storage call
\* that threw: the captures are released and the journal is no longer pending.
EndJournal(x) ==
    /\ Serving
    /\ journal[x].pc \in {"manifest", "normalize"}
    /\ journal' = [journal EXCEPT ![x] = [NoJournal EXCEPT !.pc = "done",
                                                           !.outcome = journal[x].outcome]]
    /\ pending' = pending \ {x}
    /\ Release({x})
    /\ UNCHANGED <<proxy, upload, download, manifest, active, rows, requests, settlement>>

-----------------------------------------------------------------------------
(* settleSession and close.                                                *)

\* settleSession up to its first await.
SettleSession ==
    /\ "settle" \in Calls
    /\ settlement.pc = "none"
    /\ proxy = "listening"
    /\ LET inSession == {x \in InSession : rows[x].state # "absent"} IN
          /\ Settle(active \cap inSession, "client-disconnected")
          /\ settlement' = [pc |-> "waiting", begun |-> inSession]
    /\ UNCHANGED <<proxy, manifest, rows>>

\* Faulty variant of SettlementReturns: it does not flush.
SettlementReturnsEarly ==
    /\ Serving
    /\ settlement.pc = "waiting"
    /\ settlement' = [settlement EXCEPT !.pc = "done"]
    /\ UNCHANGED <<proxy, upload, download, captures, manifest, used, active, pending,
                   journal, rows, requests>>

\* flush has found no pending journal: settleSession answers.
SettlementReturns ==
    /\ Serving
    /\ settlement.pc = "waiting"
    /\ pending = {}
    /\ settlement' = [settlement EXCEPT !.pc = "done"]
    /\ UNCHANGED <<proxy, upload, download, captures, manifest, used, active, pending,
                   journal, rows, requests>>

\* server.close: no new connection is accepted.
Close ==
    /\ "close" \in Calls
    /\ proxy = "listening"
    /\ proxy' = "closing"
    /\ UNCHANGED <<upload, download, captures, manifest, used, active, pending, journal,
                   rows, requests, settlement>>

\* The grace period is over: every exchange is settled, every connection closed.
GraceExpires ==
    /\ proxy = "closing"
    /\ proxy' = "cut"
    /\ Finish(active, "client-disconnected")
    /\ Stop(Exchanges)
    /\ UNCHANGED <<manifest, rows, settlement>>

\* The last connection is closed; what is still active is settled.
ConnectionsClosed ==
    /\ proxy \in {"closing", "cut"}
    /\ \A x \in Exchanges : upload[x] # "sending"
                              /\ download[x] \notin {"waiting", "streaming", "ended"}
    /\ proxy' = "flushing"
    /\ Settle(active, "client-disconnected")
    /\ UNCHANGED <<manifest, rows, settlement>>

\* Faulty variant of FlushReturns: close does not wait for the journals.
FlushSkipped ==
    /\ proxy = "flushing"
    /\ proxy' = "closed"
    /\ UNCHANGED <<upload, download, captures, manifest, used, active, pending, journal,
                   rows, requests, settlement>>

\* flush has found no pending journal: close returns.
FlushReturns ==
    /\ proxy = "flushing"
    /\ pending = {}
    /\ proxy' = "closed"
    /\ UNCHANGED <<upload, download, captures, manifest, used, active, pending, journal,
                   rows, requests, settlement>>

-----------------------------------------------------------------------------
Traffic(x) ==
    \/ Begin(x) \/ Refuse(x)
    \/ RequestChunk(x) \/ RequestEnd(x) \/ ClientAborts(x)
    \/ ResponseHead(x) \/ ResponseChunk(x) \/ ResponseEnd(x) \/ ResponseFinish(x)
    \/ UpstreamBreaks(x) \/ UpstreamFails(x) \/ UpstreamResets(x) \/ ClientResets(x)

Journal(x) == PutRequest(x) \/ PutResponse(x) \/ FinalizeExchange(x) \/ EndJournal(x)

Next ==
    \/ \E x \in Exchanges : Traffic(x) \/ Journal(x)
    \/ SettleSession \/ SettlementReturns
    \/ Close \/ GraceExpires \/ ConnectionsClosed \/ FlushReturns

\* Blob writes and the normalization return, timers fire, and an ended response
\* is flushed unless its connection is reset; nothing is assumed of client and upstream.
Fairness ==
    /\ \A x \in Exchanges : WF_vars(Journal(x)) /\ WF_vars(ResponseFinish(x))
    /\ WF_vars(GraceExpires)
    /\ WF_vars(ConnectionsClosed)
    /\ WF_vars(FlushReturns)
    /\ WF_vars(SettlementReturns)

Spec == Init /\ [][Next]_vars /\ Fairness
-----------------------------------------------------------------------------
(* Properties.                                                             *)

\* The type of the streams, the captures, the journals and the rows.
TypeOK ==
    /\ proxy \in {"listening", "closing", "cut", "flushing", "closed", "crashed"}
    /\ upload \in [Exchanges -> {"none", "sending", "ended", "stopped"}]
    /\ download \in [Exchanges -> {"none", "waiting", "streaming", "ended", "flushed",
                                   "cut", "lost", "failed"}]
    /\ captures \in [Exchanges -> [Bodies ->
          [retained : 0 .. BodyLimit, dropped : 0 .. MaxObserved, closed : BOOLEAN,
           released : BOOLEAN]]]
    /\ manifest \in [Exchanges -> [kept : 0 .. ManifestLimit, dropped : Nat]]
    /\ used \in 0 .. BudgetLimit
    /\ active \subseteq Exchanges /\ pending \subseteq Exchanges
    /\ \A x \in Exchanges : journal[x].pc \in {"none", "request", "response", "manifest",
                                               "normalize", "done"}
    /\ \A x \in Exchanges : rows[x].state \in {"absent", "recording", "complete"}
    /\ requests.started \in Nat /\ requests.completed \in Nat
    /\ settlement.pc \in {"none", "waiting", "done"}

\* The capture memory in use is what the unreleased captures retain, and never
\* more than the budget, whatever ends an exchange and how often.
BudgetIsExact ==
    /\ used = MapThenSumSet(Holds, Exchanges)
    /\ used <= BudgetLimit

\* A finalized row does not overstate the response: if it is not marked
\* capture-incomplete, or says responseComplete, then every byte of the
\* response that reached the proxy is in the stored body.
ResponseIsWhole ==
    \A x \in Exchanges :
        LET row == rows[x] IN
        row.state = "complete" =>
            /\ row.outcome # "capture-incomplete" /\ HeadSeen(x)
                 => row.response = Observed(captures[x]["response"])
            /\ row.responseComplete => ResponseEnded(x)

\* When settleSession answers, every exchange of the session begun before the
\* call has its final journal: nothing of it is still being written.
SettlementIsComplete ==
    settlement.pc = "done" => \A x \in settlement.begun : journal[x].pc = "done"

\* When close returns nothing is left: no exchange is open or unaccounted for,
\* no journal is being written and no capture memory is held.
ClosedMeansDrained ==
    proxy = "closed" =>
        /\ active = {} /\ pending = {} /\ used = 0
        /\ requests.started = requests.completed
        /\ \A x \in Exchanges : rows[x].state # "absent" => journal[x].pc = "done"

\* The first event that ends an exchange decides its outcome: a later one
\* neither changes it nor starts its journal again.
FirstOutcomeStands ==
    [][\A x \in Exchanges : Terminal(x) =>
          /\ journal'[x].outcome = journal[x].outcome
          /\ journal[x].pc = "done" => journal'[x] = journal[x]]_vars

\* A journal that was started ends, and close returns, unless the process dies.
EverythingIsSettled ==
    /\ \A x \in Exchanges : Terminal(x) ~> journal[x].pc = "done" \/ proxy = "crashed"
    /\ proxy = "closing" ~> proxy \in {"closed", "crashed"}

\* "Recording failures fail open": capturing never ends the process that
\* forwards the traffic.
RecordingFailsOpen == proxy # "crashed"

=============================================================================
