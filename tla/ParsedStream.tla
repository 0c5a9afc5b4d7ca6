---------------------------- MODULE ParsedStream ----------------------------
(* What the three provider normalizers share (packages/normalizers): the     *)
(* drafts and diagnostics they collect, the detector of replayed frames, and  *)
(* the way a finished parse becomes canonical events.                         *)
(*                                                                            *)
(* A text is a sequence of pieces.  A frame is [index, id, data]: `id` is its *)
(* SSE id, event id or sequence number, `data` what its JSON says.            *)
EXTENDS Integers, Sequences, SequencesExt, TLC

Absent == "absent"

(* Stands for a text field the JSON does not have.                            *)
NoText == <<"absent">>

(* The pieces that make a readable JSON text when they are put together.      *)
Readable(text) == text = <<"open", "close">>

(* An event before it gets its id and sequence.  `frame` is the index of the  *)
(* frame it tells of (0: of none), `key` names the call it belongs to.        *)
Draft(type, frame, key, text) ==
    [type |-> type, frame |-> frame, key |-> key, text |-> text]

Note(type) == Draft(type, 0, <<>>, <<>>)
ParserError(frame) == Draft("parser.error", frame, <<>>, <<>>)

Diagnostic(kind, frame, fatal) == [kind |-> kind, frame |-> frame, fatal |-> fatal]

(* The state a normalizer keeps while it goes over the frames; `built` is what *)
(* the provider's own part of it has put together.                            *)
Parse(built) ==
    [errors |-> <<>>, duplicates |-> <<>>, diagnostics |-> <<>>,
     seen |-> <<>>, built |-> built]

Diagnose(p, kind, frame) ==
    [p EXCEPT !.diagnostics = Append(@, Diagnostic(kind, frame, FALSE))]

(* The normalizers that withhold a damaged stream also push a parser error.   *)
Reject(p, kind, frame) ==
    [Diagnose(p, kind, frame) EXCEPT !.errors = Append(@, ParserError(frame))]

Build(p, built) == [p EXCEPT !.built = built]

Remember(seen, f) ==
    IF f.id = Absent THEN seen ELSE (f.id :> f.data) @@ seen

(* A frame whose identity was seen before is not applied: the same payload is  *)
(* noted as a replay, another one as a conflict, and the first one stands.     *)
Observe(p, f) ==
    LET replay == p.seen[f.id] = f.data
        noted  == [p EXCEPT !.diagnostics = Append(@,
                     Diagnostic(IF replay THEN "duplicate-replay"
                                          ELSE "duplicate-conflict",
                                f.index, ~replay))]
    IN IF replay THEN noted
       ELSE [noted EXCEPT !.duplicates = Append(@, ParserError(f.index))]

(* A body that could not be decoded at all, and a last frame that has no end.  *)
UndecodableBody(p) ==
    [p EXCEPT !.diagnostics = Append(@, Diagnostic("malformed-sse", 0, TRUE)),
              !.errors = Append(@, ParserError(1))]

UnfinishedFrame(p, frame, outcome) ==
    [p EXCEPT !.diagnostics = <<Diagnostic("incomplete-sse", frame, FALSE)>> \o @,
              !.errors = IF outcome = "completed"
                         THEN <<ParserError(frame)>> \o @ ELSE @]

(* Arguments that are no JSON are kept as they are and diagnosed.             *)
DiagnoseArguments(p, texts) ==
    FoldLeft(LAMBDA q, t : IF Readable(t) THEN q ELSE Diagnose(q, "invalid-payload", 0),
             p, texts)

Transport(exchange) ==
    IF exchange.outcome # "completed" \/ ~exchange.complete
    THEN <<Note("transport.error")>> ELSE <<>>

DiagnoseCapture(p, exchange) ==
    IF exchange.dropped THEN Diagnose(p, "capture-incomplete", 0) ELSE p

Has(diagnostics, kinds) ==
    \E i \in DOMAIN diagnostics : diagnostics[i].fatal \/ diagnostics[i].kind \in kinds

(* diagnostics.ts: every diagnostic that no event shows yet gets one.         *)
ExpectedType(d) ==
    CASE d.kind = "duplicate-replay"   -> "parser.replay_ignored"
      [] d.kind = "capture-incomplete" -> "capture.incomplete"
      [] OTHER                         -> "parser.error"

(* Where the frame of a diagnostic is forgotten any parser error shows it.    *)
RepresentedByAny(events, d) ==
    \E i \in DOMAIN events : events[i].type = ExpectedType(d)

AlreadyRepresented(events, d) ==
    \E i \in DOMAIN events :
        /\ events[i].type = ExpectedType(d)
        /\ d.frame # 0 => events[i].frame = d.frame

DiagnosticDraft(d) ==
    IF d.kind = "unsupported-event" \/ (d.kind = "incomplete-sse" /\ ~d.fatal)
    THEN <<>>
    ELSE <<Draft(ExpectedType(d), d.frame, <<>>, <<>>)>>

AppendDiagnosticEvidence(events, diagnostics) ==
    events \o FoldLeft(LAMBDA more, d :
                          IF AlreadyRepresented(events, d) THEN more
                          ELSE more \o DiagnosticDraft(d),
                       <<>>, diagnostics)

Canonical(status, drafts, diagnostics) ==
    [status |-> status, diagnostics |-> diagnostics,
     events |-> AppendDiagnosticEvidence(drafts, diagnostics)]

(* What the tool results and the model of a request become.  A request that is *)
(* no JSON object is diagnosed and only says that there was a request.        *)
RequestDrafts(exchange) ==
    (IF exchange.request = "results" THEN <<Note("tool.result")>> ELSE <<>>)
        \o <<Note("model.request")>>

DiagnoseRequest(p, exchange) ==
    CASE exchange.request = "unreadable" -> Diagnose(p, "malformed-json", 0)
      [] exchange.request = "scalar"     -> Diagnose(p, "invalid-payload", 0)
      [] OTHER                           -> p

(* A stream in which something could not be read keeps the errors, the        *)
(* completion and the transport error and withholds everything else.          *)
Withheld(p, request, semantic) ==
    IF p.errors = <<>> THEN request \o p.duplicates \o semantic
    ELSE request \o p.errors \o p.duplicates
            \o SelectSeq(semantic, LAMBDA d :
                   d.type \in {"model.response.completed", "transport.error"})
=============================================================================
