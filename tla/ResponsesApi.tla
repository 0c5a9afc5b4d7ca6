----------------------------- MODULE ResponsesApi -----------------------------
(* The OpenAI Responses normalizer (responses.ts).  The data of a frame is a   *)
(* provider event [kind, item, call, text]: the item it is about, the call id  *)
(* and the text it carries, Absent and NoText where it has none.               *)
EXTENDS ParsedStream

Empty == [started |-> <<>>, texts |-> <<>>, functions |-> <<>>, usage |-> FALSE,
          terminal |-> <<>>, unknown |-> <<>>]

NewFunction == [call |-> Absent, delta |-> <<>>, done |-> NoText]

FunctionAt(built, item) ==
    IF item \in DOMAIN built.functions THEN built.functions[item] ELSE NewFunction

PutFunction(built, item, function) ==
    [built EXCEPT !.functions = (item :> function) @@ @]

PutText(built, item, text) == [built EXCEPT !.texts = (item :> text) @@ @]

TextAt(built, item) ==
    IF item \in DOMAIN built.texts THEN built.texts[item] ELSE <<>>

(* The call id of a finished item, or the id of the item itself.               *)
Closed(function, e, finalized) ==
    [function EXCEPT !.call = IF e.call = Absent THEN e.item ELSE e.call,
                     !.done = IF finalized /\ e.text # NoText THEN e.text ELSE @]

Created(p, f) ==
    IF f.data.item = Absent THEN Reject(p, "invalid-payload", f.index)
    ELSE [p EXCEPT !.built.started = Append(@, Note("model.response.started"))]

TextDelta(p, f) ==
    LET e == f.data
    IN IF e.item = Absent \/ e.text = NoText
       THEN Reject(p, "invalid-payload", f.index)
       ELSE Build(p, PutText(p.built, e.item, TextAt(p.built, e.item) \o e.text))

TextDone(p, f) ==
    LET e == f.data
    IN IF e.item = Absent \/ e.text = NoText THEN p
       ELSE Build(p, PutText(p.built, e.item, e.text))

ArgumentsDelta(p, f) ==
    LET e == f.data
        function == FunctionAt(p.built, e.item)
    IN IF e.item = Absent \/ e.text = NoText
       THEN Reject(p, "invalid-payload", f.index)
       ELSE Build(p, PutFunction(p.built, e.item,
                                 [function EXCEPT !.delta = @ \o e.text]))

ArgumentsDone(p, f) ==
    LET e == f.data
    IN IF e.item = Absent THEN p
       ELSE Build(p, PutFunction(p.built, e.item,
                                 Closed(FunctionAt(p.built, e.item), e, TRUE)))

(* An item that is announced or finished.  Without an id, or of another type,  *)
(* it is kept as it came.                                                      *)
MessageItem(p, f) ==
    LET e == f.data
    IN Build(p, IF e.text \in {<<>>, NoText} THEN p.built
                ELSE PutText(p.built, e.item, e.text))

FunctionItem(p, f, finalized) ==
    LET e == f.data
    IN Build(p, PutFunction(p.built, e.item,
                            Closed(FunctionAt(p.built, e.item), e, finalized)))

Unknown(p, f, type) ==
    [p EXCEPT !.built.unknown = Append(@, Draft(type, f.index, <<>>, <<>>))]

Accept(p, f) ==
    LET kind == f.data.kind
    IN CASE kind = "created"          -> Created(p, f)
         [] kind = "text.delta"       -> TextDelta(p, f)
         [] kind = "text.done"        -> TextDone(p, f)
         [] kind = "arguments.delta"  -> ArgumentsDelta(p, f)
         [] kind = "arguments.done"   -> ArgumentsDone(p, f)
         [] kind = "message"  /\ f.data.item # Absent -> MessageItem(p, f)
         [] kind = "call.added" /\ f.data.item # Absent -> FunctionItem(p, f, FALSE)
         [] kind = "call.done"  /\ f.data.item # Absent -> FunctionItem(p, f, TRUE)
         [] kind \in {"message", "call.added", "call.done"} /\ f.data.item = Absent ->
               Unknown(p, f, "provider.item.unknown")
         [] kind = "item.other" -> Unknown(p, f, "provider.item.unknown")
         [] kind \in {"completed", "completed.usage"} ->
               [p EXCEPT !.built.usage = @ \/ kind = "completed.usage",
                         !.built.terminal = Append(@, Note("model.response.completed"))]
         [] kind = "error" ->
               [p EXCEPT !.built.terminal = Append(@, Note("api.error"))]
         [] kind = "untyped" -> Unknown(p, f, "provider.event.unknown")
         [] OTHER -> Diagnose(Unknown(p, f, "provider.event.unknown"),
                              "unsupported-event", f.index)

Arguments(function) == IF function.done = NoText THEN function.delta ELSE function.done

(* Texts and calls come out in the order their items first appeared, which the *)
(* model leaves open.                                                          *)
Semantic(built) ==
    LET messages == SetToSeq(DOMAIN built.texts)
        calls    == SetToSeq(DOMAIN built.functions)
    IN built.started
       \o [i \in DOMAIN messages |->
             Draft("message.assistant", 0, <<messages[i]>>, built.texts[messages[i]])]
       \o [i \in DOMAIN calls |->
             Draft("tool.call", 0, <<calls[i], built.functions[calls[i]].call>>,
                   Arguments(built.functions[calls[i]]))]
       \o built.unknown
       \o (IF built.usage THEN <<Note("model.usage")>> ELSE <<>>)
       \o built.terminal

Finish(parsed, exchange, unfinished) ==
    LET semantic == Semantic(parsed.built) \o Transport(exchange)
        calls    == SelectSeq(semantic, LAMBDA d : d.type = "tool.call")
        p == DiagnoseCapture(
               DiagnoseArguments(DiagnoseRequest(parsed, exchange),
                                 [i \in DOMAIN calls |-> calls[i].text]), exchange)
    IN Canonical(IF \/ Has(p.diagnostics, {"malformed-sse", "incomplete-sse",
                                            "invalid-payload"})
                     \/ unfinished
                  THEN "malformed" ELSE "parsed",
                  Withheld(p, RequestDrafts(exchange), semantic), p.diagnostics)

(* A response that was not streamed.                                           *)
ItemDrafts(item) ==
    CASE item.kind = "text" -> <<Draft("message.assistant", 0, <<>>, item.text)>>
      [] item.kind = "call" -> <<Draft("tool.call", 0, <<>>, item.text)>>
      [] item.kind = "other" -> <<Note("provider.item.unknown")>>
      [] OTHER              -> <<>>

ItemDiagnostics(p, item) ==
    CASE item.kind = "scalar" -> Diagnose(p, "invalid-payload", 0)
      [] item.kind = "call"   -> DiagnoseArguments(p, <<item.text>>)
      [] OTHER                -> p

(* Usage without output is reported alone, as the response is still running.   *)
Whole(exchange, body) ==
    LET request == DiagnoseRequest(Parse(Empty), exchange)
        read == CASE body.kind = "unreadable" ->
                       [request EXCEPT !.diagnostics =
                          Append(@, Diagnostic("malformed-json", 0, TRUE))]
                  [] body.kind = "error" -> request
                  [] OTHER -> FoldLeft(ItemDiagnostics, request, body.items)
        drafts == CASE body.kind = "unreadable" -> <<ParserError(0)>>
                    [] body.kind = "error"      -> <<Note("api.error")>>
                    [] OTHER -> FoldLeft(LAMBDA ds, i : ds \o ItemDrafts(i), <<>>, body.items)
                                \o (IF body.usage THEN <<Note("model.usage")>> ELSE <<>>)
                                \o (IF body.items # <<>> \/ ~body.usage
                                    THEN <<Note("model.response.completed")>> ELSE <<>>)
    IN Canonical(IF Has(read.diagnostics, {}) THEN "malformed" ELSE "parsed",
                  RequestDrafts(exchange) \o drafts, read.diagnostics)
=============================================================================
