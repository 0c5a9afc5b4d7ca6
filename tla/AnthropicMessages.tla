-------------------------- MODULE AnthropicMessages --------------------------
(* The Anthropic Messages normalizer (anthropic-messages.ts).  The data of a   *)
(* frame is [kind, index, type, text, usage]: the content block it is about,   *)
(* the type of the block or of the delta, the text it brings and whether it     *)
(* reports usage.                                                              *)
EXTENDS ParsedStream

Empty == [response |-> Absent, started |-> <<>>, blocks |-> <<>>, usage |-> FALSE,
          stopped |-> FALSE, terminal |-> <<>>, unknown |-> <<>>]

NewBlock == [type |-> Absent, text |-> <<>>, json |-> <<>>, input |-> FALSE,
             opaque |-> FALSE]

BlockAt(built, index) ==
    IF index \in DOMAIN built.blocks THEN built.blocks[index] ELSE NewBlock

PutBlock(p, index, block) == [p EXCEPT !.built.blocks = (index :> block) @@ @]

Reasoning == {"thinking", "redacted_thinking"}

(* A block that starts loses the text a delta brought before it; the fragments *)
(* of its input stay.                                                          *)
BlockStart(p, f) ==
    LET e == f.data
        block == BlockAt(p.built, e.index)
        type  == IF e.type = Absent THEN block.type ELSE e.type
    IN IF e.index < 0 THEN Diagnose(p, "invalid-payload", f.index)
       ELSE PutBlock(p, e.index,
                     [block EXCEPT !.type = type, !.text = e.text,
                                   !.input = TRUE, !.opaque = type \in Reasoning])

BlockDelta(p, f) ==
    LET e == f.data
        block == BlockAt(p.built, e.index)
    IN CASE e.index < 0 -> Diagnose(p, "invalid-payload", f.index)
         [] e.index >= 0 /\ e.type = "text_delta" ->
               PutBlock(p, e.index, [block EXCEPT !.text = @ \o e.text])
         [] e.index >= 0 /\ e.type = "input_json_delta" ->
               PutBlock(p, e.index, [block EXCEPT !.json = @ \o e.text])
         [] e.index >= 0 /\ e.type = "thinking_delta" ->
               PutBlock(p, e.index, [block EXCEPT !.opaque = TRUE])
         [] OTHER ->
               Diagnose([PutBlock(p, e.index, block) EXCEPT !.built.unknown =
                           Append(@, Draft("provider.event.unknown", f.index, <<>>, <<>>))],
                        "unsupported-event", f.index)

Accept(p, f) ==
    LET e == f.data
    IN CASE e.kind = "message_start" ->
              [p EXCEPT !.built.response = "response",
                        !.built.usage = @ \/ e.usage,
                        !.built.started = Append(@, Note("model.response.started"))]
         [] e.kind = "content_block_start" -> BlockStart(p, f)
         [] e.kind = "content_block_delta" -> BlockDelta(p, f)
         [] e.kind \in {"content_block_stop", "ping"} -> p
         [] e.kind = "message_delta" -> [p EXCEPT !.built.usage = @ \/ e.usage]
         [] e.kind = "message_stop" -> [p EXCEPT !.built.stopped = TRUE]
         [] e.kind = "error" ->
              [p EXCEPT !.built.terminal = Append(@, Note("api.error"))]
         [] OTHER ->
              Diagnose([p EXCEPT !.built.unknown =
                          Append(@, Draft("provider.event.unknown", f.index, <<>>, <<>>))],
                       "unsupported-event", f.index)

Blocks(built, types) ==
    SelectSeq(SetToSortSeq(DOMAIN built.blocks, LAMBDA i, j : i < j),
              LAMBDA i : built.blocks[i].type \in types)

(* All text blocks are one message, which comes first.  A call of which no     *)
(* input arrived as fragments has the input of its start.                      *)
BlockDrafts(built) ==
    LET texts == Blocks(built, {"text"})
        rest  == Blocks(built, {"tool_use", "thinking", "redacted_thinking", "other",
                                Absent})
        draft(i) ==
            IF built.blocks[i].type = "tool_use"
            THEN Draft("tool.call", 0, <<i>>, built.blocks[i].json)
            ELSE Draft("provider.item.unknown", 0, <<i>>, <<>>)
    IN (IF texts = <<>> THEN <<>>
        ELSE <<Draft("message.assistant", 0, <<>>,
                     FoldLeft(LAMBDA t, i : t \o built.blocks[i].text, <<>>, texts))>>)
       \o [i \in DOMAIN rest |-> draft(rest[i])]

(* Only a message that stopped is a completed response.                        *)
Semantic(built) ==
    built.started \o BlockDrafts(built) \o built.unknown
    \o (IF built.usage THEN <<Note("model.usage")>> ELSE <<>>)
    \o built.terminal
    \o (IF built.stopped THEN <<Note("model.response.completed")>> ELSE <<>>)

(* Nothing is withheld: what was assembled stands beside the errors.           *)
Finish(parsed, exchange, unfinished) ==
    LET semantic == Semantic(parsed.built) \o Transport(exchange)
        calls    == SelectSeq(semantic, LAMBDA d : d.type = "tool.call" /\ d.text # <<>>)
        p == DiagnoseCapture(
               DiagnoseArguments(DiagnoseRequest(parsed, exchange),
                                 [i \in DOMAIN calls |-> calls[i].text]), exchange)
    IN Canonical(IF \/ unfinished
                     \/ p.duplicates # <<>>
                     \/ Has(p.diagnostics, {"malformed-sse", "invalid-payload"})
                  THEN "malformed" ELSE "parsed",
                  RequestDrafts(exchange) \o p.errors \o p.duplicates \o semantic,
                  p.diagnostics)

(* A response that was not streamed.  A call brings its input as an object, so *)
(* there is nothing to parse.                                                  *)
ItemDrafts(item) ==
    CASE item.kind = "call" -> <<Draft("tool.call", 0, <<>>, item.text)>>
      [] item.kind = "other" -> <<Note("provider.item.unknown")>>
      [] OTHER -> <<>>

ContentDrafts(items) ==
    LET texts == SelectSeq(items, LAMBDA i : i.kind = "text")
    IN (IF texts = <<>> THEN <<>>
        ELSE <<Draft("message.assistant", 0, <<>>,
                     FoldLeft(LAMBDA t, i : t \o i.text, <<>>, texts))>>)
       \o FoldLeft(LAMBDA ds, i : ds \o ItemDrafts(i), <<>>, items)

Whole(exchange, body) ==
    LET request == DiagnoseRequest(Parse(Empty), exchange)
        read == CASE body.kind = "unreadable" ->
                       [request EXCEPT !.diagnostics =
                          Append(@, Diagnostic("malformed-json", 0, TRUE))]
                  [] body.kind = "error" -> request
                  [] OTHER -> FoldLeft(LAMBDA q, i : IF i.kind = "scalar"
                                                     THEN Diagnose(q, "invalid-payload", 0)
                                                     ELSE q, request, body.items)
        drafts == CASE body.kind = "unreadable" -> <<ParserError(0)>>
                    [] body.kind = "error"      -> <<Note("api.error")>>
                    [] OTHER -> ContentDrafts(body.items)
                                \o (IF body.usage THEN <<Note("model.usage")>> ELSE <<>>)
                                \o <<Note("model.response.completed")>>
    IN Canonical(IF Has(read.diagnostics, {}) THEN "malformed" ELSE "parsed",
                  RequestDrafts(exchange) \o drafts, read.diagnostics)

(* A body whose content encoding cannot be undone is not looked at.            *)
Undecodable(exchange) ==
    LET p == DiagnoseRequest(Parse(Empty), exchange)
    IN Canonical("malformed", RequestDrafts(exchange) \o <<ParserError(0)>>,
                  Append(p.diagnostics, Diagnostic("invalid-payload", 0, TRUE)))
=============================================================================
