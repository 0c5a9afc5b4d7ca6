--------------------------- MODULE ChatCompletions ---------------------------
(* The Chat Completions normalizer (chat-completions.ts).  The data of a frame *)
(* is a chunk [kind, response, usage, error, choices]; a choice carries its    *)
(* index, its text, whether it finishes, the fragments of its tool calls, the  *)
(* fragment of a legacy function call and whether it has fields of its own.    *)
(* Content and refusal are one text.                                           *)
EXTENDS ParsedStream

Empty == [response |-> Absent, usage |-> FALSE, choices |-> <<>>, unknown |-> <<>>]

NewChoice == [text |-> <<>>, finished |-> FALSE, tools |-> <<>>, unknown |-> 0]
NewTool == [id |-> Absent, arguments |-> <<>>]

(* The value an assembly has for a key, or a new one.                          *)
At(assemblies, key, new) == IF key \in DOMAIN assemblies THEN assemblies[key] ELSE new

Put(assemblies, key, value) == (key :> value) @@ assemblies

Fragment(tool, t) ==
    [id |-> IF t.id = Absent THEN tool.id ELSE t.id,
     arguments |-> tool.arguments \o t.text]

(* Every fragment goes to the first tool of the choice.                        *)
ApplyToolToFirst(p, c, t, frame) ==
    LET choice == p.built.choices[c]
        tool   == Fragment(At(choice.tools, 0, NewTool), t)
    IN IF t.index < 0 THEN Diagnose(p, "invalid-payload", frame)
       ELSE [p EXCEPT !.built.choices[c].tools = Put(@, 0, tool)]

ApplyTool(p, c, t, frame) ==
    LET choice == p.built.choices[c]
        tool   == Fragment(At(choice.tools, t.index, NewTool), t)
    IN IF t.index < 0 THEN Diagnose(p, "invalid-payload", frame)
       ELSE [p EXCEPT !.built.choices[c].tools = Put(@, t.index, tool)]

(* A legacy function call shares the assembly of tool 0 and names it only when *)
(* it has no name yet.                                                         *)
ApplyLegacy(p, c, text) ==
    LET old  == At(p.built.choices[c].tools, 0, NewTool)
        tool == [id |-> IF old.id = Absent THEN "legacy" ELSE old.id,
                 arguments |-> old.arguments \o text]
    IN IF text = NoText THEN p
       ELSE [p EXCEPT !.built.choices[c].tools = Put(@, 0, tool)]

ApplyChoice(p, c, frame) ==
    LET choice == At(p.built.choices, c.index, NewChoice)
        opened == [p EXCEPT !.built.choices = Put(@, c.index,
                      [choice EXCEPT !.text = @ \o c.text,
                                     !.finished = @ \/ c.finishes,
                                     !.unknown = @ + (IF c.extra THEN 1 ELSE 0)])]
        tooled == FoldLeft(LAMBDA q, t : ApplyTool(q, c.index, t, frame),
                           opened, c.tools)
    IN IF c.index < 0 THEN Reject(p, "invalid-payload", frame)
       ELSE ApplyLegacy(tooled, c.index, c.legacy)

(* A chunk that says nothing is kept as unknown unless usage was ever reported.*)
Accept(p, f) ==
    LET chunk   == f.data
        usage   == p.built.usage \/ chunk.usage
        started == [p EXCEPT !.built.usage = usage,
                             !.built.response =
                                 IF chunk.response = Absent THEN @ ELSE chunk.response]
        nothing == chunk.choices = <<>> /\ ~usage
        noted(type) == [started EXCEPT !.built.unknown =
                           Append(@, Draft(type, f.index, <<>>, <<>>))]
    IN CASE nothing /\ chunk.error  -> noted("api.error")
         [] nothing /\ ~chunk.error ->
               Diagnose(noted("provider.event.unknown"), "unsupported-event", f.index)
         [] OTHER -> FoldLeft(LAMBDA q, c : ApplyChoice(q, c, f.index),
                              started, chunk.choices)

InOrder(assemblies) == SetToSortSeq(DOMAIN assemblies, LAMBDA i, j : i < j)

ChoiceDrafts(c, choice) ==
    (IF choice.text = <<>> THEN <<>>
     ELSE <<Draft("message.assistant", 0, <<c>>, choice.text)>>)
    \o [i \in 1 .. Len(InOrder(choice.tools)) |->
          LET t == InOrder(choice.tools)[i]
          IN Draft("tool.call", 0, <<c, t>>, choice.tools[t].arguments)]
    \o [i \in 1 .. choice.unknown |-> Draft("provider.delta.unknown", 0, <<c>>, <<>>)]

Semantic(built) ==
    LET order == InOrder(built.choices)
    IN FoldLeft(LAMBDA drafts, c : drafts \o ChoiceDrafts(c, built.choices[c]), <<>>, order)
       \o built.unknown
       \o (IF built.usage THEN <<Note("model.usage")>> ELSE <<>>)
       \o (IF built.response # Absent \/ (order # <<>> /\ built.choices[order[1]].finished)
           THEN <<Note("model.response.completed")>> ELSE <<>>)

Finish(parsed, exchange, unfinished) ==
    LET semantic == Semantic(parsed.built) \o Transport(exchange)
        calls    == SelectSeq(semantic, LAMBDA d : d.type = "tool.call")
        p == DiagnoseCapture(
               DiagnoseArguments(DiagnoseRequest(parsed, exchange),
                                 [i \in DOMAIN calls |-> calls[i].text]), exchange)
    IN Canonical(IF p.errors # <<>> \/ p.duplicates # <<>> \/ unfinished
                  THEN "malformed" ELSE "parsed",
                  Withheld(p, RequestDrafts(exchange), semantic), p.diagnostics)

(* A response that was not streamed: a sequence of choices, each a text or a   *)
(* tool call, or no object at all.                                             *)
ItemDrafts(item) ==
    CASE item.kind = "text" -> <<Draft("message.assistant", 0, <<0>>, item.text)>>
      [] item.kind = "call" -> <<Draft("tool.call", 0, <<0>>, item.text)>>
      [] OTHER              -> <<>>

ItemDiagnostics(p, item) ==
    CASE item.kind = "scalar" -> Diagnose(p, "invalid-payload", 0)
      [] item.kind = "call"   -> DiagnoseArguments(p, <<item.text>>)
      [] OTHER                -> p

Whole(exchange, body) ==
    LET request == DiagnoseRequest(Parse(Empty), exchange)
        read == CASE body.kind = "unreadable" ->
                       [request EXCEPT !.diagnostics =
                          Append(@, Diagnostic("malformed-json", 0, TRUE))]
                  [] body.kind = "error" -> request
                  [] OTHER -> FoldLeft(ItemDiagnostics, request, body.items)
        drafts == CASE body.kind = "unreadable" -> <<ParserError(0)>>
                    [] body.kind = "error"      -> <<Note("api.error")>>
                    [] OTHER -> FoldLeft(LAMBDA ds, i : ds \o ItemDrafts(i), <<>>, body.items)
                                \o (IF body.usage THEN <<Note("model.usage")>> ELSE <<>>)
                                \o <<Note("model.response.completed")>>
    IN Canonical(IF Has(read.diagnostics, {}) THEN "malformed" ELSE "parsed",
                  RequestDrafts(exchange) \o drafts, read.diagnostics)
=============================================================================
