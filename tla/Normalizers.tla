----------------------------- MODULE Normalizers -----------------------------
(* The normalizers of packages/normalizers over the exchanges a recorder can    *)
(* hand them.  A streamed body is taken frame by frame, as the loops of the     *)
(* three normalizers do; a body that was not streamed is read whole.            *)
EXTENDS ParsedStream, FiniteSets

CONSTANTS
    ChatData, ResponsesData, AnthropicData,   \* what a frame can say, per protocol
    Identities,                               \* ids a frame can have, Absent too
    Exchanges,                                \* [request, outcome, complete, dropped]
    Bodies,                                   \* bodies that were not streamed
    MaxFrames                                 \* bound on the frames of a stream

Chat      == INSTANCE ChatCompletions
Responses == INSTANCE ResponsesApi
Anthropic == INSTANCE AnthropicMessages

VARIABLES protocol,   \* of the exchange
          frames,     \* the frames taken so far
          parse,      \* what the normalizer has collected from them
          result      \* [status, events, diagnostics], or Pending

vars == <<protocol, frames, parse, result>>

Pending == [status |-> "pending", events |-> <<>>, diagnostics |-> <<>>]

Protocols == {"openai.chat-completions", "openai.responses", "anthropic.messages",
              "unknown-openai-compatible"}

Data == CASE protocol = "openai.chat-completions" -> ChatData
          [] protocol = "openai.responses"        -> ResponsesData
          [] protocol = "anthropic.messages"      -> AnthropicData
          [] OTHER                                -> {}

Fresh(p) == CASE p = "openai.chat-completions" -> Parse(Chat!Empty)
              [] p = "openai.responses"        -> Parse(Responses!Empty)
              [] OTHER                         -> Parse(Anthropic!Empty)

Init == /\ protocol \in Protocols
        /\ frames = <<>>
        /\ parse = Fresh(protocol)
        /\ result = Pending

Accept(p, f) == CASE protocol = "openai.chat-completions" -> Chat!Accept(p, f)
                  [] protocol = "openai.responses"        -> Responses!Accept(p, f)
                  [] OTHER                                -> Anthropic!Accept(p, f)

(* One turn of the loop over the frames.                                        *)
Taken(p, f) ==
    CASE f.data.kind = "silent"     -> p
      [] f.data.kind = "unreadable" -> Reject(p, "malformed-sse", f.index)
      [] f.data.kind \notin {"silent", "unreadable"} /\ f.id \in DOMAIN p.seen ->
            Observe(p, f)
      [] OTHER -> Accept([p EXCEPT !.seen = Remember(@, f)], f)

TakeFrame ==
    /\ result = Pending
    /\ Len(frames) < MaxFrames
    /\ \E data \in Data, id \in Identities :
          LET f == [index |-> Len(frames) + 1, id |-> id, data |-> data]
          IN /\ frames' = Append(frames, f)
             /\ parse' = Taken(parse, f)
    /\ UNCHANGED <<protocol, result>>

Finished(p, exchange, unfinished) ==
    CASE protocol = "openai.chat-completions" -> Chat!Finish(p, exchange, unfinished)
      [] protocol = "openai.responses"        -> Responses!Finish(p, exchange, unfinished)
      [] OTHER                                -> Anthropic!Finish(p, exchange, unfinished)

(* The stream ends, after its last frame or in the middle of the next one.      *)
FinishStream ==
    /\ result = Pending
    /\ Data # {}
    /\ \E exchange \in Exchanges :
          \/ result' = Finished(parse, exchange, FALSE)
          \/ result' = Finished(UnfinishedFrame(parse, Len(frames) + 1, exchange.outcome),
                                exchange, TRUE)
    /\ UNCHANGED <<protocol, frames, parse>>

(* The decoder throws, so no frame of the body is looked at.                    *)
FailToDecode ==
    /\ result = Pending /\ frames = <<>> /\ Data # {}
    /\ \E exchange \in Exchanges :
          \/ result' = Finished(UndecodableBody(parse), exchange, FALSE)
          \/ /\ protocol = "anthropic.messages"
             /\ result' = Anthropic!Undecodable(exchange)
    /\ UNCHANGED <<protocol, frames, parse>>

ReadWhole ==
    /\ result = Pending /\ frames = <<>>
    /\ \E exchange \in Exchanges, body \in Bodies :
          result' = CASE protocol = "openai.chat-completions" -> Chat!Whole(exchange, body)
                      [] protocol = "openai.responses" -> Responses!Whole(exchange, body)
                      [] protocol = "anthropic.messages" -> Anthropic!Whole(exchange, body)
                      [] OTHER -> Canonical("parsed", <<Note("unknown_api_exchange")>>, <<>>)
    /\ UNCHANGED <<protocol, frames, parse>>

Next == TakeFrame \/ FinishStream \/ FailToDecode \/ ReadWhole

Spec == Init /\ [][Next]_vars
-----------------------------------------------------------------------------
TypeOK ==
    /\ protocol \in Protocols
    /\ Len(frames) <= MaxFrames
    /\ DOMAIN parse.seen \subseteq Identities \ {Absent}
    /\ result.status \in {"pending", "parsed", "malformed"}

Seen(i) == frames[i].data.kind \notin {"silent", "unreadable"}

(* The frames whose identity came before, and the frames that count.            *)
Earlier(i) == {j \in 1 .. i - 1 : Seen(j) /\ frames[j].id = frames[i].id}
Duplicate(i) == Seen(i) /\ frames[i].id # Absent /\ Earlier(i) # {}
Counted == SelectSeq(frames, LAMBDA f : Seen(f.index) /\ ~Duplicate(f.index))

Conflicts == {i \in DOMAIN frames : Duplicate(i) /\ \A j \in Earlier(i) :
                 (\A k \in Earlier(i) : j <= k) => frames[j].data # frames[i].data}
Replays == {i \in DOMAIN frames : Duplicate(i)} \ Conflicts

Together(Text(_)) == FoldLeft(LAMBDA t, f : t \o Text(f.data), <<>>, Counted)

(* The fragments a stream brought for one call, in the order they came.         *)
ChatFragments(key) ==
    LET ofChoice(c) ==
          IF c.index # key[1] THEN <<>>
          ELSE FoldLeft(LAMBDA t, x : IF x.index = key[2] THEN t \o x.text ELSE t,
                        <<>>, c.tools)
               \o (IF key[2] = 0 /\ c.legacy # NoText THEN c.legacy ELSE <<>>)
    IN Together(LAMBDA d : FoldLeft(LAMBDA t, c : t \o ofChoice(c), <<>>, d.choices))

ResponsesFragments(key) ==
    LET of(kinds) == SelectSeq(Counted, LAMBDA f : /\ f.data.kind \in kinds
                                                   /\ f.data.item = key[1]
                                                   /\ f.data.text # NoText)
        done == of({"arguments.done", "call.done"})
    IN IF done # <<>> THEN Last(done).data.text
       ELSE FoldLeft(LAMBDA t, f : t \o f.data.text, <<>>, of({"arguments.delta"}))

AnthropicFragments(key) ==
    Together(LAMBDA d : IF d.kind = "content_block_delta" /\ d.index = key[1]
                           /\ d.type = "input_json_delta" THEN d.text ELSE <<>>)

Events == {result.events[i] : i \in DOMAIN result.events}
Shown(type, frame) == \E e \in Events : e.type = type /\ e.frame = frame

(* A tool call shows exactly the fragments the stream brought for it: those of  *)
(* interleaved calls are never mixed, a replayed frame is not counted twice and  *)
(* of two frames with one identity the first is authoritative (docs/decisions/   *)
(* 0004, decision 4).                                                            *)
CallsAreAssembledOnce ==
    frames # <<>> =>
        \A e \in Events :
            e.type = "tool.call" =>
                e.text = CASE protocol = "openai.chat-completions" -> ChatFragments(e.key)
                           [] protocol = "openai.responses" -> ResponsesFragments(e.key)
                           [] OTHER -> AnthropicFragments(e.key)

(* Whatever the normalizer could not use leaves an event that names the frame:  *)
(* a parser error for a frame it could not read or that contradicts an earlier  *)
(* one, a note for a replay, and for an event it does not know the payload,      *)
(* unless the whole stream is withheld for a parser error (decisions 3 and 4).   *)
DamageIsVisible ==
    result # Pending =>
        /\ \A i \in DOMAIN frames :
              frames[i].data.kind = "unreadable" => Shown("parser.error", i)
        /\ \A i \in Conflicts : Shown("parser.error", i) /\ result.status = "malformed"
        /\ \A i \in Replays : Shown("parser.replay_ignored", i)
        /\ \A i \in DOMAIN result.diagnostics :
              LET d == result.diagnostics[i]
              IN CASE d.kind = "incomplete-sse" -> result.status = "malformed"
                   [] d.kind = "unsupported-event" ->
                        \/ Shown("provider.event.unknown", d.frame)
                        \/ \E e \in Events : e.type = "parser.error"
                   [] d.kind \notin {"incomplete-sse", "unsupported-event"} /\ d.frame # 0 ->
                        \E e \in Events : e.frame = d.frame
                   [] OTHER -> \E e \in Events : e.type = ExpectedType(d)
=============================================================================
