------------------------ MODULE ContextReconstruction ------------------------
(* ContextReconstructor (packages/context/src/reconstructor.ts): what a model    *)
(* saw when a request was made.  A Responses request may only name the response  *)
(* it continues, so the chain of predecessors is followed through the evidence   *)
(* of the session, one await at a time, while the session is still recorded.     *)
(*                                                                              *)
(* An exchange is [protocol, content, previous, conversation, managed, kept,     *)
(* response, outcome]: what its request says, whether the body was kept, the     *)
(* response id it was given and whether the response is "whole", "cut" (not       *)
(* captured to its end) or "withheld" (captured, but its normalization withheld   *)
(* the messages for a parser error).                                             *)
EXTENDS Naturals, Sequences, SequencesExt, FiniteSets

CONSTANTS Exchanges,      \* the exchanges that can be recorded
          MaximumDepth,   \* maximumChainDepth
          MaxLog          \* bound on the exchanges of the session

NoResponse == "none"
NotAString == "not a string"

VARIABLES log,        \* the normalized exchanges of the session, in order
          phase,      \* "idle", "following", "answered"
          turns,      \* the turns loaded so far, the requested one first
          previous,   \* the response the last of them continues
          visited,    \* the responses that were looked for
          marks,      \* [requested, incomplete, managed]
          answer      \* [completeness, items]

vars == <<log, phase, turns, previous, visited, marks, answer>>

NoAnswer == [completeness |-> "none", items |-> <<>>]

Init == /\ log = <<>> /\ phase = "idle" /\ turns = <<>>
        /\ previous = NoResponse /\ visited = {}
        /\ marks = [requested |-> FALSE, incomplete |-> FALSE, managed |-> FALSE]
        /\ answer = NoAnswer

(* The recorder commits the events of one more exchange.                         *)
Record == /\ Len(log) < MaxLog
          /\ phase # "answered"
          /\ \E x \in Exchanges : log' = Append(log, x)
          /\ UNCHANGED <<phase, turns, previous, visited, marks, answer>>

(* findResponseEvent: the first exchange of the session that shows the response. *)
Showing(response) == {i \in DOMAIN log : log[i].response = response}
FindResponse(response) ==
    CHOOSE i \in Showing(response) : \A j \in Showing(response) : i <= j

(* A prompt the provider keeps, or context it manages, is not visible here.      *)
ProviderManaged(m, x) == [m EXCEPT !.managed = @ \/ (x.kept /\ x.managed)]

IsConversation(x) == x.protocol = "openai.responses" /\ x.conversation

Loaded(i) == turns' = Append(turns, i)

(* The requested turn is loaded.  What it continues is known only when its body  *)
(* could be read, and only the Responses API continues anything.                 *)
Start ==
    /\ phase = "idle"
    /\ \E i \in DOMAIN log :
          LET x == log[i]
              asks == x.kept /\ x.protocol = "openai.responses" /\ ~IsConversation(x)
          IN /\ Loaded(i)
             /\ marks' = [requested |-> asks /\ x.previous # NoResponse,
                          incomplete |-> asks /\ x.previous = NotAString,
                          managed |-> x.kept /\ x.protocol # "openai.chat-completions"
                                      /\ (x.managed \/ IsConversation(x))]
             /\ previous' = IF asks /\ x.previous # NotAString
                            THEN x.previous ELSE NoResponse
    /\ phase' = "following"
    /\ UNCHANGED <<log, visited, answer>>

(* An ancestor ends the chain when a conversation the provider keeps stands      *)
(* before it, or when what it continues is no response id.                       *)
LoadAncestor(i) ==
    LET x == log[i]
        damaged == ~x.kept \/ x.outcome = "cut" \/ (x.kept /\ ~x.conversation
                                                     /\ x.previous = NotAString)
    IN /\ Loaded(i)
       /\ marks' = [ProviderManaged(marks, x) EXCEPT
                       !.incomplete = @ \/ damaged,
                       !.managed = @ \/ (x.kept /\ x.conversation)]
       /\ previous' = IF ~x.kept \/ x.conversation \/ x.previous = NotAString
                      THEN NoResponse ELSE x.previous

(* Any exchange that shows the response will do, if it is not in the chain yet.   *)
PrecedesOrNot(i) == i \notin ToSet(turns)

(* An exchange that shows the response is no predecessor when the chain leads     *)
(* back to it, or when it was not there before the request that names it.          *)
Precedes(i) == i \notin ToSet(turns) /\ i < Last(turns)

(* The exchange to go on with, if there is one.                                   *)
Ancestor ==
    IF previous \in visited \/ Cardinality(visited) >= MaximumDepth
       \/ Showing(previous) = {}
    THEN {}
    ELSE {i \in {FindResponse(previous)} : Precedes(i)}

StopChain ==
    /\ phase = "following" /\ previous # NoResponse
    /\ Ancestor = {}
    /\ marks' = [marks EXCEPT !.incomplete = TRUE]
    /\ previous' = NoResponse
    /\ UNCHANGED <<log, phase, turns, visited, answer>>

FollowAncestor ==
    /\ phase = "following" /\ previous # NoResponse
    /\ \E i \in Ancestor : LoadAncestor(i)
    /\ visited' = visited \cup {previous}
    /\ UNCHANGED <<log, phase, answer>>

(* The items a message, an Anthropic message and an input item become.  Of an    *)
(* Anthropic message the text comes first, wherever its blocks stood.            *)
AddMessage(block) == CASE block = "text"   -> <<"message">>
                       [] block = "call"   -> <<"tool-call">>
                       [] block = "result" -> <<"tool-result">>
                       [] OTHER            -> <<"unknown">>

AddResponsesItem(block) ==
    IF block = "reasoning" THEN <<"reasoning-opaque">> ELSE AddMessage(block)

AddAnthropicMessage(content) ==
    LET blocks == SelectSeq(content, LAMBDA b : b \in {"call", "result", "reasoning"})
    IN (IF Len(blocks) < Len(content) THEN <<"message">> ELSE <<>>)
       \o FlattenSeq([k \in DOMAIN blocks |-> AddResponsesItem(blocks[k])])

RequestKinds(x, isCurrent) ==
    LET content == CASE x.protocol = "anthropic.messages" -> AddAnthropicMessage(x.content)
                     [] x.protocol = "openai.chat-completions" ->
                          FlattenSeq([k \in DOMAIN x.content |-> AddMessage(x.content[k])])
                     [] x.protocol = "openai.responses" ->
                          FlattenSeq([k \in DOMAIN x.content |->
                                        AddResponsesItem(x.content[k])])
                     [] OTHER -> <<>>
    IN IF isCurrent THEN <<"instructions">> \o content \o <<"settings">> ELSE content

Item(turn, part, kind) == [turn |-> turn, part |-> part, kind |-> kind]

AddRequestItems(i, isCurrent) ==
    IF ~log[i].kept THEN <<>>
    ELSE LET kinds == RequestKinds(log[i], isCurrent)
         IN [k \in DOMAIN kinds |-> Item(i, "request", kinds[k])]

(* The answer of an ancestor is in the events its normalization committed.        *)
AddResponseItems(i) ==
    IF log[i].outcome = "withheld" THEN <<>> ELSE <<Item(i, "response", "message")>>

Items == FoldLeft(LAMBDA items, i :
                     IF i = turns[1] THEN items \o AddRequestItems(i, TRUE)
                     ELSE items \o AddRequestItems(i, FALSE) \o AddResponseItems(i),
                  <<>>, Reverse(turns))

Completeness ==
    LET x == log[turns[1]]
    IN CASE ~x.kept \/ x.protocol = "unknown-openai-compatible" -> "unknown-unsupported"
         [] x.kept /\ x.protocol # "unknown-openai-compatible" /\ marks.managed ->
               "provider-managed-context"
         [] x.kept /\ x.protocol # "unknown-openai-compatible" /\ ~marks.managed
               /\ marks.requested ->
               (IF marks.incomplete THEN "partial-client-chain"
                ELSE "reconstructed-client-chain")
         [] OTHER -> "exact-client-request"

Answer == /\ phase = "following" /\ previous = NoResponse
          /\ answer' = [completeness |-> Completeness, items |-> Items]
          /\ phase' = "answered"
          /\ UNCHANGED <<log, turns, previous, visited, marks>>

Next == Record \/ Start \/ StopChain \/ FollowAncestor \/ Answer

Spec == Init /\ [][Next]_vars
-----------------------------------------------------------------------------
TypeOK ==
    /\ Len(log) <= MaxLog
    /\ phase \in {"idle", "following", "answered"}
    /\ ToSet(turns) \subseteq DOMAIN log
    /\ Cardinality(visited) <= MaximumDepth + 1

Complete == answer.completeness = "reconstructed-client-chain"

(* A chain is called complete only if it is one: every turn continues a response  *)
(* of the turn loaded next, which was recorded before it, the last continues       *)
(* nothing, and each was read and captured to its end, whatever was recorded       *)
(* while the chain was followed (packages/context/README.md).                      *)
CompleteMeansLinked ==
    Complete =>
        /\ \A k \in 1 .. Len(turns) - 1 :
              /\ turns[k + 1] < turns[k]
              /\ log[turns[k]].previous = log[turns[k + 1]].response
        /\ log[Last(turns)].previous = NoResponse
        /\ \A k \in DOMAIN turns :
              LET x == log[turns[k]]
              IN x.kept /\ ~x.conversation /\ ~x.managed
        /\ \A k \in 2 .. Len(turns) : log[turns[k]].outcome # "cut"

(* A chain that is called complete shows what each of its predecessors answered   *)
(* (README.md: "The locally recorded response chain is complete").                 *)
CompleteMeansWhole ==
    Complete =>
        \A k \in 2 .. Len(turns) :
            \E j \in DOMAIN answer.items :
                answer.items[j].turn = turns[k] /\ answer.items[j].part = "response"
=============================================================================
