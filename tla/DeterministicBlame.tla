--------------------------- MODULE DeterministicBlame ---------------------------
(* The deterministic analyzer of packages/analysis: which earlier event of a     *)
(* session an action is attributed to, how sure the analyzer is of it, and what  *)
(* its anomaly rules find.  Everything is a function of the events of the        *)
(* session, the action and the context that was reconstructed for it.            *)
(*                                                                              *)
(* The event with sequence i is log[i]: [type, verb, path, names, says, call,    *)
(* parent, source, request].  names is the path its text mentions and says what  *)
(* the patterns of the analyzer find in it; a request also has [completeness,    *)
(* cites, shows], the context that can be reconstructed for it.  Scores are in    *)
(* thousandths.  Stored provenance edges only come with an imported archive and   *)
(* are left out.                                                                 *)
EXTENDS Naturals, Sequences, SequencesExt, FiniteSets, FiniteSetsExt

None == "none"

NoContext == [completeness |-> None, restricted |-> FALSE, request |-> 0,
              cites |-> {}, shows |-> {}]

CompleteContexts == {"exact-client-request", "reconstructed-client-chain"}
Untrusted == {"tool.result", "file.read"}
Eligible == {"message.user", "message.assistant", "tool.result", "file.read",
             "tool.error", "api.error"}
Errors == {"tool.error", "api.error", "session.crashed"}
FileEffects == {"file.delete", "file.modify"}

Same(a, b) == a # None /\ a = b
Names(e, t) == Same(t.path, e.names)
Mentions(e) == "destroys" \in e.says
Destructive(t) == t.verb = "delete"
Child(log, i, j) == log[i].parent = j /\ j # 0
-----------------------------------------------------------------------------
(* findInvocation: the call that had the effect.  The call or its result may be  *)
(* the parent, the call id may be the same, the path may be; of equal matches    *)
(* the latest wins.                                                              *)
MatchingScore(log, i, t) ==
    LET parent == log[t].parent
        heir   == Child(log, t, i) \/ (parent # 0 /\ Child(log, parent, i))
    IN (IF Same(log[t].call, log[i].call) THEN 8 ELSE 0) + (IF heir THEN 10 ELSE 0)
       + (IF Same(log[t].path, log[i].path) THEN 6 ELSE 0)

Calls(log, t) == {i \in 1 .. t - 1 : log[i].type = "tool.call"}

LatestBest(events, score) ==
    CHOOSE i \in events : \A j \in events : \/ score[i] > score[j]
                                            \/ score[i] = score[j] /\ i >= j

FindInvocation(log, t) ==
    LET score    == [i \in Calls(log, t) |-> MatchingScore(log, i, t)]
        matching == {i \in Calls(log, t) : score[i] > 0}
    IN IF log[t].type = "tool.call" \/ matching = {} THEN t
       ELSE LatestBest(matching, score)

(* A context says what the model saw; what came in since its request counts too. *)
Available(log, i, context) ==
    \/ ~context.restricted
    \/ i \in context.cites \cup context.shows
    \/ /\ context.request # 0 /\ i >= context.request
       /\ log[i].type \in {"message.assistant", "tool.result", "tool.error"}

(* The whole session is looked at, what came after the call included.            *)
WholeSession(log, i) == DOMAIN log

Before(log, i) == 1 .. i - 1

Candidates(log, invocation, context) ==
    {i \in Before(log, invocation) :
        log[i].type \in Eligible /\ Available(log, i, context)}

UserEvents(log, invocation) ==
    {i \in Before(log, invocation) : log[i].type = "message.user"}

(* assessUserIntent: a prohibition is not an authorization.                      *)
Intent(log, invocation, t) ==
    LET relevant == {i \in UserEvents(log, invocation) : Names(log[i], log[t])}
        acts     == {i \in relevant : Mentions(log[i])}
    IN [prohibited |-> \E i \in acts : "never" \in log[i].says,
        authorized |-> \E i \in acts : "never" \notin log[i].says,
        evidence   |-> relevant]
-----------------------------------------------------------------------------
Relations(log, i, invocation, t, context) ==
    LET related(kind, holds) == IF holds THEN {kind} ELSE {}
        exact == \/ Same(log[t].path, log[i].path)
                 \/ Names(log[i], log[t])
    IN related("parent-child", \E j \in {invocation, t} : Child(log, i, j) \/ Child(log, j, i))
       \cup related("call-id", \E j \in {invocation, t} : Same(log[i].call, log[j].call))
       \cup related("exact-path", exact)
       \cup related("read-result-propagation",
                    log[i].type \in Untrusted /\ exact /\ Mentions(log[i]))
       \cup related("request-context", i \in context.cites)

Provenance(relations) ==
    CASE "read-result-propagation" \in relations -> 1000
      [] /\ "read-result-propagation" \notin relations
         /\ relations \cap {"parent-child", "call-id", "request-context"} # {} -> 900
      [] relations = {"exact-path"} -> 800
      [] OTHER -> 0

Instruction(e, t) ==
    CASE "strong" \in e.says -> 1000
      [] "strong" \notin e.says /\ "imperative" \in e.says ->
            IF Names(e, t) THEN 900 ELSE 700
      [] e.says \cap {"strong", "imperative"} = {} /\ Mentions(e) -> 450
      [] OTHER -> 0

Overlap(e, t) == IF Same(t.path, e.path) \/ Names(e, t) THEN 1000 ELSE 0

Conflict(e, t, intent) ==
    CASE e.type \notin Untrusted \cup {"message.assistant"} \/ ~Mentions(e) -> 0
      [] e.type \in Untrusted \cup {"message.assistant"} /\ Mentions(e)
            /\ intent.prohibited -> 1000
      [] e.type \in Untrusted \cup {"message.assistant"} /\ Mentions(e)
            /\ ~intent.prohibited /\ Destructive(t) /\ ~intent.authorized
            /\ Instruction(e, t) >= 700 -> 700
      [] OTHER -> 0

(* The words of the action that a text has, against those of the best text.      *)
Matches(e, t) == (IF Names(e, t) THEN 1 ELSE 0) + (IF Mentions(e) THEN 1 ELSE 0)

Similarity(log, i, t, documents) ==
    LET best    == Max({Matches(log[j], log[t]) : j \in documents})
        lexical == 500 * Matches(log[i], log[t])
        bm25    == IF best = 0 THEN 0 ELSE (1000 * Matches(log[i], log[t])) \div best
    IN IF lexical = 0 THEN 0 ELSE Max({lexical, bm25})

(* 1000 * exp(-distance / 8), which is nothing from a distance of 61 on.         *)
Decay ==
    <<882, 779, 687, 607, 535, 472, 417, 368, 325, 287, 253, 223, 197, 174,
      153, 135, 119, 105, 93, 82, 72, 64, 56, 50, 44, 39, 34, 30, 27, 24, 21,
      18, 16, 14, 13, 11, 10, 9, 8, 7, 6, 5, 5, 4, 4, 3, 3, 2, 2, 2, 2, 2, 1,
      1, 1, 1, 1, 1, 1, 1>>

Recency(invocation, i) ==
    LET distance == IF i < invocation THEN invocation - i ELSE 1
    IN IF distance \in 1 .. 60 THEN Decay[distance] ELSE 0

Score(log, i, invocation, t, documents, relations, intent) ==
    (30 * Provenance(relations) + 20 * Similarity(log, i, t, documents)
     + 15 * Overlap(log[i], log[t]) + 15 * Conflict(log[i], log[t], intent)
     + 10 * Instruction(log[i], log[t]) + 10 * Recency(invocation, i)) \div 100

(* Best first, the latest of equals first.                                       *)
Ahead(a, b) == a.score > b.score \/ (a.score = b.score /\ a.event > b.event)

BestFirst(assessments) ==
    LET rank == [a \in assessments |-> Cardinality({b \in assessments : Ahead(b, a)})]
    IN [k \in 1 .. Cardinality(assessments) |-> CHOOSE a \in assessments : rank[a] = k - 1]

(* assessCandidates.                                                             *)
Assessed(log, invocation, t, context, documents) ==
    LET intent == Intent(log, invocation, t)
        assess(i) ==
            LET relations == Relations(log, i, invocation, t, context)
            IN [event |-> i, relations |-> relations,
                instruction |-> Instruction(log[i], log[t]),
                conflict |-> Conflict(log[i], log[t], intent),
                overlap |-> Overlap(log[i], log[t]),
                score |-> Score(log, i, invocation, t, documents, relations, intent)]
    IN BestFirst({assess(i) : i \in documents})
-----------------------------------------------------------------------------
(* Without a reconstructed context only the trace of an adapter is complete.     *)
Completeness(log, invocation, context, candidates) ==
    CASE context # NoContext -> context.completeness
      [] /\ context = NoContext /\ log[invocation].source = "adapter"
         /\ \E c \in ToSet(candidates) :
               /\ log[c.event].source = "adapter"
               /\ \/ "read-result-propagation" \in c.relations
                  \/ log[c.event].type = "message.user" /\ c.relations # {}
         -> "exact-client-request"
      [] OTHER -> "unknown-unsupported"

Convincing(log, top, intent) ==
    /\ top.score >= 720 /\ top.relations # {} /\ top.instruction >= 700
    /\ \/ top.conflict >= 700
       \/ "read-result-propagation" \in top.relations
       \/ log[top.event].type = "message.user" /\ intent.authorized

Confidence(log, candidates, completeness, intent) ==
    IF candidates = <<>> THEN "low"
    ELSE LET top == Head(candidates)
         IN CASE Convincing(log, top, intent) /\ completeness \in CompleteContexts -> "high"
              [] top.score < 400 /\ top.relations = {} -> "low"
              [] OTHER -> "medium"

(* detectAnomalies: the rules that fire and the events they name.  Of several     *)
(* injected texts the best ranked is named, of several loops the longest.         *)
RepeatThreshold == 3

Injected(log, candidates) ==
    {k \in DOMAIN candidates :
        LET c == candidates[k]
        IN /\ log[c.event].type \in Untrusted
           /\ c.instruction >= 700 /\ c.overlap >= 500 /\ c.relations # {}}

Loops(log, invocation) ==
    LET like(i) == {j \in Calls(log, invocation + 1) :
                       log[j].verb = log[i].verb /\ log[j].path = log[i].path}
        groups == {like(i) : i \in Calls(log, invocation + 1)}
    IN {g \in groups : Cardinality(g) >= RepeatThreshold
                       /\ \A h \in groups : Cardinality(g) >= Cardinality(h)}

Anomalies(log, invocation, t, candidates) ==
    LET intent == Intent(log, invocation, t)
        rule(id, events) == [rule |-> id, events |-> events]
        when(holds, r) == IF holds THEN {r} ELSE {}
        injected == Injected(log, candidates)
        until == 1 .. invocation
        errors == {i \in until : log[i].type \in Errors}
        pressed == {i \in until : log[i].type = "context.pressure"}
        secrets == {i \in until : "secret" \in log[i].says}
    IN when(Destructive(log[t]) /\ (intent.prohibited \/ ~intent.authorized),
            rule("scope-drift.destructive", {t} \cup intent.evidence))
       \cup {rule("untrusted-content.instruction-like", {candidates[k].event, invocation, t}) :
                k \in {k \in injected : \A l \in injected : k <= l}}
       \cup {rule("loop.repeated-tool-call", g) : g \in Loops(log, invocation)}
       \cup when(Cardinality(errors) >= RepeatThreshold, rule("loop.repeated-errors", errors))
       \cup {rule("context.pressure", {i, t}) :
                i \in {i \in pressed : \A j \in pressed : i <= j}}
       \cup when(secrets # {}, rule("content.secret-like", secrets))

FirstTwo(events) == {i \in events : Cardinality({j \in events : j < i}) < 2}

(* analyze and buildBlameResult, with the newest candidates only.                *)
Analyze(log, t, context, limit) ==
    LET invocation == FindInvocation(log, t)
        eligible   == Candidates(log, invocation, context)
        documents  == {i \in eligible : Cardinality({j \in eligible : j > i}) < limit}
        candidates == Assessed(log, invocation, t, context, documents)
        intent     == Intent(log, invocation, t)
        complete   == Completeness(log, invocation, context, candidates)
        top        == IF candidates = <<>> THEN {} ELSE {Head(candidates)}
        unlinked   == \E c \in top : /\ "read-result-propagation" \in c.relations
                                     /\ "request-context" \notin c.relations
    IN [target |-> t, invocation |-> invocation,
        candidates |-> candidates,
        completeness |-> complete,
        confidence |-> Confidence(log, candidates, complete, intent),
        evidence |-> {c.event : c \in top} \cup ({invocation} \ {t})
                     \cup (IF intent.prohibited THEN FirstTwo(intent.evidence) ELSE {}),
        counterevidence |-> (IF intent.authorized /\ ~intent.prohibited
                             THEN FirstTwo(intent.evidence) ELSE {})
                            \cup (IF unlinked THEN {invocation} ELSE {}),
        anomalies |-> Anomalies(log, invocation, t, candidates),
        truncated |-> documents # eligible]
=============================================================================
