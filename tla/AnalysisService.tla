---------------------------- MODULE AnalysisService ----------------------------
(* The analyses the daemon serves (evidence-query-service.ts): blame, incident   *)
(* reports, and reports an external model may edit after the user has seen what   *)
(* would be sent.  Requests run at once in one process and give way at every      *)
(* await, while the session is recorded.  Events are committed here in the order   *)
(* of their sequences.                                                            *)
EXTENDS DeterministicBlame

CONSTANTS
    Events,              \* the events that can be recorded, see MCComponents
    MaximumCandidates,   \* MAXIMUM_BLAME_CANDIDATES
    MaxEvents,           \* bound on the events
    MaxJobs,             \* bound on the requests
    MaxPutFailures       \* bound on the blob writes that fail

VARIABLES
    log,        \* the committed events
    active,     \* session.status = "active"
    blames,     \* the stored blame runs: target -> result
    reports,    \* the stored report runs: target (0: none) -> report
    jobs,       \* the requests, in the order they came
    previews,   \* the preflights users were shown
    sent,       \* the snapshots the provider was given: {[job, snapshot]}
    attempts,   \* the ai-report runs: job -> [status, session, requested, snapshot]
    failures    \* the blob writes that failed

vars == <<log, active, blames, reports, jobs, previews, sent, attempts, failures>>

Nothing == <<>>

Init == /\ log = <<>> /\ active = TRUE
        /\ blames = <<>> /\ reports = <<>>
        /\ jobs = <<>> /\ previews = {} /\ sent = {}
        /\ attempts = <<>> /\ failures = 0

Analyzable(e) == e.type = "tool.call" \/ e.type \in FileEffects

(* An exchange that was in flight when the session ended is normalized after it.  *)
Record == /\ Len(log) < MaxEvents
          /\ \E e \in {e \in Events : {e.parent, e.request} \subseteq 0 .. Len(log)} :
                log' = Append(log, e)
          /\ UNCHANGED <<active, blames, reports, jobs, previews, sent, attempts, failures>>

EndSession == /\ active
              /\ active' = FALSE
              /\ UNCHANGED <<log, blames, reports, jobs, previews, sent, attempts, failures>>
-----------------------------------------------------------------------------
(* relatedInvocation: the parent or grandparent if it is a call, then a call of  *)
(* the same id or path.                                                           *)
RelatedScore(events, i, t) == (IF Same(events[t].call, events[i].call) THEN 2 ELSE 0)
                              + (IF Same(events[t].path, events[i].path) THEN 1 ELSE 0)

IsCall(events, i) == i # 0 /\ events[i].type = "tool.call"

RelatedInvocation(events, t) ==
    LET parent == events[t].parent
        grandparent == IF parent = 0 THEN 0 ELSE events[parent].parent
        score == [i \in Calls(events, t) |-> RelatedScore(events, i, t)]
        matching == {i \in Calls(events, t) : score[i] > 0}
    IN CASE IsCall(events, t) -> t
         [] ~IsCall(events, t) /\ IsCall(events, parent) -> parent
         [] /\ ~IsCall(events, t) /\ ~IsCall(events, parent)
            /\ IsCall(events, grandparent) -> grandparent
         [] OTHER -> IF matching = {} THEN t ELSE LatestBest(matching, score)

(* The request whose answer the invocation was part of, 0 if none is known.       *)
RequestOf(events, t) ==
    LET i == RelatedInvocation(events, t)
        earlier == {j \in 1 .. i : events[j].type = "model.request"}
    IN IF events[i].request # 0 THEN events[i].request
       ELSE IF events[i].source = "proxy" /\ earlier # {} THEN Max(earlier) ELSE 0

Reconstructed(e, r) == [completeness |-> e.completeness, restricted |-> TRUE,
                        request |-> r, cites |-> e.cites, shows |-> e.shows]
Unreadable(r) == [NoContext EXCEPT !.completeness = "unknown-unsupported", !.request = r]

Contexts(events, t) ==
    LET r == RequestOf(events, t)
    IN IF r = 0 THEN {NoContext} ELSE {Reconstructed(events[r], r), Unreadable(r)}

Blame(t, context) == Analyze(SubSeq(log, 1, t), t, context, MaximumCandidates)
-----------------------------------------------------------------------------
Job(kind, target, consent) ==
    [kind |-> kind, target |-> target, consent |-> consent, at |-> "begun",
     seen |-> 0, blame |-> Nothing, report |-> Nothing, snapshot |-> Nothing,
     answer |-> Nothing]

Ask == /\ Len(jobs) < MaxJobs
       /\ \/ \E t \in DOMAIN log : /\ Analyzable(log[t])
                                   /\ jobs' = Append(jobs, Job("blame", t, Nothing))
          \/ \E t \in {0} \cup {t \in DOMAIN log : Analyzable(log[t])} :
                \/ jobs' = Append(jobs, Job("report", t, Nothing))
                \/ jobs' = Append(jobs, Job("preflight", t, Nothing))
                \/ \E p \in previews : jobs' = Append(jobs, Job("ai", t, p))
       /\ UNCHANGED <<log, active, blames, reports, previews, sent, attempts, failures>>

Step(j, at) == jobs' = [jobs EXCEPT ![j].at = at]
Answer(j, a) == jobs' = [jobs EXCEPT ![j].at = "answered", ![j].answer = a]
Fail(j) == Answer(j, [failed |-> TRUE])

(* selectIncidentTarget: the most severe action, the latest of equals.            *)
Severity(e) == (IF e.type \in FileEffects THEN 50 ELSE 20)
               + (CASE e.verb = "delete" -> 100 [] e.verb = "modify" -> 40 [] OTHER -> 0)

Selected(t) ==
    LET actions == {i \in DOMAIN log : Analyzable(log[i])}
    IN IF t # 0 \/ actions = {} THEN t
       ELSE LatestBest(actions, [i \in actions |-> Severity(log[i])])

(* getReport: only what is said of an ended session is taken from the store.      *)
BeginReport(j) ==
    /\ jobs[j].at = "begun" /\ jobs[j].kind # "blame"
    /\ LET t == Selected(jobs[j].target)
       IN jobs' = IF ~active /\ t \in DOMAIN reports
                  THEN [jobs EXCEPT ![j].target = t, ![j].at = "reported",
                                    ![j].report = reports[t], ![j].seen = Len(log)]
                  ELSE [jobs EXCEPT ![j].target = t, ![j].seen = Len(log),
                                    ![j].at = IF t = 0 THEN "blamed" ELSE "looking up"]
    /\ UNCHANGED <<log, active, blames, reports, previews, sent, attempts, failures>>

Got(j, blame) ==
    IF jobs[j].kind = "blame"
    THEN [jobs EXCEPT ![j].at = "answered", ![j].blame = blame, ![j].answer = blame]
    ELSE [jobs EXCEPT ![j].at = "blamed", ![j].blame = blame]

(* getBlame: a stored result is given again, whatever the session is.             *)
LookUp(j) ==
    /\ jobs[j].at = "looking up" \/ (jobs[j].at = "begun" /\ jobs[j].kind = "blame")
    /\ LET t == jobs[j].target
       IN \/ t \in DOMAIN blames /\ jobs' = Got(j, blames[t])
          \/ /\ t \notin DOMAIN blames
             /\ \E c \in Contexts(log, t) :
                   jobs' = [jobs EXCEPT ![j].at = "analyzed", ![j].blame = Blame(t, c)]
    /\ UNCHANGED <<log, active, blames, reports, previews, sent, attempts, failures>>

With(runs, k, run) == [u \in DOMAIN runs \cup {k} |-> IF u = k THEN run ELSE runs[u]]
Stored(runs, t, result) == IF t \in DOMAIN runs THEN runs ELSE With(runs, t, result)

(* Each request is given what it computed itself.                                 *)
StoreBlameAndKeepOwn(j) ==
    LET t == jobs[j].target
    IN /\ blames' = Stored(blames, t, jobs[j].blame)
       /\ jobs' = Got(j, jobs[j].blame)

(* insertIfAbsent: of two analyses of one target the first is kept and both       *)
(* requests are given it.                                                         *)
StoreBlame(j) ==
    LET t == jobs[j].target
    IN /\ blames' = Stored(blames, t, jobs[j].blame)
       /\ jobs' = Got(j, blames'[t])

FailsToPut(j) == /\ failures < MaxPutFailures
                 /\ failures' = failures + 1

FinishBlame(j) ==
    /\ jobs[j].at = "analyzed"
    /\ \/ StoreBlame(j) /\ UNCHANGED failures
       \/ FailsToPut(j) /\ Fail(j) /\ UNCHANGED blames
    /\ UNCHANGED <<log, active, reports, previews, sent, attempts>>

(* generateDeterministicReport: the facts are the events that the blame names, or *)
(* without an action the messages, effects and errors of the session.             *)
Facts(seen, blame) ==
    IF blame = Nothing
    THEN {i \in 1 .. seen : log[i].type \in {"message.user"} \cup FileEffects \cup Errors}
    ELSE {blame.target} \cup ({log[blame.target].parent} \ {0})
         \cup blame.evidence \cup blame.counterevidence
         \cup UNION {a.events : a \in blame.anomalies}
         \cup {i \in 1 .. blame.target - 1 : /\ log[i].type = "message.user"
                                            /\ \A k \in 1 .. i - 1 : log[k].type # "message.user"}

Recovery(seen, blame) ==
    IF blame = Nothing THEN {}
    ELSE {i \in blame.target + 1 .. seen : /\ log[i].type = "file.modify"
                                           /\ Same(log[i].path, log[blame.target].path)}

Report(seen, blame) ==
    [facts |-> Facts(seen, blame), recovery |-> Recovery(seen, blame),
     confidence |-> IF blame = Nothing THEN "low" ELSE blame.confidence]

FinishReport(j) ==
    /\ jobs[j].at = "blamed"
    /\ LET t == jobs[j].target
           report == Report(jobs[j].seen, jobs[j].blame)
           have(r) == jobs' = [jobs EXCEPT ![j].at = "reported", ![j].report = r]
       IN \/ have(report) /\ active /\ UNCHANGED <<reports, failures>>
          \/ /\ ~active
             /\ reports' = Stored(reports, t, report)
             /\ have(reports'[t])
             /\ UNCHANGED failures
          \/ ~active /\ FailsToPut(j) /\ Fail(j) /\ UNCHANGED reports
    /\ UNCHANGED <<log, active, blames, previews, sent, attempts>>
-----------------------------------------------------------------------------
(* minimizeReportEvidence: what would be sent.  The session and its events are    *)
(* read again when the report is there.                                           *)
Snapshot(j) ==
    LET blame == IF jobs[j].target \in DOMAIN blames THEN blames[jobs[j].target] ELSE Nothing
        named == IF blame = Nothing THEN {}
                 ELSE {c.event : c \in ToSet(blame.candidates)} \cup blame.evidence
    IN [target |-> jobs[j].target, active |-> active, window |-> Len(log),
        report |-> jobs[j].report,
        items |-> jobs[j].report.facts \cup jobs[j].report.recovery \cup named]

(* The user agreed to a report of this action.                                    *)
ConsentedToTarget(j, snapshot) == jobs[j].consent.target = snapshot.target

(* The user agreed to exactly this.                                               *)
Consented(j, snapshot) == jobs[j].consent = snapshot

Attempt(status, session, snapshot) ==
    [status |-> status, session |-> session, requested |-> FALSE, snapshot |-> snapshot]

UseReport(j) ==
    /\ jobs[j].at = "reported"
    /\ \/ /\ jobs[j].kind = "report"
          /\ Answer(j, jobs[j].report)
          /\ UNCHANGED <<previews, attempts>>
       \/ /\ jobs[j].kind = "preflight"
          /\ previews' = previews \cup {Snapshot(j)}
          /\ Answer(j, Snapshot(j))
          /\ UNCHANGED attempts
       \/ /\ jobs[j].kind = "ai"
          /\ ~Consented(j, Snapshot(j))
          /\ Fail(j)
          /\ UNCHANGED <<previews, attempts>>
       \/ /\ jobs[j].kind = "ai"
          /\ Consented(j, Snapshot(j))
          /\ LET s == Snapshot(j)
             IN IF s.items = {}
                THEN /\ attempts' = With(attempts, j, Attempt("failed", "none", s))
                     /\ Answer(j, [report |-> jobs[j].report, external |-> FALSE])
                ELSE /\ attempts' = With(attempts, j, Attempt("running", "active", s))
                     /\ jobs' = [jobs EXCEPT ![j].at = "attempting", ![j].snapshot = s]
          /\ UNCHANGED previews
    /\ UNCHANGED <<log, active, blames, reports, sent, failures>>

(* The call failed: the report stands as it was.                                  *)
GiveUp(j, external) ==
    /\ attempts' = [attempts EXCEPT ![j].status = "failed", ![j].session = "crashed"]
    /\ Answer(j, [report |-> jobs[j].report, external |-> external])

(* recordAiAnalysisRequest: what will be sent is put on record, then it is sent.  *)
Transmit(j) ==
    /\ jobs[j].at = "attempting"
    /\ \/ /\ attempts' = [attempts EXCEPT ![j].requested = TRUE]
          /\ sent' = sent \cup {[job |-> j, snapshot |-> jobs[j].snapshot]}
          /\ Step(j, "sent")
          /\ UNCHANGED failures
       \/ FailsToPut(j) /\ GiveUp(j, FALSE) /\ UNCHANGED sent
    /\ UNCHANGED <<log, active, blames, reports, previews>>

Rank(c) == CASE c = "low" -> 0 [] c = "medium" -> 1 [] c = "high" -> 2
Capped(asked, most) == IF Rank(asked) <= Rank(most) THEN asked ELSE most

(* The model answers.  It may cite what it was not sent; then nothing of its       *)
(* answer is used.                                                                *)
Merged(report, asked) == [report EXCEPT !.confidence = Capped(asked, report.confidence)]

Respond(j) ==
    /\ jobs[j].at = "sent"
    /\ \/ \E cited \in SUBSET DOMAIN log, asked \in {"low", "high"} :
             IF cited = {} \/ ~(cited \subseteq jobs[j].snapshot.items)
             THEN GiveUp(j, TRUE) /\ UNCHANGED failures
             ELSE /\ attempts' = [attempts EXCEPT ![j].status = "completed",
                                                  ![j].session = "completed"]
                  /\ Answer(j, [report |-> Merged(jobs[j].report, asked), external |-> TRUE])
                  /\ UNCHANGED failures
       \/ FailsToPut(j) /\ GiveUp(j, TRUE)
    /\ UNCHANGED <<log, active, blames, reports, previews, sent>>

Advance == \E j \in DOMAIN jobs :
    \/ BeginReport(j) \/ LookUp(j) \/ FinishBlame(j) \/ FinishReport(j)
    \/ UseReport(j) \/ Transmit(j) \/ Respond(j)

Next == Record \/ EndSession \/ Ask \/ Advance

Spec == Init /\ [][Next]_vars
-----------------------------------------------------------------------------
(* However much of the session is recorded after an action, and whoever asked     *)
(* first: what is stored about the action is what an analysis of the session as    *)
(* it is now would say, and its evidence comes before the call that had the        *)
(* effect (docs/decisions/0008, decision 2 and consequences).                      *)
LaterEvidenceChangesNothing ==
    \A t \in DOMAIN blames :
        /\ \E c \in Contexts(log, t) : blames[t] = Analyze(log, t, c, MaximumCandidates)
        /\ \A c \in ToSet(blames[t].candidates) : c.event < blames[t].invocation
        /\ blames[t].evidence \cup blames[t].counterevidence \subseteq 1 .. t

(* Two requests about one action are given the same analysis, also when they run  *)
(* at once and saw different contexts, and a report tells that analysis.           *)
AnswersAgree ==
    \A j \in DOMAIN jobs :
        jobs[j].at \in {"blamed", "reported", "attempting", "sent", "answered"}
            /\ jobs[j].blame # Nothing /\ jobs[j].answer # [failed |-> TRUE]
        => jobs[j].blame = blames[jobs[j].target]

(* The provider is only given what the user who asked was shown, although the     *)
(* session goes on between the preview and the consent; it is on record before it  *)
(* is sent, and no answer denies it (docs/decisions/0009, decisions 3 and 8).      *)
ConsentCoversWhatIsSent ==
    /\ \A x \in sent : /\ x.snapshot \in previews
                       /\ x.snapshot = jobs[x.job].consent
                       /\ attempts[x.job].requested
                       /\ attempts[x.job].snapshot = x.snapshot
    /\ \A j \in DOMAIN jobs :
          jobs[j].at = "answered" /\ (\E x \in sent : x.job = j)
              => jobs[j].answer.external /\ attempts[j].status \in {"completed", "failed"}
=============================================================================
