---------------------------- MODULE Sessionization ----------------------------
(* How the proxy chooses the session of a request (sessionizer.ts and           *)
(* ensureSession in recorder-proxy.ts): by what the request says of itself, by   *)
(* the response it continues, or by the client it comes from.  Nothing of this   *)
(* is stored but the sessions and their events, from which a restarted proxy     *)
(* learns the responses again.                                                   *)
EXTENDS Integers, Sequences, SequencesExt

CONSTANTS
    Signals,       \* what a request can say, see MCComponents
    Answers,       \* response ids an upstream can give
    IdleWindow,    \* idleWindowMilliseconds, in ticks
    MaxTime,       \* bound on the ticks
    MaxRequests,   \* bound on the requests
    MaxRestarts    \* bound on the restarts of the daemon

Nothing == <<>>

VARIABLES
    now,
    responses,   \* responseSessions: response id -> session
    clients,     \* heuristicSessions: client -> [session, at]
    stored,      \* the sessions in storage, oldest first: [id, internal]
    evidence,    \* the canonical events: {[session, response]}
    recorded,    \* the exchanges that were begun, in order
    unparsed,    \* the indices of those that are not normalized yet
    restarts

vars == <<now, responses, clients, stored, evidence, recorded, unparsed, restarts>>

Init == /\ now = 0 /\ restarts = 0
        /\ responses = <<>> /\ clients = <<>>
        /\ stored = <<>> /\ evidence = {}
        /\ recorded = <<>> /\ unparsed = {}

(* Ids of analysis and adapter sessions are digests of their keys, so they are   *)
(* the same after a restart; a heuristic session gets a new one.                 *)
StableId(source, key) == <<source>> \o key
HeuristicId == <<"heuristic", Len(recorded)>>

(* A client is forgotten as soon as the window has gone by, not after it.        *)
AwakeBefore(observedAt) ==
    {c \in DOMAIN clients : observedAt - clients[c].at < IdleWindow}

Awake(observedAt) ==
    {c \in DOMAIN clients : observedAt - clients[c].at <= IdleWindow}

(* Where the request names a response that is known; the first of them counts.   *)
KnownAncestors(s) == {i \in DOMAIN s.ancestors : s.ancestors[i] \in DOMAIN responses}
Ancestor(s) ==
    s.ancestors[CHOOSE i \in KnownAncestors(s) : \A j \in KnownAncestors(s) : i <= j]

Decision(id, source, internal) == [id |-> id, source |-> source, internal |-> internal]

ResolveClient(s) ==
    Decision(IF s.client \in Awake(now) THEN clients[s.client].session ELSE HeuristicId,
             "heuristic", FALSE)

Resolve(s) ==
    CASE s.analysis # Nothing -> Decision(StableId("analysis", s.analysis), "analysis", TRUE)
      [] s.analysis = Nothing /\ s.explicit # Nothing ->
            Decision(s.explicit, "explicit", FALSE)
      [] s.analysis = Nothing /\ s.explicit = Nothing /\ s.adapter # Nothing ->
            Decision(StableId("adapter", s.adapter), "adapter", FALSE)
      [] s.analysis = Nothing /\ s.explicit = Nothing /\ s.adapter = Nothing
            /\ KnownAncestors(s) # {} ->
            Decision(responses[Ancestor(s)], "ancestry", FALSE)
      [] OTHER -> ResolveClient(s)

(* Only a decision by client touches the clients: those that were idle for too   *)
(* long are forgotten and this one was just seen.                                *)
Seen(s, d) ==
    IF d.source # "heuristic" THEN clients
    ELSE [c \in Awake(now) \cup {s.client} |->
             IF c = s.client THEN [session |-> d.id, at |-> now] ELSE clients[c]]

Stored(id) == {t \in ToSet(stored) : t.id = id}

(* Traffic goes to whatever session was chosen.                                  *)
NothingMixes(d) == FALSE

MixesAnalysis(d) == \E t \in Stored(d.id) : t.internal # d.internal

(* A request whose signals contradict each other, or that would mix analysis and *)
(* investigated traffic, is forwarded without being recorded.  The sessionizer   *)
(* has decided by then, so it keeps what it learnt of the client.                *)
Rejected(d) == MixesAnalysis(d)

Request ==
    /\ Len(recorded) < MaxRequests
    /\ \E s \in Signals :
          LET d == Resolve(s)
          IN /\ clients' = Seen(s, d)
             /\ IF Rejected(d)
                THEN UNCHANGED <<stored, recorded, unparsed>>
                ELSE /\ stored' = IF Stored(d.id) # {} THEN stored
                                  ELSE Append(stored, [id |-> d.id, internal |-> d.internal])
                     /\ recorded' = Append(recorded,
                           [session |-> d.id, source |-> d.source, internal |-> d.internal,
                            client |-> s.client, at |-> now, life |-> restarts])
                     /\ unparsed' = unparsed \cup {Len(recorded) + 1}
    /\ UNCHANGED <<now, responses, evidence, restarts>>

(* registerResponse: the first session that shows a response keeps it.           *)
Register(known, response, session) ==
    [r \in DOMAIN known \cup {response} |->
        IF r \in DOMAIN known THEN known[r] ELSE session]

(* An exchange is finalized and normalized: its events are committed, then the   *)
(* response id they show is registered.  Its upstream may have sent none.        *)
Normalize ==
    \E i \in unparsed :
        /\ unparsed' = unparsed \ {i}
        /\ \/ UNCHANGED <<evidence, responses>>
           \/ \E r \in Answers :
                 LET session == recorded[i].session
                 IN /\ evidence' = evidence \cup {[session |-> session, response |-> r]}
                    /\ responses' = Register(responses, r, session)
        /\ UNCHANGED <<now, clients, stored, recorded, restarts>>

Tick == /\ now < MaxTime
        /\ now' = now + 1
        /\ UNCHANGED <<responses, clients, stored, evidence, recorded, unparsed, restarts>>

(* restoreResponseAncestry: the sessions are read newest first, so that the       *)
(* newest that shows a response keeps it.  Exchanges that were not normalized      *)
(* when the daemon stopped stay as they are.                                      *)
Shows(i, r) == [session |-> stored[i].id, response |-> r] \in evidence

Newest(r) == CHOOSE i \in DOMAIN stored :
                 Shows(i, r) /\ \A j \in DOMAIN stored : Shows(j, r) => j <= i

Restored == [r \in {r \in Answers : \E i \in DOMAIN stored : Shows(i, r)} |->
                stored[Newest(r)].id]

(* The proxy starts without reading the store.                                    *)
StartEmpty == responses' = <<>>

RestoreResponseAncestry == responses' = Restored

Restart ==
    /\ restarts < MaxRestarts
    /\ restarts' = restarts + 1
    /\ RestoreResponseAncestry
    /\ clients' = <<>>
    /\ unparsed' = {}
    /\ UNCHANGED <<now, stored, evidence, recorded>>

Next == Request \/ Normalize \/ Tick \/ Restart

Spec == Init /\ [][Next]_vars
-----------------------------------------------------------------------------
TypeOK ==
    /\ now \in 0 .. MaxTime
    /\ DOMAIN responses \subseteq Answers
    /\ {responses[r] : r \in DOMAIN responses} \subseteq {t.id : t \in ToSet(stored)}
    /\ \A c \in DOMAIN clients : clients[c].at <= now
    /\ unparsed \subseteq DOMAIN recorded

(* No session holds both analysis and investigated traffic, whatever ids, keys   *)
(* and ancestors the requests name and however often the daemon restarts         *)
(* (docs/decisions/0004, decision 6).                                            *)
AnalysisStaysApart ==
    \A i, j \in DOMAIN recorded :
        recorded[i].session = recorded[j].session
            => recorded[i].internal = recorded[j].internal

(* The proxy knows exactly the responses the evidence shows, each in a session   *)
(* that shows it, also after a restart: a request that continues one of them is  *)
(* never put in a session of its own (decision 5).                               *)
AncestryIsTheEvidence ==
    /\ DOMAIN responses = {e.response : e \in evidence}
    /\ \A r \in DOMAIN responses : [session |-> responses[r], response |-> r] \in evidence

Guessed == {i \in DOMAIN recorded : recorded[i].source = "heuristic"}

(* The requests of one client between two restarts.                              *)
PreviousOf(i) ==
    {j \in Guessed : /\ j < i
                     /\ recorded[j].client = recorded[i].client
                     /\ recorded[j].life = recorded[i].life}

(* Two requests that follow each other from one client are in one heuristic      *)
(* session exactly when no more than the idle window lies between them, and two   *)
(* clients never share one.                                                      *)
IdleClientsStartAnew ==
    \A i \in Guessed :
        /\ \A j \in PreviousOf(i) :
              (\A k \in PreviousOf(i) : k <= j) =>
                  (recorded[i].session = recorded[j].session
                      <=> recorded[i].at - recorded[j].at <= IdleWindow)
        /\ \A j \in Guessed : recorded[i].session = recorded[j].session
                                  => recorded[i].client = recorded[j].client
=============================================================================
