----------------------- MODULE EvidenceComponentsProofs -----------------------
(***************************************************************************)
(* Proofs about the components of EvidenceComponents: that traffic of two  *)
(* kinds never shares a session, what the proxy knows of the responses and *)
(* of the clients, that a chain called complete is one, that an upgrade is *)
(* backed up, that a deletion is what its preview showed, what a row       *)
(* promises about the file beside it, and that what is imported from an    *)
(* archive is what its session held at one moment.                         *)
(***************************************************************************)
EXTENDS EvidenceComponents, SequencesExt, SequenceTheorems, FiniteSetTheorems,
        WellFoundedInduction, NaturalsInduction, TLAPS

-----------------------------------------------------------------------------
\* A bounded set of numbers has a greatest.
LEMMA GreatestExists ==
    ASSUME NEW S \in SUBSET Nat, S # {}, NEW b \in Nat, \A n \in S : n <= b
    PROVE  \E m \in S : \A n \in S : n <= m
  <1> DEFINE T == {b - n : n \in S}
             R == {ss \in Nat \X Nat : ss[1] < ss[2]}
  <1>1. T \subseteq Nat /\ T # {}
    <2>1. ASSUME NEW n \in S PROVE b - n \in Nat
      <3>1. n \in Nat /\ n <= b  OBVIOUS
      <3> QED  BY <3>1
    <2> QED  BY <2>1
  <1>2. IsWellFoundedOn(R, Nat)  BY NatLessThanWellFounded DEF OpToRel
  <1>3. PICK k \in T : \A l \in T : ~(<<l, k>> \in R)
    <2> HIDE DEF R, T
    <2> QED  BY <1>1, <1>2, WFMin
  <1>4. \A l \in T : k <= l
    <2> HIDE DEF T
    <2> SUFFICES ASSUME NEW l \in T PROVE k <= l  OBVIOUS
    <2>1. k \in Nat /\ l \in Nat  BY <1>1
    <2>2. l < k => <<l, k>> \in R  BY <2>1
    <2>3. ~(l < k)  BY <1>3, <2>2
    <2> QED  BY <2>1, <2>3
  <1>5. PICK m \in S : k = b - m  OBVIOUS
  <1>6. ASSUME NEW n \in S PROVE n <= m
    <2>1. b - m <= b - n  BY <1>4, <1>5
    <2>2. m \in Nat /\ n \in Nat  OBVIOUS
    <2> QED  BY <2>1, <2>2
  <1> QED  BY <1>6

\* A set of numbers has a least.
LEMMA LeastExists ==
    ASSUME NEW n \in Nat, NEW S \in SUBSET (0 .. n), S # {}
    PROVE  \E k \in S : \A l \in S : k <= l
  <1> DEFINE T == {n - k : k \in S}
  <1>1. T \in SUBSET Nat /\ T # {} /\ \A k \in T : k <= n
    <2>1. ASSUME NEW k \in S PROVE n - k \in Nat /\ n - k <= n
      <3>1. k \in 0 .. n  OBVIOUS
      <3> QED  BY <3>1
    <2> QED  BY <2>1
  <1>2. PICK m \in T : \A l \in T : l <= m
    <2> HIDE DEF T
    <2> QED  BY <1>1, GreatestExists
  <1>3. PICK k \in S : m = n - k  OBVIOUS
  <1>4. ASSUME NEW l \in S PROVE k <= l
    <2>1. n - l <= n - k  BY <1>2, <1>3
    <2> QED  BY <2>1
  <1> QED  BY <1>4

-----------------------------------------------------------------------------
(* Sessionization.                                                         *)

Sequence(s) == s \in Seq(ToSet(s))

\* A session holds traffic of one kind: a request that would mix it is not recorded,
\* and the session of each recorded exchange is stored and of its kind.
KindsInv ==
    /\ Sequence(stored) /\ Sequence(recorded)
    /\ unparsed \subseteq DOMAIN recorded
    /\ \A t \in ToSet(stored) : t.internal \in BOOLEAN /\ (t.internal => t.id[1] = "analysis")
    /\ \A t, u \in ToSet(stored) : t.id = u.id => t.internal = u.internal
    /\ \A i \in DOMAIN recorded : \E t \in ToSet(stored) :
          t.id = recorded[i].session /\ t.internal = recorded[i].internal

\* The evidence is of stored sessions, which a restart can read it from.
EvidenceInv ==
    /\ \A e \in evidence :
          /\ e.response \in Answers /\ \E t \in ToSet(stored) : t.id = e.session
          /\ e = [session |-> e.session, response |-> e.response]
    /\ Sessionizing!AncestryIsTheEvidence
    /\ responses \in [DOMAIN responses -> {e.session : e \in evidence}]

\* The last exchange of a client in this life of the daemon.
IsLast(i, c) ==
    /\ i \in Sessionizing!Guessed /\ recorded[i].client = c /\ recorded[i].life = restarts
    /\ \A j \in Sessionizing!Guessed : recorded[j].client = c /\ recorded[j].life = restarts => j <= i

\* What is remembered of a client is its last exchange, and a client of which nothing
\* is remembered has been idle for longer than the window.
ClientsInv ==
    /\ now \in Nat /\ restarts \in Nat
    /\ \A i \in Sessionizing!Guessed : /\ recorded[i].life \in 0 .. restarts /\ recorded[i].at \in 0 .. now
                                       /\ \E m \in 0 .. i - 1 : recorded[i].session = <<"heuristic", m>>
    /\ \A c \in DOMAIN clients : \E i \in Sessionizing!Guessed :
          IsLast(i, c) /\ clients[c] = [session |-> recorded[i].session, at |-> recorded[i].at]
    /\ \A i \in Sessionizing!Guessed : \A c : IsLast(i, c) /\ c \notin DOMAIN clients
          => now - recorded[i].at > IdleWindow
    /\ Sessionizing!IdleClientsStartAnew

-----------------------------------------------------------------------------
\* A sequence with e at its end is the sequence, and then e.
LEMMA AppendSequence ==
    ASSUME NEW s, Sequence(s), NEW e
    PROVE  /\ Sequence(Append(s, e)) /\ Len(s) \in Nat /\ DOMAIN s = 1 .. Len(s)
           /\ DOMAIN Append(s, e) = 1 .. Len(s) + 1
           /\ \A i \in 1 .. Len(s) : Append(s, e)[i] = s[i]
           /\ Append(s, e)[Len(s) + 1] = e
           /\ ToSet(Append(s, e)) = ToSet(s) \cup {e}
  <1> DEFINE T == ToSet(s) \cup {e}
             a == Append(s, e)
  <1>1. s \in Seq(T) /\ e \in T
    BY DEF Sequence
  <1>2. a \in Seq(T) /\ Len(a) = Len(s) + 1 /\ a[Len(s) + 1] = e
        /\ \A i \in 1 .. Len(s) : a[i] = s[i]
    <2> HIDE DEF T
    <2> QED  BY <1>1, AppendProperties
  <1>3. Len(s) \in Nat /\ DOMAIN s = 1 .. Len(s) /\ DOMAIN a = 1 .. Len(s) + 1
    <2> HIDE DEF T, a
    <2> QED  BY <1>1, <1>2, LenProperties
  <1>4. ToSet(a) = T
    <2> HIDE DEF a
    <2>1. ASSUME NEW x \in T PROVE x \in ToSet(a)
      <3>1. CASE x = e
        <4>1. Len(s) + 1 \in DOMAIN a  BY <1>3
        <4> QED  BY <1>2, <3>1, <4>1 DEF ToSet
      <3>2. CASE x \in ToSet(s)
        <4>1. PICK i \in 1 .. Len(s) : x = s[i]  BY <1>3, <3>2 DEF ToSet
        <4>2. i \in DOMAIN a /\ a[i] = x  BY <1>2, <1>3, <4>1
        <4> QED  BY <4>2 DEF ToSet
      <3> QED  BY <3>1, <3>2
    <2>2. ASSUME NEW i \in DOMAIN a PROVE a[i] \in T
      BY <1>2, <1>3 DEF ToSet
    <2> QED  BY <2>1, <2>2 DEF ToSet
  <1> QED  BY <1>2, <1>3, <1>4 DEF Sequence

\* What is decided of a request: only an analysis is internal, and its session is
\* one that no client is given.
LEMMA Decided ==
    ASSUME NEW s \in Signals, NEW d, d = Sessionizing!Resolve(s)
    PROVE  /\ d = [id |-> d.id, source |-> d.source, internal |-> d.internal]
           /\ d.internal \in BOOLEAN
           /\ d.internal => d.id[1] = "analysis"
           /\ d.source = "heuristic" => d = Sessionizing!ResolveClient(s)
  <1>1. CASE s.analysis # Sessionizing!Nothing
    <2>1. d = [id |-> <<"analysis">> \o s.analysis, source |-> "analysis", internal |-> TRUE]
      BY <1>1 DEF Sessionizing!Resolve, Sessionizing!Decision, Sessionizing!StableId
    <2> DEFINE T == STRING \cup {"analysis"}
    <2>2. s.analysis \in Seq(T) /\ <<"analysis">> \in Seq(T) /\ Len(<<"analysis">>) = 1
      BY SignalsAssumption
    <2> HIDE DEF T
    <2>3. Len(s.analysis) \in Nat
      BY <2>2, LenProperties
    <2>4. (<<"analysis">> \o s.analysis)[1] = <<"analysis">>[1]
      BY <2>2, <2>3, ConcatProperties
    <2> QED  BY <2>1, <2>4
  <1>2. CASE s.analysis = Sessionizing!Nothing
    BY <1>2 DEF Sessionizing!Resolve, Sessionizing!ResolveClient, Sessionizing!Decision
  <1> QED  BY <1>1, <1>2

\* Nothing is stored at first.
LEMMA InitKinds == Sessionizing!Init => KindsInv
  BY EmptySeq DEF Sessionizing!Init, KindsInv, Sequence, ToSet

\* A request goes to a session of its kind, is given a new one, or is not recorded:
\* the check is made after the decision and before the session is stored.
LEMMA RequestKinds == KindsInv /\ Sessionizing!Request => KindsInv'
  <1> SUFFICES ASSUME KindsInv, Sessionizing!Request PROVE KindsInv'
    OBVIOUS
  <1>1. PICK s \in Signals :
          LET d == Sessionizing!Resolve(s)
          IN  IF Sessionizing!Rejected(d) THEN UNCHANGED <<stored, recorded, unparsed>>
              ELSE /\ stored' = IF Sessionizing!Stored(d.id) # {} THEN stored
                                ELSE Append(stored, [id |-> d.id, internal |-> d.internal])
                   /\ recorded' = Append(recorded,
                         [session |-> d.id, source |-> d.source, internal |-> d.internal,
                          client |-> s.client, at |-> now, life |-> restarts])
                   /\ unparsed' = unparsed \cup {Len(recorded) + 1}
    BY DEF Sessionizing!Request
  <1> DEFINE d == Sessionizing!Resolve(s)
             r == [session |-> d.id, source |-> d.source, internal |-> d.internal,
                   client |-> s.client, at |-> now, life |-> restarts]
             n == [id |-> d.id, internal |-> d.internal]
  <1>2. d.internal \in BOOLEAN /\ (d.internal => d.id[1] = "analysis")
    BY Decided
  <1>3. CASE Sessionizing!Rejected(d)
    BY <1>1, <1>3 DEF KindsInv
  <1>4. CASE ~Sessionizing!Rejected(d)
    <2> HIDE DEF d
    <2>1. recorded' = Append(recorded, r) /\ unparsed' = unparsed \cup {Len(recorded) + 1}
          /\ stored' = IF Sessionizing!Stored(d.id) # {} THEN stored ELSE Append(stored, n)
      BY <1>1, <1>4 DEF d
    <2>2. /\ Sequence(stored') /\ ToSet(stored) \subseteq ToSet(stored')
          /\ \A t \in ToSet(stored') : t \in ToSet(stored) \/ (t = n /\ Sessionizing!Stored(d.id) = {})
          /\ \E t \in ToSet(stored') : t.id = d.id /\ t.internal = d.internal
      <3>1. CASE Sessionizing!Stored(d.id) # {}
        BY <1>4, <2>1, <3>1
           DEF Sessionizing!Rejected, Sessionizing!MixesAnalysis, Sessionizing!Stored,
               Sessionizing!ToSet, ToSet, KindsInv
      <3>2. CASE Sessionizing!Stored(d.id) = {}
        <4>1. Sequence(stored') /\ ToSet(stored') = ToSet(stored) \cup {n}
          BY <2>1, <3>2, AppendSequence DEF KindsInv
        <4>2. n.id = d.id /\ n.internal = d.internal
          OBVIOUS
        <4> HIDE DEF n
        <4> QED  BY <3>2, <4>1, <4>2
      <3> QED  BY <3>1, <3>2
    <2>3. /\ Sequence(recorded') /\ Len(recorded) \in Nat
          /\ DOMAIN recorded = 1 .. Len(recorded) /\ DOMAIN recorded' = 1 .. Len(recorded) + 1
          /\ \A i \in 1 .. Len(recorded) : recorded'[i] = recorded[i]
          /\ recorded'[Len(recorded) + 1] = r
      BY <2>1, AppendSequence DEF KindsInv
    <2>4. unparsed' \subseteq DOMAIN recorded'
      BY <2>1, <2>3 DEF KindsInv
    <2>5. \A t \in ToSet(stored') : t.internal \in BOOLEAN /\ (t.internal => t.id[1] = "analysis")
      BY <1>2, <2>2 DEF KindsInv, d
    <2>6. \A t, u \in ToSet(stored') : t.id = u.id => t.internal = u.internal
      BY <2>2 DEF KindsInv, Sessionizing!Stored, Sessionizing!ToSet, ToSet
    <2>7. \A i \in DOMAIN recorded' : \E t \in ToSet(stored') :
             t.id = recorded'[i].session /\ t.internal = recorded'[i].internal
      <3> SUFFICES ASSUME NEW i \in DOMAIN recorded'
                   PROVE  \E t \in ToSet(stored') :
                             t.id = recorded'[i].session /\ t.internal = recorded'[i].internal
        OBVIOUS
      <3>1. CASE i = Len(recorded) + 1
        BY <2>2, <2>3, <3>1
      <3>2. CASE i # Len(recorded) + 1
        <4>1. i \in DOMAIN recorded /\ recorded'[i] = recorded[i]
          BY <2>3, <3>2
        <4> QED  BY <2>2, <4>1 DEF KindsInv
      <3> QED  BY <3>1, <3>2
    <2> QED  BY <2>2, <2>3, <2>4, <2>5, <2>6, <2>7 DEF KindsInv
  <1> QED  BY <1>3, <1>4

\* A session keeps its kind in every step.
LEMMA StepKinds == KindsInv /\ [Sessionizing!Next]_(Sessionizing!vars) => KindsInv'
  <1> SUFFICES ASSUME KindsInv, [Sessionizing!Next]_(Sessionizing!vars) PROVE KindsInv'
    OBVIOUS
  <1>1. CASE Sessionizing!Request
    BY <1>1, RequestKinds
  <1>2. CASE Sessionizing!Normalize \/ Sessionizing!Tick \/ Sessionizing!Restart \/ UNCHANGED Sessionizing!vars
    <2>1. stored' = stored /\ recorded' = recorded /\ unparsed' \subseteq unparsed
      BY <1>2
         DEF Sessionizing!Normalize, Sessionizing!Tick, Sessionizing!Restart,
             Sessionizing!vars
    <2> QED  BY <2>1 DEF KindsInv
  <1> QED  BY <1>1, <1>2 DEF Sessionizing!Next

\* So two exchanges of one session are of one kind.
LEMMA KindsFollow == KindsInv => Sessionizing!AnalysisStaysApart
  BY DEF KindsInv, Sessionizing!AnalysisStaysApart

-----------------------------------------------------------------------------
\* The newest session that shows a response is one that shows it.
LEMMA NewestShows ==
    ASSUME KindsInv, NEW r, NEW i \in DOMAIN stored, Sessionizing!Shows(i, r)
    PROVE  Sessionizing!Newest(r) \in DOMAIN stored /\ Sessionizing!Shows(Sessionizing!Newest(r), r)
  <1> DEFINE S == {j \in DOMAIN stored : Sessionizing!Shows(j, r)}
  <1>1. Len(stored) \in Nat /\ DOMAIN stored = 1 .. Len(stored)
    BY AppendSequence DEF KindsInv
  <1>2. S \in SUBSET Nat /\ S # {} /\ \A j \in S : j <= Len(stored)
    BY <1>1
  <1>3. \E j \in S : \A k \in S : k <= j
    <2> HIDE DEF S
    <2> QED  BY <1>1, <1>2, GreatestExists
  <1> QED  BY <1>3 DEF Sessionizing!Newest

\* There is no evidence at first, and nothing is remembered.
LEMMA InitEvidence == Sessionizing!Init => EvidenceInv
  BY DEF Sessionizing!Init, EvidenceInv, Sessionizing!AncestryIsTheEvidence

\* What a restarted proxy reads is what the evidence shows.
LEMMA RestartEvidence == KindsInv /\ EvidenceInv /\ Sessionizing!Restart => EvidenceInv'
  <1> SUFFICES ASSUME KindsInv, EvidenceInv, Sessionizing!Restart PROVE EvidenceInv'
    OBVIOUS
  <1>1. responses' = Sessionizing!Restored /\ evidence' = evidence /\ stored' = stored
    BY DEF Sessionizing!Restart, Sessionizing!RestoreResponseAncestry
  <1>2. ASSUME NEW e \in evidence
        PROVE  e.response \in Answers /\ \E i \in DOMAIN stored : Sessionizing!Shows(i, e.response)
    BY DEF EvidenceInv, Sessionizing!Shows, ToSet
  <1>3. ASSUME NEW r, NEW i \in DOMAIN stored, Sessionizing!Shows(i, r)
        PROVE  r \in {e.response : e \in evidence}
    <2>1. [session |-> stored[i].id, response |-> r].response = r
      OBVIOUS
    <2> QED  BY <1>3, <2>1 DEF Sessionizing!Shows
  <1>4. DOMAIN responses' = {e.response : e \in evidence}
    BY <1>1, <1>2, <1>3 DEF Sessionizing!Restored
  <1>5. ASSUME NEW r \in DOMAIN responses'
        PROVE  [session |-> responses'[r], response |-> r] \in evidence
    <2>1. PICK i \in DOMAIN stored : Sessionizing!Shows(i, r)
      BY <1>1, <1>5 DEF Sessionizing!Restored
    <2>2. responses'[r] = stored[Sessionizing!Newest(r)].id
      BY <1>1, <1>5 DEF Sessionizing!Restored
    <2> QED  BY <2>1, <2>2, NewestShows DEF Sessionizing!Shows
  <1>6. responses' \in [DOMAIN responses' -> {e.session : e \in evidence}]
    <2>1. ASSUME NEW r \in DOMAIN responses'
          PROVE  responses'[r] \in {e.session : e \in evidence}
      <3>1. [session |-> responses'[r], response |-> r].session = responses'[r]
        OBVIOUS
      <3> QED  BY <1>5, <3>1
    <2>2. responses' = [r \in DOMAIN responses' |-> responses'[r]]
      BY <1>1 DEF Sessionizing!Restored
    <2> QED  BY <2>1, <2>2
  <1> QED  BY <1>1, <1>4, <1>5, <1>6 DEF EvidenceInv, Sessionizing!AncestryIsTheEvidence

\* A response that is seen for the first time is registered for the session of its
\* exchange; one that is known stays where it is.
LEMMA NormalizeEvidence == KindsInv /\ EvidenceInv /\ Sessionizing!Normalize => EvidenceInv'
  <1> SUFFICES ASSUME KindsInv, EvidenceInv, Sessionizing!Normalize PROVE EvidenceInv'
    OBVIOUS
  <1>1. stored' = stored
    BY DEF Sessionizing!Normalize
  <1>2. CASE UNCHANGED <<evidence, responses>>
    BY <1>1, <1>2 DEF EvidenceInv, Sessionizing!AncestryIsTheEvidence
  <1>3. ASSUME NEW i \in unparsed, NEW r \in Answers,
               evidence' = evidence \cup {[session |-> recorded[i].session, response |-> r]},
               responses' = Sessionizing!Register(responses, r, recorded[i].session)
        PROVE  EvidenceInv'
    <2> DEFINE id == recorded[i].session
               e == [session |-> id, response |-> r]
    <2>1. \E t \in ToSet(stored) : t.id = id
      BY DEF KindsInv
    <2> HIDE DEF id
    <2>2. evidence' = evidence \cup {e} /\ e.response = r /\ e.session = id
      BY <1>3 DEF id
    <2>3. \A x \in evidence' : /\ x.response \in Answers /\ \E t \in ToSet(stored') : t.id = x.session
                               /\ x = [session |-> x.session, response |-> x.response]
      BY <1>1, <2>1, <2>2 DEF EvidenceInv
    <2>4. responses' = [x \in DOMAIN responses \cup {r} |->
                           IF x \in DOMAIN responses THEN responses[x] ELSE id]
      BY <1>3 DEF Sessionizing!Register, id
    <2>5. DOMAIN responses' = {x.response : x \in evidence'}
      BY <2>2, <2>4 DEF EvidenceInv, Sessionizing!AncestryIsTheEvidence
    <2>6. \A x \in DOMAIN responses' : [session |-> responses'[x], response |-> x] \in evidence'
      BY <2>2, <2>4 DEF EvidenceInv, Sessionizing!AncestryIsTheEvidence
    <2>7. \A x \in DOMAIN responses' : responses'[x] \in {y.session : y \in evidence'}
      <3>1. id \in {y.session : y \in evidence'}
        BY <2>2
      <3>2. {y.session : y \in evidence} \subseteq {y.session : y \in evidence'}
        BY <2>2
      <3>3. \A x \in DOMAIN responses : responses[x] \in {y.session : y \in evidence}
        BY DEF EvidenceInv
      <3> QED  BY <2>4, <3>1, <3>2, <3>3
    <2>8. responses' \in [DOMAIN responses' -> {y.session : y \in evidence'}]
      BY <2>4, <2>7
    <2> QED  BY <2>3, <2>5, <2>6, <2>8 DEF EvidenceInv, Sessionizing!AncestryIsTheEvidence
  <1> QED  BY <1>2, <1>3 DEF Sessionizing!Normalize

\* A request stores a session or none, and no evidence.
LEMMA RequestEvidence == KindsInv /\ EvidenceInv /\ Sessionizing!Request => EvidenceInv'
  <1> SUFFICES ASSUME KindsInv, EvidenceInv, Sessionizing!Request PROVE EvidenceInv'
    OBVIOUS
  <1>1. UNCHANGED <<evidence, responses>>
    BY DEF Sessionizing!Request
  <1>2. stored' = stored \/ \E t : stored' = Append(stored, t)
    BY DEF Sessionizing!Request
  <1>3. ToSet(stored) \subseteq ToSet(stored')
    <2>1. ASSUME NEW t, stored' = Append(stored, t) PROVE ToSet(stored) \subseteq ToSet(stored')
      BY <2>1, AppendSequence DEF KindsInv
    <2> QED  BY <1>2, <2>1
  <1> QED  BY <1>1, <1>3 DEF EvidenceInv, Sessionizing!AncestryIsTheEvidence

\* In every step what is remembered of the responses is what the evidence shows.
LEMMA StepEvidence == KindsInv /\ EvidenceInv /\ [Sessionizing!Next]_(Sessionizing!vars) => EvidenceInv'
  <1>1. ASSUME EvidenceInv, Sessionizing!Tick \/ UNCHANGED Sessionizing!vars PROVE EvidenceInv'
    BY <1>1
       DEF EvidenceInv, Sessionizing!AncestryIsTheEvidence, Sessionizing!Tick,
           Sessionizing!vars
  <1> QED
    BY <1>1, RequestEvidence, NormalizeEvidence, RestartEvidence DEF Sessionizing!Next

-----------------------------------------------------------------------------
\* No client has sent anything at first.
LEMMA InitClients == Sessionizing!Init => ClientsInv
  BY DEF Sessionizing!Init, ClientsInv, Sessionizing!Guessed, Sessionizing!IdleClientsStartAnew

\* Nothing changes for the clients while no exchange is added that was theirs.
LEMMA SameGuesses ==
    ASSUME ClientsInv, UNCHANGED <<now, clients, restarts>>, Sessionizing!Guessed' = Sessionizing!Guessed,
           \A i \in Sessionizing!Guessed : recorded'[i] = recorded[i]
    PROVE  ClientsInv'
  <1>1. \A i, c : IsLast(i, c)' <=> IsLast(i, c)
    BY DEF IsLast
  <1>2. \A i \in Sessionizing!Guessed :
           /\ Sessionizing!PreviousOf(i)' = Sessionizing!PreviousOf(i)
           /\ Sessionizing!PreviousOf(i) \subseteq Sessionizing!Guessed
    BY DEF Sessionizing!PreviousOf
  <1>3. Sessionizing!IdleClientsStartAnew'
    BY <1>2 DEF ClientsInv, Sessionizing!IdleClientsStartAnew
  <1> QED  BY <1>1, <1>3 DEF ClientsInv

\* As time goes by more clients have been idle for too long, and none less.
LEMMA TickClients == ClientsInv /\ Sessionizing!Tick => ClientsInv'
  <1> SUFFICES ASSUME ClientsInv, Sessionizing!Tick PROVE ClientsInv'
    OBVIOUS
  <1>1. now' = now + 1 /\ UNCHANGED <<clients, recorded, restarts>> /\ now \in Nat
    BY DEF Sessionizing!Tick, ClientsInv
  <1>2. /\ Sessionizing!Guessed' = Sessionizing!Guessed /\ Sessionizing!IdleClientsStartAnew'
        /\ \A i, c : IsLast(i, c)' <=> IsLast(i, c)
    BY <1>1
       DEF ClientsInv, Sessionizing!Guessed, Sessionizing!IdleClientsStartAnew,
           Sessionizing!PreviousOf, IsLast
  <1>3. ASSUME NEW i \in Sessionizing!Guessed
        PROVE  /\ recorded[i].at \in 0 .. now'
               /\ \A c : IsLast(i, c) /\ c \notin DOMAIN clients => now' - recorded[i].at > IdleWindow
    <2>1. recorded[i].at \in 0 .. now
      BY DEF ClientsInv
    <2> QED  BY <1>1, <2>1, SignalsAssumption DEF ClientsInv
  <1> QED  BY <1>1, <1>2, <1>3 DEF ClientsInv

\* A restarted proxy remembers no client, and none has sent anything yet.
LEMMA RestartClients == ClientsInv /\ Sessionizing!Restart => ClientsInv'
  <1> SUFFICES ASSUME ClientsInv, Sessionizing!Restart PROVE ClientsInv'
    OBVIOUS
  <1>1. clients' = <<>> /\ restarts' = restarts + 1 /\ UNCHANGED <<now, recorded>>
        /\ restarts \in Nat
    BY DEF Sessionizing!Restart, ClientsInv
  <1>2. Sessionizing!Guessed' = Sessionizing!Guessed /\ Sessionizing!IdleClientsStartAnew'
    BY <1>1
       DEF ClientsInv, Sessionizing!Guessed, Sessionizing!IdleClientsStartAnew,
           Sessionizing!PreviousOf
  <1>3. ASSUME NEW i \in Sessionizing!Guessed
        PROVE  recorded[i].life \in 0 .. restarts' /\ recorded[i].life # restarts'
    <2>1. recorded[i].life \in 0 .. restarts
      BY DEF ClientsInv
    <2> QED  BY <1>1, <2>1
  <1>4. DOMAIN clients' = {}
    BY <1>1
  <1> QED  BY <1>1, <1>2, <1>3, <1>4 DEF ClientsInv, IsLast

\* The session a client is given: that of its last exchange while the window is open,
\* else one that no client was given before.
LEMMA ClientSession ==
    ASSUME KindsInv, ClientsInv, NEW s \in Signals
    PROVE  LET id == Sessionizing!ResolveClient(s).id
               c == s.client
           IN  /\ \E m \in 0 .. Len(recorded) : id = <<"heuristic", m>>
               /\ \A j \in Sessionizing!Guessed : recorded[j].session = id => recorded[j].client = c
               /\ \A j \in Sessionizing!Guessed : IsLast(j, c) =>
                     (id = recorded[j].session <=> now - recorded[j].at <= IdleWindow)
  <1> DEFINE id == Sessionizing!ResolveClient(s).id
             c == s.client
             n == Len(recorded)
  <1>1. n \in Nat /\ DOMAIN recorded = 1 .. n
    BY AppendSequence DEF KindsInv
  <1>2. Sessionizing!Guessed \subseteq 1 .. n
    BY <1>1 DEF Sessionizing!Guessed
  <1>3. \A i, j \in Sessionizing!Guessed : IsLast(i, c) /\ IsLast(j, c) => i = j
    <2> SUFFICES ASSUME NEW i \in Sessionizing!Guessed, NEW j \in Sessionizing!Guessed, IsLast(i, c), IsLast(j, c)
                 PROVE  i = j
      OBVIOUS
    <2>1. i <= j /\ j <= i
      BY DEF IsLast
    <2> QED  BY <1>1, <1>2, <2>1
  <1>4. CASE c \in Sessionizing!Awake(now)
    <2>1. id = clients[c].session /\ c \in DOMAIN clients /\ now - clients[c].at <= IdleWindow
      BY <1>4 DEF Sessionizing!ResolveClient, Sessionizing!Decision, Sessionizing!Awake
    <2>2. PICK j \in Sessionizing!Guessed :
            IsLast(j, c) /\ clients[c] = [session |-> recorded[j].session, at |-> recorded[j].at]
      BY <2>1 DEF ClientsInv
    <2>3. id = recorded[j].session /\ now - recorded[j].at <= IdleWindow
      BY <2>1, <2>2
    <2>4. recorded[j].client = c
      BY <2>2 DEF IsLast
    <2>5. \E m \in 0 .. n : id = <<"heuristic", m>>
      <3>1. PICK m \in 0 .. j - 1 : recorded[j].session = <<"heuristic", m>>
        BY DEF ClientsInv
      <3>2. j \in 1 .. n
        BY <1>2
      <3>3. m \in 0 .. n
        BY <1>1, <3>2
      <3> QED  BY <2>3, <3>1, <3>3
    <2>6. \A i \in Sessionizing!Guessed : recorded[i].session = id => recorded[i].client = c
      BY <2>3, <2>4 DEF ClientsInv, Sessionizing!IdleClientsStartAnew
    <2> HIDE DEF id
    <2> QED  BY <1>3, <2>2, <2>3, <2>5, <2>6 DEF id
  <1>5. CASE c \notin Sessionizing!Awake(now)
    <2>1. id = <<"heuristic", n>>
      BY <1>5 DEF Sessionizing!ResolveClient, Sessionizing!Decision, Sessionizing!HeuristicId
    <2>2. ASSUME NEW i \in Sessionizing!Guessed PROVE recorded[i].session # id
      <3>1. PICK m \in 0 .. i - 1 : recorded[i].session = <<"heuristic", m>>
        BY DEF ClientsInv
      <3>2. i \in 1 .. n
        BY <1>2
      <3>3. m \in Nat /\ n \in Nat /\ m < n
        BY <1>1, <3>2
      <3> QED  BY <2>1, <3>1, <3>3
    <2>3. ASSUME NEW j \in Sessionizing!Guessed, IsLast(j, c)
          PROVE  ~(now - recorded[j].at <= IdleWindow)
      <3>1. now \in Nat /\ recorded[j].at \in 0 .. now
        BY DEF ClientsInv
      <3>2. CASE c \in DOMAIN clients
        <4>1. PICK i \in Sessionizing!Guessed :
                IsLast(i, c) /\ clients[c] = [session |-> recorded[i].session, at |-> recorded[i].at]
          BY <3>2 DEF ClientsInv
        <4>2. clients[c].at = recorded[j].at
          BY <1>3, <2>3, <4>1
        <4> QED  BY <1>5, <3>2, <4>2 DEF Sessionizing!Awake
      <3>3. CASE c \notin DOMAIN clients
        BY <2>3, <3>1, <3>3, SignalsAssumption DEF ClientsInv
      <3> QED  BY <3>2, <3>3
    <2>4. n \in 0 .. n
      BY <1>1
    <2> HIDE DEF id
    <2> QED  BY <2>1, <2>2, <2>3, <2>4 DEF id
  <1> QED  BY <1>4, <1>5

\* A request whose session is that of its client is recorded, since such a session
\* holds no analysis.
LEMMA GuessIsRecorded ==
    ASSUME KindsInv, ClientsInv, NEW s \in Signals
    PROVE  ~Sessionizing!Rejected(Sessionizing!ResolveClient(s))
  <1> DEFINE d == Sessionizing!ResolveClient(s)
  <1>1. PICK m \in 0 .. Len(recorded) : d.id = <<"heuristic", m>>
    BY ClientSession
  <1>2. d.internal = FALSE /\ d.id[1] = "heuristic"
    BY <1>1 DEF Sessionizing!ResolveClient, Sessionizing!Decision
  <1>3. ASSUME NEW t \in ToSet(stored), t.id = d.id PROVE t.internal = FALSE
    BY <1>2, <1>3 DEF KindsInv
  <1> QED
    BY <1>2, <1>3
       DEF Sessionizing!Rejected, Sessionizing!MixesAnalysis, Sessionizing!Stored,
           Sessionizing!ToSet, ToSet

\* A request by client forgets the idle ones and remembers its own; any other leaves
\* the clients as they are.
LEMMA RequestClients == KindsInv /\ ClientsInv /\ Sessionizing!Request => ClientsInv'
  <1> SUFFICES ASSUME KindsInv, ClientsInv, Sessionizing!Request PROVE ClientsInv'
    OBVIOUS
  <1>1. PICK s \in Signals :
          LET d == Sessionizing!Resolve(s)
          IN  /\ clients' = Sessionizing!Seen(s, d)
              /\ \/ Sessionizing!Rejected(d) /\ recorded' = recorded
                 \/ recorded' = Append(recorded,
                       [session |-> d.id, source |-> d.source, internal |-> d.internal,
                        client |-> s.client, at |-> now, life |-> restarts])
    BY DEF Sessionizing!Request
  <1>2. UNCHANGED <<now, restarts>>
    BY DEF Sessionizing!Request
  <1> DEFINE d == Sessionizing!Resolve(s)
             r == [session |-> d.id, source |-> d.source, internal |-> d.internal,
                   client |-> s.client, at |-> now, life |-> restarts]
  <1>3. PICK n \in Nat :
          n = Len(recorded) /\ DOMAIN recorded = 1 .. n /\ Sessionizing!Guessed \subseteq 1 .. n
    <2>1. Len(recorded) \in Nat /\ DOMAIN recorded = 1 .. Len(recorded)
      BY AppendSequence DEF KindsInv
    <2> QED  BY <2>1, Zenon DEF Sessionizing!Guessed
  <1>4. ASSUME recorded' = Append(recorded, r)
        PROVE  /\ DOMAIN recorded' = 1 .. n + 1 /\ recorded'[n + 1] = r
               /\ \A i \in 1 .. n : recorded'[i] = recorded[i]
    <2> HIDE DEF r
    <2> QED  BY <1>3, <1>4, AppendSequence DEF KindsInv
  <1>5. CASE d.source # "heuristic"
    <2>1. clients' = clients
      BY <1>1, <1>5 DEF Sessionizing!Seen
    <2>2. CASE recorded' = recorded
      BY <1>2, <2>1, <2>2, SameGuesses DEF Sessionizing!Guessed
    <2>3. CASE recorded' = Append(recorded, r)
      <3>1. r.source # "heuristic"
        BY <1>5
      <3>2. /\ Sessionizing!Guessed' = Sessionizing!Guessed
            /\ \A i \in Sessionizing!Guessed : recorded'[i] = recorded[i]
        <4> HIDE DEF r, d
        <4> QED  BY <1>3, <1>4, <2>3, <3>1 DEF Sessionizing!Guessed
      <3> QED  BY <1>2, <2>1, <3>2, SameGuesses
    <2> QED  BY <1>1, <2>2, <2>3
  <1>6. CASE d.source = "heuristic"
    <2> DEFINE c == s.client
               id == d.id
               N == n + 1
    <2>1. d = Sessionizing!ResolveClient(s) /\ recorded' = Append(recorded, r)
      BY <1>1, <1>6, Decided, GuessIsRecorded
    <2>2. /\ r.session = id /\ r.source = "heuristic" /\ r.client = c /\ r.at = now
          /\ r.life = restarts
      BY <1>6
    <2>3. /\ \E m \in 0 .. n : id = <<"heuristic", m>>
          /\ \A j \in Sessionizing!Guessed : recorded[j].session = id => recorded[j].client = c
          /\ \A j \in Sessionizing!Guessed : IsLast(j, c) =>
                (id = recorded[j].session <=> now - recorded[j].at <= IdleWindow)
      BY <1>3, <2>1, ClientSession
    <2>4. clients' = [x \in Sessionizing!Awake(now) \cup {c} |->
                         IF x = c THEN [session |-> id, at |-> now] ELSE clients[x]]
      BY <1>1, <1>6 DEF Sessionizing!Seen
    <2> HIDE DEF d, r, id
    <2>5. /\ Sessionizing!Guessed' = Sessionizing!Guessed \cup {N} /\ N \notin Sessionizing!Guessed /\ recorded'[N] = r
          /\ \A i \in Sessionizing!Guessed : recorded'[i] = recorded[i] /\ i < N
      BY <1>3, <1>4, <2>1, <2>2 DEF Sessionizing!Guessed
    <2>6. now \in Nat /\ restarts \in Nat /\ N \in Nat
      BY <1>3 DEF ClientsInv
    <2>7. IsLast(N, c)'
      <3>1. N \in Sessionizing!Guessed' /\ r.client = c /\ r.life = restarts'
        BY <1>2, <2>2, <2>5
      <3>2. \A j \in Sessionizing!Guessed' : j <= N
        <4>1. N <= N
          BY <2>6
        <4>2. \A j \in Sessionizing!Guessed : j <= N
          BY <1>3
        <4> HIDE DEF N
        <4> QED  BY <2>5, <4>1, <4>2
      <3> HIDE DEF N
      <3> QED  BY <2>5, <3>1, <3>2 DEF IsLast
    <2>8. \A i \in Sessionizing!Guessed : \A x : x # c => (IsLast(i, x)' <=> IsLast(i, x))
      BY <1>2, <2>2, <2>5 DEF IsLast
    <2>9. \A i \in Sessionizing!Guessed' : /\ recorded'[i].life \in 0 .. restarts' /\ recorded'[i].at \in 0 .. now'
                                           /\ \E m \in 0 .. i - 1 : recorded'[i].session = <<"heuristic", m>>
      <3>1. /\ r.life \in 0 .. restarts /\ r.at \in 0 .. now
            /\ \E m \in 0 .. N - 1 : r.session = <<"heuristic", m>>
        BY <1>3, <2>2, <2>3, <2>6
      <3> HIDE DEF N
      <3> QED  BY <1>2, <2>5, <3>1 DEF ClientsInv
    <2>10. \A x \in DOMAIN clients' : \E i \in Sessionizing!Guessed' :
              IsLast(i, x)' /\ clients'[x] = [session |-> recorded'[i].session, at |-> recorded'[i].at]
      <3> SUFFICES ASSUME NEW x \in DOMAIN clients'
                   PROVE  \E i \in Sessionizing!Guessed' : IsLast(i, x)' /\ clients'[x] =
                             [session |-> recorded'[i].session, at |-> recorded'[i].at]
        OBVIOUS
      <3>1. CASE x = c
        BY <2>2, <2>4, <2>5, <2>7, <3>1
      <3>2. CASE x # c
        <4>1. x \in DOMAIN clients /\ clients'[x] = clients[x]
          BY <2>4, <3>2 DEF Sessionizing!Awake
        <4>2. PICK i \in Sessionizing!Guessed : IsLast(i, x) /\ clients[x] =
                             [session |-> recorded[i].session, at |-> recorded[i].at]
          BY <4>1 DEF ClientsInv
        <4> QED  BY <2>5, <2>8, <3>2, <4>1, <4>2
      <3> QED  BY <3>1, <3>2
    <2>11. \A i \in Sessionizing!Guessed' : \A x : IsLast(i, x)' /\ x \notin DOMAIN clients'
              => now' - recorded'[i].at > IdleWindow
      <3> SUFFICES ASSUME NEW i \in Sessionizing!Guessed', NEW x, IsLast(i, x)', x \notin DOMAIN clients'
                   PROVE  now' - recorded'[i].at > IdleWindow
        OBVIOUS
      <3>1. x # c /\ x \notin Sessionizing!Awake(now)
        BY <2>4
      <3>2. i # N
        BY <2>2, <2>5, <3>1 DEF IsLast
      <3>3. i \in Sessionizing!Guessed /\ IsLast(i, x) /\ recorded'[i] = recorded[i]
        BY <2>5, <2>8, <3>1, <3>2
      <3>4. recorded[i].at \in 0 .. now
        BY <3>3 DEF ClientsInv
      <3>5. CASE x \notin DOMAIN clients
        BY <1>2, <3>3, <3>5 DEF ClientsInv
      <3>6. CASE x \in DOMAIN clients
        <4>1. PICK k \in Sessionizing!Guessed : IsLast(k, x) /\ clients[x] =
                             [session |-> recorded[k].session, at |-> recorded[k].at]
          BY <3>6 DEF ClientsInv
        <4>2. k = i
          <5>1. k <= i /\ i <= k
            BY <3>3, <4>1 DEF IsLast
          <5> QED  BY <1>3, <3>3, <5>1
        <4>3. ~(now - recorded[i].at <= IdleWindow)
          BY <3>1, <3>6, <4>1, <4>2 DEF Sessionizing!Awake
        <4> QED  BY <1>2, <2>6, <3>3, <3>4, <4>3, SignalsAssumption
      <3> QED  BY <3>5, <3>6
    <2>12. Sessionizing!IdleClientsStartAnew'
      <3>1. ASSUME NEW i \in Sessionizing!Guessed
            PROVE  /\ Sessionizing!PreviousOf(i)' = Sessionizing!PreviousOf(i)
                   /\ Sessionizing!PreviousOf(i) \subseteq Sessionizing!Guessed
        <4>1. i \in 1 .. n /\ ~(N < i)
          BY <1>3
        <4>2. \A j : j \in Sessionizing!PreviousOf(i)' <=> j \in Sessionizing!PreviousOf(i)
          BY <2>5, <4>1 DEF Sessionizing!PreviousOf
        <4> QED  BY <4>2 DEF Sessionizing!PreviousOf
      <3>2. ASSUME NEW j \in Sessionizing!PreviousOf(N)', \A k \in Sessionizing!PreviousOf(N)' : k <= j
            PROVE  /\ j \in Sessionizing!Guessed /\ recorded'[j] = recorded[j]
                   /\ r.session = recorded[j].session <=> now - recorded[j].at <= IdleWindow
        <4>1. Sessionizing!PreviousOf(N)' =
                 {k \in Sessionizing!Guessed : recorded[k].client = c /\ recorded[k].life = restarts}
          <5>1. ~(N < N)
            OBVIOUS
          <5>2. \A k : k \in Sessionizing!PreviousOf(N)' <=>
                   k \in Sessionizing!Guessed /\ recorded[k].client = c /\ recorded[k].life = restarts
            <6> HIDE DEF N, c
            <6> QED  BY <1>2, <2>2, <2>5, <5>1 DEF Sessionizing!PreviousOf
          <5> QED  BY <5>2
        <4>2. j \in Sessionizing!Guessed /\ IsLast(j, c)
          BY <3>2, <4>1 DEF IsLast
        <4> QED  BY <2>2, <2>3, <2>5, <4>2
      <3>3. ASSUME NEW i \in Sessionizing!Guessed', NEW j \in Sessionizing!PreviousOf(i)',
                   \A k \in Sessionizing!PreviousOf(i)' : k <= j
            PROVE  recorded'[i].session = recorded'[j].session
                      <=> recorded'[i].at - recorded'[j].at <= IdleWindow
        <4>1. CASE i = N
          BY <2>2, <2>5, <3>2, <3>3, <4>1
        <4>2. CASE i # N
          <5>1. /\ i \in Sessionizing!Guessed /\ j \in Sessionizing!PreviousOf(i)
                /\ \A k \in Sessionizing!PreviousOf(i) : k <= j
            BY <2>5, <3>1, <3>3, <4>2
          <5> QED  BY <2>5, <3>1, <5>1 DEF ClientsInv, Sessionizing!IdleClientsStartAnew
        <4> QED  BY <4>1, <4>2
      <3>4. ASSUME NEW i \in Sessionizing!Guessed', NEW j \in Sessionizing!Guessed',
                   recorded'[i].session = recorded'[j].session
            PROVE  recorded'[i].client = recorded'[j].client
        <4> HIDE DEF N
        <4> QED  BY <2>2, <2>3, <2>5, <3>4 DEF ClientsInv, Sessionizing!IdleClientsStartAnew
      <3> QED  BY <3>3, <3>4 DEF Sessionizing!IdleClientsStartAnew
    <2> QED  BY <1>2, <2>6, <2>9, <2>10, <2>11, <2>12 DEF ClientsInv
  <1> QED  BY <1>5, <1>6

\* In every step what is remembered of a client is its last exchange.
LEMMA StepClients == KindsInv /\ ClientsInv /\ [Sessionizing!Next]_(Sessionizing!vars) => ClientsInv'
  <1>1. ASSUME ClientsInv, Sessionizing!Normalize \/ UNCHANGED Sessionizing!vars PROVE ClientsInv'
    BY <1>1, SameGuesses DEF Sessionizing!Normalize, Sessionizing!vars, Sessionizing!Guessed
  <1> QED
    BY <1>1, RequestClients, TickClients, RestartClients DEF Sessionizing!Next

-----------------------------------------------------------------------------
(* ContextReconstruction.                                                  *)

\* The marks of a chain that would be called complete.
Unmarked == marks.requested /\ ~marks.incomplete /\ ~marks.managed

\* The turns of the chain so far: each was recorded after the one it continues, which
\* was read and captured to its end; the last says what is looked for next.
LinkedSoFar ==
    /\ \A k \in 1 .. Len(turns) - 1 :
          turns[k + 1] < turns[k] /\ chain[turns[k]].previous = chain[turns[k + 1]].response
    /\ \A k \in DOMAIN turns :
          LET x == chain[turns[k]] IN x.kept /\ ~x.conversation /\ ~x.managed
    /\ \A k \in 2 .. Len(turns) : chain[turns[k]].outcome # "cut"
    /\ previous = chain[turns[Len(turns)]].previous

ChainInv ==
    /\ chain \in Seq(Turns)
    /\ reading \in {"idle", "following", "answered"}
    /\ turns \in Seq(DOMAIN chain)
    /\ marks \in [requested : BOOLEAN, incomplete : BOOLEAN, managed : BOOLEAN]
    /\ reading = "idle" => turns = <<>>
    /\ reading # "idle" => turns # <<>> /\ (Unmarked => LinkedSoFar)
    /\ reading # "answered" => answer = Context!NoAnswer
    /\ reading = "answered" =>
          previous = Context!NoResponse /\ answer.completeness = Context!Completeness

\* The exchange that is followed shows the response, before the turn that names it.
LEMMA AncestorShows ==
    ASSUME ChainInv, NEW i \in Context!Ancestor
    PROVE  i \in DOMAIN chain /\ chain[i].response = previous /\ i < turns[Len(turns)]
  <1> DEFINE S == Context!Showing(previous)
  <1>1. i = Context!FindResponse(previous) /\ Context!Precedes(i) /\ S # {}
    BY DEF Context!Ancestor
  <1>2. Len(chain) \in Nat /\ S \in SUBSET (0 .. Len(chain))
    BY LenProperties DEF ChainInv, Context!Showing
  <1>3. \E k \in S : \A l \in S : k <= l
    <2> HIDE DEF S
    <2> QED  BY <1>1, <1>2, LeastExists
  <1>4. i \in S
    BY <1>1, <1>3 DEF Context!FindResponse
  <1> QED  BY <1>1, <1>4 DEF Context!Showing, Context!Precedes, Context!Last

\* A turn is added at the end of the chain.
LEMMA TurnIsLast ==
    ASSUME ChainInv, NEW i \in DOMAIN chain, turns' = Append(turns, i), UNCHANGED chain
    PROVE  /\ turns' \in Seq(DOMAIN chain') /\ turns' # <<>>
           /\ Len(turns) \in Nat /\ Len(turns') = Len(turns) + 1
           /\ turns'[Len(turns) + 1] = i
           /\ \A k \in 1 .. Len(turns) : turns'[k] = turns[k] /\ turns[k] \in DOMAIN chain
  <1>1. turns \in Seq(DOMAIN chain)
    BY DEF ChainInv
  <1> QED  BY <1>1, LenProperties, AppendProperties

\* Exchanges that are recorded later change nothing of the turns of the chain.
LEMMA RecordKeepsChain == ChainInv /\ Context!Record => ChainInv'
  <1> SUFFICES ASSUME ChainInv, Context!Record PROVE ChainInv'
    OBVIOUS
  <1>1. PICK x \in Turns : chain' = Append(chain, x)
    BY DEF Context!Record
  <1>2. /\ chain' \in Seq(Turns) /\ DOMAIN chain \subseteq DOMAIN chain'
        /\ \A i \in DOMAIN chain : chain'[i] = chain[i]
    BY <1>1, LenProperties, AppendProperties DEF ChainInv
  <1>3. turns' \in Seq(DOMAIN chain')
    BY <1>2 DEF ChainInv, Context!Record
  <1>4. \A k \in DOMAIN turns : turns[k] \in DOMAIN chain
    BY LenProperties DEF ChainInv
  <1>5. LinkedSoFar /\ turns # <<>> => LinkedSoFar'
    <2>1. SUFFICES ASSUME LinkedSoFar, turns # <<>> PROVE LinkedSoFar'
      OBVIOUS
    <2>2. Len(turns) \in Nat \ {0} /\ DOMAIN turns = 1 .. Len(turns)
      BY <2>1, LenProperties, EmptySeq DEF ChainInv
    <2>3. \A k \in 1 .. Len(turns) : chain'[turns[k]] = chain[turns[k]]
      BY <1>2, <1>4, <2>2
    <2>4. turns' = turns /\ previous' = previous
      BY DEF Context!Record
    <2>5. \A k \in 1 .. Len(turns) - 1 :
             turns[k + 1] < turns[k] /\ chain'[turns[k]].previous = chain'[turns[k + 1]].response
      <3> SUFFICES ASSUME NEW k \in 1 .. Len(turns) - 1
                   PROVE  /\ turns[k + 1] < turns[k]
                          /\ chain'[turns[k]].previous = chain'[turns[k + 1]].response
        OBVIOUS
      <3>1. k \in 1 .. Len(turns) /\ k + 1 \in 1 .. Len(turns)
        BY <2>2
      <3> QED  BY <2>1, <2>3, <3>1 DEF LinkedSoFar
    <2>6. \A k \in 1 .. Len(turns) :
             LET y == chain'[turns[k]]
             IN y.kept /\ ~y.conversation /\ ~y.managed /\ (k # 1 => y.outcome # "cut")
      <3> SUFFICES ASSUME NEW k \in 1 .. Len(turns)
                   PROVE  LET y == chain'[turns[k]]
                          IN y.kept /\ ~y.conversation /\ ~y.managed
                             /\ (k # 1 => y.outcome # "cut")
        OBVIOUS
      <3>1. k # 1 => k \in 2 .. Len(turns)
        BY <2>2
      <3> QED  BY <2>1, <2>2, <2>3, <3>1 DEF LinkedSoFar
    <2>7. previous' = chain'[turns[Len(turns)]].previous
      BY <2>1, <2>2, <2>3, <2>4 DEF LinkedSoFar
    <2> QED  BY <2>2, <2>4, <2>5, <2>6, <2>7 DEF LinkedSoFar
  <1> QED
    BY <1>2, <1>3, <1>5 DEF ChainInv, Unmarked, Context!Record

\* The chain begins with the exchange that was asked for, unmarked if it was kept and
\* no provider manages its context.
LEMMA StartKeepsChain == ChainInv /\ Context!Start => ChainInv'
  <1> SUFFICES ASSUME ChainInv, Context!Start PROVE ChainInv'
    OBVIOUS
  <1>1. PICK i \in DOMAIN chain :
          LET x == chain[i]
              asks == /\ x.kept /\ x.protocol = "openai.responses"
                      /\ ~Context!IsConversation(x)
          IN /\ turns' = Append(turns, i)
             /\ marks' = [requested |-> asks /\ x.previous # Context!NoResponse,
                          incomplete |-> asks /\ x.previous = Context!NotAString,
                          managed |-> x.kept /\ x.protocol # "openai.chat-completions"
                                      /\ (x.managed \/ Context!IsConversation(x))]
             /\ previous' = IF asks /\ x.previous # Context!NotAString
                            THEN x.previous ELSE Context!NoResponse
    BY DEF Context!Start, Context!Loaded
  <1>2. chain[i] \in Turns
    BY DEF ChainInv
  <1>3. {chain[i].kept, chain[i].conversation, chain[i].managed} \subseteq BOOLEAN
    BY <1>2, TurnsAssumption
  <1>4. turns = <<>> /\ chain' = chain /\ reading' = "following" /\ answer' = answer
        /\ answer = Context!NoAnswer
    BY DEF Context!Start, ChainInv
  <1>5. Len(turns') = 1 /\ turns'[1] = i /\ turns' \in Seq(DOMAIN chain') /\ turns' # <<>>
    BY <1>1, <1>4, TurnIsLast, EmptySeq
  <1>6. DOMAIN turns' = {1}
    BY <1>5, LenProperties
  <1>7. Unmarked' => LinkedSoFar'
    BY <1>1, <1>3, <1>4, <1>5, <1>6 DEF Unmarked, LinkedSoFar, Context!IsConversation
  <1>8. marks' \in [requested : BOOLEAN, incomplete : BOOLEAN, managed : BOOLEAN]
    BY <1>1, <1>3 DEF Context!IsConversation
  <1> QED
    BY <1>4, <1>5, <1>7, <1>8 DEF ChainInv

\* An ancestor is added with its marks: the chain stays linked, or is marked.
LEMMA FollowKeepsChain == ChainInv /\ Context!FollowAncestor => ChainInv'
  <1> SUFFICES ASSUME ChainInv, Context!FollowAncestor PROVE ChainInv'
    OBVIOUS
  <1>1. PICK i \in Context!Ancestor : Context!LoadAncestor(i)
    BY DEF Context!FollowAncestor
  <1>2. i \in DOMAIN chain /\ chain[i].response = previous /\ i < turns[Len(turns)]
    BY AncestorShows
  <1> DEFINE x == chain[i]
             n == Len(turns)
  <1>3. {x.kept, x.conversation, x.managed} \subseteq BOOLEAN
    BY <1>2, TurnsAssumption DEF ChainInv
  <1>4. /\ turns' = Append(turns, i) /\ chain' = chain /\ reading = "following"
        /\ reading' = "following" /\ answer' = answer /\ turns # <<>>
    BY <1>1 DEF Context!LoadAncestor, Context!Loaded, Context!FollowAncestor, ChainInv
  <1>5. /\ turns' \in Seq(DOMAIN chain') /\ turns' # <<>> /\ n \in Nat /\ Len(turns') = n + 1
        /\ turns'[n + 1] = i
        /\ \A k \in 1 .. n : turns'[k] = turns[k] /\ turns[k] \in DOMAIN chain
    BY <1>2, <1>4, TurnIsLast
  <1>6. /\ marks' \in [requested : BOOLEAN, incomplete : BOOLEAN, managed : BOOLEAN]
        /\ Unmarked' => /\ Unmarked /\ x.kept /\ ~x.conversation /\ ~x.managed
                        /\ x.outcome # "cut" /\ previous' = x.previous
    BY <1>1, <1>3 DEF ChainInv, Context!LoadAncestor, Context!ProviderManaged, Unmarked
  <1>7. Unmarked' => LinkedSoFar'
    <2>1. SUFFICES ASSUME Unmarked' PROVE LinkedSoFar'
      OBVIOUS
    <2>2. LinkedSoFar /\ DOMAIN turns = 1 .. n /\ n # 0
      BY <1>4, <1>6, <2>1, LenProperties, EmptySeq DEF ChainInv
    <2>3. DOMAIN turns' = 1 .. n + 1
      BY <1>5, LenProperties
    <2>4. \A k \in 1 .. n : turns'[k + 1] < turns'[k]
                /\ chain'[turns'[k]].previous = chain'[turns'[k + 1]].response
      <3> SUFFICES ASSUME NEW k \in 1 .. n
                   PROVE  turns'[k + 1] < turns'[k]
                          /\ chain'[turns'[k]].previous = chain'[turns'[k + 1]].response
        OBVIOUS
      <3>1. CASE k = n
        BY <1>2, <1>4, <1>5, <2>2, <3>1 DEF LinkedSoFar
      <3>2. CASE k # n
        <4>1. k \in 1 .. n - 1 /\ k + 1 \in 1 .. n
          BY <1>5, <3>2
        <4> QED  BY <1>4, <1>5, <2>2, <4>1 DEF LinkedSoFar
      <3> QED  BY <3>1, <3>2
    <2>5. \A k \in 1 .. n + 1 : LET y == chain'[turns'[k]]
                               IN y.kept /\ ~y.conversation /\ ~y.managed
                                  /\ (k # 1 => y.outcome # "cut")
      <3> SUFFICES ASSUME NEW k \in 1 .. n + 1
                   PROVE  LET y == chain'[turns'[k]]
                          IN y.kept /\ ~y.conversation /\ ~y.managed
                             /\ (k # 1 => y.outcome # "cut")
        OBVIOUS
      <3>1. CASE k = n + 1
        BY <1>4, <1>5, <1>6, <2>1, <3>1
      <3>2. CASE k # n + 1
        <4>1. k \in 1 .. n
          BY <1>5, <3>2
        <4> QED  BY <1>4, <1>5, <2>2, <4>1 DEF LinkedSoFar
      <3> QED  BY <3>1, <3>2
    <2> HIDE DEF n
    <2> QED  BY <1>4, <1>5, <1>6, <2>1, <2>3, <2>4, <2>5 DEF LinkedSoFar
  <1> QED
    BY <1>4, <1>5, <1>6, <1>7 DEF ChainInv

\* Whatever is recorded and followed, the invariant of the chain stays.
LEMMA StepChain == ChainInv /\ [Context!Next]_(Context!vars) => ChainInv'
  <1> SUFFICES ASSUME ChainInv, [Context!Next]_(Context!vars) PROVE ChainInv'
    OBVIOUS
  <1>1. CASE Context!StopChain
    BY <1>1 DEF ChainInv, Unmarked, Context!StopChain
  <1>2. CASE Context!Answer
    BY <1>2 DEF ChainInv, Unmarked, LinkedSoFar, Context!Answer, Context!Completeness
  <1>3. CASE UNCHANGED Context!vars
    BY <1>3 DEF ChainInv, Unmarked, LinkedSoFar, Context!Completeness, Context!vars
  <1> QED
    BY <1>1, <1>2, <1>3, RecordKeepsChain, StartKeepsChain, FollowKeepsChain
       DEF Context!Next

-----------------------------------------------------------------------------
(* SchemaMigration.                                                        *)

Opening == {"copying", "applying", "migrating"}

IsOpener(o) == DOMAIN o = {"pc", "build", "looked", "seen", "found"}

\* What the process p has found still is there, or the version is another by now; and
\* what another has migrated since p read the version is in the ledger.
OpenerInv(p) ==
    /\ opener[p].pc \in Opening =>
          /\ opener[p].build \in 1 .. 6
          /\ opener[p].looked \in 0 .. database.version
    /\ Schema!At(p, "migrating") =>
          /\ opener[p].seen < opener[p].build /\ opener[p].seen \in 0 .. database.version
          /\ \A v \in opener[p].seen + 1 .. database.version : v \in database.ledger
    /\ Schema!At(p, "copying") /\ database.version = opener[p].looked
          => opener[p].found \subseteq database.exchanges
    /\ /\ opener[p].pc \in {"applying", "migrating"}
       /\ opener[p].found # {}
       /\ database.version = opener[p].looked
       /\ database.version < opener[p].build
       => Schema!HasItsBackup(p)

SchemaInv ==
    /\ IsDatabase(database)
    /\ opener = [p \in Openers |-> opener[p]]
    /\ \A p \in Openers : IsOpener(opener[p]) /\ OpenerInv(p)

-----------------------------------------------------------------------------
\* What a migration to v makes of the database d: it enters the version in the ledger,
\* where it must not be yet.
Entered(d, e, v) ==
    /\ IsDatabase(e) /\ e.version = v /\ e.ledger = d.ledger \cup {v}
    /\ d.aborted \/ v \in d.ledger => e.aborted

\* The statements of a migration may touch the guards and the exchanges, and fail.
Changed(d, e) ==
    /\ DOMAIN e = DOMAIN d /\ e.version = d.version /\ e.ledger = d.ledger
    /\ e.aborted \in BOOLEAN /\ (d.aborted => e.aborted)

\* The statements of each migration keep the version and the ledger.
LEMMA StatementsKeep ==
    ASSUME NEW d, IsDatabase(d)
    PROVE  /\ Changed(d, Schema!InitialSchema(d)) /\ Changed(d, Schema!ImportedGuards(d))
           /\ Changed(d, Schema!CompleteGuards(d)) /\ Changed(d, Schema!RemoveApiKey(d))
           /\ Changed(d, Schema!RemoveAccountId(d)) /\ Changed(d, Schema!RemoveOrganizationId(d))
  <1>1. Changed(d, Schema!InitialSchema(d)) /\ Changed(d, Schema!ImportedGuards(d))
        /\ Changed(d, Schema!CompleteGuards(d))
    BY DEF IsDatabase, Changed, Schema!InitialSchema, Schema!ImportedGuards,
           Schema!CompleteGuards
  <1>2. ASSUME NEW header
        PROVE  /\ Changed(d, Schema!Scrubbed(d, header))
               /\ Changed(d, [Schema!Scrubbed(d, header) EXCEPT !.aborted = @ \/ Schema!Refuses(d, header)])
    <2> DEFINE scrubbed == Schema!Scrubbed(d, header)
               refuses == Schema!Refuses(d, header)
    <2>1. Changed(d, scrubbed)
      BY DEF IsDatabase, Changed, Schema!Scrubbed
    <2>2. refuses \in BOOLEAN
      BY DEF Schema!Refuses
    <2> HIDE DEF scrubbed, refuses
    <2> QED  BY <2>1, <2>2 DEF Changed, IsDatabase, scrubbed, refuses
  <1> QED  BY <1>1, <1>2
              DEF Schema!RemoveApiKey, Schema!RemoveAccountId, Schema!RemoveOrganizationId

\* A migration enters its version in the ledger, and fails if it is there.
LEMMA MigrationRecords ==
    ASSUME NEW d, IsDatabase(d), NEW v \in 1 .. 6
    PROVE  Entered(d, Schema!Migrated(d, v), v)
  <1> DEFINE changed == CASE v = 1 -> Schema!InitialSchema(d)
                          [] v = 2 -> Schema!ImportedGuards(d)
                          [] v = 3 -> Schema!CompleteGuards(d)
                          [] v = 4 -> Schema!RemoveApiKey(d)
                          [] v = 5 -> Schema!RemoveAccountId(d)
                          [] v = 6 -> Schema!RemoveOrganizationId(d)
  <1>1. Changed(d, changed)
    <2>1. v \in {1, 2, 3, 4, 5, 6}
      OBVIOUS
    <2> QED  BY <2>1, StatementsKeep
  <1>2. Schema!Migrated(d, v) = [changed EXCEPT !.version = v, !.ledger = @ \cup {v},
                                                !.aborted = @ \/ v \in d.ledger]
    BY DEF Schema!Migrated
  <1> HIDE DEF changed
  <1>3. v \in Nat
    OBVIOUS
  <1> QED  BY <1>1, <1>2, <1>3 DEF Entered, Changed, IsDatabase

\* What the upgrade to `latest` does about the migration to v.
Pends(d, e, v, from, latest) ==
    IF v \in from + 1 .. latest THEN Entered(d, e, v) ELSE e = d

\* The upgrade applies a migration or leaves the database as it is.
LEMMA PendingRecords ==
    ASSUME NEW d, IsDatabase(d), NEW v \in 1 .. 6, NEW from \in Nat, NEW latest \in 1 .. 6
    PROVE  /\ Pends(d, Schema!Pending(d, v, from, latest), v, from, latest)
           /\ IsDatabase(Schema!Pending(d, v, from, latest))
  BY MigrationRecords DEF Schema!Pending, Pends, Entered

\* An upgrade takes place only if the first migration it applies was not applied yet,
\* and leaves every one of them in the ledger.
Raises(d, e, from, latest) ==
    /\ IsDatabase(e) /\ e.version = latest
    /\ e.ledger = d.ledger \cup (from + 1 .. latest)
    /\ ~e.aborted => from + 1 \notin d.ledger

\* The migrations of an upgrade, one after the other.
LEMMA UpgradeRecords ==
    ASSUME NEW d, IsDatabase(d), NEW from \in Nat, NEW latest \in 1 .. 6, from < latest
    PROVE  Raises(d, Schema!Upgraded(d, from, latest), from, latest)
  <1> DEFINE d1 == Schema!Pending(d, 1, from, latest)
             d2 == Schema!Pending(d1, 2, from, latest)
             d3 == Schema!Pending(d2, 3, from, latest)
             d4 == Schema!Pending(d3, 4, from, latest)
             d5 == Schema!Pending(d4, 5, from, latest)
             d6 == Schema!Pending(d5, 6, from, latest)
             Due(v) == v \in from + 1 .. latest
  <1>0. Schema!Upgraded(d, from, latest) = d6
    BY DEF Schema!Upgraded
  <1>a. /\ 1 \in 1 .. 6 /\ 2 \in 1 .. 6 /\ 3 \in 1 .. 6
        /\ 4 \in 1 .. 6 /\ 5 \in 1 .. 6 /\ 6 \in 1 .. 6
    OBVIOUS
  <1>1. IsDatabase(d1) /\ Pends(d, d1, 1, from, latest)
    BY <1>a, PendingRecords
  <1> HIDE DEF d1
  <1>2. IsDatabase(d2) /\ Pends(d1, d2, 2, from, latest)
    BY <1>a, <1>1, PendingRecords
  <1> HIDE DEF d2
  <1>3. IsDatabase(d3) /\ Pends(d2, d3, 3, from, latest)
    BY <1>a, <1>2, PendingRecords
  <1> HIDE DEF d3
  <1>4. IsDatabase(d4) /\ Pends(d3, d4, 4, from, latest)
    BY <1>a, <1>3, PendingRecords
  <1> HIDE DEF d4
  <1>5. IsDatabase(d5) /\ Pends(d4, d5, 5, from, latest)
    BY <1>a, <1>4, PendingRecords
  <1> HIDE DEF d5
  <1>6. IsDatabase(d6) /\ Pends(d5, d6, 6, from, latest)
    BY <1>a, <1>5, PendingRecords
  <1> HIDE DEF d6
  <1>7. latest \in {1, 2, 3, 4, 5, 6} /\ from \in {0, 1, 2, 3, 4, 5}
    OBVIOUS
  <1>8. d6.version = latest
    BY <1>1, <1>2, <1>3, <1>4, <1>5, <1>6, <1>7 DEF Pends, Entered
  <1>9. d6.ledger = d.ledger \cup {v \in {1, 2, 3, 4, 5, 6} : Due(v)}
    <2>1. /\ Due(1) => d1.ledger = d.ledger \cup {1}
          /\ ~Due(1) => d1.ledger = d.ledger
          /\ Due(2) => d2.ledger = d1.ledger \cup {2}
          /\ ~Due(2) => d2.ledger = d1.ledger
          /\ Due(3) => d3.ledger = d2.ledger \cup {3}
          /\ ~Due(3) => d3.ledger = d2.ledger
      BY <1>1, <1>2, <1>3 DEF Pends, Entered
    <2>2. /\ Due(4) => d4.ledger = d3.ledger \cup {4}
          /\ ~Due(4) => d4.ledger = d3.ledger
          /\ Due(5) => d5.ledger = d4.ledger \cup {5}
          /\ ~Due(5) => d5.ledger = d4.ledger
          /\ Due(6) => d6.ledger = d5.ledger \cup {6}
          /\ ~Due(6) => d6.ledger = d5.ledger
      BY <1>4, <1>5, <1>6 DEF Pends, Entered
    <2> HIDE DEF Due
    <2> QED  BY <2>1, <2>2
  <1>10. {v \in {1, 2, 3, 4, 5, 6} : Due(v)} = from + 1 .. latest
    OBVIOUS
  <1>11. ASSUME from + 1 \in d.ledger PROVE d6.aborted
    <2>1. /\ Due(1) => (d.aborted \/ 1 \in d.ledger => d1.aborted)
          /\ ~Due(1) => d1 = d
          /\ Due(2) => (d1.aborted \/ 2 \in d1.ledger => d2.aborted)
          /\ ~Due(2) => d2 = d1
          /\ Due(3) => (d2.aborted \/ 3 \in d2.ledger => d3.aborted)
          /\ ~Due(3) => d3 = d2
      BY <1>1, <1>2, <1>3 DEF Pends, Entered
    <2>2. /\ Due(4) => (d3.aborted \/ 4 \in d3.ledger => d4.aborted)
          /\ ~Due(4) => d4 = d3
          /\ Due(5) => (d4.aborted \/ 5 \in d4.ledger => d5.aborted)
          /\ ~Due(5) => d5 = d4
          /\ Due(6) => (d5.aborted \/ 6 \in d5.ledger => d6.aborted)
          /\ ~Due(6) => d6 = d5
      BY <1>4, <1>5, <1>6 DEF Pends, Entered
    <2>3. /\ from + 1 \in {1, 2, 3, 4, 5, 6} /\ Due(from + 1)
          /\ \A v \in 1 .. 6 : v < from + 1 => ~Due(v)
      BY <1>7
    <2> QED  BY <1>7, <1>11, <2>1, <2>2, <2>3
  <1> QED  BY <1>0, <1>6, <1>8, <1>9, <1>10, <1>11 DEF Raises

-----------------------------------------------------------------------------
\* The database is as it was found, and nobody has opened it.
LEMMA InitSchema == Schema!Init => SchemaInv
  BY MigrationsAssumption
     DEF Schema!Init, SchemaInv, OpenerInv, IsOpener, Schema!Idle, Schema!At, Opening

\* A step that changes only the progress of one process concerns that one.
LEMMA OpenerMoves ==
    ASSUME SchemaInv, NEW p \in Openers, NEW o, IsOpener(o), opener' = [opener EXCEPT ![p] = o],
           database'.version = database.version, database'.ledger = database.ledger,
           database.exchanges \subseteq database'.exchanges, backups \subseteq backups',
           IsDatabase(database'), OpenerInv(p)'
    PROVE  SchemaInv'
  <1>1. opener' = [q \in Openers |-> opener'[q]] /\ \A q \in Openers \ {p} : opener'[q] = opener[q]
        /\ opener'[p] = o
    BY DEF SchemaInv
  <1>2. ASSUME NEW q \in Openers \ {p} PROVE OpenerInv(q)'
    BY <1>1 DEF SchemaInv, OpenerInv, Schema!At, Schema!HasItsBackup
  <1> QED  BY <1>1, <1>2 DEF SchemaInv

\* The version and the exchanges an opener notes are those of that moment.
LEMMA LookKeeps ==
    ASSUME SchemaInv, NEW p \in Openers, NEW build \in 1 .. 6, Schema!Look(p, build)
    PROVE  SchemaInv'
  <1> DEFINE o == [pc |-> IF database.version > build THEN "refused"
                          ELSE IF Schema!NeedsBackup(database, build) THEN "copying" ELSE "applying",
                   build |-> build, looked |-> database.version, seen |-> 0,
                   found |-> IF database.exists THEN database.exchanges ELSE {}]
  <1>1. opener' = [opener EXCEPT ![p] = o] /\ opener'[p] = o /\ backups' = backups
    BY DEF Schema!Look, SchemaInv
  <1>2. /\ IsDatabase(database') /\ database'.version = database.version
        /\ database'.ledger = database.ledger /\ database'.exchanges = database.exchanges
    BY DEF Schema!Look, SchemaInv, IsDatabase
  <1>3. database.version \in Nat
    BY DEF SchemaInv, IsDatabase
  <1>4. OpenerInv(p)'
    BY <1>1, <1>2, <1>3 DEF OpenerInv, Schema!At, Schema!NeedsBackup
  <1>5. IsOpener(o)
    BY DEF IsOpener
  <1> HIDE DEF o
  <1> QED  BY <1>1, <1>2, <1>4, <1>5, OpenerMoves

\* The copy has what was found, or another has migrated the database meanwhile.
LEMMA BackupKeeps ==
    ASSUME SchemaInv, NEW p \in Openers, Schema!CreateMigrationBackup(p)
    PROVE  SchemaInv'
  <1> DEFINE o == [opener[p] EXCEPT !.pc = "applying"]
             b == [named |-> opener[p].looked, version |-> database.version,
                   exchanges |-> database.exchanges]
  <1>1. opener' = [opener EXCEPT ![p] = o] /\ opener'[p] = o /\ database' = database
        /\ backups' = backups \cup {b}
    BY DEF Schema!CreateMigrationBackup, Schema!Moves, SchemaInv
  <1>2. IsOpener(o) /\ o.pc = "applying" /\ o.build = opener[p].build
        /\ o.looked = opener[p].looked /\ o.found = opener[p].found
    BY DEF SchemaInv, IsOpener
  <1>3. b.version = database.version /\ b.exchanges = database.exchanges
    OBVIOUS
  <1> HIDE DEF o, b
  <1>4. OpenerInv(p)'
    BY <1>1, <1>2, <1>3
       DEF SchemaInv, OpenerInv, Schema!At, Schema!HasItsBackup, Schema!CreateMigrationBackup, Opening
  <1>5. IsDatabase(database')
    BY <1>1 DEF SchemaInv
  <1> QED  BY <1>1, <1>2, <1>4, <1>5, OpenerMoves

\* An opener goes on to migrate only from a version below that of its build.
LEMMA ApplyKeeps ==
    ASSUME SchemaInv, NEW p \in Openers, Schema!ApplyMigrations(p)
    PROVE  SchemaInv'
  <1> DEFINE v == database.version
             pc == IF v > opener[p].build THEN "refused"
                   ELSE IF ~Schema!LedgerMatches(database, opener[p].build) THEN "refused"
                   ELSE IF v = opener[p].build THEN "open" ELSE "migrating"
             o == [opener[p] EXCEPT !.seen = v, !.pc = pc]
  <1>1. opener' = [opener EXCEPT ![p] = o] /\ opener'[p] = o /\ database' = database
        /\ backups' = backups
    BY DEF Schema!ApplyMigrations, SchemaInv
  <1>2. /\ IsOpener(o) /\ o.pc = pc /\ o.seen = v /\ o.build = opener[p].build
        /\ o.looked = opener[p].looked /\ o.found = opener[p].found
    BY DEF SchemaInv, IsOpener
  <1>3. v \in Nat /\ opener[p].build \in 1 .. 6
    BY DEF SchemaInv, IsDatabase, OpenerInv, Schema!ApplyMigrations, Schema!At, Opening
  <1>4. pc \in {"refused", "open", "migrating"} /\ (pc = "migrating" => v < opener[p].build)
    BY <1>3
  <1> HIDE DEF o, pc
  <1>5. OpenerInv(p)'
    BY <1>1, <1>2, <1>3, <1>4
       DEF SchemaInv, OpenerInv, Schema!At, Schema!HasItsBackup, Schema!ApplyMigrations, Opening
  <1>6. IsDatabase(database')
    BY <1>1 DEF SchemaInv
  <1> HIDE DEF v
  <1> QED  BY <1>1, <1>2, <1>5, <1>6, OpenerMoves

\* An upgrade succeeds only from the version that was read before it, and its backup
\* was made by then.
LEMMA MigrateKeeps ==
    ASSUME SchemaInv, NEW p \in Openers, Schema!Migrate(p)
    PROVE  /\ SchemaInv'
           /\ /\ database'.version > database.version
              /\ database.version = opener[p].looked
              /\ opener[p].found # {}
              => Schema!HasItsBackup(p)
  <1> DEFINE seen == opener[p].seen
             build == opener[p].build
             e == Schema!Upgraded(database, seen, build)
             v == database.version
  <1>1. /\ Schema!At(p, "migrating") /\ build \in 1 .. 6 /\ v \in Nat /\ seen \in 0 .. v /\ seen < build
        /\ \A w \in seen + 1 .. v : w \in database.ledger
        /\ IsDatabase(database) /\ IsOpener(opener[p]) /\ backups' = backups
    BY DEF SchemaInv, OpenerInv, Schema!Migrate, Schema!At, Opening, IsDatabase
  <1>2. /\ IsDatabase(e) /\ e.version = build /\ e.ledger = database.ledger \cup (seen + 1 .. build)
        /\ ~e.aborted => seen + 1 \notin database.ledger
    <2>1. seen \in Nat
      BY <1>1
    <2> HIDE DEF seen, build
    <2>2. Raises(database, e, seen, build)
      BY <1>1, <2>1, UpgradeRecords
    <2> HIDE DEF e
    <2> QED  BY <2>2 DEF Raises
  <1>3. CASE ~e.aborted /\ database' = e /\ Schema!Moves(p, "open")
    <2>1. v = seen
      BY <1>1, <1>2, <1>3
    <2>2. opener' = [opener EXCEPT ![p] = [opener[p] EXCEPT !.pc = "open"]]
      BY <1>3 DEF Schema!Moves, SchemaInv
    <2>3. /\ opener' = [q \in Openers |-> opener'[q]] /\ IsOpener(opener'[p])
          /\ opener'[p].pc = "open" /\ \A q \in Openers \ {p} : opener'[q] = opener[q]
      BY <1>1, <2>2 DEF SchemaInv, IsOpener
    <2> HIDE DEF e
    <2>4. ASSUME NEW q \in Openers \ {p} PROVE OpenerInv(q)'
      <3>1. OpenerInv(q) /\ opener'[q] = opener[q]
        BY <2>3 DEF SchemaInv
      <3>2. database'.version = build /\ v < build /\ build \in Nat
            /\ database'.ledger = database.ledger \cup (v + 1 .. build)
        BY <1>1, <1>2, <1>3, <2>1
      <3>3. opener[q].pc \in Opening =>
              opener[q].build \in 1 .. 6 /\ opener[q].looked \in 0 .. v
        BY <3>1 DEF OpenerInv
      <3>4. Schema!At(q, "migrating") =>
              /\ opener[q].seen < opener[q].build /\ opener[q].seen \in 0 .. build
              /\ \A w \in opener[q].seen + 1 .. build : w \in database'.ledger
        <4> SUFFICES ASSUME Schema!At(q, "migrating")
                     PROVE  /\ opener[q].seen < opener[q].build /\ opener[q].seen \in 0 .. build
                            /\ \A w \in opener[q].seen + 1 .. build : w \in database'.ledger
          OBVIOUS
        <4>1. /\ opener[q].seen < opener[q].build /\ opener[q].seen \in 0 .. v
              /\ \A w \in opener[q].seen + 1 .. v : w \in database.ledger
          BY <3>1 DEF OpenerInv
        <4>2. ASSUME NEW w \in opener[q].seen + 1 .. build PROVE w \in database'.ledger
          <5>1. w \in opener[q].seen + 1 .. v \/ w \in v + 1 .. build
            BY <1>1, <3>2, <4>1
          <5> QED  BY <3>2, <4>1, <5>1
        <4> QED  BY <1>1, <3>2, <4>1, <4>2
      <3>5. opener[q].pc \in Opening => database'.version # opener[q].looked
            /\ opener[q].looked \in 0 .. build
        BY <1>1, <3>2, <3>3
      <3> HIDE DEF build, v
      <3> QED  BY <3>1, <3>2, <3>3, <3>4, <3>5 DEF OpenerInv, Schema!At, Opening
    <2>5. OpenerInv(p)'
      BY <2>3 DEF OpenerInv, Schema!At, Opening
    <2>6. SchemaInv'
      BY <1>2, <1>3, <2>3, <2>4, <2>5 DEF SchemaInv
    <2>7. v < build
      BY <1>1, <2>1
    <2> QED  BY <1>1, <2>6, <2>7 DEF SchemaInv, OpenerInv, Schema!At
  <1>4. CASE e.aborted /\ Schema!Moves(p, "failed") /\ UNCHANGED database
    <2> DEFINE o == [opener[p] EXCEPT !.pc = "failed"]
    <2>1. opener' = [opener EXCEPT ![p] = o] /\ opener'[p] = o /\ IsOpener(o) /\ o.pc = "failed"
      BY <1>1, <1>4 DEF Schema!Moves, SchemaInv, IsOpener
    <2> HIDE DEF o
    <2>2. OpenerInv(p)'
      BY <2>1 DEF OpenerInv, Schema!At, Opening
    <2>3. SchemaInv'
      BY <1>1, <1>4, <2>1, <2>2, OpenerMoves
    <2> QED  BY <1>1, <1>4, <2>3
  <1> QED  BY <1>3, <1>4 DEF Schema!Migrate

\* The other steps read, record or end.
LEMMA OtherKeeps ==
    ASSUME SchemaInv, NEW p \in Openers, NEW build \in 1 .. 6,
           Schema!OpenReadOnly(p, build) \/ Schema!Leave(p) \/ Schema!Record(p) \/ Schema!Import(p)
    PROVE  SchemaInv'
  <1>1. ASSUME NEW o, IsOpener(o), o.pc \in {"refused", "reading", "idle"},
               opener' = [opener EXCEPT ![p] = o], UNCHANGED <<database, backups>>
        PROVE  SchemaInv'
    <2>1. opener'[p] = o
      BY <1>1 DEF SchemaInv
    <2>2. OpenerInv(p)'
      BY <1>1, <2>1 DEF OpenerInv, Schema!At, Opening
    <2> QED  BY <1>1, <2>2, OpenerMoves DEF SchemaInv
  <1>2. CASE Schema!OpenReadOnly(p, build)
    <2> DEFINE o == [Schema!Idle EXCEPT !.build = build,
                        !.pc = IF database.version > build \/ ~Schema!LedgerMatches(database, build)
                               THEN "refused" ELSE "reading"]
    <2>1. IsOpener(o) /\ o.pc \in {"refused", "reading"}
      BY DEF IsOpener, Schema!Idle
    <2>2. opener' = [opener EXCEPT ![p] = o] /\ UNCHANGED <<database, backups>>
      BY <1>2 DEF Schema!OpenReadOnly
    <2> HIDE DEF o
    <2> QED  BY <1>1, <2>1, <2>2
  <1>3. CASE Schema!Leave(p)
    BY <1>1, <1>3 DEF Schema!Leave, IsOpener, Schema!Idle
  <1>4. CASE Schema!Record(p) \/ Schema!Import(p)
    <2>1. PICK x : database' = [database EXCEPT !.exchanges = @ \cup {x}]
      BY <1>4 DEF Schema!Record, Schema!Import
    <2>2. /\ IsDatabase(database') /\ database'.version = database.version
          /\ database'.ledger = database.ledger /\ database.exchanges \subseteq database'.exchanges
      BY <2>1 DEF SchemaInv, IsDatabase
    <2>3. UNCHANGED <<opener, backups>>
      BY <1>4 DEF Schema!Record, Schema!Import
    <2>4. ASSUME NEW q \in Openers PROVE OpenerInv(q)'
      BY <2>2, <2>3 DEF SchemaInv, OpenerInv, Schema!At, Schema!HasItsBackup
    <2> QED  BY <2>2, <2>3, <2>4 DEF SchemaInv
  <1> QED  BY <1>2, <1>3, <1>4

\* In every step what the openers have found is still there, or was backed up, or the
\* version is another.
LEMMA StepSchema == SchemaInv /\ [Schema!Next]_(Schema!vars) => SchemaInv'
  <1> SUFFICES ASSUME SchemaInv, [Schema!Next]_(Schema!vars) PROVE SchemaInv'
    OBVIOUS
  <1>1. CASE UNCHANGED Schema!vars
    BY <1>1 DEF Schema!vars, SchemaInv, OpenerInv, Schema!At, Schema!HasItsBackup
  <1>2. ASSUME NEW p \in Openers, NEW build \in Builds, Schema!Look(p, build) \/ Schema!OpenReadOnly(p, build)
        PROVE  SchemaInv'
    BY <1>2, MigrationsAssumption, LookKeeps, OtherKeeps
  <1>3. ASSUME NEW p \in Openers,
               Schema!CreateMigrationBackup(p) \/ Schema!ApplyMigrations(p) \/ Schema!Migrate(p)
        PROVE  SchemaInv'
    BY <1>3, BackupKeeps, ApplyKeeps, MigrateKeeps
  <1>4. ASSUME NEW p \in Openers, Schema!Leave(p) \/ Schema!Record(p) \/ Schema!Import(p)
        PROVE  SchemaInv'
    <2>1. 1 \in 1 .. 6
      OBVIOUS
    <2> QED  BY <1>4, <2>1, OtherKeeps
  <1> QED  BY <1>1, <1>2, <1>3, <1>4 DEF Schema!Next

-----------------------------------------------------------------------------
(* ArchiveTransfer: deleting and pruning.                                  *)

\* A home has its sessions and its blobs.
IsHome(h) ==
    /\ DOMAIN h = {"sessions", "blobs"}
    /\ h.sessions = [s \in Kept |-> h.sessions[s]]

\* The plan that is shown selects every analysis of what it selects, and projects what
\* is left of the sessions it was made from.
PreviewInv ==
    /\ store = [m \in Homes |-> store[m]]
    /\ \A m \in Homes : IsHome(store[m])
    /\ preview.pc = "shown" =>
          /\ preview.store \in Homes /\ preview.selected \subseteq Kept
          /\ Retention!Linked(preview.sessions, preview.selected) \subseteq preview.selected
          /\ preview.projected = Retention!Usage(preview.sessions, preview.selected)

\* The expansion of a selection has every analysis of what it selects.
LEMMA ExpandedIsClosed ==
    ASSUME NEW sessions, NEW selected
    PROVE  LET all == Retention!Expanded(sessions, selected)
           IN  all \subseteq Kept /\ Retention!Linked(sessions, all) \subseteq all
  <1> DEFINE expanded == Retention!Expanded(sessions, selected)
             Closes(c) == selected \subseteq c /\ Retention!Linked(sessions, c) \subseteq c
  <1>1. expanded = {s \in Kept : \A c \in SUBSET Kept : Closes(c) => s \in c}
    BY DEF Retention!Expanded
  <1>2. ASSUME NEW a \in Retention!Linked(sessions, expanded) PROVE a \in expanded
    <2>1. a \in Analyses /\ TargetOf[a] \in expanded /\ sessions[a].status # "absent"
      BY DEF Retention!Linked
    <2>2. ASSUME NEW c \in SUBSET Kept, Closes(c) PROVE a \in c
      BY <1>1, <2>1, <2>2 DEF Retention!Linked
    <2> QED  BY <1>1, <2>1, <2>2, RetentionAssumption
  <1> QED  BY <1>1, <1>2

\* What is left of a selection has the size that was projected for it.
LEMMA DeletionLeavesTheRest ==
    ASSUME NEW sessions, NEW selected \in SUBSET Kept
    PROVE  Retention!Usage([s \in Kept |-> IF s \in selected THEN Retention!Absent
                                           ELSE sessions[s]], {})
           = Retention!Usage(sessions, selected)
  <1> DEFINE rest == [s \in Kept |-> IF s \in selected THEN Retention!Absent ELSE sessions[s]]
             left == {s \in Kept \ {} : rest[s].status # "absent"}
             retained == {s \in Kept \ selected : sessions[s].status # "absent"}
  <1>1. Retention!Absent.status = "absent"
    BY DEF Retention!Absent
  <1>2. left = retained /\ \A s \in retained : rest[s] = sessions[s]
    BY <1>1
  <1>3. UNION {Retention!RecordsOf(s, rest[s]) : s \in left}
        = UNION {Retention!RecordsOf(s, sessions[s]) : s \in retained}
    <2> DEFINE after == {Retention!RecordsOf(s, rest[s]) : s \in left}
               kept == {Retention!RecordsOf(s, sessions[s]) : s \in retained}
    <2> HIDE DEF left, retained, rest
    <2>1. after = kept
      BY <1>2
    <2> HIDE DEF after, kept
    <2>2. UNION after = UNION kept
      BY <2>1
    <2> QED  BY <2>2 DEF after, kept
  <1>4. UNION {Retention!Bodies(rest[s].exchanges) : s \in left}
        = UNION {Retention!Bodies(sessions[s].exchanges) : s \in retained}
    <2> DEFINE after == {Retention!Bodies(rest[s].exchanges) : s \in left}
               kept == {Retention!Bodies(sessions[s].exchanges) : s \in retained}
    <2> HIDE DEF left, retained, rest
    <2>1. after = kept
      BY <1>2
    <2> HIDE DEF after, kept
    <2>2. UNION after = UNION kept
      BY <2>1
    <2> QED  BY <2>2 DEF after, kept
  <1>5. Retention!Usage(rest, {}) = Retention!Usage(sessions, selected)
    <2> HIDE DEF rest
    <2> QED  BY <1>3, <1>4 DEF Retention!Usage
  <1> QED  BY <1>5

\* A plan is made from the sessions of its home, and its selection is an expansion.
LEMMA PlanKeepsPreview ==
    ASSUME PreviewInv, NEW m \in Homes, NEW selected, Retention!Plan(m, selected),
           selected \subseteq Kept,
           Retention!Linked(store[m].sessions, selected) \subseteq selected
    PROVE  PreviewInv'
  <1> DEFINE p == [pc |-> "shown", store |-> m, selected |-> selected,
                   sessions |-> store[m].sessions,
                   projected |-> Retention!Usage(store[m].sessions, selected)]
  <1>1. preview' = p /\ store' = store
    BY DEF Retention!Plan
  <1>2. /\ p.pc = "shown" /\ p.store = m /\ p.selected = selected
        /\ p.sessions = store[m].sessions
        /\ p.projected = Retention!Usage(store[m].sessions, selected)
    OBVIOUS
  <1> HIDE DEF p
  <1> QED  BY <1>1, <1>2 DEF PreviewInv

\* A step that leaves the plan alone or takes it back keeps the homes in shape.
LEMMA HomesStay ==
    ASSUME PreviewInv, NEW m, NEW h, m \in Homes => IsHome(h), store' = [store EXCEPT ![m] = h],
           preview' = preview \/ preview'.pc # "shown"
    PROVE  PreviewInv'
  BY DEF PreviewInv

LEMMA RecordsKeepPreview ==
    ASSUME PreviewInv, NEW s \in Kept, NEW record, Retention!Records(s, record)
    PROVE  PreviewInv'
  <1> DEFINE m == HomeOf[s]
             h == [store[m] EXCEPT !.sessions = [store[m].sessions EXCEPT ![s] = record]]
  <1>1. m \in Homes
    BY RetentionAssumption
  <1>2. store' = [store EXCEPT ![m] = h] /\ preview' = preview
    BY DEF Retention!Records
  <1>3. IsHome(h)
    BY <1>1 DEF PreviewInv, IsHome
  <1> HIDE DEF h, m
  <1> QED  BY <1>1, <1>2, <1>3, HomesStay

\* A plan by age and size is an expansion, too, whichever number of sessions it takes.
LEMMA PrunedIsClosed ==
    ASSUME NEW sessions, NEW cutoff, NEW limit
    PROVE  LET all == Retention!Pruned(sessions, cutoff, limit)
           IN  all \subseteq Kept /\ Retention!Linked(sessions, all) \subseteq all
  <1>1. PICK selected : Retention!Pruned(sessions, cutoff, limit)
                            = Retention!Expanded(sessions, selected)
    BY DEF Retention!Pruned
  <1> QED  BY <1>1, ExpandedIsClosed

\* A deletion removes what the plan lists, or nothing.
LEMMA DeletionKeepsPreview == PreviewInv /\ Retention!ExecuteEvidenceDeletion => PreviewInv'
  <1> SUFFICES ASSUME PreviewInv, Retention!ExecuteEvidenceDeletion PROVE PreviewInv'
    OBVIOUS
  <1> DEFINE m == preview.store
             rest == [s \in Kept |-> IF s \in preview.selected THEN Retention!Absent
                                     ELSE store[m].sessions[s]]
             h == [store[m] EXCEPT !.sessions = rest]
  <1>1. m \in Homes /\ preview'.pc # "shown"
    BY DEF PreviewInv, Retention!ExecuteEvidenceDeletion
  <1>2. store' = store \/ store' = [store EXCEPT ![m] = h]
    BY DEF Retention!ExecuteEvidenceDeletion
  <1>3. IsHome(h)
    BY <1>1 DEF PreviewInv, IsHome
  <1> HIDE DEF h, m
  <1>4. CASE store' = store
    BY <1>1, <1>4 DEF PreviewInv
  <1> QED  BY <1>1, <1>2, <1>3, <1>4, HomesStay

LEMMA InitPreview == Retention!Init => PreviewInv
  BY DEF Retention!Init, PreviewInv, IsHome

\* What a home keeps of bodies is no matter of the plan.
LEMMA BlobsKeepPreview ==
    ASSUME PreviewInv, NEW m, NEW blobs,
           store' = [store EXCEPT ![m].blobs = blobs], preview' = preview \/ preview'.pc # "shown"
    PROVE  PreviewInv'
  <1> DEFINE h == [store[m] EXCEPT !.blobs = blobs]
  <1>1. m \in Homes => IsHome(h)
    BY DEF PreviewInv, IsHome
  <1>2. store' = [store EXCEPT ![m] = h]
    OBVIOUS
  <1> HIDE DEF h
  <1> QED  BY <1>1, <1>2, HomesStay

\* In every step the plan that is shown stays as it was made.
LEMMA StepPreview == PreviewInv /\ [Retention!Next]_(Retention!vars) => PreviewInv'
  <1> SUFFICES ASSUME PreviewInv, [Retention!Next]_(Retention!vars) PROVE PreviewInv'
    OBVIOUS
  <1>1. ASSUME NEW s \in Kept, Retention!Start(s) \/ Retention!End(s) PROVE PreviewInv'
    <2>1. PICK record : Retention!Records(s, record)
      BY <1>1 DEF Retention!Start, Retention!End
    <2> QED  BY <2>1, RecordsKeepPreview
  <1>2. ASSUME NEW x \in Held,
               Retention!BeginExchange(x) \/ Retention!Finalize(x) \/ Retention!Normalize(x)
        PROVE  PreviewInv'
    <2>1. PICK record : Retention!Records(HolderOf[x], record)
      BY <1>2 DEF Retention!BeginExchange, Retention!Finalize, Retention!Normalize
    <2>2. HolderOf[x] \in Kept
      BY RetentionAssumption
    <2> QED  BY <2>1, <2>2, RecordsKeepPreview
  <1>3. ASSUME NEW x \in Held, Retention!StoreBody(x) PROVE PreviewInv'
    <2> DEFINE m == HomeOf[HolderOf[x]]
    <2>1. m \in Homes
      BY RetentionAssumption
    <2>2. store' = [store EXCEPT ![m].blobs = store[m].blobs \cup {BodyOf[x]}]
          /\ preview' = preview
      BY <1>3 DEF Retention!StoreBody
    <2> HIDE DEF m
    <2> QED  BY <2>1, <2>2, BlobsKeepPreview
  <1>4. ASSUME NEW m \in Homes, NEW s \in Kept, Retention!PlanSessionDeletion(m, s)
        PROVE  PreviewInv'
    BY <1>4, ExpandedIsClosed, PlanKeepsPreview DEF Retention!PlanSessionDeletion
  <1>5. ASSUME NEW m \in Homes, NEW cutoff, NEW limit,
               Retention!PlanEvidencePrune(m, cutoff, limit)
        PROVE  PreviewInv'
    BY <1>5, PrunedIsClosed, PlanKeepsPreview DEF Retention!PlanEvidencePrune
  <1>6. ASSUME Retention!RemoveUnreferenced PROVE PreviewInv'
    <2> DEFINE m == preview.store
    <2>1. /\ store' = [store EXCEPT ![m].blobs =
                 store[m].blobs \cap Retention!Referenced(store[m].sessions)]
          /\ preview'.pc # "shown"
      BY <1>6 DEF Retention!RemoveUnreferenced
    <2> HIDE DEF m
    <2> QED  BY <2>1, BlobsKeepPreview
  <1>7. ASSUME UNCHANGED <<store, preview>> PROVE PreviewInv'
    BY <1>7 DEF PreviewInv
  <1>8. ASSUME \/ \E m \in Homes, s \in Kept : \E profile : Retention!ReadSession(m, s, profile)
               \/ Retention!ReadEvents \/ Retention!ReadExchanges \/ Retention!ReadRuns
               \/ Retention!WriteArchive \/ \E a : Retention!Damage(a)
               \/ \E i, m, a : Retention!Check(i, m, a)
               \/ \E i : Retention!Crash(i)
               \/ UNCHANGED Retention!vars
        PROVE  UNCHANGED <<store, preview>>
    BY <1>8 DEF Retention!ReadSession, Retention!ReadEvents, Retention!ReadExchanges,
                Retention!ReadRuns, Retention!WriteArchive, Retention!Damage,
                Retention!ExportStep, Retention!Check, Retention!Crash, Retention!ImportStep,
                Retention!vars
  <1>9. ASSUME NEW i \in Imports, NEW x \in Held, Retention!PutBlob(i, BodyOf[x])
        PROVE  PreviewInv'
    <2> DEFINE m == importer[i].store
    <2>1. CASE store' = store /\ preview' = preview
      BY <1>7, <2>1
    <2>2. CASE /\ store' = [store EXCEPT ![m].blobs = store[m].blobs \cup {BodyOf[x]}]
               /\ preview' = preview
      <3> HIDE DEF m
      <3> QED  BY <2>2, BlobsKeepPreview
    <2> QED  BY <1>9, <2>1, <2>2 DEF Retention!PutBlob, Retention!ImportStep
  <1>10. ASSUME NEW i \in Imports, Retention!CleanUp(i) PROVE PreviewInv'
    <2> DEFINE m == importer[i].store
    <2>1. /\ store' = [store EXCEPT ![m].blobs = store[m].blobs
                           \ (importer[i].created \ Retention!Referenced(store[m].sessions))]
          /\ preview' = preview
      BY <1>10 DEF Retention!CleanUp, Retention!ImportStep
    <2> HIDE DEF m
    <2> QED  BY <2>1, BlobsKeepPreview
  <1>11. ASSUME NEW i \in Imports, Retention!Commit(i) PROVE PreviewInv'
    <2> DEFINE m == importer[i].store
               c == importer[i].archive.contents
               record == [Retention!Absent EXCEPT !.status = "imported-readonly",
                              !.events = c.events, !.origins = c.origins,
                              !.exchanges = c.exchanges, !.runs = c.runs]
               h == [store[m] EXCEPT !.sessions = [store[m].sessions EXCEPT ![c.session] = record]]
    <2>1. preview' = preview /\ (store' = store \/ store' = [store EXCEPT ![m] = h])
      BY <1>11 DEF Retention!Commit, Retention!ImportStep
    <2>2. m \in Homes => IsHome(h)
      <3> HIDE DEF record, m, c
      <3> QED  BY DEF PreviewInv, IsHome
    <2> HIDE DEF m, c, record, h
    <2> QED  BY <1>7, <2>1, <2>2, HomesStay
  <1> QED
    BY <1>1, <1>2, <1>3, <1>4, <1>5, <1>6, <1>7, <1>8, <1>9, <1>10, <1>11, DeletionKeepsPreview
    DEF Retention!Next

\* A deletion keeps what its preview promised.
LEMMA PreviewIsKept == PreviewInv => Retention!KeepsThePreview
  <1> SUFFICES ASSUME PreviewInv, Retention!ExecuteEvidenceDeletion, preview'.pc = "collecting"
               PROVE  LET rest == store'[preview.store].sessions IN
                      /\ store[preview.store].sessions = preview.sessions
                             => Retention!Usage(rest, {}) = preview.projected
                      /\ \A a \in Analyses :
                            rest[a].status # "absent" /\ TargetOf[a] \in preview.selected
                                => preview.sessions[a].status = "absent"
    BY DEF Retention!KeepsThePreview
  <1> DEFINE m == preview.store
             rest == [s \in Kept |-> IF s \in preview.selected THEN Retention!Absent
                                     ELSE store[m].sessions[s]]
  <1>1. /\ m \in Homes /\ preview.pc = "shown" /\ preview.selected \subseteq Kept
        /\ Retention!Linked(preview.sessions, preview.selected) \subseteq preview.selected
        /\ preview.projected = Retention!Usage(preview.sessions, preview.selected)
    BY DEF PreviewInv, Retention!ExecuteEvidenceDeletion
  <1>2. store'[m].sessions = rest
    <2>1. store' = [store EXCEPT ![m].sessions = rest]
      BY DEF Retention!ExecuteEvidenceDeletion
    <2> HIDE DEF m, rest
    <2> QED  BY <1>1, <2>1 DEF PreviewInv, IsHome
  <1>3. store[m].sessions = preview.sessions => Retention!Usage(rest, {}) = preview.projected
    BY <1>1, DeletionLeavesTheRest
  <1>4. ASSUME NEW a \in Analyses, rest[a].status # "absent", TargetOf[a] \in preview.selected
        PROVE  preview.sessions[a].status = "absent"
    <2>1. a \in Kept /\ a \notin preview.selected
      BY <1>4, RetentionAssumption DEF Retention!Absent
    <2> QED  BY <1>1, <1>4, <2>1 DEF Retention!Linked
  <1> HIDE DEF rest
  <1> QED  BY <1>2, <1>3, <1>4

-----------------------------------------------------------------------------
(* BlobStore.                                                              *)

LargeOnly == Blobs!Waiting \ {"verifying"}

\* The typing, and which contents and blobs a put works on at each point.
StoreTypes ==
    /\ Blobs!TypeOK
    /\ \A w \in Puts :
          /\ Blobs!At(w, "idle") => put[w] = Blobs!IdlePut
          /\ ~Blobs!At(w, "idle") => put[w].content \in PutContents[w]
          /\ put[w].pc \in LargeOnly => put[w].content \in External

\* A failed put is alone with its content until it is done, and takes the file
\* away only while no row refers to it.
FailureIsAlone ==
    \A w \in Puts : put[w].pc \in {"recovering", "unlinking"} =>
        /\ \A v \in Puts : Blobs!Underway(v) /\ put[v].content = put[w].content => v = w
        /\ Blobs!At(w, "unlinking") => put[w].content \notin rows

\* Between the rename and the insert nobody touches the files of a put.
PublishedStays ==
    \A w \in Puts :
        /\ Blobs!At(w, "renaming") => w \in temps
        /\ put[w].pc \in {"inserting", "confirming"} => put[w].content \in files

\* A collection runs alone, and what it unlinks has no row any more.
CollectorIsAlone ==
    collector # Blobs!IdleCollector =>
        /\ \A w \in Puts : ~Blobs!Underway(w)
        /\ collector.pc = "unlinking" => collector.contents \cap rows = {}

LargeRowsHaveFiles == rows \cap External \subseteq files

Undisturbed == FailureIsAlone /\ PublishedStays /\ CollectorIsAlone /\ LargeRowsHaveFiles

StoreInv == StoreTypes /\ (overlapping = {} => Undisturbed)

LimitedPuts == {w \in Puts : ProcessOf[w] \in Limited}
UnlimitedContents == UNION {PutContents[w] : w \in Puts \ LimitedPuts}

\* The puts that have passed the quota and have not inserted their row.
Admitted == {w \in LimitedPuts : put[w].pc \in {"looking", "writing", "renaming", "inserting"}}

\* Each put that is admitted has room reserved for it, as it were, in the bound.
QuotaInv ==
    /\ IsFiniteSet(rows)
    /\ Cardinality(rows \ UnlimitedContents) + Cardinality(Admitted)
         <= MaxStored + Cardinality(LimitedPuts) - 1

-----------------------------------------------------------------------------
(* Typing.                                                                 *)

\* A put that goes on keeps its content, one that ends forgets it, and no other
\* put is concerned.
LEMMA PutMoves ==
    ASSUME StoreTypes, NEW w \in Puts, ~Blobs!At(w, "idle")
    PROVE  /\ \A pc \in Blobs!Waiting \cup {"returned"} :
                 Blobs!Moves(w, pc) => /\ put' \in [Puts -> Blobs!PutStates]
                                       /\ \A v \in Puts \ {w} : put'[v] = put[v]
                                       /\ put'[w].pc = pc /\ put'[w].content = put[w].content
           /\ Blobs!Ends(w) => /\ put' \in [Puts -> Blobs!PutStates]
                               /\ \A v \in Puts \ {w} : put'[v] = put[v]
                               /\ put'[w] = Blobs!IdlePut
<1>1. /\ put \in [Puts -> Blobs!PutStates]
      /\ put[w] \in [pc : Blobs!Waiting \cup {"returned"}, content : BlobContents, existed : BOOLEAN]
  BY DEF StoreTypes, Blobs!TypeOK, Blobs!PutStates, Blobs!At, Blobs!IdlePut
<1>2. ASSUME NEW pc \in Blobs!Waiting \cup {"returned"}, Blobs!Moves(w, pc)
      PROVE  /\ put' \in [Puts -> Blobs!PutStates]
             /\ \A v \in Puts \ {w} : put'[v] = put[v]
             /\ put'[w].pc = pc /\ put'[w].content = put[w].content
  <2>1. [put[w] EXCEPT !.pc = pc] \in Blobs!PutStates
    BY <1>1 DEF Blobs!PutStates
  <2> QED  BY <1>1, <1>2, <2>1 DEF Blobs!Moves
<1>3. ASSUME Blobs!Ends(w)
      PROVE  /\ put' \in [Puts -> Blobs!PutStates]
             /\ \A v \in Puts \ {w} : put'[v] = put[v]
             /\ put'[w] = Blobs!IdlePut
  BY <1>1, <1>3 DEF Blobs!Ends, Blobs!PutStates
<1> QED  BY <1>2, <1>3

\* How a step of a put changes the progress of the puts.
PutGoes(w, new, content) ==
    /\ put' \in [Puts -> Blobs!PutStates]
    /\ \A v \in Puts \ {w} : put'[v] = put[v]
    /\ put'[w].pc = new
    /\ IF new = "idle" THEN put'[w] = Blobs!IdlePut ELSE put'[w].content = content

\* The beginnings of a put.
LEMMA PutBegins ==
    ASSUME StoreTypes, ConfigurationOK, NEW w \in Puts, NEW c \in BlobContents
    PROVE  /\ Blobs!PutExisting(w, c) => PutGoes(w, "verifying", c)
           /\ Blobs!PutInline(w, c) => PutGoes(w, "returned", c)
           /\ Blobs!PutExternal(w, c) => PutGoes(w, "looking", c)
<1>1. put \in [Puts -> Blobs!PutStates]
  BY DEF StoreTypes, Blobs!TypeOK
<1>2. ASSUME NEW pc \in Blobs!Waiting \cup {"returned"},
             put' = [put EXCEPT ![w] = [pc |-> pc, content |-> c, existed |-> FALSE]]
      PROVE  PutGoes(w, pc, c)
  <2>1. pc # "idle"
    BY DEF Blobs!Waiting
  <2> QED  BY <1>1, <1>2, <2>1 DEF PutGoes, Blobs!PutStates
<1> QED  BY <1>2 DEF Blobs!PutExisting, Blobs!PutInline, Blobs!PutExternal, Blobs!Waiting

\* The other steps of a put.
LEMMA PutGoesOn ==
    ASSUME StoreTypes, NEW w \in Puts
    PROVE  LET c == put[w].content
               found == c \in files \cup (BlobContents \ External)
           IN  /\ Blobs!LookForFile(w) => PutGoes(w, "writing", c)
               /\ Blobs!Write(w) => PutGoes(w, "renaming", c)
               /\ Blobs!Publish(w) => PutGoes(w, IF w \in temps THEN "inserting" ELSE "recovering", c)
               /\ Blobs!Insert(w) => PutGoes(w, IF c \in rows THEN "confirming" ELSE "returned", c)
               /\ Blobs!Verify(w) => \/ Blobs!At(w, "verifying") /\ PutGoes(w, IF found THEN "returned" ELSE "idle", c)
                                     \/ Blobs!At(w, "confirming") /\ PutGoes(w, IF found THEN "returned" ELSE "recovering", c)
               /\ Blobs!Fail(w) => PutGoes(w, "recovering", c)
               /\ Blobs!Recover(w) => \/ c \in rows /\ PutGoes(w, "verifying", c)
                                      \/ c \notin rows /\ PutGoes(w, "unlinking", c)
                                      \/ PutGoes(w, "idle", c)
               /\ Blobs!Unlink(w) \/ Blobs!Refer(w) \/ Blobs!GiveUp(w) => PutGoes(w, "idle", c)
<1> DEFINE c == put[w].content
           found == c \in files \cup (BlobContents \ External)
<1>1. ASSUME ~Blobs!At(w, "idle"), NEW pc \in Blobs!Waiting \cup {"returned"}, Blobs!Moves(w, pc)
      PROVE  PutGoes(w, pc, c)
  <2>1. pc # "idle"
    BY DEF Blobs!Waiting
  <2> QED  BY <1>1, <2>1, PutMoves DEF PutGoes
<1>2. ASSUME ~Blobs!At(w, "idle"), Blobs!Ends(w)  PROVE PutGoes(w, "idle", c)
  BY <1>2, PutMoves DEF PutGoes, Blobs!IdlePut
<1>3. ASSUME Blobs!LookForFile(w)  PROVE PutGoes(w, "writing", c)
  <2>1. /\ put[w] \in [pc : Blobs!Waiting \cup {"returned"}, content : BlobContents, existed : BOOLEAN]
        /\ put \in [Puts -> Blobs!PutStates]
    BY <1>3
       DEF Blobs!LookForFile, Blobs!At, StoreTypes, Blobs!TypeOK, Blobs!PutStates,
           Blobs!IdlePut
  <2>2. ASSUME NEW b \in BOOLEAN
        PROVE  [put[w] EXCEPT !.pc = "writing", !.existed = b] \in Blobs!PutStates
    BY <2>1 DEF Blobs!PutStates, Blobs!Waiting
  <2> DEFINE existed == put[w].content \in files
  <2>3. existed \in BOOLEAN /\ put' = [put EXCEPT ![w].pc = "writing", ![w].existed = existed]
    BY <1>3 DEF Blobs!LookForFile
  <2> HIDE DEF existed
  <2>4. put' \in [Puts -> Blobs!PutStates]
    BY <2>1, <2>2, <2>3
  <2>5. put'[w].pc = "writing" /\ put'[w].content = c /\ \A v \in Puts \ {w} : put'[v] = put[v]
    BY <2>1, <2>3
  <2> QED  BY <2>4, <2>5 DEF PutGoes
<1>4. ASSUME Blobs!Write(w)  PROVE PutGoes(w, "renaming", c)
  BY <1>1, <1>4 DEF Blobs!Write, Blobs!At, Blobs!Waiting
<1>5. ASSUME Blobs!Publish(w)  PROVE PutGoes(w, IF w \in temps THEN "inserting" ELSE "recovering", c)
  BY <1>1, <1>5 DEF Blobs!Publish, Blobs!At, Blobs!Waiting
<1>6. ASSUME Blobs!Insert(w)  PROVE PutGoes(w, IF c \in rows THEN "confirming" ELSE "returned", c)
  BY <1>1, <1>6 DEF Blobs!Insert, Blobs!At, Blobs!Waiting
<1>7. ASSUME Blobs!Verify(w)
      PROVE  \/ Blobs!At(w, "verifying") /\ PutGoes(w, IF found THEN "returned" ELSE "idle", c)
             \/ Blobs!At(w, "confirming") /\ PutGoes(w, IF found THEN "returned" ELSE "recovering", c)
  BY <1>1, <1>2, <1>7 DEF Blobs!Verify, Blobs!At, Blobs!Waiting
<1>8. ASSUME Blobs!Fail(w)  PROVE PutGoes(w, "recovering", c)
  BY <1>1, <1>8 DEF Blobs!Fail, Blobs!At, Blobs!Waiting
<1>9. ASSUME Blobs!Recover(w)
      PROVE  \/ c \in rows /\ PutGoes(w, "verifying", c)
             \/ c \notin rows /\ PutGoes(w, "unlinking", c)
             \/ PutGoes(w, "idle", c)
  BY <1>1, <1>2, <1>9 DEF Blobs!Recover, Blobs!At, Blobs!Waiting
<1>10. ASSUME Blobs!Unlink(w) \/ Blobs!Refer(w) \/ Blobs!GiveUp(w)  PROVE PutGoes(w, "idle", c)
  BY <1>2, <1>10 DEF Blobs!Unlink, Blobs!Refer, Blobs!GiveUp, Blobs!At
<1> QED  BY <1>3, <1>4, <1>5, <1>6, <1>7, <1>8, <1>9, <1>10

\* The types are kept when a put goes to a place where its content belongs.
LEMMA GoingKeepsTypes ==
    ASSUME StoreTypes, NEW w \in Puts, NEW new, NEW content, PutGoes(w, new, content),
           new # "idle" => content \in PutContents[w],
           new \in LargeOnly => content \in External
    PROVE  \A v \in Puts : /\ Blobs!At(v, "idle")' => put'[v] = Blobs!IdlePut
                           /\ ~Blobs!At(v, "idle")' => put'[v].content \in PutContents[v]
                           /\ put'[v].pc \in LargeOnly => put'[v].content \in External
<1>1. "idle" \notin LargeOnly
  BY DEF LargeOnly, Blobs!Waiting
<1> QED  BY <1>1 DEF PutGoes, StoreTypes, Blobs!At

\* Initially nothing is stored.
LEMMA InitStoreTypes == ConfigurationOK /\ Blobs!Init => StoreTypes
<1> SUFFICES ASSUME Blobs!Init  PROVE StoreTypes
  OBVIOUS
<1>1. /\ put \in [Puts -> Blobs!PutStates]
      /\ collector \in [pc : {"idle", "deleting", "unlinking"}, contents : SUBSET BlobContents]
  BY DEF Blobs!Init, Blobs!PutStates, Blobs!IdleCollector
<1>2. \A w \in Puts : put[w] = Blobs!IdlePut /\ put[w].pc = "idle"
  BY DEF Blobs!Init, Blobs!IdlePut
<1>3. "idle" \notin LargeOnly
  BY DEF LargeOnly, Blobs!Waiting
<1> QED  BY <1>1, <1>2, <1>3 DEF Blobs!Init, StoreTypes, Blobs!TypeOK, Blobs!At

\* The steps of a put keep the types.
LEMMA PutTypes ==
    ASSUME ConfigurationOK, StoreTypes, NEW w \in Puts, Blobs!PutStep(w)
    PROVE  StoreTypes'
<1> DEFINE x == put[w].content
<1> USE DEF ConfigurationOK
<1>1. /\ put \in [Puts -> Blobs!PutStates] /\ overlapping \in Uses /\ running \subseteq Processes
      /\ temps \subseteq Puts /\ files \subseteq External /\ rows \subseteq BlobContents /\ refs \subseteq rows
      /\ collector \in [pc : {"idle", "deleting", "unlinking"}, contents : SUBSET BlobContents]
  BY DEF StoreTypes, Blobs!TypeOK
<1>2. ~Blobs!At(w, "idle") => x \in PutContents[w] /\ x \in BlobContents
  BY DEF StoreTypes
<1>3. put[w].pc \in LargeOnly => x \in External
  BY DEF StoreTypes
<1>4. ASSUME NEW new, NEW c, PutGoes(w, new, c),
             new # "idle" => c \in PutContents[w], new \in LargeOnly => c \in External,
             UNCHANGED <<overlapping, running, collector>>, temps' \subseteq Puts, files' \subseteq External,
             rows' \subseteq BlobContents, refs' \subseteq rows'
      PROVE  StoreTypes'
  <2>1. put' \in [Puts -> Blobs!PutStates]
    BY <1>4 DEF PutGoes
  <2> QED  BY <1>1, <1>4, <2>1, GoingKeepsTypes DEF StoreTypes, Blobs!TypeOK
<1>5. ASSUME NEW c \in BlobContents, Blobs!PutExisting(w, c)  PROVE StoreTypes'
  <2>1. PutGoes(w, "verifying", c) /\ c \in PutContents[w]
    BY <1>5, PutBegins DEF Blobs!PutExisting, Blobs!Begins
  <2> QED  BY <1>1, <1>4, <1>5, <2>1 DEF Blobs!PutExisting, LargeOnly
<1>6. ASSUME NEW c \in BlobContents, Blobs!PutInline(w, c)  PROVE StoreTypes'
  <2>1. PutGoes(w, "returned", c) /\ c \in PutContents[w]
    BY <1>6, PutBegins DEF Blobs!PutInline, Blobs!Begins
  <2> QED  BY <1>1, <1>4, <1>6, <2>1 DEF Blobs!PutInline, LargeOnly, Blobs!Waiting
<1>7. ASSUME NEW c \in BlobContents, Blobs!PutExternal(w, c)  PROVE StoreTypes'
  <2>1. PutGoes(w, "looking", c) /\ c \in PutContents[w]
    BY <1>7, PutBegins DEF Blobs!PutExternal, Blobs!Begins
  <2> QED  BY <1>1, <1>4, <1>7, <2>1 DEF Blobs!PutExternal
<1>8. CASE Blobs!LookForFile(w)
  BY <1>1, <1>2, <1>3, <1>4, <1>8, PutGoesOn
     DEF Blobs!LookForFile, Blobs!At, LargeOnly, Blobs!Waiting
<1>9. CASE Blobs!Write(w)
  BY <1>1, <1>2, <1>3, <1>4, <1>9, PutGoesOn DEF Blobs!Write, Blobs!At, LargeOnly, Blobs!Waiting
<1>10. CASE Blobs!Publish(w)
  <2>1. x \in PutContents[w] /\ x \in External
    BY <1>2, <1>3, <1>10 DEF Blobs!Publish, Blobs!At, LargeOnly, Blobs!Waiting
  <2> QED  BY <1>1, <1>4, <1>10, <2>1, PutGoesOn DEF Blobs!Publish
<1>11. CASE Blobs!Insert(w)
  <2>1. x \in PutContents[w] /\ x \in External
    BY <1>2, <1>3, <1>11 DEF Blobs!Insert, Blobs!At, LargeOnly, Blobs!Waiting
  <2> QED  BY <1>1, <1>4, <1>11, <2>1, PutGoesOn DEF Blobs!Insert
<1>12. CASE Blobs!Verify(w)
  <2>1. x \in PutContents[w] /\ (Blobs!At(w, "confirming") => x \in External)
    BY <1>2, <1>3, <1>12 DEF Blobs!Verify, Blobs!Underway, Blobs!At, LargeOnly, Blobs!Waiting
  <2>2. UNCHANGED <<overlapping, running, rows, files, temps, refs, collector>>
    BY <1>12 DEF Blobs!Verify
  <2>3. "returned" \notin LargeOnly /\ "idle" \notin LargeOnly
    BY DEF LargeOnly, Blobs!Waiting
  <2>4. \E new \in {"returned", "idle", "recovering"} :
            PutGoes(w, new, x) /\ (new = "recovering" => Blobs!At(w, "confirming"))
    BY <1>12, PutGoesOn
  <2> QED  BY <1>1, <1>4, <2>1, <2>2, <2>3, <2>4
<1>13. CASE Blobs!Fail(w)
  <2>1. x \in PutContents[w] /\ x \in External
    BY <1>2, <1>3, <1>13 DEF Blobs!Fail, Blobs!At, LargeOnly, Blobs!Waiting
  <2> QED  BY <1>1, <1>4, <1>13, <2>1, PutGoesOn DEF Blobs!Fail
<1>14. CASE Blobs!Recover(w)
  <2>1. x \in PutContents[w] /\ x \in External
    BY <1>2, <1>3, <1>14 DEF Blobs!Recover, Blobs!At, LargeOnly, Blobs!Waiting
  <2> QED  BY <1>1, <1>4, <1>14, <2>1, PutGoesOn DEF Blobs!Recover
<1>15. CASE Blobs!Unlink(w) \/ Blobs!Refer(w) \/ Blobs!GiveUp(w)
  <2>1. "idle" \notin LargeOnly
    BY DEF LargeOnly, Blobs!Waiting
  <2> QED  BY <1>1, <1>4, <1>15, <2>1, PutGoesOn DEF Blobs!Unlink, Blobs!Refer, Blobs!GiveUp
<1> QED
  BY <1>5, <1>6, <1>7, <1>8, <1>9, <1>10, <1>11, <1>12, <1>13, <1>14, <1>15 DEF Blobs!PutStep

\* So do the openings of the store, the end of a process, and a collection.
LEMMA OtherTypes ==
    ASSUME ConfigurationOK, StoreTypes,
           \/ \E p \in Processes : Blobs!Open(p) \/ Blobs!Crash(p)
           \/ Blobs!Inspect \/ (\E c \in BlobContents : Blobs!Release(c))
           \/ Blobs!FindUnreferenced \/ Blobs!DeleteUnreferenced \/ Blobs!UnlinkCollected
    PROVE  StoreTypes'
<1>1. ASSUME UNCHANGED put  PROVE \A w \in Puts :
                                    /\ Blobs!At(w, "idle")' => put'[w] = Blobs!IdlePut
                                    /\ ~Blobs!At(w, "idle")' => put'[w].content \in PutContents[w]
                                    /\ put'[w].pc \in LargeOnly => put'[w].content \in External
  BY <1>1 DEF StoreTypes, Blobs!At
<1>2. ASSUME NEW p \in Processes, Blobs!Open(p)  PROVE StoreTypes'
  BY <1>1, <1>2 DEF Blobs!Open, Blobs!CleanTemps, StoreTypes, Blobs!TypeOK
<1>3. ASSUME NEW p \in Processes, Blobs!Crash(p)  PROVE StoreTypes'
  <2>1. put' = [w \in Puts |-> IF ProcessOf[w] = p THEN Blobs!IdlePut ELSE put[w]]
    BY <1>3 DEF Blobs!Crash
  <2>2. put' \in [Puts -> Blobs!PutStates] /\ \A w \in Puts : put'[w] \in {Blobs!IdlePut, put[w]}
    BY <2>1 DEF StoreTypes, Blobs!TypeOK, Blobs!PutStates
  <2>3. Blobs!IdlePut.pc = "idle" /\ "idle" \notin LargeOnly
    BY DEF Blobs!IdlePut, LargeOnly, Blobs!Waiting
  <2>4. \A w \in Puts : /\ Blobs!At(w, "idle")' => put'[w] = Blobs!IdlePut
                        /\ ~Blobs!At(w, "idle")' => put'[w].content \in PutContents[w]
                        /\ put'[w].pc \in LargeOnly => put'[w].content \in External
    BY <2>2, <2>3 DEF StoreTypes, Blobs!At
  <2> QED  BY <1>3, <2>2, <2>4 DEF Blobs!Crash, StoreTypes, Blobs!TypeOK
<1>4. CASE Blobs!Inspect
  BY <1>1, <1>4 DEF Blobs!Inspect, Blobs!CleanTemps, StoreTypes, Blobs!TypeOK
<1>5. ASSUME NEW c \in BlobContents, Blobs!Release(c)  PROVE StoreTypes'
  BY <1>1, <1>5 DEF Blobs!Release, StoreTypes, Blobs!TypeOK
<1>6. CASE Blobs!FindUnreferenced
  BY <1>1, <1>6 DEF Blobs!FindUnreferenced, StoreTypes, Blobs!TypeOK
<1>7. CASE Blobs!DeleteUnreferenced
  BY <1>1, <1>7 DEF Blobs!DeleteUnreferenced, StoreTypes, Blobs!TypeOK
<1>8. CASE Blobs!UnlinkCollected
  BY <1>1, <1>8 DEF Blobs!UnlinkCollected, Blobs!IdleCollector, StoreTypes, Blobs!TypeOK
<1> QED  BY <1>2, <1>3, <1>4, <1>5, <1>6, <1>7, <1>8

-----------------------------------------------------------------------------
(* Readability, in behaviours in which puts overlap only puts.             *)

\* A new put of a content that no failed put works on disturbs nothing.
LEMMA BeginsUndisturbed ==
    ASSUME ConfigurationOK, StoreTypes, overlapping = {}, Undisturbed,
           NEW w \in Puts, NEW c \in BlobContents,
           Blobs!PutExisting(w, c) \/ Blobs!PutInline(w, c) \/ Blobs!PutExternal(w, c)
    PROVE  Undisturbed'
<1>1. /\ put[w] = Blobs!IdlePut /\ collector = Blobs!IdleCollector
      /\ \A v \in Puts : Blobs!Underway(v) /\ put[v].content = c => put[v].pc \notin {"recovering", "unlinking"}
  BY DEF Blobs!PutExisting, Blobs!PutInline, Blobs!PutExternal, Blobs!Begins,
         Blobs!MayBegin, Blobs!UnderwayOf, Blobs!At
<1>2. PICK new \in {"verifying", "returned", "looking"} : PutGoes(w, new, c)
  BY PutBegins
<1>3. /\ UNCHANGED <<files, temps, collector>>
      /\ rows' = rows \/ (rows' = rows \cup {c} /\ c \notin External)
  BY DEF Blobs!PutExisting, Blobs!PutInline, Blobs!PutExternal
<1>4. /\ \A v \in Puts \ {w} : put'[v] = put[v]
      /\ put'[w].pc \in {"verifying", "returned", "looking"} /\ put'[w].content = c
  BY <1>2 DEF PutGoes
<1>5. /\ {"recovering", "unlinking"} \subseteq Blobs!Waiting
      /\ {"recovering", "unlinking"} \subseteq LargeOnly
  BY DEF Blobs!Waiting, LargeOnly
<1>6. \A v \in Puts \ {w} : put[v].pc \in {"recovering", "unlinking"} =>
          put[v].content # c /\ put[v].content \in External
  BY <1>1, <1>5 DEF Blobs!Underway, StoreTypes
<1>7. FailureIsAlone'
  BY <1>3, <1>4, <1>6 DEF Undisturbed, FailureIsAlone, Blobs!Underway, Blobs!At
<1>8. PublishedStays'
  BY <1>3, <1>4 DEF Undisturbed, PublishedStays, Blobs!At
<1>9. CollectorIsAlone'
  BY <1>1, <1>3 DEF CollectorIsAlone
<1>10. LargeRowsHaveFiles'
  BY <1>3 DEF Undisturbed, LargeRowsHaveFiles
<1> QED  BY <1>7, <1>8, <1>9, <1>10 DEF Undisturbed

\* Nor does a put that is under way: it publishes its file before its row, and a
\* failed one unlinks its file only where there is no row.
LEMMA GoingOnUndisturbed ==
    ASSUME ConfigurationOK, StoreTypes, overlapping = {}, Undisturbed, NEW w \in Puts,
           \/ Blobs!LookForFile(w) \/ Blobs!Write(w) \/ Blobs!Publish(w) \/ Blobs!Insert(w) \/ Blobs!Verify(w)
           \/ Blobs!Fail(w) \/ Blobs!Recover(w) \/ Blobs!Unlink(w)
    PROVE  Undisturbed'
<1> DEFINE c == put[w].content
<1>1. put[w].pc \in Blobs!Waiting
  BY DEF Blobs!LookForFile, Blobs!Write,
         Blobs!Publish, Blobs!Insert, Blobs!Verify, Blobs!Fail, Blobs!Recover, Blobs!Unlink, Blobs!Underway, Blobs!At, Blobs!Waiting
<1>2. collector = Blobs!IdleCollector /\ UNCHANGED collector
  BY <1>1
     DEF Undisturbed, CollectorIsAlone, Blobs!Underway, Blobs!LookForFile, Blobs!Write,
         Blobs!Publish, Blobs!Insert, Blobs!Verify, Blobs!Fail,
              Blobs!Recover, Blobs!Unlink
<1>3. CollectorIsAlone'
  BY <1>2 DEF CollectorIsAlone
<1>4. ASSUME NEW new, PutGoes(w, new, c)
      PROVE  /\ \A v \in Puts \ {w} : put'[v] = put[v]
             /\ put'[w].pc = new /\ (new # "idle" => put'[w].content = c)
  BY <1>4 DEF PutGoes
<1>5. ASSUME NEW new \in {"writing", "renaming", "inserting", "confirming", "returned", "verifying", "idle"},
             PutGoes(w, new, c), UNCHANGED rows
      PROVE  FailureIsAlone'
  <2>1. "idle" \notin Blobs!Waiting /\ "returned" \notin Blobs!Waiting
    BY DEF Blobs!Waiting
  <2> QED  BY <1>1, <1>4, <1>5, <2>1 DEF Undisturbed, FailureIsAlone, Blobs!Underway, Blobs!At
<1>6. ASSUME PutGoes(w, "recovering", c), UNCHANGED rows,
             \A v \in Puts : Blobs!Underway(v) /\ put[v].content = c => v = w
      PROVE  FailureIsAlone'
  BY <1>1, <1>4, <1>6 DEF Undisturbed, FailureIsAlone, Blobs!Underway, Blobs!At
<1>7. CASE Blobs!LookForFile(w)
  <2>1. PutGoes(w, "writing", c) /\ UNCHANGED <<rows, files, temps>>
    BY <1>7, PutGoesOn DEF Blobs!LookForFile
  <2>2. PublishedStays'
    BY <1>4, <2>1 DEF Undisturbed, PublishedStays, Blobs!At
  <2> QED  BY <1>3, <1>5, <2>1, <2>2 DEF Undisturbed, LargeRowsHaveFiles
<1>8. CASE Blobs!Write(w)
  <2>1. PutGoes(w, "renaming", c) /\ UNCHANGED <<rows, files>> /\ temps' = temps \cup {w}
    BY <1>8, PutGoesOn DEF Blobs!Write
  <2>2. PublishedStays'
    BY <1>4, <2>1 DEF Undisturbed, PublishedStays, Blobs!At
  <2> QED  BY <1>3, <1>5, <2>1, <2>2 DEF Undisturbed, LargeRowsHaveFiles
<1>9. CASE Blobs!Publish(w)
  <2>1. w \in temps
    BY <1>9 DEF Blobs!Publish, Undisturbed, PublishedStays, Blobs!At
  <2>2. PutGoes(w, "inserting", c) /\ UNCHANGED rows /\ files' = files \cup {c} /\ temps' = temps \ {w}
    BY <1>9, <2>1, PutGoesOn DEF Blobs!Publish
  <2>3. PublishedStays'
    BY <1>4, <2>2 DEF Undisturbed, PublishedStays, Blobs!At
  <2> QED  BY <1>3, <1>5, <2>2, <2>3 DEF Undisturbed, LargeRowsHaveFiles
<1>10. CASE Blobs!Insert(w)
  <2>1. c \in files /\ put[w].pc = "inserting" /\ rows' = rows \cup {c} /\ UNCHANGED <<files, temps>>
    BY <1>10 DEF Blobs!Insert, Undisturbed, PublishedStays, Blobs!At
  <2>2. PICK new \in {"confirming", "returned"} : PutGoes(w, new, c)
    BY <1>10, PutGoesOn
  <2>3. \A v \in Puts : put[v].pc \in {"recovering", "unlinking"} => put[v].content # c
    BY <1>1, <2>1 DEF Undisturbed, FailureIsAlone, Blobs!Underway
  <2>4. FailureIsAlone'
    <3>1. "returned" \notin Blobs!Waiting
      BY DEF Blobs!Waiting
    <3> QED  BY <1>1, <1>4, <2>1, <2>2, <2>3, <3>1
                DEF Undisturbed, FailureIsAlone, Blobs!Underway, Blobs!At
  <2>5. PublishedStays'
    BY <1>4, <2>1, <2>2 DEF Undisturbed, PublishedStays, Blobs!At
  <2> QED  BY <1>3, <2>1, <2>4, <2>5 DEF Undisturbed, LargeRowsHaveFiles
<1>11. CASE Blobs!Verify(w)
  <2>1. UNCHANGED <<rows, files, temps>>
    BY <1>11 DEF Blobs!Verify
  <2>2. Blobs!At(w, "confirming") => c \in files \cup (BlobContents \ External)
    BY DEF Undisturbed, PublishedStays, Blobs!At
  <2>3. PICK new \in {"returned", "idle"} : PutGoes(w, new, c)
    BY <1>11, <2>2, PutGoesOn
  <2>4. PublishedStays'
    BY <1>4, <2>1, <2>3 DEF Undisturbed, PublishedStays, Blobs!At
  <2> QED  BY <1>3, <1>5, <2>1, <2>3, <2>4 DEF Undisturbed, LargeRowsHaveFiles
<1>12. CASE Blobs!Fail(w)
  <2>1. PutGoes(w, "recovering", c) /\ UNCHANGED <<rows, files>> /\ temps' = temps \ {w}
    BY <1>12, PutGoesOn DEF Blobs!Fail
  <2>2. \A v \in Puts : Blobs!Underway(v) /\ put[v].content = c => v = w
    BY <1>12 DEF Blobs!Fail, Blobs!UnderwayOf
  <2>3. PublishedStays'
    BY <1>4, <2>1 DEF Undisturbed, PublishedStays, Blobs!At
  <2> QED  BY <1>3, <1>6, <2>1, <2>2, <2>3 DEF Undisturbed, LargeRowsHaveFiles
<1>13. CASE Blobs!Recover(w)
  <2>1. put[w].pc = "recovering" /\ UNCHANGED <<rows, files, temps>>
    BY <1>13 DEF Blobs!Recover, Blobs!At
  <2>2. \/ PutGoes(w, "verifying", c) \/ PutGoes(w, "idle", c)
        \/ c \notin rows /\ PutGoes(w, "unlinking", c)
    BY <1>13, PutGoesOn
  <2>3. FailureIsAlone'
    <3>1. CASE c \notin rows /\ PutGoes(w, "unlinking", c)
      <4>1. "unlinking" \in Blobs!Waiting
        BY DEF Blobs!Waiting
      <4> QED  BY <1>1, <1>4, <2>1, <3>1, <4>1
                  DEF Undisturbed, FailureIsAlone, Blobs!Underway, Blobs!At
    <3> QED  BY <1>5, <2>1, <2>2, <3>1
  <2>4. PublishedStays'
    BY <1>4, <2>1, <2>2 DEF Undisturbed, PublishedStays, Blobs!At
  <2> QED  BY <1>3, <2>1, <2>3, <2>4 DEF Undisturbed, LargeRowsHaveFiles
<1>14. CASE Blobs!Unlink(w)
  <2>1. /\ PutGoes(w, "idle", c) /\ UNCHANGED <<rows, temps>> /\ files' = files \ {c}
        /\ put[w].pc = "unlinking"
    BY <1>14, PutGoesOn DEF Blobs!Unlink, Blobs!At
  <2>2. c \notin rows /\ \A v \in Puts : Blobs!Underway(v) /\ put[v].content = c => v = w
    BY <2>1 DEF Undisturbed, FailureIsAlone, Blobs!At
  <2>3. PublishedStays'
    <3>1. {"inserting", "confirming"} \subseteq Blobs!Waiting
      BY DEF Blobs!Waiting
    <3> QED  BY <1>4, <2>1, <2>2, <3>1 DEF Undisturbed, PublishedStays, Blobs!Underway, Blobs!At
  <2> QED  BY <1>3, <1>5, <2>1, <2>2, <2>3 DEF Undisturbed, LargeRowsHaveFiles
<1> QED  BY <1>7, <1>8, <1>9, <1>10, <1>11, <1>12, <1>13, <1>14

\* Nor do the end of a put, the openings of the store, the end of a process, and
\* a collection, which waits for the puts.
LEMMA OthersUndisturbed ==
    ASSUME ConfigurationOK, StoreTypes, overlapping = {}, Undisturbed,
           \/ \E w \in Puts : Blobs!Refer(w) \/ Blobs!GiveUp(w)
           \/ \E p \in Processes : Blobs!Open(p) \/ Blobs!Crash(p)
           \/ Blobs!Inspect \/ (\E c \in BlobContents : Blobs!Release(c))
           \/ Blobs!FindUnreferenced \/ Blobs!DeleteUnreferenced \/ Blobs!UnlinkCollected
    PROVE  Undisturbed'
<1>1. {"renaming", "inserting", "confirming", "recovering", "unlinking"} \subseteq Blobs!Waiting
      /\ "idle" \notin Blobs!Waiting /\ "returned" \notin Blobs!Waiting /\ Blobs!IdlePut.pc = "idle"
  BY DEF Blobs!Waiting, Blobs!IdlePut
<1>2. ASSUME UNCHANGED <<rows, files, collector>>, \A w \in Puts : put'[w] \in {Blobs!IdlePut, put[w]},
             \A w \in Puts : put[w].pc = "renaming" => put'[w] = Blobs!IdlePut \/ w \in temps'
      PROVE  Undisturbed'
  <2>1. \A w \in Puts : put'[w] = put[w] \/ put'[w].pc = "idle"
    BY <1>1, <1>2
  <2>2. FailureIsAlone'
    BY <1>1, <1>2, <2>1 DEF Undisturbed, FailureIsAlone, Blobs!Underway, Blobs!At
  <2>3. PublishedStays'
    BY <1>1, <1>2 DEF Undisturbed, PublishedStays, Blobs!At
  <2>4. CollectorIsAlone'
    BY <1>1, <1>2, <2>1 DEF Undisturbed, CollectorIsAlone, Blobs!Underway
  <2> QED  BY <1>2, <2>2, <2>3, <2>4 DEF Undisturbed, LargeRowsHaveFiles
<1>3. ASSUME NEW w \in Puts, Blobs!Refer(w) \/ Blobs!GiveUp(w)  PROVE Undisturbed'
  <2>1. PutGoes(w, "idle", put[w].content) /\ UNCHANGED <<rows, files, temps, collector>>
    BY <1>3, PutGoesOn DEF Blobs!Refer, Blobs!GiveUp
  <2>2. \A v \in Puts : put'[v] \in {Blobs!IdlePut, put[v]}
    BY <2>1 DEF PutGoes
  <2> QED  BY <1>2, <2>1, <2>2 DEF Undisturbed, PublishedStays, Blobs!At
<1>4. ASSUME Blobs!CleanTemps, UNCHANGED <<rows, files, collector, put>>  PROVE Undisturbed'
  <2>1. \A w \in temps : ~Blobs!Underway(w)
    BY <1>4 DEF Blobs!CleanTemps
  <2>2. \A w \in Puts : put[w].pc # "renaming"
    BY <1>1, <2>1 DEF Undisturbed, PublishedStays, Blobs!Underway, Blobs!At
  <2> QED  BY <1>2, <1>4, <2>2
<1>5. ASSUME NEW p \in Processes, Blobs!Crash(p)  PROVE Undisturbed'
  <2>1. /\ UNCHANGED <<rows, files, temps, collector>>
        /\ \A w \in Puts : put'[w] \in {Blobs!IdlePut, put[w]}
    BY <1>5 DEF Blobs!Crash
  <2> QED  BY <1>2, <2>1 DEF Undisturbed, PublishedStays, Blobs!At
<1>6. ASSUME NEW c \in BlobContents, Blobs!Release(c)  PROVE Undisturbed'
  BY <1>2, <1>6 DEF Blobs!Release, Undisturbed, PublishedStays, Blobs!At
<1>7. CASE Blobs!FindUnreferenced
  <2>1. /\ UNCHANGED <<rows, files, temps, put>> /\ collector'.pc = "deleting"
        /\ \A w \in Puts : ~Blobs!Underway(w)
    BY <1>7 DEF Blobs!FindUnreferenced
  <2>2. CollectorIsAlone'
    BY <2>1 DEF CollectorIsAlone, Blobs!Underway
  <2> QED  BY <2>1, <2>2
              DEF Undisturbed, FailureIsAlone, PublishedStays, LargeRowsHaveFiles,
                  Blobs!Underway, Blobs!At
<1>8. CASE Blobs!DeleteUnreferenced
  <2>1. UNCHANGED <<files, temps, put>> /\ \A w \in Puts : ~Blobs!Underway(w)
    BY <1>8 DEF Blobs!DeleteUnreferenced, Undisturbed, CollectorIsAlone, Blobs!IdleCollector
  <2>2. rows' \subseteq rows /\ collector'.contents \cap rows' = {}
    BY <1>8 DEF Blobs!DeleteUnreferenced
  <2>3. CollectorIsAlone'
    BY <2>1, <2>2 DEF CollectorIsAlone, Blobs!Underway
  <2> QED  BY <1>1, <2>1, <2>2, <2>3
              DEF Undisturbed, FailureIsAlone, PublishedStays, LargeRowsHaveFiles,
                  Blobs!Underway, Blobs!At
<1>9. CASE Blobs!UnlinkCollected
  <2>1. UNCHANGED <<rows, temps, put>> /\ collector' = Blobs!IdleCollector /\ collector.pc = "unlinking"
    BY <1>9 DEF Blobs!UnlinkCollected
  <2>2. collector.contents \cap rows = {} /\ \A w \in Puts : ~Blobs!Underway(w)
    BY <2>1 DEF Undisturbed, CollectorIsAlone, Blobs!IdleCollector
  <2>3. PICK gone \in SUBSET collector.contents : files' = files \ gone
    BY <1>9 DEF Blobs!UnlinkCollected
  <2>4. CollectorIsAlone'
    BY <2>1 DEF CollectorIsAlone
  <2> QED  BY <1>1, <2>1, <2>2, <2>3, <2>4
              DEF Undisturbed, FailureIsAlone, PublishedStays, LargeRowsHaveFiles,
                  Blobs!Underway, Blobs!At
<1> QED  BY <1>3, <1>4, <1>5, <1>6, <1>7, <1>8, <1>9 DEF Blobs!Open, Blobs!Inspect

\* Initially no put is under way and nothing is stored.
LEMMA InitStore == ConfigurationOK /\ Blobs!Init => StoreInv
<1> SUFFICES ASSUME ConfigurationOK, Blobs!Init  PROVE StoreInv
  OBVIOUS
<1>1. \A w \in Puts : put[w].pc = "idle"
  BY DEF Blobs!Init, Blobs!IdlePut
<1>2. Undisturbed
  BY <1>1
     DEF Blobs!Init, Undisturbed, FailureIsAlone, PublishedStays, CollectorIsAlone,
         LargeRowsHaveFiles, Blobs!At
<1> QED  BY <1>2, InitStoreTypes DEF StoreInv

\* No step breaks the invariant.
LEMMA StepStore == ConfigurationOK /\ StoreInv /\ [Blobs!Next]_(Blobs!vars) => StoreInv'
<1> SUFFICES ASSUME ConfigurationOK, StoreInv, [Blobs!Next]_(Blobs!vars)  PROVE StoreInv'
  OBVIOUS
<1> USE DEF StoreInv
<1>1. UNCHANGED overlapping
  BY DEF Blobs!Next, Blobs!vars, Blobs!PutStep, Blobs!Open, Blobs!Crash, Blobs!Inspect,
         Blobs!Release, Blobs!FindUnreferenced, Blobs!DeleteUnreferenced,
         Blobs!UnlinkCollected, Blobs!PutExisting, Blobs!PutInline, Blobs!PutExternal, Blobs!LookForFile, Blobs!Write,
         Blobs!Publish, Blobs!Insert, Blobs!Verify, Blobs!Fail, Blobs!Recover, Blobs!Unlink, Blobs!Refer, Blobs!GiveUp
<1>2. ASSUME NEW w \in Puts, Blobs!PutStep(w)  PROVE StoreInv'
  <2>1. StoreTypes'
    BY <1>2, PutTypes
  <2>2. ASSUME overlapping = {}  PROVE Undisturbed'
    BY <1>2, <2>2, BeginsUndisturbed, GoingOnUndisturbed, OthersUndisturbed DEF Blobs!PutStep
  <2> QED  BY <1>1, <2>1, <2>2
<1>3. ASSUME \/ \E p \in Processes : Blobs!Open(p) \/ Blobs!Crash(p)
             \/ Blobs!Inspect \/ (\E c \in BlobContents : Blobs!Release(c))
             \/ Blobs!FindUnreferenced \/ Blobs!DeleteUnreferenced \/ Blobs!UnlinkCollected
      PROVE  StoreInv'
  <2>1. StoreTypes'
    BY <1>3, OtherTypes
  <2>2. ASSUME overlapping = {}  PROVE Undisturbed'
    BY <1>3, <2>2, OthersUndisturbed
  <2> QED  BY <1>1, <2>1, <2>2
<1>4. CASE UNCHANGED Blobs!vars
  BY <1>4
     DEF Blobs!vars, StoreTypes, Blobs!TypeOK, Undisturbed, FailureIsAlone, PublishedStays,
         CollectorIsAlone,
              LargeRowsHaveFiles, Blobs!At, Blobs!Underway
<1> QED  BY <1>2, <1>3, <1>4 DEF Blobs!Next

-----------------------------------------------------------------------------
(* The quota.                                                              *)

\* Of two finite sets the smaller has no more elements.
LEMMA SubsetSize ==
    ASSUME NEW S, IsFiniteSet(S), NEW T \in SUBSET S
    PROVE  IsFiniteSet(T) /\ Cardinality(T) \in Nat /\ Cardinality(S) \in Nat
             /\ Cardinality(T) <= Cardinality(S)
<1>1. IsFiniteSet(T) /\ Cardinality(T) <= Cardinality(S)
  BY FS_Subset
<1> QED  BY <1>1, FS_CardinalityType

\* A step that stores nothing new outside the contents of the unlimited
\* processes, and admits nobody, keeps the bound.
LEMMA NothingAdmitted ==
    ASSUME ConfigurationOK, QuotaInv, IsFiniteSet(rows'),
           rows' \ UnlimitedContents \subseteq rows \ UnlimitedContents, Admitted' \subseteq Admitted
    PROVE  QuotaInv'
<1>1. IsFiniteSet(rows \ UnlimitedContents)
  BY SubsetSize DEF QuotaInv
<1>2. IsFiniteSet(LimitedPuts) /\ IsFiniteSet(Admitted)
  BY SubsetSize DEF ConfigurationOK, LimitedPuts, Admitted
<1>3. /\ Cardinality(rows' \ UnlimitedContents) \in Nat /\ Cardinality(rows \ UnlimitedContents) \in Nat
      /\ Cardinality(rows' \ UnlimitedContents) <= Cardinality(rows \ UnlimitedContents)
  BY <1>1, SubsetSize
<1>4. /\ Cardinality(Admitted') \in Nat /\ Cardinality(Admitted) \in Nat
      /\ Cardinality(Admitted') <= Cardinality(Admitted)
  BY <1>2, SubsetSize
<1>5. Cardinality(LimitedPuts) \in Nat /\ MaxStored \in Nat
  BY <1>2, FS_CardinalityType DEF ConfigurationOK
<1>6. Cardinality(rows' \ UnlimitedContents) + Cardinality(Admitted')
         <= MaxStored + Cardinality(LimitedPuts) - 1
  BY <1>3, <1>4, <1>5 DEF QuotaInv
<1> QED  BY <1>6 DEF QuotaInv, LimitedPuts, UnlimitedContents

\* A put that begins when the store has room for it counts as stored.
LEMMA BeginsWithinQuota ==
    ASSUME ConfigurationOK, StoreTypes, QuotaInv, NEW w \in Puts, NEW c \in BlobContents,
           Blobs!PutExisting(w, c) \/ Blobs!PutInline(w, c) \/ Blobs!PutExternal(w, c)
    PROVE  QuotaInv'
<1>1. put[w].pc = "idle" /\ c \in PutContents[w]
  BY DEF Blobs!PutExisting, Blobs!PutInline, Blobs!PutExternal, Blobs!Begins, Blobs!IdlePut
<1>2. /\ Blobs!PutExisting(w, c) => PutGoes(w, "verifying", c)
      /\ Blobs!PutInline(w, c) => PutGoes(w, "returned", c)
      /\ Blobs!PutExternal(w, c) => PutGoes(w, "looking", c)
  BY PutBegins
<1>3. \A v \in Puts \ {w} : put'[v] = put[v]
  BY <1>2 DEF PutGoes
<1>4. Admitted' \subseteq Admitted \cup {w}
  BY <1>3 DEF Admitted, LimitedPuts
<1>5. IsFiniteSet(LimitedPuts) /\ w \notin Admitted /\ Admitted' \subseteq LimitedPuts
  BY <1>1, SubsetSize DEF ConfigurationOK, LimitedPuts, Admitted
<1>6. /\ IsFiniteSet(rows) /\ Cardinality(rows) \in Nat /\ Cardinality(LimitedPuts) \in Nat /\ MaxStored \in Nat
  BY <1>5, FS_CardinalityType DEF QuotaInv, ConfigurationOK
<1>7. IsFiniteSet(rows')
  BY <1>6, FS_AddElement DEF Blobs!PutExisting, Blobs!PutInline, Blobs!PutExternal
<1>8. CASE Blobs!PutExisting(w, c)
  <2>1. Admitted' \subseteq Admitted
    BY <1>2, <1>4, <1>8 DEF PutGoes, Admitted
  <2> QED  BY <1>7, <1>8, <2>1, NothingAdmitted DEF Blobs!PutExisting
<1>9. CASE w \notin LimitedPuts
  <2>1. c \in UnlimitedContents
    BY <1>1, <1>9 DEF UnlimitedContents
  <2>2. Admitted' \subseteq Admitted
    BY <1>4, <1>5, <1>9
  <2>3. rows' \ UnlimitedContents \subseteq rows \ UnlimitedContents
    BY <2>1 DEF Blobs!PutExisting, Blobs!PutInline, Blobs!PutExternal
  <2> QED  BY <1>7, <2>2, <2>3, NothingAdmitted
<1>10. CASE Blobs!PutInline(w, c) /\ w \in LimitedPuts
  <2>1. Cardinality(rows) + 1 <= MaxStored /\ rows' = rows \cup {c} /\ c \notin rows
    BY <1>10 DEF Blobs!PutInline, Blobs!WithinQuota, Blobs!Cardinality, Cardinality, LimitedPuts
  <2>2. Cardinality(rows') = Cardinality(rows) + 1
    BY <1>6, <2>1, FS_AddElement
  <2>3. /\ Cardinality(rows' \ UnlimitedContents) \in Nat
        /\ Cardinality(rows' \ UnlimitedContents) <= Cardinality(rows')
    BY <1>7, SubsetSize
  <2>4. Admitted' \subseteq LimitedPuts \ {w}
    BY <1>2, <1>5, <1>10 DEF PutGoes, Admitted
  <2>5. IsFiniteSet(LimitedPuts \ {w}) /\ Cardinality(LimitedPuts \ {w}) = Cardinality(LimitedPuts) - 1
    BY <1>5, <1>10, FS_RemoveElement
  <2>6. Cardinality(Admitted') \in Nat /\ Cardinality(Admitted') <= Cardinality(LimitedPuts) - 1
    BY <2>4, <2>5, SubsetSize
  <2>7. Cardinality(rows' \ UnlimitedContents) + Cardinality(Admitted') <= MaxStored + Cardinality(LimitedPuts) - 1
    BY <1>6, <2>1, <2>2, <2>3, <2>6
  <2> QED  BY <1>7, <2>7 DEF QuotaInv, LimitedPuts, UnlimitedContents
<1>11. CASE Blobs!PutExternal(w, c) /\ w \in LimitedPuts
  <2>1. Cardinality(rows) + 1 <= MaxStored /\ rows' = rows
    BY <1>11
       DEF Blobs!PutExternal, Blobs!WithinQuota, Blobs!Cardinality, Cardinality, LimitedPuts
  <2>2. /\ Cardinality(rows \ UnlimitedContents) \in Nat
        /\ Cardinality(rows \ UnlimitedContents) <= Cardinality(rows)
    BY <1>6, SubsetSize
  <2>3. Cardinality(Admitted') \in Nat /\ Cardinality(Admitted') <= Cardinality(LimitedPuts)
    BY <1>5, SubsetSize
  <2>4. Cardinality(rows' \ UnlimitedContents) + Cardinality(Admitted') <= MaxStored + Cardinality(LimitedPuts) - 1
    BY <1>6, <2>1, <2>2, <2>3
  <2> QED  BY <1>7, <2>4 DEF QuotaInv, LimitedPuts, UnlimitedContents
<1> QED  BY <1>8, <1>9, <1>10, <1>11

\* The row of an admitted put takes the room that was reserved for it.
LEMMA InsertWithinQuota ==
    ASSUME ConfigurationOK, StoreTypes, QuotaInv, NEW w \in Puts, Blobs!Insert(w)
    PROVE  QuotaInv'
<1> DEFINE c == put[w].content
<1>1. put[w].pc = "inserting" /\ rows' = rows \cup {c} /\ c \in PutContents[w]
  BY DEF Blobs!Insert, Blobs!At, StoreTypes
<1>2. PICK new \in {"confirming", "returned"} : PutGoes(w, new, c)
  BY PutGoesOn
<1>3. Admitted' = Admitted \ {w}
  BY <1>2 DEF PutGoes, Admitted, LimitedPuts
<1>4. IsFiniteSet(rows')
  BY <1>1, FS_AddElement DEF QuotaInv
<1>5. CASE w \notin LimitedPuts
  <2>1. c \in UnlimitedContents
    BY <1>1, <1>5 DEF UnlimitedContents
  <2> QED  BY <1>1, <1>3, <1>4, <2>1, NothingAdmitted
<1>6. CASE w \in LimitedPuts
  <2> DEFINE R == rows \ UnlimitedContents
  <2>1. IsFiniteSet(R) /\ IsFiniteSet(LimitedPuts) /\ IsFiniteSet(Admitted) /\ w \in Admitted
    BY <1>1, <1>6, SubsetSize DEF QuotaInv, ConfigurationOK, LimitedPuts, Admitted
  <2>2. IsFiniteSet(R \cup {c}) /\ Cardinality(R \cup {c}) <= Cardinality(R) + 1
    <3>1. Cardinality(R) \in Nat
      BY <2>1, FS_CardinalityType
    <3>2. /\ IsFiniteSet(R \cup {c})
          /\ Cardinality(R \cup {c}) = Cardinality(R) \/ Cardinality(R \cup {c}) = Cardinality(R) + 1
      BY <2>1, FS_AddElement
    <3> HIDE DEF R, c
    <3> QED  BY <3>1, <3>2
  <2>3. rows' \ UnlimitedContents \subseteq R \cup {c}
    BY <1>1
  <2>4. /\ Cardinality(rows' \ UnlimitedContents) \in Nat /\ Cardinality(R \cup {c}) \in Nat
        /\ Cardinality(rows' \ UnlimitedContents) <= Cardinality(R \cup {c})
    BY <2>2, <2>3, SubsetSize
  <2>5. Cardinality(Admitted') = Cardinality(Admitted) - 1
    BY <1>3, <2>1, FS_RemoveElement
  <2>6. /\ Cardinality(R) \in Nat /\ Cardinality(Admitted) \in Nat /\ Cardinality(LimitedPuts) \in Nat
        /\ MaxStored \in Nat
    BY <2>1, FS_CardinalityType DEF ConfigurationOK
  <2>7. Cardinality(R) + Cardinality(Admitted) <= MaxStored + Cardinality(LimitedPuts) - 1
    BY DEF QuotaInv
  <2>8. Cardinality(rows' \ UnlimitedContents) + Cardinality(Admitted') <= MaxStored + Cardinality(LimitedPuts) - 1
    <3> HIDE DEF R, c
    <3> QED  BY <2>2, <2>4, <2>5, <2>6, <2>7
  <2> QED  BY <1>4, <2>8 DEF QuotaInv, LimitedPuts, UnlimitedContents
<1> QED  BY <1>5, <1>6

\* The bound holds initially, and every step keeps it.
LEMMA InitQuota == ConfigurationOK /\ Blobs!Init => QuotaInv
<1> SUFFICES ASSUME ConfigurationOK, Blobs!Init  PROVE QuotaInv
  OBVIOUS
<1>1. Admitted = {} /\ rows = {} /\ rows \ UnlimitedContents = {}
  BY DEF Blobs!Init, Admitted, LimitedPuts, Blobs!IdlePut
<1>2. IsFiniteSet({}) /\ Cardinality({}) = 0
  BY FS_EmptySet
<1>3. IsFiniteSet(LimitedPuts)
  BY SubsetSize DEF ConfigurationOK, LimitedPuts
<1>4. Cardinality(LimitedPuts) \in Nat /\ MaxStored \in Nat \ {0}
  BY <1>3, FS_CardinalityType DEF ConfigurationOK
<1> QED  BY <1>1, <1>2, <1>4 DEF QuotaInv

\* Every step keeps the bound on what is stored beyond the ceiling.
LEMMA StepQuota == ConfigurationOK /\ StoreTypes /\ QuotaInv /\ [Blobs!Next]_(Blobs!vars) => QuotaInv'
<1> SUFFICES ASSUME ConfigurationOK, StoreTypes, QuotaInv, [Blobs!Next]_(Blobs!vars)  PROVE QuotaInv'
  OBVIOUS
<1>1. ASSUME NEW w \in Puts, Blobs!LookForFile(w) \/ Blobs!Write(w) \/ Blobs!Publish(w)  PROVE QuotaInv'
  <2>1. put[w].pc \in {"looking", "writing", "renaming"} /\ UNCHANGED rows
    BY <1>1 DEF Blobs!LookForFile, Blobs!Write, Blobs!Publish, Blobs!At
  <2>2. \A v \in Puts \ {w} : put'[v] = put[v]
    BY <1>1, PutGoesOn DEF PutGoes
  <2>3. Admitted' \subseteq Admitted
    BY <2>1, <2>2 DEF Admitted, LimitedPuts
  <2> QED  BY <2>1, <2>3, NothingAdmitted DEF QuotaInv
<1>2. ASSUME NEW w \in Puts,
             Blobs!Verify(w) \/ Blobs!Fail(w) \/ Blobs!Recover(w) \/ Blobs!Unlink(w) \/ Blobs!Refer(w) \/ Blobs!GiveUp(w)
      PROVE  QuotaInv'
  <2>1. UNCHANGED rows
    BY <1>2 DEF Blobs!Verify, Blobs!Fail, Blobs!Recover, Blobs!Unlink, Blobs!Refer, Blobs!GiveUp
  <2>2. PICK new \in {"returned", "idle", "recovering", "verifying", "unlinking"} : PutGoes(w, new, put[w].content)
    BY <1>2, PutGoesOn
  <2>3. Admitted' \subseteq Admitted
    BY <2>2 DEF PutGoes, Admitted, LimitedPuts
  <2> QED  BY <2>1, <2>3, NothingAdmitted DEF QuotaInv
<1>3. ASSUME NEW w \in Puts, Blobs!PutStep(w)  PROVE QuotaInv'
  BY <1>1, <1>2, <1>3, BeginsWithinQuota, InsertWithinQuota DEF Blobs!PutStep
<1>4. ASSUME NEW p \in Processes, Blobs!Crash(p)  PROVE QuotaInv'
  <2>1. UNCHANGED rows /\ \A w \in Puts : put'[w] \in {Blobs!IdlePut, put[w]}
    BY <1>4 DEF Blobs!Crash
  <2>2. Admitted' \subseteq Admitted
    BY <2>1 DEF Admitted, LimitedPuts, Blobs!IdlePut
  <2> QED  BY <2>1, <2>2, NothingAdmitted DEF QuotaInv
<1>5. CASE Blobs!DeleteUnreferenced
  <2>1. rows' \subseteq rows /\ Admitted' \subseteq Admitted
    BY <1>5 DEF Blobs!DeleteUnreferenced, Admitted, LimitedPuts
  <2> QED  BY <2>1, NothingAdmitted, SubsetSize DEF QuotaInv
<1>6. ASSUME \/ \E p \in Processes : Blobs!Open(p)
             \/ Blobs!Inspect \/ (\E c \in BlobContents : Blobs!Release(c)) \/ Blobs!FindUnreferenced \/ Blobs!UnlinkCollected
             \/ UNCHANGED Blobs!vars
      PROVE  QuotaInv'
  <2>1. UNCHANGED <<rows, put>>
    BY <1>6
       DEF Blobs!Open, Blobs!Inspect, Blobs!Release, Blobs!FindUnreferenced,
           Blobs!UnlinkCollected, Blobs!vars
  <2> QED  BY <2>1, NothingAdmitted DEF QuotaInv, Admitted
<1> QED  BY <1>3, <1>4, <1>5, <1>6 DEF Blobs!Next

-----------------------------------------------------------------------------
(* The invariants, and what follows from them.                             *)

\* In every configuration the invariants hold in every reachable state.
THEOREM StoreInvHolds == Blobs!Spec => [](StoreInv /\ QuotaInv)
<1>1. Blobs!Init => StoreInv /\ QuotaInv
  BY BlobsAssumption, InitStore, InitQuota
<1>2. StoreInv /\ QuotaInv /\ [Blobs!Next]_(Blobs!vars) => StoreInv' /\ QuotaInv'
  BY BlobsAssumption, StepStore, StepQuota DEF StoreInv
<1> QED  BY <1>1, <1>2, PTL DEF Blobs!Spec

\* Each variable holds what the code keeps in it, and a record names only a blob
\* that has a row, whatever overlaps.
THEOREM StoreIsTyped == Blobs!Spec => []Blobs!TypeOK
<1>1. StoreInv => Blobs!TypeOK
  BY DEF StoreInv, StoreTypes
<1> QED  BY <1>1, StoreInvHolds, PTL

\* Where nothing overlaps puts a row has its file.
LEMMA RowsHaveFiles == StoreInv => Blobs!RowsAreReadable
  BY DEF StoreInv, StoreTypes, Blobs!TypeOK, Undisturbed, LargeRowsHaveFiles,
         Blobs!RowsAreReadable, Blobs!Readable

\* A row never stands for a file that is not there, whatever number of puts of the
\* same content run at once, fail, or die, as long as a put fails alone and
\* neither a cleaning nor a collection comes in between.
THEOREM RowsStayReadable == Blobs!Spec => []Blobs!RowsAreReadable
  BY RowsHaveFiles, StoreInvHolds, PTL

\* Then what recorded evidence names can be read back, too.
THEOREM UndisturbedEvidenceIsReadable ==
    Blobs!Spec => [](overlapping = {} => Blobs!SharedBlobsAreProtected)
<1>1. Blobs!TypeOK /\ Blobs!RowsAreReadable => (overlapping = {} => Blobs!SharedBlobsAreProtected)
  BY DEF Blobs!TypeOK, Blobs!RowsAreReadable, Blobs!SharedBlobsAreProtected
<1> QED  BY <1>1, StoreIsTyped, RowsStayReadable, PTL

\* What has a row and what is admitted fits in the bound.
LEMMA OvershootFollows == ConfigurationOK /\ QuotaInv => Blobs!QuotaOvershootIsBounded
<1>1. SUFFICES ASSUME ConfigurationOK, QuotaInv
               PROVE  Cardinality(rows \ UnlimitedContents) <= MaxStored + Cardinality(LimitedPuts) - 1
  BY DEF Blobs!QuotaOvershootIsBounded, Blobs!Cardinality, Cardinality, UnlimitedContents,
         LimitedPuts
<1>2. IsFiniteSet(LimitedPuts) /\ IsFiniteSet(Admitted) /\ IsFiniteSet(rows \ UnlimitedContents)
  BY <1>1, SubsetSize DEF ConfigurationOK, LimitedPuts, Admitted, QuotaInv
<1>3. /\ Cardinality(LimitedPuts) \in Nat /\ Cardinality(Admitted) \in Nat
      /\ Cardinality(rows \ UnlimitedContents) \in Nat /\ MaxStored \in Nat
  BY <1>1, <1>2, FS_CardinalityType DEF ConfigurationOK
<1> QED  BY <1>1, <1>3 DEF QuotaInv

\* However many puts a limited process runs at once, together they pass the
\* ceiling by less than one blob each.
THEOREM QuotaOvershoot == Blobs!Spec => []Blobs!QuotaOvershootIsBounded
  BY BlobsAssumption, OvershootFollows, StoreInvHolds, PTL

-----------------------------------------------------------------------------
(* ArchiveTransfer: the way of an archive.                                 *)

\* What the archives were written with.
Digests == {a.digest : a \in archives}

IsRecord(r) ==
    DOMAIN r = {"status", "events", "origins", "exchanges", "recording", "runs", "ended"}

\* A session that is recorded here has an event and its origin for every run, and one
\* that was imported is what some archive was written with.
SessionOK(r, s, blobs, held, digests) ==
    /\ IsRecord(r)
    /\ r.status \in {"absent", "active", "completed", "imported-readonly"}
    /\ Transfer!Bodies(r.exchanges) \subseteq blobs
    /\ r.status \notin {"active", "completed"} => r.recording = {}
    /\ r.status = "absent" => r.exchanges = {}
    /\ r.status = "active" => r.events = {"started"} \cup r.runs
    /\ r.status = "completed" => r.events = {"started", "ended"} \cup r.runs
    /\ r.status \in {"active", "completed"} => r.origins = r.runs /\ r.runs \subseteq Held
    /\ r.status \in {"completed", "imported-readonly"} => Transfer!Evidence(r) \in held
    /\ r.status = "imported-readonly" =>
          \E c \in digests : /\ c.session = s /\ Transfer!Relates(c)
                             /\ Transfer!Evidence(c) = Transfer!Evidence(r)

\* The events were all those of one moment, and nothing was taken back since.
EventsRead(e, r, held) ==
    /\ \E p \in held : p.events = e.events
    /\ r.status = "imported-readonly" => e.events = r.events /\ e.origins = r.origins
    /\ r.status = "completed" => /\ e.events = {"started", "ended"} \cup e.origins
                                 /\ e.origins \subseteq r.runs

\* So were the exchanges, not before the events.
ExchangesRead(e, r, held) ==
    /\ r.status = "imported-readonly" => e.exchanges = r.exchanges
    /\ r.status = "completed" =>
          \E p \in held :
              /\ p = [events |-> {"started", "ended"} \cup p.runs, origins |-> p.runs,
                      exchanges |-> e.exchanges, runs |-> p.runs]
              /\ e.origins \subseteq p.runs /\ p.runs \subseteq r.runs

IsWhole(c, held) ==
    Transfer!Relates(c) => \E p \in held : Transfer!IsSnapshot(c, p)

ExportOK(e, r, held) ==
    /\ r.status \in {"completed", "imported-readonly"}
    /\ e.pc \in {"exchanges", "runs", "blobs"} => EventsRead(e, r, held)
    /\ e.pc \in {"runs", "blobs"} => ExchangesRead(e, r, held)
    /\ e.pc = "blobs" => IsWhole(Transfer!Contents(e), held)

IsExport(e) ==
    /\ DOMAIN e = {"pc", "store", "session", "profile", "kept", "counted", "events", "origins",
                   "exchanges", "runs"}
    /\ e.pc \in {"events", "exchanges", "runs", "blobs"}
    /\ e.store \in Homes /\ e.session \in Moved

IsArchive(a) ==
    /\ DOMAIN a = {"contents", "digest", "from", "kept"}
    /\ a.from \in Homes /\ a.digest.session \in Moved

ImportOK(step, digests) ==
    /\ DOMAIN step = {"pc", "store", "archive", "left", "created"}
    /\ step.store \in Homes /\ step.archive.contents \in digests
    /\ step.archive.contents.session \in Moved /\ Transfer!Relates(step.archive.contents)

StoresOK ==
    /\ store = [m \in Homes |-> store[m]]
    /\ \A m \in Homes : /\ DOMAIN store[m] = {"sessions", "blobs"}
                        /\ store[m].sessions = [s \in Moved |-> store[m].sessions[s]]
    /\ past = [m \in Homes |-> [s \in Moved |-> past[m][s]]]

SessionsOK ==
    \A m \in Homes, s \in Moved :
        SessionOK(store[m].sessions[s], s, store[m].blobs, past[m][s], Digests)

ExporterOK ==
    exporter.pc # "idle" =>
        /\ IsExport(exporter)
        /\ exporter.kept =>
              ExportOK(exporter, store[exporter.store].sessions[exporter.session],
                       past[exporter.store][exporter.session])

ArchivesOK ==
    \A a \in archives : IsArchive(a) /\ (a.kept => IsWhole(a.digest, past[a.from][a.digest.session]))

ImportersOK ==
    /\ importer = [i \in Imports |-> importer[i]]
    /\ \A i \in Imports : importer[i].pc = "putting" => ImportOK(importer[i], Digests)

TransferInv == StoresOK /\ SessionsOK /\ ExporterOK /\ ArchivesOK /\ ImportersOK

-----------------------------------------------------------------------------
\* More bodies, moments and digests leave a session what it was.
LEMMA SessionGrows ==
    ASSUME NEW r, NEW s, NEW blobs, NEW held, NEW digests, SessionOK(r, s, blobs, held, digests),
           NEW blobs2, NEW held2, NEW digests2, Transfer!Bodies(r.exchanges) \subseteq blobs2,
           held \subseteq held2, digests \subseteq digests2
    PROVE  SessionOK(r, s, blobs2, held2, digests2)
  BY DEF SessionOK

\* So do more moments an export.
LEMMA ExportGrows ==
    ASSUME NEW e, NEW r, NEW held, ExportOK(e, r, held),
           NEW held2, held \subseteq held2
    PROVE  ExportOK(e, r, held2)
  BY DEF ExportOK, EventsRead, ExchangesRead, IsWhole

\* An export goes on where runs are added to its completed session.
LEMMA ExportFollows ==
    ASSUME NEW e, NEW r, NEW r2, NEW held, ExportOK(e, r, held),
           r.status = "completed", r2.status = "completed", r.runs \subseteq r2.runs
    PROVE  ExportOK(e, r2, held)
  <1>1. EventsRead(e, r, held) => EventsRead(e, r2, held)
    BY DEF EventsRead
  <1>2. ExchangesRead(e, r, held) => ExchangesRead(e, r2, held)
    BY DEF ExchangesRead
  <1> QED  BY <1>1, <1>2 DEF ExportOK

\* Archives stay what they were when more is remembered.
LEMMA ArchivesGrow ==
    ASSUME ArchivesOK, archives' = archives,
           \A m \in Homes, s \in Moved : past[m][s] \subseteq past'[m][s]
    PROVE  ArchivesOK'
  <1> SUFFICES ASSUME NEW a \in archives
               PROVE  IsArchive(a) /\ (a.kept => IsWhole(a.digest, past'[a.from][a.digest.session]))
    BY DEF ArchivesOK
  <1> QED  BY DEF ArchivesOK, IsArchive, IsWhole

\* Importers go on when archives are added.
LEMMA ImportersGrow ==
    ASSUME ImportersOK, importer' = importer, Digests \subseteq Digests' PROVE ImportersOK'
  <1> SUFFICES ASSUME NEW i \in Imports, importer[i].pc = "putting"
               PROVE  ImportOK(importer[i], Digests')
    BY DEF ImportersOK
  <1> QED  BY DEF ImportersOK, ImportOK

\* A step of one import leaves the others what they were.
LEMMA ImporterSteps ==
    ASSUME ImportersOK, NEW i \in Imports, NEW step, importer' = [importer EXCEPT ![i] = step],
           archives' = archives, step.pc = "putting" => ImportOK(step, Digests)
    PROVE  ImportersOK'
  <1>1. Digests' = Digests
    BY DEF Digests
  <1> QED  BY <1>1 DEF ImportersOK

\* An export goes on as long as its session is not taken back.
LEMMA ExporterWaits ==
    ASSUME TransferInv, exporter' = exporter,
           \A m \in Homes, s \in Moved : past[m][s] \subseteq past'[m][s],
           \A m \in Homes, s \in Moved :
               LET r == store[m].sessions[s]  r2 == store'[m].sessions[s] IN
               \/ r2 = r
               \/ r.status = "completed" /\ r2.status = "completed" /\ r.runs \subseteq r2.runs
               \/ r.status \notin {"completed", "imported-readonly"}
    PROVE  ExporterOK'
  <1> SUFFICES ASSUME exporter.pc # "idle", exporter.kept
               PROVE  ExportOK(exporter, store'[exporter.store].sessions[exporter.session],
                               past'[exporter.store][exporter.session])
    BY DEF ExporterOK, TransferInv
  <1> DEFINE m == exporter.store
             s == exporter.session
             r == store[m].sessions[s]
             r2 == store'[m].sessions[s]
  <1>1. m \in Homes /\ s \in Moved /\ ExportOK(exporter, r, past[m][s])
    BY DEF ExporterOK, TransferInv, IsExport
  <1>2. past[m][s] \subseteq past'[m][s]
    BY <1>1
  <1>3. r.status \in {"completed", "imported-readonly"}
    BY <1>1 DEF ExportOK
  <1>4. \/ r2 = r
        \/ r.status = "completed" /\ r2.status = "completed" /\ r.runs \subseteq r2.runs
    BY <1>1, <1>3
  <1> HIDE DEF m, s, r, r2
  <1>5. ExportOK(exporter, r2, past[m][s])
    BY <1>1, <1>4, ExportFollows
  <1>6. ExportOK(exporter, r2, past'[m][s])
    BY <1>2, <1>5, ExportGrows
  <1> QED  BY <1>6 DEF r2, m, s

\* The session s of m becomes record, and what it holds is remembered.
Becomes(m, s, record, held) ==
    /\ store' = [store EXCEPT ![m] =
                    [store[m] EXCEPT !.sessions = [store[m].sessions EXCEPT ![s] = record]]]
    /\ past' = [past EXCEPT ![m] = [past[m] EXCEPT ![s] = held]]

LEMMA SessionBecomes ==
    ASSUME TransferInv, NEW m \in Homes, NEW s \in Moved, NEW record, NEW held,
           Becomes(m, s, record, held),
           past[m][s] \subseteq held, archives' = archives,
           SessionOK(record, s, store[m].blobs, held, Digests)
    PROVE  /\ StoresOK' /\ SessionsOK' /\ ArchivesOK'
           /\ \A n \in Homes, t \in Moved : past[n][t] \subseteq past'[n][t]
           /\ \A n \in Homes, t \in Moved :
                  store'[n].sessions[t] = IF n = m /\ t = s THEN record ELSE store[n].sessions[t]
           /\ Digests' = Digests
  <1> DEFINE h == [store[m] EXCEPT !.sessions = [store[m].sessions EXCEPT ![s] = record]]
             p == [past[m] EXCEPT ![s] = held]
  <1>1. /\ store = [n \in Homes |-> store[n]] /\ past = [n \in Homes |-> past[n]]
        /\ past[m] = [t \in Moved |-> past[m][t]]
        /\ \A n \in Homes : past[n] = [t \in Moved |-> past[n][t]]
    BY DEF TransferInv, StoresOK
  <1>2. /\ DOMAIN h = {"sessions", "blobs"} /\ h.blobs = store[m].blobs
        /\ h.sessions = [t \in Moved |-> IF t = s THEN record ELSE store[m].sessions[t]]
    BY DEF TransferInv, StoresOK
  <1>3. p = [t \in Moved |-> IF t = s THEN held ELSE past[m][t]]
    BY <1>1
  <1> HIDE DEF h, p
  <1>4. /\ store' = [n \in Homes |-> IF n = m THEN h ELSE store[n]]
        /\ past' = [n \in Homes |-> IF n = m THEN p ELSE past[n]]
    BY <1>1 DEF h, p, Becomes
  <1>5. \A n \in Homes, t \in Moved : past[n][t] \subseteq past'[n][t]
    BY <1>3, <1>4
  <1>6. \A n \in Homes, t \in Moved :
            store'[n].sessions[t] = IF n = m /\ t = s THEN record ELSE store[n].sessions[t]
    BY <1>2, <1>4
  <1>7. \A n \in Homes : store'[n].blobs = store[n].blobs
    BY <1>2, <1>4
  <1>8. Digests' = Digests
    BY DEF Digests
  <1>9. StoresOK'
    <2>1. \A n \in Homes : /\ DOMAIN store'[n] = {"sessions", "blobs"}
                           /\ store'[n].sessions = [t \in Moved |-> store'[n].sessions[t]]
      BY <1>2, <1>4 DEF TransferInv, StoresOK
    <2>2. ASSUME NEW n \in Homes PROVE past'[n] = [t \in Moved |-> past'[n][t]]
      <3>1. CASE n = m
        <4>1. past'[n] = p
          BY <1>4, <3>1
        <4> QED  BY <1>3, <4>1
      <3>2. CASE n # m
        <4>1. past'[n] = past[n]
          BY <1>4, <3>2
        <4> QED  BY <1>1, <4>1
      <3> QED  BY <3>1, <3>2
    <2> QED  BY <1>4, <2>1, <2>2 DEF StoresOK
  <1>10. SessionsOK'
    <2> SUFFICES ASSUME NEW n \in Homes, NEW t \in Moved
                 PROVE  SessionOK(store'[n].sessions[t], t, store'[n].blobs, past'[n][t], Digests')
      BY DEF SessionsOK
    <2>1. CASE n = m /\ t = s
      <3>1. past'[n][t] = held /\ store'[n].sessions[t] = record /\ store'[n].blobs = store[m].blobs
        BY <1>3, <1>4, <1>6, <1>7, <2>1
      <3> QED  BY <1>8, <2>1, <3>1
    <2>2. CASE ~(n = m /\ t = s)
      <3>1. /\ store'[n].sessions[t] = store[n].sessions[t] /\ store'[n].blobs = store[n].blobs
            /\ past[n][t] \subseteq past'[n][t]
        BY <1>5, <1>6, <1>7, <2>2
      <3>2. SessionOK(store[n].sessions[t], t, store[n].blobs, past[n][t], Digests)
        BY DEF TransferInv, SessionsOK
      <3>3. Transfer!Bodies(store[n].sessions[t].exchanges) \subseteq store[n].blobs
        BY <3>2 DEF SessionOK
      <3> QED  BY <1>8, <3>1, <3>2, <3>3, SessionGrows
    <2> QED  BY <2>1, <2>2
  <1>11. ArchivesOK'
    BY <1>5, ArchivesGrow DEF TransferInv
  <1> QED  BY <1>5, <1>6, <1>8, <1>9, <1>10, <1>11

\* What Records stores is remembered, unless the session is active.
LEMMA RecordsKeepTransfer ==
    ASSUME TransferInv, NEW s \in Moved, NEW record, Transfer!Records(s, record),
           SessionOK(record, s, store[HomeOf[s]].blobs,
                     past[HomeOf[s]][s] \cup {Transfer!Evidence(record)}, Digests),
           LET r == store[HomeOf[s]].sessions[s] IN
           \/ r.status = "completed" /\ record.status = "completed" /\ r.runs \subseteq record.runs
           \/ r.status \notin {"completed", "imported-readonly"}
    PROVE  TransferInv'
  <1> DEFINE m == HomeOf[s]
             moments == past[m][s] \cup {Transfer!Evidence(record)}
             held == IF record.status = "active" THEN past[m][s] ELSE moments
  <1>1. m \in Homes
    BY RetentionAssumption
  <1>2. SessionOK(record, s, store[m].blobs, held, Digests)
    BY DEF SessionOK
  <1>3. /\ store' = [store EXCEPT ![m] =
                [store[m] EXCEPT !.sessions = [store[m].sessions EXCEPT ![s] = record]]]
        /\ archives' = archives /\ exporter' = exporter /\ importer' = importer
    BY DEF Transfer!Records, Transfer!HasHeld
  <1>4. past' = [past EXCEPT ![m] = [past[m] EXCEPT ![s] = held]]
    <2>1. CASE record.status = "active"
      <3>1. past' = past
        BY <2>1 DEF Transfer!Records
      <3>2. /\ past = [n \in Homes |-> past[n]] /\ past[m] = [t \in Moved |-> past[m][t]]
        BY <1>1 DEF TransferInv, StoresOK
      <3> HIDE DEF m
      <3> QED  BY <1>1, <2>1, <3>1, <3>2
    <2>2. CASE record.status # "active"
      BY <2>2 DEF Transfer!Records, Transfer!HasHeld
    <2> QED  BY <2>1, <2>2
  <1>5. past[m][s] \subseteq held
    OBVIOUS
  <1> HIDE DEF m, held, moments
  <1>6. /\ StoresOK' /\ SessionsOK' /\ ArchivesOK'
        /\ \A n \in Homes, t \in Moved : past[n][t] \subseteq past'[n][t]
        /\ \A n \in Homes, t \in Moved :
               store'[n].sessions[t] = IF n = m /\ t = s THEN record ELSE store[n].sessions[t]
        /\ Digests' = Digests
    BY <1>1, <1>2, <1>3, <1>4, <1>5, SessionBecomes DEF Becomes
  <1>7. ExporterOK'
    <2>1. \A n \in Homes, t \in Moved :
              LET r == store[n].sessions[t]  r2 == store'[n].sessions[t] IN
              \/ r2 = r
              \/ r.status = "completed" /\ r2.status = "completed" /\ r.runs \subseteq r2.runs
              \/ r.status \notin {"completed", "imported-readonly"}
      BY <1>6 DEF m
    <2> QED  BY <1>3, <1>6, <2>1, ExporterWaits, Zenon
  <1>8. ImportersOK'
    BY <1>3, <1>6, ImportersGrow DEF TransferInv
  <1> QED  BY <1>6, <1>7, <1>8 DEF TransferInv

\* What is removed from the files is what no session names.
LEMMA BlobsKeepTransfer ==
    ASSUME TransferInv, NEW m, NEW blobs,
           store' = [store EXCEPT ![m].blobs = blobs],
           m \in Homes => \A s \in Moved :
                              Transfer!Bodies(store[m].sessions[s].exchanges) \subseteq blobs,
           past' = past, archives' = archives
    PROVE  StoresOK' /\ SessionsOK' /\ ArchivesOK' /\ (exporter' = exporter => ExporterOK')
  <1> DEFINE h == [store[m] EXCEPT !.blobs = blobs]
  <1>1. store' = [n \in Homes |-> IF n = m THEN h ELSE store[n]]
    BY DEF TransferInv, StoresOK
  <1>2. m \in Homes => /\ DOMAIN h = {"sessions", "blobs"} /\ h.blobs = blobs
                       /\ h.sessions = store[m].sessions
    BY DEF TransferInv, StoresOK
  <1> HIDE DEF h
  <1>3. \A n \in Homes : store'[n].sessions = store[n].sessions
    BY <1>1, <1>2
  <1>4. StoresOK'
    <2>1. \A n \in Homes : /\ DOMAIN store'[n] = {"sessions", "blobs"}
                            /\ store'[n].sessions = [s \in Moved |-> store'[n].sessions[s]]
      BY <1>1, <1>2, <1>3 DEF TransferInv, StoresOK
    <2>2. /\ store' = [n \in Homes |-> store'[n]]
          /\ past' = [n \in Homes |-> [s \in Moved |-> past'[n][s]]]
      BY <1>1 DEF TransferInv, StoresOK
    <2> QED  BY <2>1, <2>2 DEF StoresOK
  <1>5. SessionsOK'
    <2> SUFFICES ASSUME NEW n \in Homes, NEW t \in Moved
                 PROVE  SessionOK(store[n].sessions[t], t, store'[n].blobs, past[n][t], Digests)
      BY <1>3 DEF SessionsOK, Digests
    <2>1. SessionOK(store[n].sessions[t], t, store[n].blobs, past[n][t], Digests)
      BY DEF TransferInv, SessionsOK
    <2>2. Transfer!Bodies(store[n].sessions[t].exchanges) \subseteq store'[n].blobs
      BY <1>1, <1>2, <2>1 DEF SessionOK
    <2> QED  BY <2>1, <2>2, SessionGrows
  <1>6. ArchivesOK'
    BY ArchivesGrow DEF TransferInv
  <1>7. exporter' = exporter => ExporterOK'
    BY <1>3, ExporterWaits
  <1> QED  BY <1>4, <1>5, <1>6, <1>7

\* At the beginning nothing is stored, exported or imported.
LEMMA InitTransfer == Transfer!Init => TransferInv
  <1> SUFFICES ASSUME Transfer!Init PROVE TransferInv
    OBVIOUS
  <1>1. StoresOK
    BY DEF Transfer!Init, StoresOK
  <1>2. SessionsOK
    <2> SUFFICES ASSUME NEW m \in Homes, NEW s \in Moved
                 PROVE  SessionOK(Transfer!Absent, s, {}, {}, Digests)
      BY DEF SessionsOK, Transfer!Init
    <2> QED  BY DEF SessionOK, Transfer!Absent, IsRecord, Transfer!Bodies
  <1> QED  BY <1>1, <1>2 DEF Transfer!Init, TransferInv, ExporterOK, ArchivesOK, ImportersOK


-----------------------------------------------------------------------------
\* Recording goes on in a session that is active or completed.
LEMMA SessionGoesOn ==
    ASSUME NEW r, NEW record, NEW s, NEW blobs, NEW held, NEW held2, NEW digests,
           SessionOK(r, s, blobs, held, digests), r.status \in {"active", "completed"},
           IsRecord(record), record.status = r.status, NEW x \in Held,
           \/ record.events = r.events /\ record.origins = r.origins /\ record.runs = r.runs
           \/ /\ record.events = r.events \cup {x} /\ record.origins = r.origins \cup {x}
              /\ record.runs = r.runs \cup {x},
           Transfer!Bodies(record.exchanges) \subseteq blobs,
           Transfer!Evidence(record) \in held2
    PROVE  SessionOK(record, s, blobs, held2, digests) /\ r.runs \subseteq record.runs
  BY DEF SessionOK

\* Recording keeps the invariant, whatever is recorded.
LEMMA RecordingKeepsTransfer ==
    ASSUME TransferInv,
           \/ \E s \in Moved : Transfer!Start(s) \/ Transfer!End(s)
           \/ \E x \in Held : Transfer!BeginExchange(x) \/ Transfer!Finalize(x)
                              \/ Transfer!Normalize(x)
    PROVE  TransferInv'
  <1> DEFINE Rec(s) == store[HomeOf[s]].sessions[s]
             Held2(s, record) == past[HomeOf[s]][s] \cup {Transfer!Evidence(record)}
             OK(s, record) == SessionOK(record, s, store[HomeOf[s]].blobs, Held2(s, record), Digests)
  <1>1. ASSUME NEW s \in Moved
        PROVE  SessionOK(Rec(s), s, store[HomeOf[s]].blobs, past[HomeOf[s]][s], Digests)
    BY RetentionAssumption DEF TransferInv, SessionsOK
  <1>2. ASSUME NEW s \in Moved, Transfer!Start(s) PROVE TransferInv'
    <2> DEFINE record == [Transfer!Absent EXCEPT !.status = "active", !.events = {"started"}]
    <2>1. Transfer!Records(s, record) /\ Rec(s).status = "absent"
      BY <1>2 DEF Transfer!Start, Transfer!Exists, Transfer!Session
    <2>2. OK(s, record)
      BY DEF SessionOK, IsRecord, Transfer!Absent, Transfer!Bodies
    <2> HIDE DEF record
    <2> QED  BY <2>1, <2>2, RecordsKeepTransfer
  <1>3. ASSUME NEW s \in Moved, Transfer!End(s) PROVE TransferInv'
    <2>1. PICK ended : Transfer!Records(s, [Rec(s) EXCEPT !.status = "completed",
                           !.events = @ \cup {"ended"}, !.ended = ended])
      BY <1>3, ZenonT(30) DEF Transfer!End, Transfer!Session
    <2> DEFINE record == [Rec(s) EXCEPT !.status = "completed", !.events = @ \cup {"ended"},
                                        !.ended = ended]
    <2>2. Rec(s).status = "active"
      BY <1>3, ZenonT(30) DEF Transfer!End, Transfer!Session
    <2>3. OK(s, record)
      BY <1>1, <2>2 DEF SessionOK, IsRecord
    <2>4. Transfer!Records(s, record)
      BY <2>1
    <2> HIDE DEF record
    <2> QED  BY <2>2, <2>3, <2>4, RecordsKeepTransfer
  <1>4. ASSUME NEW x \in Held PROVE HolderOf[x] \in Moved
    BY RetentionAssumption, Zenon
  <1>5. ASSUME NEW x \in Held, Transfer!BeginExchange(x) PROVE TransferInv'
    <2> DEFINE s == HolderOf[x]
               record == [Rec(s) EXCEPT !.recording = @ \cup {x}]
    <2>1. Transfer!Records(s, record) /\ Rec(s).status \in {"active", "completed"}
      BY <1>5, Zenon DEF Transfer!BeginExchange, Transfer!Session
    <2>2. s \in Moved /\ SessionOK(Rec(s), s, store[HomeOf[s]].blobs, past[HomeOf[s]][s], Digests)
      BY <1>1, <1>4, Zenon
    <2>3. /\ record.status = Rec(s).status /\ record.exchanges = Rec(s).exchanges
          /\ record.runs = Rec(s).runs /\ record.origins = Rec(s).origins
          /\ record.events = Rec(s).events /\ IsRecord(record)
      BY <2>2 DEF SessionOK, IsRecord
    <2>4. Transfer!Bodies(record.exchanges) \subseteq store[HomeOf[s]].blobs
      BY <2>2, <2>3, Zenon DEF SessionOK
    <2> HIDE DEF record, s
    <2>5. OK(s, record) /\ Rec(s).runs \subseteq record.runs
      BY <2>1, <2>2, <2>3, <2>4, SessionGoesOn
    <2> QED  BY <2>1, <2>2, <2>3, <2>5, RecordsKeepTransfer
  <1>6. ASSUME NEW x \in Held, Transfer!Finalize(x) PROVE TransferInv'
    <2> DEFINE s == HolderOf[x]
               record == [Rec(s) EXCEPT !.recording = @ \ {x}, !.exchanges = @ \cup {x}]
    <2>1. /\ Transfer!Records(s, record) /\ x \in Rec(s).recording
          /\ BodyOf[x] \in store[HomeOf[s]].blobs
      BY <1>6, Zenon DEF Transfer!Finalize, Transfer!Session
    <2>2. s \in Moved
      BY <1>4
    <2>3. Rec(s).status \in {"active", "completed"}
      BY <1>1, <2>1, <2>2, ZenonT(30) DEF SessionOK
    <2>4. SessionOK(Rec(s), s, store[HomeOf[s]].blobs, past[HomeOf[s]][s], Digests)
      BY <1>1, <2>2, Zenon
    <2>5. /\ record.status = Rec(s).status /\ record.exchanges = Rec(s).exchanges \cup {x}
          /\ record.runs = Rec(s).runs /\ record.origins = Rec(s).origins
          /\ record.events = Rec(s).events /\ IsRecord(record)
      BY <2>4 DEF SessionOK, IsRecord
    <2>6. Transfer!Bodies(record.exchanges)
          \subseteq Transfer!Bodies(Rec(s).exchanges) \cup {BodyOf[x]}
      <3> HIDE DEF record, s, Rec
      <3> QED  BY <2>5 DEF Transfer!Bodies
    <2>7. Transfer!Bodies(record.exchanges) \subseteq store[HomeOf[s]].blobs
      BY <2>1, <2>4, <2>6, Zenon DEF SessionOK
    <2> HIDE DEF record, s
    <2>8. OK(s, record) /\ Rec(s).runs \subseteq record.runs
      <3>1. Transfer!Evidence(record) \in Held2(s, record)
        BY Zenon
      <3> HIDE DEF Rec, Held2
      <3> QED  BY <2>3, <2>4, <2>5, <2>7, <3>1, SessionGoesOn
    <2> QED  BY <2>1, <2>2, <2>3, <2>5, <2>8, RecordsKeepTransfer
  <1>7. ASSUME NEW x \in Held, Transfer!Normalize(x) PROVE TransferInv'
    <2> DEFINE s == HolderOf[x]
               record == [Rec(s) EXCEPT !.events = @ \cup {x}, !.origins = @ \cup {x},
                                        !.runs = @ \cup {x}]
    <2>1. /\ Transfer!Records(s, record) /\ x \in Rec(s).exchanges
          /\ Rec(s).status # "imported-readonly"
      BY <1>7, ZenonT(30) DEF Transfer!Normalize, Transfer!Session
    <2>2. s \in Moved
      BY <1>4
    <2>3. Rec(s).status \in {"active", "completed"}
      BY <1>1, <2>1, <2>2, ZenonT(30) DEF SessionOK
    <2>4. SessionOK(Rec(s), s, store[HomeOf[s]].blobs, past[HomeOf[s]][s], Digests)
      BY <1>1, <2>2
    <2>5. /\ record.status = Rec(s).status /\ record.exchanges = Rec(s).exchanges
          /\ record.runs = Rec(s).runs \cup {x} /\ record.origins = Rec(s).origins \cup {x}
          /\ record.events = Rec(s).events \cup {x} /\ IsRecord(record)
      BY <2>4, ZenonT(30) DEF SessionOK, IsRecord
    <2>6. Transfer!Bodies(record.exchanges) \subseteq store[HomeOf[s]].blobs
      BY <2>4, <2>5, ZenonT(30) DEF SessionOK
    <2> HIDE DEF record, s
    <2>7. OK(s, record) /\ Rec(s).runs \subseteq record.runs
      BY <2>3, <2>4, <2>5, <2>6, SessionGoesOn
    <2> QED  BY <2>1, <2>2, <2>3, <2>5, <2>7, RecordsKeepTransfer
  <1> QED  BY <1>2, <1>3, <1>5, <1>6, <1>7

\* A body that is stored is named by no session yet.
LEMMA StoreBodyKeepsTransfer ==
    ASSUME TransferInv, NEW x \in Held, Transfer!StoreBody(x) PROVE TransferInv'
  <1> DEFINE m == HomeOf[HolderOf[x]]
  <1>1. /\ store' = [store EXCEPT ![m].blobs = store[m].blobs \cup {BodyOf[x]}]
        /\ past' = past /\ archives' = archives /\ exporter' = exporter /\ importer' = importer
    BY DEF Transfer!StoreBody
  <1>2. m \in Homes => \A s \in Moved : Transfer!Bodies(store[m].sessions[s].exchanges)
                                            \subseteq store[m].blobs \cup {BodyOf[x]}
    BY DEF TransferInv, SessionsOK, SessionOK
  <1> HIDE DEF m
  <1>3. StoresOK' /\ SessionsOK' /\ ArchivesOK' /\ ExporterOK'
    BY <1>1, <1>2, BlobsKeepTransfer
  <1> QED  BY <1>1, <1>3, ImportersGrow DEF TransferInv, Digests

\* A plan and what it takes away.
LEMMA DeletionKeepsTransfer == TransferInv /\ Transfer!ExecuteEvidenceDeletion => TransferInv'
  <1> SUFFICES ASSUME TransferInv, Transfer!ExecuteEvidenceDeletion PROVE TransferInv'
    OBVIOUS
  <1> DEFINE m == preview.store
             gone == preview.selected
             rest == [s \in Moved |-> IF s \in gone THEN Transfer!Absent
                                      ELSE store[m].sessions[s]]
             h == [store[m] EXCEPT !.sessions = rest]
  <1>1. /\ past' = past /\ archives' = archives /\ importer' = importer
        /\ \/ store' = store /\ exporter' = exporter
           \/ /\ store' = [store EXCEPT ![m] = h]
              /\ exporter' = IF /\ exporter.pc # "idle" /\ exporter.store = m
                                /\ exporter.session \in gone
                             THEN [exporter EXCEPT !.kept = FALSE] ELSE exporter
    BY DEF Transfer!ExecuteEvidenceDeletion
  <1>2. store = [n \in Homes |-> store[n]] /\ Digests' = Digests
    BY <1>1 DEF TransferInv, StoresOK, Digests
  <1>3. m \in Homes => /\ DOMAIN h = {"sessions", "blobs"} /\ h.blobs = store[m].blobs
                       /\ h.sessions = rest
    BY DEF TransferInv, StoresOK
  <1>4. ArchivesOK' /\ ImportersOK'
    BY <1>1, <1>2, ArchivesGrow, ImportersGrow DEF TransferInv
  <1>5. CASE store' = store /\ exporter' = exporter
    <2>1. StoresOK' /\ SessionsOK' /\ ExporterOK'
      BY <1>1, <1>2, <1>5, ExporterWaits DEF TransferInv, StoresOK, SessionsOK
    <2> QED  BY <1>4, <2>1 DEF TransferInv
  <1>6. CASE /\ store' = [store EXCEPT ![m] = h]
             /\ exporter' = IF /\ exporter.pc # "idle" /\ exporter.store = m
                               /\ exporter.session \in gone
                            THEN [exporter EXCEPT !.kept = FALSE] ELSE exporter
    <2> HIDE DEF h
    <2>1. store' = [n \in Homes |-> IF n = m THEN h ELSE store[n]]
      BY <1>2, <1>6
    <2>2. StoresOK'
      BY <1>1, <1>3, <2>1 DEF TransferInv, StoresOK
    <2>3. \A n \in Homes, t \in Moved :
              /\ store'[n].blobs = store[n].blobs
              /\ store'[n].sessions[t] = IF n = m /\ t \in gone THEN Transfer!Absent
                                         ELSE store[n].sessions[t]
      BY <1>3, <2>1
    <2> HIDE DEF rest, m
    <2>4. SessionsOK'
      <3> SUFFICES ASSUME NEW n \in Homes, NEW t \in Moved
                   PROVE  SessionOK(store'[n].sessions[t], t, store'[n].blobs, past'[n][t], Digests')
        BY DEF SessionsOK
      <3>1. SessionOK(store[n].sessions[t], t, store[n].blobs, past[n][t], Digests)
        BY DEF TransferInv, SessionsOK
      <3>2. SessionOK(Transfer!Absent, t, store[n].blobs, past[n][t], Digests)
        BY DEF SessionOK, Transfer!Absent, IsRecord, Transfer!Bodies
      <3> QED  BY <1>1, <1>2, <2>3, <3>1, <3>2
    <2>5. ExporterOK'
      <3> SUFFICES ASSUME exporter.pc # "idle"
                   PROVE  /\ IsExport(exporter')
                          /\ exporter'.kept =>
                                ExportOK(exporter', store'[exporter'.store].sessions[exporter'.session],
                                         past'[exporter'.store][exporter'.session])
        BY <1>6 DEF TransferInv, ExporterOK, IsExport
      <3>1. IsExport(exporter)
        BY DEF TransferInv, ExporterOK
      <3>2. CASE exporter.store = m /\ exporter.session \in gone
        BY <1>6, <3>1, <3>2 DEF IsExport
      <3>3. CASE ~(exporter.store = m /\ exporter.session \in gone)
        <4>1. exporter' = exporter
          BY <1>6, <3>3
        <4>2. store'[exporter.store].sessions[exporter.session]
              = store[exporter.store].sessions[exporter.session]
          BY <2>3, <3>1, <3>3 DEF IsExport
        <4> QED  BY <1>1, <4>1, <4>2 DEF TransferInv, ExporterOK
      <3> QED  BY <3>2, <3>3
    <2> QED  BY <1>4, <2>2, <2>4, <2>5 DEF TransferInv
  <1> QED  BY <1>1, <1>5, <1>6

-----------------------------------------------------------------------------
\* The reads of an export.
LEMMA ReadsKeepTransfer ==
    ASSUME TransferInv,
           \/ \E m \in Homes, s \in Moved : \E profile : Transfer!ReadSession(m, s, profile)
           \/ Transfer!ReadEvents \/ Transfer!ReadExchanges \/ Transfer!ReadRuns
    PROVE  TransferInv'
  <1>1. store' = store /\ past' = past /\ archives' = archives /\ importer' = importer
    BY DEF Transfer!ReadSession, Transfer!ReadEvents, Transfer!ReadExchanges, Transfer!ReadRuns,
           Transfer!ExportStep
  <1>2. StoresOK' /\ SessionsOK' /\ ArchivesOK' /\ ImportersOK'
    BY <1>1 DEF TransferInv, StoresOK, SessionsOK, ArchivesOK, ImportersOK, Digests
  <1> DEFINE r == store[exporter.store].sessions[exporter.session]
             held == past[exporter.store][exporter.session]
             Kept2(e) == IsExport(e) /\ (e.kept => ExportOK(e, r, held))
  <1>3. exporter.pc # "idle" => Kept2(exporter)
    BY DEF TransferInv, ExporterOK
  <1>4. exporter.pc # "idle" =>
            SessionOK(r, exporter.session, store[exporter.store].blobs, held, Digests)
    BY <1>3 DEF TransferInv, SessionsOK, IsExport
  <1>5. ASSUME NEW e, exporter' = e, Kept2(e), e.store = exporter.store,
               e.session = exporter.session
        PROVE  ExporterOK'
    BY <1>1, <1>5 DEF ExporterOK
  <1>6. ASSUME NEW m \in Homes, NEW s \in Moved, NEW profile, Transfer!ReadSession(m, s, profile)
        PROVE  ExporterOK'
    <2>1. PICK counted : exporter' = [pc |-> "events", store |-> m, session |-> s,
              profile |-> profile, kept |-> TRUE, counted |-> counted, events |-> {},
              origins |-> {}, exchanges |-> {}, runs |-> {}]
      BY <1>6 DEF Transfer!ReadSession, Transfer!ExportStep
    <2>2. store[m].sessions[s].status \in {"completed", "imported-readonly"}
      BY <1>6 DEF Transfer!ReadSession, Transfer!Session
    <2> QED  BY <1>1, <2>1, <2>2 DEF ExporterOK, IsExport, ExportOK
  <1>7. ASSUME Transfer!ReadEvents PROVE ExporterOK'
    <2> DEFINE e == [exporter EXCEPT !.pc = "exchanges", !.events = r.events,
                                     !.origins = r.origins]
    <2>1. exporter' = e /\ exporter.pc = "events"
      BY <1>7 DEF Transfer!ReadEvents, Transfer!ExportStep, Transfer!Session
    <2>2. /\ e.pc = "exchanges" /\ e.events = r.events /\ e.origins = r.origins
          /\ e.kept = exporter.kept /\ e.store = exporter.store /\ e.session = exporter.session
          /\ IsExport(e)
      BY <1>3, <2>1 DEF IsExport
    <2> HIDE DEF e, r, held
    <2>3. ASSUME e.kept PROVE ExportOK(e, r, held)
      <3>1. ExportOK(exporter, r, held) /\ r.status \in {"completed", "imported-readonly"}
        BY <1>3, <2>1, <2>2, <2>3 DEF ExportOK
      <3>2. Transfer!Evidence(r) \in held /\ Transfer!Evidence(r).events = e.events
        BY <1>4, <2>1, <2>2, <3>1 DEF SessionOK, Transfer!Evidence
      <3>3. EventsRead(e, r, held)
        BY <1>4, <2>1, <2>2, <3>1, <3>2 DEF SessionOK, EventsRead
      <3> QED  BY <2>2, <3>1, <3>3 DEF ExportOK
    <2> QED  BY <1>5, <2>1, <2>2, <2>3
  <1>8. ASSUME Transfer!ReadExchanges PROVE ExporterOK'
    <2> DEFINE e == [exporter EXCEPT !.pc = "runs", !.exchanges = r.exchanges]
    <2>1. exporter.pc = "exchanges" /\ (exporter' = e \/ exporter' = [pc |-> "idle"])
      BY <1>8 DEF Transfer!ReadExchanges, Transfer!ExportStep, Transfer!Session
    <2>2. /\ e.pc = "runs" /\ e.exchanges = r.exchanges /\ e.events = exporter.events
          /\ e.origins = exporter.origins
          /\ e.kept = exporter.kept /\ e.store = exporter.store /\ e.session = exporter.session
          /\ IsExport(e)
      BY <1>3, <2>1 DEF IsExport
    <2> HIDE DEF e, r, held
    <2>3. ASSUME e.kept PROVE ExportOK(e, r, held)
      <3>1. /\ EventsRead(exporter, r, held) /\ r.status \in {"completed", "imported-readonly"}
        BY <1>3, <2>1, <2>2, <2>3 DEF ExportOK
      <3>2. EventsRead(e, r, held)
        BY <2>2, <3>1 DEF EventsRead
      <3>3. Transfer!Evidence(r) \in held
        BY <1>4, <2>1, <3>1 DEF SessionOK
      <3>4. ASSUME r.status = "completed"
            PROVE  \E p \in held :
                       /\ p = [events |-> {"started", "ended"} \cup p.runs, origins |-> p.runs,
                               exchanges |-> e.exchanges, runs |-> p.runs]
                       /\ e.origins \subseteq p.runs /\ p.runs \subseteq r.runs
        <4> DEFINE p == Transfer!Evidence(r)
        <4>1. p = [events |-> {"started", "ended"} \cup r.runs, origins |-> r.runs,
                   exchanges |-> e.exchanges, runs |-> r.runs]
          BY <1>4, <2>1, <2>2, <3>4 DEF SessionOK, Transfer!Evidence
        <4>2. p.runs = r.runs
          BY <4>1
        <4>3. e.origins \subseteq r.runs
          BY <3>2, <3>4 DEF EventsRead
        <4> HIDE DEF p
        <4>4. p \in held
          BY <3>3 DEF p
        <4> QED  BY <4>1, <4>2, <4>3, <4>4
      <3>5. ExchangesRead(e, r, held)
        BY <2>2, <3>4 DEF ExchangesRead
      <3> QED  BY <2>2, <3>1, <3>2, <3>5 DEF ExportOK
    <2>4. CASE exporter' = [pc |-> "idle"]
      BY <2>4 DEF ExporterOK
    <2> QED  BY <1>5, <2>1, <2>2, <2>3, <2>4
  <1>9. ASSUME Transfer!ReadRuns PROVE ExporterOK'
    <2> DEFINE e == [exporter EXCEPT !.pc = "blobs", !.runs = r.runs]
    <2>1. exporter.pc = "runs" /\ exporter' = e
      BY <1>9 DEF Transfer!ReadRuns, Transfer!ExportStep, Transfer!Session
    <2>2. /\ e.pc = "blobs" /\ e.exchanges = exporter.exchanges /\ e.events = exporter.events
          /\ e.origins = exporter.origins /\ e.runs = r.runs
          /\ e.kept = exporter.kept /\ e.store = exporter.store /\ e.session = exporter.session
          /\ IsExport(e)
      BY <1>3, <2>1 DEF IsExport
    <2> HIDE DEF e, r, held
    <2>3. ASSUME e.kept PROVE ExportOK(e, r, held)
      <3>1. /\ EventsRead(exporter, r, held) /\ ExchangesRead(exporter, r, held)
            /\ r.status \in {"completed", "imported-readonly"}
        BY <1>3, <2>1, <2>2, <2>3 DEF ExportOK
      <3>2. EventsRead(e, r, held) /\ ExchangesRead(e, r, held)
        BY <2>2, <3>1 DEF EventsRead, ExchangesRead
      <3> DEFINE c == Transfer!Contents(e)
      <3>3. /\ c.events = e.events /\ c.profile = e.profile
            /\ e.profile # "share" => /\ c.origins = e.origins /\ c.exchanges = e.exchanges
                                      /\ c.runs = e.runs
        BY DEF Transfer!Contents
      <3> HIDE DEF c
      <3>4. ASSUME Transfer!Relates(c) PROVE \E p \in held : Transfer!IsSnapshot(c, p)
        <4>1. CASE e.profile = "share"
          BY <3>2, <3>3, <4>1 DEF EventsRead, Transfer!IsSnapshot
        <4>2. CASE e.profile # "share" /\ r.status = "imported-readonly"
          <5>1. Transfer!Evidence(c) = Transfer!Evidence(r)
            BY <2>2, <3>2, <3>3, <4>2 DEF EventsRead, ExchangesRead, Transfer!Evidence
          <5>2. Transfer!Evidence(r) \in held
            BY <1>4, <2>1, <4>2 DEF SessionOK
          <5>3. c.events = Transfer!Evidence(r).events
            BY <2>2, <3>2, <3>3, <4>2 DEF EventsRead, Transfer!Evidence
          <5> QED  BY <5>1, <5>2, <5>3 DEF Transfer!IsSnapshot
        <4>3. CASE e.profile # "share" /\ r.status = "completed"
          <5>1. PICK p \in held :
                    /\ p = [events |-> {"started", "ended"} \cup p.runs, origins |-> p.runs,
                            exchanges |-> e.exchanges, runs |-> p.runs]
                    /\ e.origins \subseteq p.runs /\ p.runs \subseteq r.runs
            BY <3>2, <4>3 DEF ExchangesRead
          <5>2. /\ r.runs \subseteq Held /\ c.runs = r.runs /\ c.origins = e.origins
                /\ c.events = {"started", "ended"} \cup e.origins /\ c.exchanges = e.exchanges
            BY <1>4, <2>1, <2>2, <3>2, <3>3, <4>3 DEF SessionOK, EventsRead
          <5>3. r.runs \subseteq e.origins
            BY <3>4, <5>2, RetentionAssumption DEF Transfer!Relates
          <5>4. p.runs = r.runs /\ e.origins = r.runs
            BY <5>1, <5>3
          <5>5. /\ p = [events |-> {"started", "ended"} \cup r.runs, origins |-> r.runs,
                        exchanges |-> e.exchanges, runs |-> r.runs]
            BY <5>1, <5>4
          <5>6. c.events = p.events /\ Transfer!Evidence(c) = p
            BY <5>2, <5>4, <5>5 DEF Transfer!Evidence
          <5> QED  BY <5>6 DEF Transfer!IsSnapshot
        <4> QED  BY <3>1, <4>1, <4>2, <4>3
      <3>5. IsWhole(Transfer!Contents(e), held)
        BY <3>4 DEF IsWhole, c
      <3> QED  BY <2>2, <3>1, <3>2, <3>5 DEF ExportOK
    <2> QED  BY <1>5, <2>1, <2>2, <2>3
  <1> QED  BY <1>2, <1>6, <1>7, <1>8, <1>9 DEF TransferInv

-----------------------------------------------------------------------------
\* An archive that is written, or loses an event, is still what was exported.
LEMMA DigestsGrow ==
    ASSUME SessionsOK, Digests \subseteq Digests', store' = store, past' = past
    PROVE  SessionsOK'
  <1> SUFFICES ASSUME NEW m \in Homes, NEW s \in Moved
               PROVE  SessionOK(store[m].sessions[s], s, store[m].blobs, past[m][s], Digests')
    BY DEF SessionsOK
  <1>1. SessionOK(store[m].sessions[s], s, store[m].blobs, past[m][s], Digests)
    BY DEF SessionsOK
  <1> QED  BY <1>1, SessionGrows DEF SessionOK

\* An archive that is written is what was exported.
LEMMA WritingKeepsTransfer == TransferInv /\ Transfer!WriteArchive => TransferInv'
  <1> SUFFICES ASSUME TransferInv, Transfer!WriteArchive PROVE TransferInv'
    OBVIOUS
  <1> DEFINE c == Transfer!Contents(exporter)
             a == [contents |-> c, digest |-> c, from |-> exporter.store, kept |-> exporter.kept]
  <1>1. /\ exporter.pc = "blobs" /\ exporter' = [pc |-> "idle"]
        /\ store' = store /\ past' = past /\ importer' = importer
        /\ archives' = archives \/ archives' = archives \cup {a}
    BY DEF Transfer!WriteArchive
  <1>2. /\ DOMAIN a = {"contents", "digest", "from", "kept"} /\ a.from = exporter.store
        /\ a.digest = c /\ a.kept = exporter.kept /\ c.session = exporter.session
    BY DEF Transfer!Contents
  <1>3. IsExport(exporter)
    BY <1>1 DEF TransferInv, ExporterOK
  <1>4. exporter.kept => IsWhole(c, past[exporter.store][exporter.session])
    BY <1>1 DEF TransferInv, ExporterOK, ExportOK
  <1> HIDE DEF a, c
  <1>5. Digests \subseteq Digests'
    BY <1>1 DEF Digests
  <1>6. ArchivesOK'
    <2> SUFFICES ASSUME NEW b \in archives'
                 PROVE  IsArchive(b) /\ (b.kept => IsWhole(b.digest, past[b.from][b.digest.session]))
      BY <1>1 DEF ArchivesOK
    <2>1. CASE b \in archives
      BY <2>1 DEF TransferInv, ArchivesOK
    <2>2. CASE b = a
      BY <1>2, <1>3, <1>4, <2>2 DEF IsArchive, IsExport
    <2> QED  BY <1>1, <2>1, <2>2
  <1>7. StoresOK' /\ SessionsOK' /\ ExporterOK' /\ ImportersOK'
    BY <1>1, <1>5, DigestsGrow, ImportersGrow DEF TransferInv, StoresOK, ExporterOK
  <1> QED  BY <1>6, <1>7 DEF TransferInv

\* A damaged archive keeps its digest.
LEMMA DamageKeepsTransfer ==
    ASSUME TransferInv, NEW a \in archives, Transfer!Damage(a) PROVE TransferInv'
  <1>1. /\ exporter' = exporter /\ store' = store /\ past' = past /\ importer' = importer
    BY DEF Transfer!Damage
  <1>2. PICK e \in a.contents.events :
            archives' = (archives \ {a}) \cup
                {[a EXCEPT !.contents.events = @ \ {e}, !.contents.origins = @ \ {e},
                           !.contents.counted = @ - 1]}
    BY DEF Transfer!Damage
  <1> DEFINE b == [a EXCEPT !.contents.events = @ \ {e}, !.contents.origins = @ \ {e},
                            !.contents.counted = @ - 1]
  <1>3. /\ DOMAIN b = DOMAIN a /\ b.digest = a.digest /\ b.from = a.from /\ b.kept = a.kept
    BY DEF TransferInv, ArchivesOK, IsArchive
  <1>4. archives' = (archives \ {a}) \cup {b}
    BY <1>2
  <1> HIDE DEF b
  <1>5. Digests \subseteq Digests'
    BY <1>3, <1>4 DEF Digests
  <1>6. ArchivesOK'
    <2> SUFFICES ASSUME NEW c \in archives'
                 PROVE  IsArchive(c) /\ (c.kept => IsWhole(c.digest, past[c.from][c.digest.session]))
      BY <1>1 DEF ArchivesOK
    <2>1. CASE c \in archives
      BY <2>1 DEF TransferInv, ArchivesOK
    <2>2. CASE c = b
      BY <1>3, <2>2 DEF TransferInv, ArchivesOK, IsArchive
    <2> QED  BY <1>4, <2>1, <2>2
  <1>7. StoresOK' /\ SessionsOK' /\ ExporterOK' /\ ImportersOK'
    BY <1>1, <1>5, DigestsGrow, ImportersGrow DEF TransferInv, StoresOK, ExporterOK
  <1> QED  BY <1>6, <1>7 DEF TransferInv

-----------------------------------------------------------------------------
\* The steps of an import.
LEMMA CheckKeepsTransfer ==
    ASSUME TransferInv, NEW i \in Imports, NEW m \in Homes, NEW a \in archives,
           Transfer!Check(i, m, a)
    PROVE  TransferInv'
  <1> DEFINE step == [pc |-> "putting", store |-> m, archive |-> a,
                      left |-> Transfer!Bodies(a.contents.exchanges), created |-> {}]
  <1>1. /\ store' = store /\ past' = past /\ archives' = archives /\ exporter' = exporter
        /\ importer' = [importer EXCEPT ![i] = step]
        /\ a.digest = a.contents /\ Transfer!Relates(a.contents)
    BY DEF Transfer!Check, Transfer!ImportStep, Transfer!Verifies
  <1>2. ImportOK(step, Digests)
    BY <1>1 DEF ImportOK, Digests, TransferInv, ArchivesOK, IsArchive
  <1> HIDE DEF step
  <1>3. ImportersOK'
    BY <1>1, <1>2, ImporterSteps DEF TransferInv
  <1> QED  BY <1>1, <1>3 DEF TransferInv, StoresOK, SessionsOK, ExporterOK, ArchivesOK, Digests

\* A put adds a body.
LEMMA PutKeepsTransfer ==
    ASSUME TransferInv, NEW i \in Imports, NEW x \in Held, Transfer!PutBlob(i, BodyOf[x])
    PROVE  TransferInv'
  <1> DEFINE m == importer[i].store
             created == IF BodyOf[x] \in store[m].blobs THEN importer[i].created
                        ELSE importer[i].created \cup {BodyOf[x]}
             stepped == [importer[i] EXCEPT !.left = importer[i].left \ {BodyOf[x]},
                                            !.created = created]
             refused == [importer[i] EXCEPT !.pc = "cleaning"]
  <1>1. /\ past' = past /\ archives' = archives /\ exporter' = exporter
        /\ importer[i].pc = "putting"
        /\ \/ /\ store' = [store EXCEPT ![m].blobs = store[m].blobs \cup {BodyOf[x]}]
              /\ importer' = [importer EXCEPT ![i] = stepped]
           \/ store' = store /\ importer' = [importer EXCEPT ![i] = refused]
    BY DEF Transfer!PutBlob, Transfer!ImportStep
  <1>2. ImportOK(importer[i], Digests)
    BY <1>1 DEF TransferInv, ImportersOK
  <1>3. ImportOK(stepped, Digests) /\ refused.pc # "putting"
    BY <1>2 DEF ImportOK
  <1>4. m \in Homes => \A s \in Moved : Transfer!Bodies(store[m].sessions[s].exchanges)
                                            \subseteq store[m].blobs \cup {BodyOf[x]}
    BY DEF TransferInv, SessionsOK, SessionOK
  <1> HIDE DEF m, stepped, refused
  <1>5. ImportersOK'
    BY <1>1, <1>3, ImporterSteps DEF TransferInv
  <1>6. CASE store' = store
    BY <1>1, <1>5, <1>6 DEF TransferInv, StoresOK, SessionsOK, ExporterOK, ArchivesOK, Digests
  <1>7. CASE store' = [store EXCEPT ![m].blobs = store[m].blobs \cup {BodyOf[x]}]
    BY <1>1, <1>4, <1>5, <1>7, BlobsKeepTransfer, Zenon DEF TransferInv
  <1> QED  BY <1>1, <1>6, <1>7

\* The commit of an import stores what the digest has, or nothing.
LEMMA CommitKeepsTransfer ==
    ASSUME TransferInv, NEW i \in Imports, Transfer!Commit(i) PROVE TransferInv'
  <1> DEFINE m == importer[i].store
             c == importer[i].archive.contents
             s == c.session
             record == [Transfer!Absent EXCEPT !.status = "imported-readonly",
                            !.events = c.events, !.origins = c.origins,
                            !.exchanges = c.exchanges, !.runs = c.runs]
             held == past[m][s] \cup {Transfer!Evidence(c)}
             undone == [importer[i] EXCEPT !.pc = "cleaning"]
             done == [pc |-> "idle"]
  <1>1. /\ importer[i].pc = "putting" /\ archives' = archives /\ exporter' = exporter
        /\ \/ /\ ~Transfer!Exists(m, s) /\ Transfer!Bodies(c.exchanges) \subseteq store[m].blobs
              /\ store' = [store EXCEPT ![m] = [store[m] EXCEPT
                     !.sessions = [store[m].sessions EXCEPT ![s] = record]]]
              /\ past' = [past EXCEPT ![m] = [past[m] EXCEPT ![s] = held]]
              /\ importer' = [importer EXCEPT ![i] = done]
           \/ store' = store /\ past' = past /\ importer' = [importer EXCEPT ![i] = undone]
    BY ZenonT(30) DEF Transfer!Commit, Transfer!ImportStep, Transfer!HasHeld
  <1>2. /\ m \in Homes /\ s \in Moved /\ Transfer!Relates(c) /\ c \in Digests
        /\ undone.pc # "putting" /\ done.pc # "putting"
    BY <1>1 DEF TransferInv, ImportersOK, ImportOK
  <1>3. ImportersOK'
    <2> HIDE DEF done, undone
    <2> QED  BY <1>1, <1>2, ImporterSteps, ZenonT(30) DEF TransferInv
  <1>4. CASE store' = store /\ past' = past
    BY <1>1, <1>3, <1>4, Zenon DEF TransferInv, StoresOK, SessionsOK, ExporterOK, ArchivesOK, Digests
  <1>5. CASE /\ ~Transfer!Exists(m, s) /\ Transfer!Bodies(c.exchanges) \subseteq store[m].blobs
             /\ store' = [store EXCEPT ![m] = [store[m] EXCEPT
                    !.sessions = [store[m].sessions EXCEPT ![s] = record]]]
             /\ past' = [past EXCEPT ![m] = [past[m] EXCEPT ![s] = held]]
    <2>1. /\ IsRecord(record) /\ record.status = "imported-readonly" /\ record.recording = {}
          /\ record.exchanges = c.exchanges /\ Transfer!Evidence(record) = Transfer!Evidence(c)
      BY DEF Transfer!Absent, IsRecord, Transfer!Evidence
    <2>2. store[m].sessions[s].status = "absent"
      BY <1>5, ZenonT(30) DEF Transfer!Exists, Transfer!Session
    <2> HIDE DEF record
    <2>3. SessionOK(record, s, store[m].blobs, held, Digests)
      BY <1>2, <1>5, <2>1 DEF SessionOK
    <2>4. past[m][s] \subseteq held
      BY Zenon
    <2>5. archives' = archives /\ m \in Homes /\ s \in Moved
      BY <1>1, <1>2, Zenon
    <2>6. /\ store' = [store EXCEPT ![m] = [store[m] EXCEPT
                 !.sessions = [store[m].sessions EXCEPT ![s] = record]]]
          /\ past' = [past EXCEPT ![m] = [past[m] EXCEPT ![s] = held]]
      BY <1>5
    <2> HIDE DEF m, s, held, c
    <2>7. PICK n, t, new, moments : n = m /\ t = s /\ new = record /\ moments = held
      OBVIOUS
    <2>8. /\ SessionOK(new, t, store[n].blobs, moments, Digests) /\ past[n][t] \subseteq moments
          /\ n \in Homes /\ t \in Moved
      BY <2>3, <2>4, <2>5, <2>7
    <2>9. Becomes(n, t, new, moments)
      BY <2>6, <2>7 DEF Becomes
    <2>10. /\ StoresOK' /\ SessionsOK' /\ ArchivesOK'
           /\ \A k \in Homes, u \in Moved : past[k][u] \subseteq past'[k][u]
           /\ \A k \in Homes, u \in Moved :
                 store'[k].sessions[u] = IF k = n /\ u = t THEN new ELSE store[k].sessions[u]
      BY <2>5, <2>8, <2>9, SessionBecomes
    <2>11. ExporterOK'
      <3>1. \A k \in Homes, u \in Moved :
                \/ store'[k].sessions[u] = store[k].sessions[u]
                \/ store[k].sessions[u].status \notin {"completed", "imported-readonly"}
        BY <2>2, <2>7, <2>10
      <3> QED  BY <1>1, <2>10, <3>1, ExporterWaits
    <2> QED  BY <1>3, <2>10, <2>11 DEF TransferInv
  <1> QED  BY <1>1, <1>4, <1>5, ZenonT(30)

\* Cleaning up removes only what no session names.
LEMMA CleanUpKeepsTransfer ==
    ASSUME TransferInv, NEW i \in Imports, Transfer!CleanUp(i) PROVE TransferInv'
  <1> DEFINE m == importer[i].store
             blobs == store[m].blobs \ (importer[i].created \ Transfer!Referenced(store[m].sessions))
             done == [pc |-> "idle"]
  <1>1. /\ past' = past /\ archives' = archives /\ exporter' = exporter
        /\ store' = [store EXCEPT ![m].blobs = blobs]
        /\ importer' = [importer EXCEPT ![i] = done]
    BY DEF Transfer!CleanUp, Transfer!ImportStep
  <1>2. m \in Homes => \A s \in Moved :
                           Transfer!Bodies(store[m].sessions[s].exchanges) \subseteq blobs
    BY DEF TransferInv, SessionsOK, SessionOK, Transfer!Referenced
  <1>3. done.pc # "putting"
    OBVIOUS
  <1> HIDE DEF m, blobs, done
  <1>4. ImportersOK'
    BY <1>1, <1>3, ImporterSteps DEF TransferInv
  <1> QED  BY <1>1, <1>2, <1>4, BlobsKeepTransfer DEF TransferInv

\* A crash leaves the import where it was.
LEMMA CrashKeepsTransfer ==
    ASSUME TransferInv, NEW i \in Imports, Transfer!Crash(i) PROVE TransferInv'
  <1> DEFINE done == [pc |-> "idle"]
  <1>1. /\ store' = store /\ past' = past /\ archives' = archives /\ exporter' = exporter
        /\ importer' = [importer EXCEPT ![i] = done]
    BY DEF Transfer!Crash, Transfer!ImportStep
  <1>2. done.pc # "putting"
    OBVIOUS
  <1> HIDE DEF done
  <1>3. ImportersOK'
    BY <1>1, <1>2, ImporterSteps DEF TransferInv
  <1> QED  BY <1>1, <1>3 DEF TransferInv, StoresOK, SessionsOK, ExporterOK, ArchivesOK, Digests

-----------------------------------------------------------------------------
\* A collection removes only what no session names.
LEMMA CollectingKeepsTransfer == TransferInv /\ Transfer!RemoveUnreferenced => TransferInv'
  <1> SUFFICES ASSUME TransferInv, Transfer!RemoveUnreferenced PROVE TransferInv'
    OBVIOUS
  <1> DEFINE m == preview.store
             blobs == store[m].blobs \cap Transfer!Referenced(store[m].sessions)
  <1>1. /\ past' = past /\ archives' = archives /\ exporter' = exporter /\ importer' = importer
        /\ store' = [store EXCEPT ![m].blobs = blobs]
    BY DEF Transfer!RemoveUnreferenced
  <1>2. m \in Homes => \A s \in Moved :
                           Transfer!Bodies(store[m].sessions[s].exchanges) \subseteq blobs
    BY DEF TransferInv, SessionsOK, SessionOK, Transfer!Referenced
  <1> HIDE DEF m, blobs
  <1>3. ImportersOK'
    BY <1>1 DEF TransferInv, ImportersOK, Digests
  <1> QED  BY <1>1, <1>2, <1>3, BlobsKeepTransfer DEF TransferInv

\* Every step keeps the invariant.
LEMMA StepTransfer == TransferInv /\ [Transfer!Next]_(Transfer!vars) => TransferInv'
  <1> SUFFICES ASSUME TransferInv, [Transfer!Next]_(Transfer!vars) PROVE TransferInv'
    OBVIOUS
  <1>1. ASSUME \/ \E m \in Homes, s \in Moved : Transfer!PlanSessionDeletion(m, s)
               \/ \E m \in Homes : \E cutoff, limit : Transfer!PlanEvidencePrune(m, cutoff, limit)
               \/ UNCHANGED Transfer!vars
        PROVE  TransferInv'
    BY <1>1, Zenon DEF TransferInv, StoresOK, SessionsOK, ExporterOK, ArchivesOK, ImportersOK, Digests,
                Transfer!PlanSessionDeletion, Transfer!PlanEvidencePrune, Transfer!Plan,
                Transfer!vars
  <1> QED
    BY <1>1, RecordingKeepsTransfer, StoreBodyKeepsTransfer, ReadsKeepTransfer,
       WritingKeepsTransfer, DamageKeepsTransfer, CheckKeepsTransfer, PutKeepsTransfer,
       CommitKeepsTransfer, CleanUpKeepsTransfer, CrashKeepsTransfer, DeletionKeepsTransfer,
       CollectingKeepsTransfer
    DEF Transfer!Next

\* The invariant says what is imported and what the archives hold.
LEMMA SnapshotsFollow == TransferInv => Transfer!ImportsAreSnapshots
  <1> SUFFICES ASSUME TransferInv PROVE Transfer!ImportsAreSnapshots
    OBVIOUS
  <1>1. ASSUME NEW m \in Homes, NEW s \in Moved,
               store[m].sessions[s].status = "imported-readonly"
        PROVE  /\ Transfer!Bodies(store[m].sessions[s].exchanges) \subseteq store[m].blobs
               /\ \E a \in archives :
                      /\ a.digest.session = s /\ Transfer!Relates(a.digest)
                      /\ Transfer!Evidence(a.digest) = Transfer!Evidence(store[m].sessions[s])
    BY <1>1 DEF TransferInv, SessionsOK, SessionOK, Digests
  <1>2. ASSUME NEW a \in archives, a.kept, Transfer!Relates(a.digest)
        PROVE  \E p \in past[a.from][a.digest.session] :
                   Transfer!IsSnapshot(a.digest, p)
    BY <1>2 DEF TransferInv, ArchivesOK, IsWhole
  <1> QED  BY <1>1, <1>2 DEF Transfer!ImportsAreSnapshots, Transfer!Session
=============================================================================
