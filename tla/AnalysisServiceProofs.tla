------------------------ MODULE AnalysisServiceProofs ------------------------
(***************************************************************************)
(* Proofs about AnalysisService, for every set of events and any number of *)
(* requests: that requests at once are given one analysis, that later      *)
(* evidence does not change it, and that the provider is given what its    *)
(* user agreed to.                                                         *)
(***************************************************************************)
EXTENDS AnalysisService, SequenceTheorems, FiniteSetTheorems, NaturalsInduction,
        WellFoundedInduction, TLAPS

-----------------------------------------------------------------------------
(* What the analyzer does, for every log.                                  *)

\* A function of an initial segment of the numbers is a sequence.
LEMMA FunctionIsSeq ==
    ASSUME NEW S, NEW n \in Nat, NEW s \in [1 .. n -> S]
    PROVE  s \in Seq(S) /\ Len(s) = n
  <1>1. s \in Seq(S)  BY SeqDef
  <1> QED  BY <1>1, LenProperties

\* A bounded set of numbers has a greatest.
LEMMA GreatestExists ==
    ASSUME NEW S \in SUBSET Nat, S # {}, NEW b \in Nat, \A n \in S : n <= b
    PROVE  \E m \in S : \A n \in S : n <= m
  <1> DEFINE T == {b - n : n \in S}
             R == {ss \in Nat \X Nat : ss[1] < ss[2]}
  <1>1. T \subseteq Nat /\ T # {}
    <2>1. ASSUME NEW n \in S PROVE b - n \in Nat
      <3>1. n \in Nat /\ n <= b  OBVIOUS
      <3> QED  BY <3>1
    <2> QED  BY <2>1
  <1>2. IsWellFoundedOn(R, Nat)  BY NatLessThanWellFounded DEF OpToRel
  <1>3. PICK k \in T : \A l \in T : ~(<<l, k>> \in R)
    <2> HIDE DEF R, T
    <2> QED  BY <1>1, <1>2, WFMin
  <1>4. \A l \in T : k <= l
    <2> HIDE DEF T
    <2> SUFFICES ASSUME NEW l \in T PROVE k <= l  OBVIOUS
    <2>1. k \in Nat /\ l \in Nat  BY <1>1
    <2>2. l < k => <<l, k>> \in R  BY <2>1
    <2>3. ~(l < k)  BY <1>3, <2>2
    <2> QED  BY <2>1, <2>3
  <1>5. PICK m \in S : k = b - m  OBVIOUS
  <1>6. ASSUME NEW n \in S PROVE n <= m
    <2>1. b - m <= b - n  BY <1>4, <1>5
    <2>2. m \in Nat /\ n \in Nat  OBVIOUS
    <2> QED  BY <2>1, <2>2
  <1> QED  BY <1>6

\* There is a latest of the best.
LEMMA LatestBestIsOne ==
    ASSUME NEW n \in Nat, NEW S \in SUBSET (1 .. n), S # {}, NEW f, NEW b \in Nat,
           \A i \in S : f[i] \in 0 .. b
    PROVE  LatestBest(S, f) \in S
  <1>1. PICK m \in {f[i] : i \in S} : \A k \in {f[i] : i \in S} : k <= m
    <2> DEFINE T == {f[i] : i \in S}
    <2>1. T \in SUBSET Nat /\ \A k \in T : k <= b
      <3>1. \A k \in T : k \in 0 .. b  OBVIOUS
      <3> HIDE DEF T
      <3>2. \A k \in T : k \in Nat /\ k <= b  BY <3>1
      <3> QED  BY <3>2
    <2>3. T # {}  OBVIOUS
    <2> HIDE DEF T
    <2>2. \E m \in T : \A k \in T : k <= m  BY <2>1, <2>3, GreatestExists
    <2> QED  BY <2>2 DEF T
  <1>2. PICK i \in {j \in S : f[j] = m} : \A k \in {j \in S : f[j] = m} : k <= i
    <2> DEFINE T == {j \in S : f[j] = m}
    <2>1. T \in SUBSET Nat /\ T # {} /\ \A k \in T : k <= n
      <3>1. \A k \in T : k \in 1 .. n  OBVIOUS
      <3>2. T # {}  BY <1>1
      <3> HIDE DEF T
      <3>3. \A k \in T : k \in Nat /\ k <= n  BY <3>1
      <3> QED  BY <3>2, <3>3
    <2> HIDE DEF T
    <2>2. \E i \in T : \A k \in T : k <= i  BY <2>1, GreatestExists
    <2> QED  BY <2>2 DEF T
  <1>3. \A j \in S : f[i] > f[j] \/ (f[i] = f[j] /\ i >= j)
    <2> SUFFICES ASSUME NEW j \in S PROVE f[i] > f[j] \/ (f[i] = f[j] /\ i >= j)
      OBVIOUS
    <2>1. f[j] <= m /\ f[i] = m /\ f[j] \in Nat /\ m \in Nat  BY <1>1, <1>2
    <2>2. f[j] = m => j <= i  BY <1>2
    <2> QED  BY <2>1, <2>2
  <1>4. \E k \in S : \A j \in S : f[k] > f[j] \/ (f[k] = f[j] /\ k >= j)
    BY <1>2, <1>3
  <1> QED  BY <1>4 DEF LatestBest

\* The call that had the effect is the action or comes before it.
LEMMA InvocationIsEarlier ==
    ASSUME NEW h, NEW t \in Nat \ {0}
    PROVE  FindInvocation(h, t) \in 1 .. t
  <1> DEFINE C == Calls(h, t)
             score == [i \in C |-> MatchingScore(h, i, t)]
             matching == {i \in C : score[i] > 0}
  <1>1. C \subseteq 1 .. t - 1  BY DEF Calls
  <1>2. \A i \in C : MatchingScore(h, i, t) \in 0 .. 24  BY DEF MatchingScore
  <1> HIDE DEF C
  <1>3. \A i \in matching : score[i] \in 0 .. 24  BY <1>2
  <1>4. matching # {} => LatestBest(matching, score) \in matching
    <2>1. matching \in SUBSET (1 .. t - 1)  BY <1>1
    <2>2. t - 1 \in Nat  OBVIOUS
    <2> HIDE DEF matching, score
    <2> QED  BY <1>3, <2>1, <2>2, LatestBestIsOne
  <1>5. matching # {} => LatestBest(matching, score) \in 1 .. t - 1  BY <1>1, <1>4
  <1>6. \/ FindInvocation(h, t) = t
        \/ matching # {} /\ FindInvocation(h, t) = LatestBest(matching, score)
    BY DEF FindInvocation, C
  <1> QED  BY <1>5, <1>6

\* Of assessments with numbers for scores and an event each, every rank is taken, and
\* the sequence of the best first consists of them.
LEMMA EveryRankIsTaken ==
    ASSUME NEW S, IsFiniteSet(S), \A a \in S : a.score \in Nat /\ a.event \in Nat,
           \A a, b \in S : a.event = b.event => a = b
    PROVE  BestFirst(S) \in [1 .. Cardinality(S) -> S]
  <1> DEFINE above(a) == {b \in S : Ahead(b, a)}
             rank == [a \in S |-> Cardinality(above(a))]
             n == Cardinality(S)
             R == 0 .. n - 1
  <1>1. n \in Nat  BY FS_CardinalityType
  <1>2. ASSUME NEW a \in S PROVE IsFiniteSet(above(a)) /\ above(a) \subseteq S \ {a}
    <2>1. above(a) \subseteq S \ {a}  BY DEF Ahead
    <2> QED  BY <2>1, FS_Subset
  <1>3. ASSUME NEW a \in S PROVE rank[a] \in R
    <2>1. IsFiniteSet(S \ {a}) /\ Cardinality(S \ {a}) = n - 1  BY FS_RemoveElement
    <2>2. Cardinality(above(a)) <= n - 1  BY <1>2, <2>1, FS_Subset
    <2>3. Cardinality(above(a)) \in Nat  BY <1>2, FS_CardinalityType
    <2> QED  BY <1>1, <2>2, <2>3
  <1>4. ASSUME NEW a \in S, NEW b \in S, Ahead(a, b) PROVE rank[a] < rank[b]
    <2>1. above(a) \subseteq above(b) /\ a \in above(b) /\ a \notin above(a)
      BY <1>4 DEF Ahead
    <2>2. above(a) # above(b)  BY <2>1
    <2>3. Cardinality(above(a)) <= Cardinality(above(b))
          /\ Cardinality(above(a)) # Cardinality(above(b))
      <3> HIDE DEF above
      <3> QED  BY <1>2, <2>1, <2>2, FS_Subset
    <2>4. Cardinality(above(a)) \in Nat /\ Cardinality(above(b)) \in Nat
      BY <1>2, FS_CardinalityType
    <2> QED  BY <2>3, <2>4
  <1>5. ASSUME NEW a \in S, NEW b \in S, a # b PROVE rank[a] # rank[b]
    <2>1. Ahead(a, b) \/ Ahead(b, a)  BY <1>5 DEF Ahead
    <2>2. rank[a] \in Nat /\ rank[b] \in Nat  BY <1>1, <1>3
    <2>3. rank[a] < rank[b] \/ rank[b] < rank[a]  BY <1>4, <2>1
    <2> HIDE DEF rank
    <2> QED  BY <2>2, <2>3
  <1>6. IsFiniteSet(R) /\ Cardinality(R) = n
    BY <1>1, FS_Interval
  <1>7. rank \in Injection(S, R)
    <2> HIDE DEF R
    <2>1. rank \in [S -> R]  BY <1>3
    <2> QED  BY <1>5, <2>1 DEF Injection, IsInjective
  <1>8. rank \in Surjection(S, R)
    <2> HIDE DEF rank, R, n
    <2> QED  BY <1>6, <1>7, FS_Injection DEF n
  <1>9. ASSUME NEW k \in 1 .. n PROVE \E a \in S : rank[a] = k - 1
    <2>1. k - 1 \in R  BY <1>1
    <2> HIDE DEF rank, R
    <2> QED  BY <1>8, <2>1 DEF Surjection
  <1>10. BestFirst(S) = [k \in 1 .. n |-> CHOOSE a \in S : rank[a] = k - 1]
    BY DEF BestFirst
  <1>11. BestFirst(S) \in [1 .. n -> S]
    <2> HIDE DEF rank, n
    <2> QED  BY <1>9, <1>10
  <1> QED  BY <1>11

\* The provenance of a candidate is a number of thousandths.
LEMMA ProvenanceIsNumber ==
    ASSUME NEW relations PROVE Provenance(relations) \in 0 .. 1000
  BY DEF Provenance

\* So are what it shares with the action and how much it reads like an instruction.
LEMMA FeaturesAreNumbers ==
    ASSUME NEW e, NEW t
    PROVE  /\ Overlap(e, t) \in 0 .. 1000 /\ Instruction(e, t) \in 0 .. 1000
           /\ Matches(e, t) \in 0 .. 2
  <1>1. Overlap(e, t) \in 0 .. 1000  BY DEF Overlap
  <1>2. Instruction(e, t) \in 0 .. 1000  BY DEF Instruction
  <1>3. Matches(e, t) \in 0 .. 2  BY DEF Matches
  <1> QED  BY <1>1, <1>2, <1>3

\* So is its conflict with what the user wants.
LEMMA ConflictIsNumber ==
    ASSUME NEW e, NEW t, NEW intent PROVE Conflict(e, t, intent) \in 0 .. 1000
  BY FeaturesAreNumbers DEF Conflict

\* Neither an old event nor a recent one has a recency that is not a number.
LEMMA RecencyIsNumber ==
    ASSUME NEW n \in Nat, NEW i \in Nat PROVE Recency(n, i) \in Nat
  <1>1. ASSUME NEW d \in 1 .. 60 PROVE Decay[d] \in Nat  BY DEF Decay
  <1> QED  BY <1>1 DEF Recency

\* A document is like the action to some degree.
LEMMA SimilarityIsNumber ==
    ASSUME NEW h, NEW t, NEW documents, NEW i \in documents
    PROVE  Similarity(h, i, t, documents) \in Nat
  <1> DEFINE M == {Matches(h[j], h[t]) : j \in documents}
             m == Matches(h[i], h[t])
             best == Max(M)
             bm25 == IF best = 0 THEN 0 ELSE (1000 * m) \div best
  <1>1. \A k \in M : k \in 0 .. 2  BY FeaturesAreNumbers
  <1>2. m \in M /\ m \in 0 .. 2  BY FeaturesAreNumbers
  <1>3. best \in 0 .. 2
    <2> HIDE DEF M, m
    <2>1. \E k \in M : \A l \in M : k >= l
      <3>1. M \in SUBSET Nat /\ M # {} /\ \A k \in M : k <= 2  BY <1>1, <1>2
      <3>2. \E k \in M : \A l \in M : l <= k  BY <3>1, GreatestExists
      <3> QED  BY <3>1, <3>2
    <2>2. Max(M) \in M  BY <2>1 DEF Max
    <2> QED  BY <1>1, <2>2
  <1>4. bm25 \in Nat
    <2> HIDE DEF best, m
    <2>1. 1000 * m \in Nat  BY <1>2
    <2>2. CASE best = 0  BY <2>2
    <2>3. CASE best = 1  BY <2>1, <2>3
    <2>4. CASE best = 2  BY <2>1, <2>4
    <2> QED  BY <1>3, <2>2, <2>3, <2>4
  <1>5. Similarity(h, i, t, documents) = IF 500 * m = 0 THEN 0 ELSE Max({500 * m, bm25})
    BY DEF Similarity
  <1>6. ASSUME NEW x \in Nat, NEW y \in Nat PROVE Max({x, y}) \in Nat
    <2>1. \E k \in {x, y} : \A l \in {x, y} : k >= l  OBVIOUS
    <2>2. Max({x, y}) \in {x, y}  BY <2>1 DEF Max
    <2> QED  BY <2>2
  <1> HIDE DEF bm25, m
  <1>7. 500 * m \in Nat  BY <1>2
  <1>8. Max({500 * m, bm25}) \in Nat  BY <1>4, <1>6, <1>7
  <1> QED  BY <1>5, <1>8

\* A score is a number.
LEMMA ScoreIsNumber ==
    ASSUME NEW h, NEW t, NEW invocation \in Nat, NEW documents, NEW i \in documents,
           i \in Nat, NEW relations, NEW intent
    PROVE  Score(h, i, invocation, t, documents, relations, intent) \in Nat
  <1>1. PICK p \in Nat : p = Provenance(relations)  BY ProvenanceIsNumber
  <1>2. PICK s \in Nat : s = Similarity(h, i, t, documents)  BY SimilarityIsNumber
  <1>3. PICK o \in Nat : o = Overlap(h[i], h[t])
    <2>1. Overlap(h[i], h[t]) \in 0 .. 1000  BY FeaturesAreNumbers
    <2> QED  BY <2>1
  <1>4. PICK c \in Nat : c = Conflict(h[i], h[t], intent)
    <2>1. Conflict(h[i], h[t], intent) \in 0 .. 1000  BY ConflictIsNumber
    <2> QED  BY <2>1
  <1>5. PICK k \in Nat : k = Instruction(h[i], h[t])
    <2>1. Instruction(h[i], h[t]) \in 0 .. 1000  BY FeaturesAreNumbers
    <2> QED  BY <2>1
  <1>6. PICK r \in Nat : r = Recency(invocation, i)  BY RecencyIsNumber
  <1>7. PICK total \in Nat : total = 30 * p + 20 * s + 15 * o + 15 * c + 10 * k + 10 * r
    OBVIOUS
  <1>8. Score(h, i, invocation, t, documents, relations, intent) = total \div 100
    BY <1>1, <1>2, <1>3, <1>4, <1>5, <1>6, <1>7 DEF Score
  <1> QED  BY <1>8

-----------------------------------------------------------------------------
(* The analysis of an action reads the events up to it.                    *)

\* The logs have the same first n events, each after its parent.
Agree(a, b, n) ==
    /\ n \in Nat
    /\ \A i \in 1 .. n : a[i] = b[i] /\ a[i].parent \in 0 .. i - 1

\* The call that had the effect is the same.
LEMMA SameInvocation ==
    ASSUME NEW a, NEW b, NEW t \in Nat \ {0}, Agree(a, b, t)
    PROVE  /\ Calls(a, t) = Calls(b, t)
           /\ FindInvocation(a, t) = FindInvocation(b, t)
  <1>1. a[t] = b[t] /\ a[t].parent \in 0 .. t - 1  BY DEF Agree
  <1>2. Calls(a, t) = Calls(b, t)  BY DEF Agree, Calls
  <1>3. ASSUME NEW i \in Calls(a, t) PROVE MatchingScore(a, i, t) = MatchingScore(b, i, t)
    <2>1. i \in 1 .. t - 1  BY DEF Calls
    <2>2. a[i] = b[i]  BY <2>1 DEF Agree
    <2>3. a[t].parent # 0 => a[a[t].parent] = b[a[t].parent]  BY <1>1 DEF Agree
    <2> QED  BY <1>1, <2>2, <2>3 DEF MatchingScore, Child
  <1>4. [i \in Calls(a, t) |-> MatchingScore(a, i, t)] = [i \in Calls(b, t) |-> MatchingScore(b, i, t)]
    BY <1>2, <1>3
  <1> QED  BY <1>1, <1>2, <1>4 DEF FindInvocation

\* So is what is read to assess the events before the call.
LEMMA SameReading ==
    ASSUME NEW a, NEW b, NEW t \in Nat, Agree(a, b, t), NEW n \in 1 .. t, NEW c
    PROVE  /\ Candidates(a, n, c) = Candidates(b, n, c)
           /\ Intent(a, n, t) = Intent(b, n, t)
  <1>1. \A i \in 1 .. n : a[i] = b[i]  BY DEF Agree
  <1>2. a[t] = b[t]  BY DEF Agree
  <1>3. Candidates(a, n, c) = Candidates(b, n, c)
    BY <1>1 DEF Candidates, Before, Available
  <1>4. UserEvents(a, n) = UserEvents(b, n) /\ UserEvents(a, n) \subseteq 1 .. n - 1
    BY <1>1 DEF UserEvents, Before
  <1>5. Intent(a, n, t) = Intent(b, n, t)
    <2> DEFINE ra == {i \in UserEvents(a, n) : Names(a[i], a[t])}
               rb == {i \in UserEvents(b, n) : Names(b[i], b[t])}
               ka == {i \in ra : Mentions(a[i])}
               kb == {i \in rb : Mentions(b[i])}
    <2>1. \A i \in UserEvents(a, n) : a[i] = b[i]  BY <1>1, <1>4
    <2>2. ra = rb  BY <1>2, <1>4, <2>1
    <2>3. ka = kb /\ ka \subseteq UserEvents(a, n)  BY <2>1, <2>2
    <2>4. (\E i \in ka : "never" \in a[i].says) <=> (\E i \in kb : "never" \in b[i].says)
      BY <2>1, <2>3
    <2>5. (\E i \in ka : "never" \notin a[i].says) <=> (\E i \in kb : "never" \notin b[i].says)
      BY <2>1, <2>3
    <2>6. /\ Intent(a, n, t) = [prohibited |-> \E i \in ka : "never" \in a[i].says,
                                authorized |-> \E i \in ka : "never" \notin a[i].says,
                                evidence |-> ra]
          /\ Intent(b, n, t) = [prohibited |-> \E i \in kb : "never" \in b[i].says,
                                authorized |-> \E i \in kb : "never" \notin b[i].says,
                                evidence |-> rb]
      BY DEF Intent
    <2> HIDE DEF ra, rb, ka, kb
    <2> QED  BY <2>2, <2>4, <2>5, <2>6
  <1> QED  BY <1>3, <1>5

\* The assessments are the same.
LEMMA SameAssessment ==
    ASSUME NEW a, NEW b, NEW t \in Nat, Agree(a, b, t), NEW n \in 1 .. t, NEW c,
           NEW D \in SUBSET (1 .. n - 1)
    PROVE  Assessed(a, n, t, c, D) = Assessed(b, n, t, c, D)
  <1>1. \A i \in 1 .. n : a[i] = b[i]  BY DEF Agree
  <1>2. a[t] = b[t]  BY DEF Agree
  <1>3. Intent(a, n, t) = Intent(b, n, t)  BY SameReading
  <1>4. ASSUME NEW i \in D
        PROVE  /\ a[i] = b[i]
               /\ Relations(a, i, n, t, c) = Relations(b, i, n, t, c)
               /\ \A r, q : Score(a, i, n, t, D, r, q) = Score(b, i, n, t, D, r, q)
    <2>1. a[i] = b[i] /\ a[n] = b[n]  BY <1>1
    <2>2. Relations(a, i, n, t, c) = Relations(b, i, n, t, c)
      BY <1>2, <2>1 DEF Relations, Child
    <2> DEFINE ma == {Matches(a[j], a[t]) : j \in D}
               mb == {Matches(b[j], b[t]) : j \in D}
               like(m, best) ==
                   LET bm25 == IF best = 0 THEN 0 ELSE (1000 * m) \div best
                   IN IF 500 * m = 0 THEN 0 ELSE Max({500 * m, bm25})
    <2>3. ma = mb  BY <1>1, <1>2
    <2>4. Similarity(a, i, t, D) = Similarity(b, i, t, D)
      <3>1. /\ Similarity(a, i, t, D) = like(Matches(a[i], a[t]), Max(ma))
            /\ Similarity(b, i, t, D) = like(Matches(b[i], b[t]), Max(mb))
        BY DEF Similarity
      <3> HIDE DEF ma, mb, like
      <3> QED  BY <1>2, <2>1, <2>3, <3>1
    <2> QED  BY <1>2, <2>1, <2>2, <2>4 DEF Score
  <1> QED  BY <1>2, <1>3, <1>4 DEF Assessed

\* Assessments of the given events, in some order.
Ranking(cs, D) ==
    \E S : /\ cs \in Seq(S)
           /\ \A c \in S : c.event \in D

\* The candidates are assessments of the documents.
LEMMA CandidatesAreDocuments ==
    ASSUME NEW h, NEW n \in Nat, NEW t, NEW c, NEW D \in SUBSET (1 .. n - 1)
    PROVE  Ranking(Assessed(h, n, t, c, D), D)
  <1> DEFINE intent == Intent(h, n, t)
             relations(i) == Relations(h, i, n, t, c)
             assess(i) == [event |-> i, relations |-> relations(i),
                           instruction |-> Instruction(h[i], h[t]),
                           conflict |-> Conflict(h[i], h[t], intent),
                           overlap |-> Overlap(h[i], h[t]),
                           score |-> Score(h, i, n, t, D, relations(i), intent)]
             f == [i \in D |-> assess(i)]
             S == {assess(i) : i \in D}
  <1>1. Assessed(h, n, t, c, D) = BestFirst(S)  BY DEF Assessed
  <1>2. \A i \in D : i \in Nat  OBVIOUS
  <1>3. \A i \in D : assess(i).event = i /\ assess(i).score \in Nat
    <2> SUFFICES ASSUME NEW i \in D PROVE assess(i).event = i /\ assess(i).score \in Nat
      OBVIOUS
    <2>1. Score(h, i, n, t, D, relations(i), intent) \in Nat
      <3> HIDE DEF relations, intent
      <3> QED  BY <1>2, ScoreIsNumber
    <2> QED  BY <2>1
  <1> HIDE DEF assess
  <1>4. IsFiniteSet(S)
    <2>1. IsFiniteSet(1 .. n - 1)  BY FS_Interval
    <2>2. IsFiniteSet(D)  BY <2>1, FS_Subset
    <2>3. f \in Surjection(D, S)  BY DEF Surjection
    <2> HIDE DEF f, S
    <2> QED  BY <2>2, <2>3, FS_Surjection
  <1>5. \A a \in S : a.score \in Nat /\ a.event \in Nat /\ a.event \in D
    BY <1>2, <1>3
  <1>6. \A a, b \in S : a.event = b.event => a = b  BY <1>3
  <1> HIDE DEF S
  <1>7. BestFirst(S) \in [1 .. Cardinality(S) -> S]
    BY <1>4, <1>5, <1>6, EveryRankIsTaken
  <1>8. BestFirst(S) \in Seq(S)
    BY <1>4, <1>7, FS_CardinalityType, SeqDef
  <1> QED  BY <1>1, <1>5, <1>8 DEF Ranking

\* What is concluded from the candidates is the same.
LEMMA SameConclusion ==
    ASSUME NEW a, NEW b, NEW t \in Nat, Agree(a, b, t), NEW n \in 1 .. t, NEW c, NEW cs,
           Ranking(cs, 1 .. n - 1)
    PROVE  /\ Completeness(a, n, c, cs) = Completeness(b, n, c, cs)
           /\ \A k, q : Confidence(a, cs, k, q) = Confidence(b, cs, k, q)
           /\ Anomalies(a, n, t, cs) = Anomalies(b, n, t, cs)
  <1>1. \A i \in 1 .. n : a[i] = b[i]  BY DEF Agree
  <1>2. a[t] = b[t] /\ a[n] = b[n]  BY DEF Agree
  <1>3. PICK S : cs \in Seq(S) /\ \A k \in S : k.event \in 1 .. n - 1  BY DEF Ranking
  <1>4. \A k \in DOMAIN cs : cs[k] \in S /\ cs[k].event \in 1 .. n - 1
                            /\ a[cs[k].event] = b[cs[k].event]
    BY <1>1, <1>3, ElementOfSeq
  <1>5. Completeness(a, n, c, cs) = Completeness(b, n, c, cs)
    <2>1. \A k \in ToSet(cs) : a[k.event] = b[k.event]  BY <1>4 DEF ToSet
    <2> QED  BY <1>2, <2>1 DEF Completeness
  <1>6. ASSUME NEW k, NEW q PROVE Confidence(a, cs, k, q) = Confidence(b, cs, k, q)
    <2>1. CASE cs = <<>>  BY <2>1 DEF Confidence
    <2>2. CASE cs # <<>>
      <3>1. Head(cs) \in S  BY <1>3, <2>2, HeadTailProperties
      <3>2. a[Head(cs).event] = b[Head(cs).event]  BY <1>1, <1>3, <3>1
      <3> QED  BY <3>2 DEF Confidence, Convincing
    <2> QED  BY <2>1, <2>2
  <1>7. Anomalies(a, n, t, cs) = Anomalies(b, n, t, cs)
    <2>1. Intent(a, n, t) = Intent(b, n, t)  BY SameReading
    <2>2. Injected(a, cs) = Injected(b, cs)  BY <1>4 DEF Injected
    <2>3. Loops(a, n) = Loops(b, n)
      <3>1. Calls(a, n + 1) = Calls(b, n + 1) /\ Calls(a, n + 1) \subseteq 1 .. n
        BY <1>1 DEF Calls
      <3> DEFINE C == Calls(a, n + 1)
                 ga == {{j \in C : a[j].verb = a[i].verb /\ a[j].path = a[i].path} : i \in C}
                 gb == {{j \in C : b[j].verb = b[i].verb /\ b[j].path = b[i].path} : i \in C}
      <3>2. \A i \in C : a[i] = b[i]  BY <1>1, <3>1
      <3>3. ga = gb
        <4> HIDE DEF C
        <4> QED  BY <3>2
      <3>4. /\ Loops(a, n) = {g \in ga : /\ Cardinality(g) >= RepeatThreshold
                                         /\ \A h \in ga : Cardinality(g) >= Cardinality(h)}
            /\ Loops(b, n) = {g \in gb : /\ Cardinality(g) >= RepeatThreshold
                                         /\ \A h \in gb : Cardinality(g) >= Cardinality(h)}
        BY <3>1 DEF Loops
      <3> HIDE DEF ga, gb
      <3> QED  BY <3>3, <3>4
    <2>4. {i \in 1 .. n : a[i].type \in Errors} = {i \in 1 .. n : b[i].type \in Errors}
      BY <1>1
    <2>5. {i \in 1 .. n : a[i].type = "context.pressure"}
            = {i \in 1 .. n : b[i].type = "context.pressure"}
      BY <1>1
    <2>6. {i \in 1 .. n : "secret" \in a[i].says} = {i \in 1 .. n : "secret" \in b[i].says}
      BY <1>1
    <2> QED  BY <1>2, <2>1, <2>2, <2>3, <2>4, <2>5, <2>6 DEF Anomalies
  <1> QED  BY <1>5, <1>6, <1>7

Documents(h, n, c, limit) ==
    LET eligible == Candidates(h, n, c)
    IN {i \in eligible : Cardinality({j \in eligible : j > i}) < limit}

\* An analysis of a h is one of every h that agrees with it up to the action.
LEMMA AnalysisIsLocal ==
    ASSUME NEW a, NEW b, NEW t \in Nat \ {0}, Agree(a, b, t), NEW c, NEW limit
    PROVE  Analyze(a, t, c, limit) = Analyze(b, t, c, limit)
  <1>1. PICK n \in 1 .. t : n = FindInvocation(a, t) /\ n = FindInvocation(b, t)
    <2>1. FindInvocation(a, t) = FindInvocation(b, t)  BY SameInvocation
    <2>2. FindInvocation(a, t) \in 1 .. t  BY InvocationIsEarlier
    <2> QED  BY <2>1, <2>2
  <1> DEFINE D == Documents(a, n, c, limit)
  <1>2. Candidates(a, n, c) = Candidates(b, n, c)  BY SameReading
  <1>3. D = Documents(b, n, c, limit)  BY <1>2 DEF Documents
  <1>4. D \in SUBSET (1 .. n - 1)  BY DEF Documents, Candidates, Before
  <1> DEFINE cs == Assessed(a, n, t, c, D)
             q == Intent(a, n, t)
             k == Completeness(a, n, c, cs)
  <1>5. cs = Assessed(b, n, t, c, D) /\ q = Intent(b, n, t)
    <2> HIDE DEF D
    <2> QED  BY <1>4, SameAssessment, SameReading
  <1>6. Ranking(cs, 1 .. n - 1)
    <2> HIDE DEF D
    <2>1. Ranking(cs, D)  BY <1>4, CandidatesAreDocuments
    <2> QED  BY <1>4, <2>1 DEF Ranking
  <1>7. /\ k = Completeness(b, n, c, cs) /\ Anomalies(a, n, t, cs) = Anomalies(b, n, t, cs)
        /\ Confidence(a, cs, k, q) = Confidence(b, cs, k, q)
    <2> HIDE DEF D, cs, q
    <2> QED  BY <1>6, SameConclusion
  <1> DEFINE top == IF cs = <<>> THEN {} ELSE {Head(cs)}
             unlinked == \E x \in top : /\ "read-result-propagation" \in x.relations
                                       /\ "request-context" \notin x.relations
             result(confidence, anomalies, eligible) ==
                [target |-> t, invocation |-> n, candidates |-> cs, completeness |-> k,
                 confidence |-> confidence,
                 evidence |-> {x.event : x \in top} \cup ({n} \ {t})
                              \cup (IF q.prohibited THEN FirstTwo(q.evidence) ELSE {}),
                 counterevidence |-> (IF q.authorized /\ ~q.prohibited
                                      THEN FirstTwo(q.evidence) ELSE {})
                                     \cup (IF unlinked THEN {n} ELSE {}),
                 anomalies |-> anomalies,
                 truncated |-> D # eligible]
  <1>8. Analyze(a, t, c, limit)
           = result(Confidence(a, cs, k, q), Anomalies(a, n, t, cs), Candidates(a, n, c))
    BY <1>1 DEF Analyze, Documents
  <1>9. Analyze(b, t, c, limit)
           = result(Confidence(b, cs, k, q), Anomalies(b, n, t, cs), Candidates(b, n, c))
    BY <1>1, <1>2, <1>3, <1>5, <1>7 DEF Analyze, Documents
  <1> HIDE DEF result, cs, q, k
  <1> QED  BY <1>2, <1>7, <1>8, <1>9

\* What an analysis names comes before the call that had the effect, or is that call
\* or the action.
LEMMA EvidenceIsEarlier ==
    ASSUME NEW h, NEW t \in Nat \ {0}, NEW c, NEW limit
    PROVE  LET r == Analyze(h, t, c, limit)
           IN /\ \A x \in ToSet(r.candidates) : x.event < r.invocation
              /\ r.evidence \cup r.counterevidence \subseteq 1 .. t
  <1>1. PICK n \in 1 .. t : n = FindInvocation(h, t)  BY InvocationIsEarlier
  <1> DEFINE D == Documents(h, n, c, limit)
             cs == Assessed(h, n, t, c, D)
             q == Intent(h, n, t)
             top == IF cs = <<>> THEN {} ELSE {Head(cs)}
             r == Analyze(h, t, c, limit)
  <1>2. D \in SUBSET (1 .. n - 1)  BY DEF Documents, Candidates, Before
  <1>3. PICK S : cs \in Seq(S) /\ \A x \in S : x.event \in 1 .. n - 1
    <2> HIDE DEF D
    <2>1. Ranking(cs, D)  BY <1>2, CandidatesAreDocuments
    <2> QED  BY <1>2, <2>1 DEF Ranking
  <1>4. /\ r.invocation = n /\ r.candidates = cs
        /\ r.evidence \subseteq {x.event : x \in top} \cup {n} \cup FirstTwo(q.evidence)
        /\ r.counterevidence \subseteq {n} \cup FirstTwo(q.evidence)
    BY <1>1 DEF Analyze, Documents
  <1>5. FirstTwo(q.evidence) \subseteq 1 .. n - 1
    BY DEF FirstTwo, Intent, UserEvents, Before
  <1> HIDE DEF cs, q, r
  <1>6. \A x \in ToSet(cs) : x.event \in 1 .. n - 1
    BY <1>3, ElementOfSeq DEF ToSet
  <1>7. \A x \in top : x.event \in 1 .. n - 1
    <2>1. CASE cs = <<>>  BY <2>1
    <2>2. CASE cs # <<>>  BY <1>3, <2>2, HeadTailProperties
    <2> QED  BY <2>1, <2>2
  <1>8. \A x \in ToSet(r.candidates) : x.event < r.invocation  BY <1>4, <1>6
  <1>9. r.evidence \cup r.counterevidence \subseteq 1 .. t
    <2> HIDE DEF top
    <2>1. {x.event : x \in top} \subseteq 1 .. t  BY <1>7
    <2>2. 1 .. n - 1 \subseteq 1 .. t /\ n \in 1 .. t  OBVIOUS
    <2> QED  BY <1>4, <1>5, <2>1, <2>2
  <1> QED  BY <1>8, <1>9 DEF r

-----------------------------------------------------------------------------
(* The requests.                                                           *)

Fields == {"kind", "target", "consent", "at", "seen", "blame", "report", "snapshot", "answer"}

\* The jobs are a sequence; what they hold has no common type.
Sequential == /\ Len(jobs) \in Nat /\ DOMAIN jobs = 1 .. Len(jobs)
              /\ jobs \in Seq({jobs[i] : i \in DOMAIN jobs})

\* The job has an analysis that was stored, or found in the store.
Given(j) ==
    \/ jobs[j].at \in {"blamed", "reported", "attempting", "sent"}
    \/ jobs[j].at = "answered" /\ jobs[j].answer # [failed |-> TRUE]

\* The run of the provider is on record with what the user agreed to.
Attempted(j) ==
    /\ j \in DOMAIN attempts
    /\ DOMAIN attempts[j] = {"status", "session", "requested", "snapshot"}
    /\ attempts[j].snapshot = jobs[j].consent

\* A job has what its stage says: no analysis before it is looked up, that of the
\* store once it has one, a consent that was previewed, and nothing sent before
\* the stage that sends it.
JobInv(j) ==
    /\ DOMAIN jobs[j] = Fields
    /\ jobs[j].at \in {"begun", "looking up"} => jobs[j].blame = Nothing
    /\ Given(j) /\ jobs[j].blame # Nothing =>
          jobs[j].target \in DOMAIN blames /\ jobs[j].blame = blames[jobs[j].target]
    /\ jobs[j].kind = "ai" => jobs[j].consent \in previews
    /\ jobs[j].at \in {"attempting", "sent"} =>
          jobs[j].kind = "ai" /\ jobs[j].snapshot = jobs[j].consent /\ Attempted(j)
    /\ jobs[j].at = "sent" => attempts[j].requested
    /\ \A x \in sent : x.job = j =>
          /\ jobs[j].at \in {"sent", "answered"} /\ jobs[j].kind = "ai"
          /\ x.snapshot = jobs[j].consent /\ Attempted(j) /\ attempts[j].requested
          /\ jobs[j].at = "answered" =>
                jobs[j].answer.external /\ attempts[j].status \in {"completed", "failed"}

ServiceInv ==
    /\ Sequential
    /\ \A j \in DOMAIN jobs : JobInv(j)
    /\ \A x \in sent : x.job \in DOMAIN jobs

-----------------------------------------------------------------------------
(* What keeps the invariant.                                               *)

\* Only job j changes, and keeps its kind and its consent.
OnlyJob(j) ==
    /\ Sequential' /\ DOMAIN jobs' = DOMAIN jobs
    /\ \A i \in DOMAIN jobs : i # j => jobs'[i] = jobs[i]
    /\ DOMAIN jobs'[j] = Fields
    /\ jobs'[j].kind = jobs[j].kind /\ jobs'[j].consent = jobs[j].consent

\* What is stored stays, and only for job j is something attempted or sent.
Growth(j) ==
    /\ \A t \in DOMAIN blames : t \in DOMAIN blames' /\ blames'[t] = blames[t]
    /\ previews \subseteq previews'
    /\ \A i \in DOMAIN attempts : i # j => i \in DOMAIN attempts' /\ attempts'[i] = attempts[i]
    /\ sent \subseteq sent' /\ \A x \in sent' : x \in sent \/ x.job = j

\* A step of one job keeps the invariant of the others.
LEMMA OneJobSteps ==
    ASSUME ServiceInv, NEW j \in DOMAIN jobs, OnlyJob(j), Growth(j), JobInv(j)'
    PROVE  ServiceInv'
  <1>1. ASSUME NEW i \in DOMAIN jobs, i # j PROVE JobInv(i)'
    <2>1. JobInv(i) /\ jobs'[i] = jobs[i]  BY <1>1 DEF ServiceInv, OnlyJob
    <2>2. \A x \in sent' : x.job = i => x \in sent  BY <1>1 DEF Growth
    <2>3. Given(i)' <=> Given(i)  BY <2>1 DEF Given
    <2>4. Attempted(i) => Attempted(i)' /\ attempts'[i] = attempts[i]
      BY <1>1, <2>1 DEF Attempted, Growth
    <2> QED  BY <1>1, <2>1, <2>2, <2>3, <2>4 DEF JobInv, Growth
  <1>2. \A i \in DOMAIN jobs' : JobInv(i)'  BY <1>1 DEF OnlyJob
  <1>3. \A x \in sent' : x.job \in DOMAIN jobs'
    BY DEF ServiceInv, OnlyJob, Growth
  <1> QED  BY <1>2, <1>3 DEF ServiceInv, OnlyJob

\* The jobs stay a sequence when one of them is replaced.
LEMMA ReplaceJob ==
    ASSUME ServiceInv, NEW j \in DOMAIN jobs, NEW r, jobs' = [jobs EXCEPT ![j] = r],
           DOMAIN r = Fields, r.kind = jobs[j].kind, r.consent = jobs[j].consent
    PROVE  OnlyJob(j) /\ jobs'[j] = r
  <1> DEFINE U == {jobs[i] : i \in DOMAIN jobs} \cup {r}
             W == {jobs'[i] : i \in DOMAIN jobs'}
  <1>1. jobs \in Seq(U)
    <2>1. jobs \in Seq({jobs[i] : i \in DOMAIN jobs})  BY DEF ServiceInv, Sequential
    <2> QED  BY <2>1
  <1>2. jobs' \in Seq(U) /\ Len(jobs') = Len(jobs) /\ DOMAIN jobs' = DOMAIN jobs
        /\ jobs'[j] = r /\ \A i \in DOMAIN jobs : i # j => jobs'[i] = jobs[i]
    <2> HIDE DEF U
    <2>1. r \in U  BY DEF U
    <2> QED  BY <1>1, <2>1
  <1>3. jobs' \in Seq(W)
    <2> DEFINE n == Len(jobs')
    <2> HIDE DEF U
    <2>1. n \in Nat /\ jobs' \in [1 .. n -> U]  BY <1>2, LenProperties
    <2>2. \A i \in 1 .. n : jobs'[i] \in W  BY <2>1
    <2> HIDE DEF W, n
    <2>3. jobs' \in [1 .. n -> W]  BY <2>1, <2>2
    <2> QED  BY <2>1, <2>3, FunctionIsSeq
  <1> QED  BY <1>2, <1>3 DEF OnlyJob, ServiceInv, Sequential

\* What happens to the session does not concern the requests.
LEMMA QuietStep ==
    ServiceInv /\ UNCHANGED <<blames, jobs, previews, sent, attempts>> => ServiceInv'
  <1> SUFFICES ASSUME ServiceInv, UNCHANGED <<blames, jobs, previews, sent, attempts>>
               PROVE  ServiceInv'
    OBVIOUS
  <1>1. Sequential'  BY DEF ServiceInv, Sequential
  <1>2. ASSUME NEW j \in DOMAIN jobs PROVE JobInv(j)'
    BY DEF ServiceInv, JobInv, Given, Attempted
  <1> QED  BY <1>1, <1>2 DEF ServiceInv

-----------------------------------------------------------------------------
(* The steps of the requests.                                              *)

\* A request begins with no analysis, and with a consent that was previewed.
LEMMA AskStep == ServiceInv /\ Ask => ServiceInv'
  <1> SUFFICES ASSUME ServiceInv, Ask PROVE ServiceInv'  OBVIOUS
  <1>1. PICK kind \in {"blame", "report", "preflight", "ai"}, t \in {0} \cup DOMAIN log,
             consent \in {Nothing} \cup previews :
          /\ jobs' = Append(jobs, Job(kind, t, consent))
          /\ kind = "ai" => consent \in previews
    BY DEF Ask
  <1>2. UNCHANGED <<blames, previews, sent, attempts>>  BY DEF Ask
  <1> DEFINE new == Job(kind, t, consent)
             U == {jobs[i] : i \in DOMAIN jobs} \cup {new}
             W == {jobs'[i] : i \in DOMAIN jobs'}
  <1> PICK n \in Nat : n = Len(jobs)  BY DEF ServiceInv, Sequential
  <1>3. /\ DOMAIN new = Fields /\ new.kind = kind /\ new.consent = consent
        /\ new.at = "begun" /\ new.blame = Nothing
    BY DEF Job, Fields
  <1> HIDE DEF new
  <1>4. jobs \in Seq(U) /\ DOMAIN jobs = 1 .. n
    <2>1. jobs \in Seq({jobs[i] : i \in DOMAIN jobs})  BY DEF ServiceInv, Sequential
    <2>2. jobs \in Seq(U)  BY <2>1
    <2> QED  BY <2>2, LenProperties DEF ServiceInv, Sequential
  <1>5. /\ jobs' \in Seq(U) /\ Len(jobs') = n + 1 /\ DOMAIN jobs' = 1 .. n + 1
        /\ jobs'[n + 1] = new /\ \A i \in 1 .. n : jobs'[i] = jobs[i]
    <2>1. new \in U /\ jobs' = Append(jobs, new)  BY <1>1 DEF new
    <2> HIDE DEF U
    <2> QED  BY <1>4, <2>1, AppendProperties
  <1>6. Sequential'
    <2> HIDE DEF U
    <2>1. jobs' \in [1 .. n + 1 -> U]  BY <1>4, <1>5, LenProperties
    <2>2. \A i \in 1 .. n + 1 : jobs'[i] \in W  BY <2>1
    <2> HIDE DEF W
    <2>3. jobs' \in [1 .. n + 1 -> W] /\ n + 1 \in Nat  BY <1>4, <2>1, <2>2
    <2>4. jobs' \in Seq(W)  BY <2>3, FunctionIsSeq
    <2> QED  BY <1>4, <1>5, <2>4 DEF Sequential, W
  <1>7. ASSUME NEW i \in 1 .. n PROVE JobInv(i)'
    <2>1. JobInv(i) /\ jobs'[i] = jobs[i]  BY <1>4, <1>5 DEF ServiceInv
    <2> QED  BY <1>2, <2>1 DEF JobInv, Given, Attempted
  <1>8. JobInv(n + 1)'
    <2>1. \A x \in sent : x.job # n + 1  BY <1>4 DEF ServiceInv
    <2> QED  BY <1>1, <1>2, <1>3, <1>5, <2>1 DEF JobInv, Given
  <1>9. \A x \in sent' : x.job \in DOMAIN jobs'
    BY <1>2, <1>4, <1>5 DEF ServiceInv
  <1>10. ASSUME NEW i \in DOMAIN jobs' PROVE JobInv(i)'
    <2>1. i \in 1 .. n \/ i = n + 1  BY <1>5
    <2> QED  BY <1>7, <1>8, <2>1
  <1> QED  BY <1>6, <1>9, <1>10 DEF ServiceInv

\* A report begins: it is taken from the store, or its blame is looked up.
LEMMA BeginReportStep ==
    ASSUME NEW j \in DOMAIN jobs PROVE ServiceInv /\ BeginReport(j) => ServiceInv'
  <1> SUFFICES ASSUME ServiceInv, BeginReport(j) PROVE ServiceInv'  OBVIOUS
  <1>1. JobInv(j) /\ jobs[j].at = "begun" /\ UNCHANGED <<blames, previews, sent, attempts>>
    BY DEF ServiceInv, BeginReport
  <1> DEFINE t == Selected(jobs[j].target)
             stored == [jobs[j] EXCEPT !.target = t, !.at = "reported",
                                       !.report = reports[t], !.seen = Len(log)]
             at == IF t = 0 THEN "blamed" ELSE "looking up"
             begun == [jobs[j] EXCEPT !.target = t, !.seen = Len(log), !.at = at]
  <1>2. \/ jobs' = [jobs EXCEPT ![j] = stored]
        \/ jobs' = [jobs EXCEPT ![j] = begun]
    BY DEF BeginReport
  <1> HIDE DEF t, at
  <1>3. ASSUME NEW r, r \in {stored, begun}
        PROVE  /\ DOMAIN r = Fields /\ r.kind = jobs[j].kind /\ r.consent = jobs[j].consent
               /\ r.at \notin {"attempting", "sent", "answered"} /\ r.blame = jobs[j].blame
    <2>1. DOMAIN jobs[j] = Fields  BY <1>1 DEF JobInv
    <2>2. at \in {"blamed", "looking up"}  BY DEF at
    <2> QED  BY <1>3, <2>1, <2>2 DEF Fields
  <1> HIDE DEF stored, begun
  <1>4. PICK r \in {stored, begun} : jobs' = [jobs EXCEPT ![j] = r]  BY <1>2
  <1>5. OnlyJob(j) /\ jobs'[j] = r  BY <1>3, <1>4, ReplaceJob
  <1>6. Growth(j)  BY <1>1 DEF Growth
  <1>7. JobInv(j)'  BY <1>1, <1>3, <1>5 DEF JobInv, Given
  <1> QED  BY <1>5, <1>6, <1>7, OneJobSteps

\* An answer ends a job and leaves what it was asked and has found.
LEMMA AnswerEffect ==
    ASSUME ServiceInv, NEW j \in DOMAIN jobs, NEW a, Answer(j, a)
    PROVE  /\ OnlyJob(j) /\ jobs'[j].at = "answered" /\ jobs'[j].answer = a
           /\ jobs'[j].target = jobs[j].target /\ jobs'[j].blame = jobs[j].blame
  <1> DEFINE r == [jobs[j] EXCEPT !.at = "answered", !.answer = a]
  <1>1. DOMAIN jobs[j] = Fields  BY DEF ServiceInv, JobInv
  <1>2. jobs' = [jobs EXCEPT ![j] = r]  BY DEF Answer
  <1>3. /\ DOMAIN r = Fields /\ r.kind = jobs[j].kind /\ r.consent = jobs[j].consent
        /\ r.at = "answered" /\ r.answer = a
        /\ r.target = jobs[j].target /\ r.blame = jobs[j].blame
    BY <1>1 DEF Fields
  <1> HIDE DEF r
  <1>4. OnlyJob(j) /\ jobs'[j] = r  BY <1>2, <1>3, ReplaceJob
  <1> QED  BY <1>3, <1>4

\* A job that is given an analysis answers with it, or goes on with it.
LEMMA GotEffect ==
    ASSUME ServiceInv, NEW j \in DOMAIN jobs, NEW b, jobs' = Got(j, b)
    PROVE  /\ OnlyJob(j) /\ jobs'[j].at \in {"answered", "blamed"}
           /\ jobs'[j].target = jobs[j].target /\ jobs'[j].blame = b
  <1> DEFINE r == [jobs[j] EXCEPT !.at = "answered", !.blame = b, !.answer = b]
             q == [jobs[j] EXCEPT !.at = "blamed", !.blame = b]
  <1>1. DOMAIN jobs[j] = Fields  BY DEF ServiceInv, JobInv
  <1>2. jobs' = [jobs EXCEPT ![j] = r] \/ jobs' = [jobs EXCEPT ![j] = q]  BY DEF Got
  <1>3. \A n \in {r, q} :
           /\ DOMAIN n = Fields /\ n.kind = jobs[j].kind /\ n.consent = jobs[j].consent
           /\ n.at \in {"answered", "blamed"}
           /\ n.target = jobs[j].target /\ n.blame = b
    BY <1>1 DEF Fields
  <1> HIDE DEF r, q
  <1>4. PICK n \in {r, q} : jobs' = [jobs EXCEPT ![j] = n]  BY <1>2
  <1>5. OnlyJob(j) /\ jobs'[j] = n  BY <1>3, <1>4, ReplaceJob
  <1> QED  BY <1>3, <1>5

\* The blame of the store is given again, or the analyzer runs.
LEMMA LookUpStep ==
    ASSUME NEW j \in DOMAIN jobs PROVE ServiceInv /\ LookUp(j) => ServiceInv'
  <1> SUFFICES ASSUME ServiceInv, LookUp(j) PROVE ServiceInv'  OBVIOUS
  <1>1. JobInv(j) /\ jobs[j].at \in {"looking up", "begun"}
        /\ UNCHANGED <<blames, previews, sent, attempts>>
    BY DEF ServiceInv, LookUp
  <1>2. Growth(j)  BY <1>1 DEF Growth
  <1>3. CASE jobs[j].target \in DOMAIN blames /\ jobs' = Got(j, blames[jobs[j].target])
    <2>1. /\ OnlyJob(j) /\ jobs'[j].at \in {"answered", "blamed"}
          /\ jobs'[j].target = jobs[j].target /\ jobs'[j].blame = blames[jobs[j].target]
      BY <1>3, GotEffect
    <2>2. JobInv(j)'  BY <1>1, <1>3, <2>1 DEF JobInv, OnlyJob
    <2> QED  BY <1>2, <2>1, <2>2, OneJobSteps
  <1>4. ASSUME NEW c, jobs' = [jobs EXCEPT ![j].at = "analyzed", ![j].blame = Blame(jobs[j].target, c)]
        PROVE  ServiceInv'
    <2> DEFINE b == Blame(jobs[j].target, c)
               r == [jobs[j] EXCEPT !.at = "analyzed", !.blame = b]
    <2>1. DOMAIN jobs[j] = Fields  BY <1>1 DEF JobInv
    <2>2. jobs' = [jobs EXCEPT ![j] = r]  BY <1>4
    <2> HIDE DEF b
    <2>3. DOMAIN r = Fields /\ r.kind = jobs[j].kind /\ r.consent = jobs[j].consent
          /\ r.at = "analyzed"
      BY <2>1 DEF Fields
    <2> HIDE DEF r
    <2>4. OnlyJob(j) /\ jobs'[j] = r  BY <2>2, <2>3, ReplaceJob
    <2>5. JobInv(j)'  BY <1>1, <2>3, <2>4 DEF JobInv, Given
    <2> QED  BY <1>2, <2>4, <2>5, OneJobSteps
  <1> QED  BY <1>3, <1>4 DEF LookUp

\* Of two analyses of one target the first is stored, and each request has it.
LEMMA FinishBlameStep ==
    ASSUME NEW j \in DOMAIN jobs PROVE ServiceInv /\ FinishBlame(j) => ServiceInv'
  <1> SUFFICES ASSUME ServiceInv, FinishBlame(j) PROVE ServiceInv'  OBVIOUS
  <1>1. JobInv(j) /\ jobs[j].at = "analyzed" /\ UNCHANGED <<previews, sent, attempts>>
    BY DEF ServiceInv, FinishBlame
  <1>2. CASE StoreBlame(j)
    <2> DEFINE t == jobs[j].target
    <2>1. blames' = Stored(blames, t, jobs[j].blame) /\ jobs' = Got(j, blames'[t])
      BY <1>2 DEF StoreBlame
    <2>2. /\ t \in DOMAIN blames'
          /\ \A u \in DOMAIN blames : u \in DOMAIN blames' /\ blames'[u] = blames[u]
      <3>1. CASE t \in DOMAIN blames  BY <2>1, <3>1 DEF Stored
      <3>2. CASE t \notin DOMAIN blames  BY <2>1, <3>2 DEF Stored, With
      <3> QED  BY <3>1, <3>2
    <2>3. /\ OnlyJob(j) /\ jobs'[j].at \in {"answered", "blamed"}
          /\ jobs'[j].target = t /\ jobs'[j].blame = blames'[t]
      BY <2>1, GotEffect
    <2>4. Growth(j)  BY <1>1, <2>2 DEF Growth
    <2>5. JobInv(j)'  BY <1>1, <2>2, <2>3 DEF JobInv, OnlyJob
    <2> QED  BY <2>3, <2>4, <2>5, OneJobSteps
  <1>3. CASE Fail(j) /\ UNCHANGED blames
    <2>1. /\ OnlyJob(j) /\ jobs'[j].at = "answered" /\ jobs'[j].answer = [failed |-> TRUE]
      BY <1>3, AnswerEffect DEF Fail
    <2>2. Growth(j)  BY <1>1, <1>3 DEF Growth
    <2>3. JobInv(j)'  BY <1>1, <1>3, <2>1 DEF JobInv, OnlyJob, Given
    <2> QED  BY <2>1, <2>2, <2>3, OneJobSteps
  <1> QED  BY <1>2, <1>3 DEF FinishBlame

\* A report is made of the blame the job has.
LEMMA FinishReportStep ==
    ASSUME NEW j \in DOMAIN jobs PROVE ServiceInv /\ FinishReport(j) => ServiceInv'
  <1> SUFFICES ASSUME ServiceInv, FinishReport(j) PROVE ServiceInv'  OBVIOUS
  <1>1. JobInv(j) /\ jobs[j].at = "blamed" /\ UNCHANGED <<blames, previews, sent, attempts>>
    BY DEF ServiceInv, FinishReport
  <1>2. Growth(j)  BY <1>1 DEF Growth
  <1>3. ASSUME NEW q, jobs' = [jobs EXCEPT ![j].at = "reported", ![j].report = q]
        PROVE  ServiceInv'
    <2> DEFINE r == [jobs[j] EXCEPT !.at = "reported", !.report = q]
    <2>1. DOMAIN jobs[j] = Fields  BY <1>1 DEF JobInv
    <2>2. jobs' = [jobs EXCEPT ![j] = r]  BY <1>3
    <2>3. DOMAIN r = Fields /\ r.kind = jobs[j].kind /\ r.consent = jobs[j].consent
          /\ r.at = "reported" /\ r.blame = jobs[j].blame /\ r.target = jobs[j].target
      BY <2>1 DEF Fields
    <2> HIDE DEF r
    <2>4. OnlyJob(j) /\ jobs'[j] = r  BY <2>2, <2>3, ReplaceJob
    <2>5. JobInv(j)'  BY <1>1, <2>3, <2>4 DEF JobInv, Given
    <2> QED  BY <1>2, <2>4, <2>5, OneJobSteps
  <1>4. CASE Fail(j)
    <2>1. /\ OnlyJob(j) /\ jobs'[j].at = "answered" /\ jobs'[j].answer = [failed |-> TRUE]
      BY <1>4, AnswerEffect DEF Fail
    <2>2. JobInv(j)'  BY <1>1, <2>1 DEF JobInv, OnlyJob, Given
    <2> QED  BY <1>2, <2>1, <2>2, OneJobSteps
  <1> QED  BY <1>3, <1>4 DEF FinishReport

\* A report is answered, previewed, or, if the user agreed to what is now to be sent,
\* put on record for the provider.
LEMMA UseReportStep ==
    ASSUME NEW j \in DOMAIN jobs PROVE ServiceInv /\ UseReport(j) => ServiceInv'
  <1> SUFFICES ASSUME ServiceInv, UseReport(j) PROVE ServiceInv'  OBVIOUS
  <1>1. JobInv(j) /\ jobs[j].at = "reported" /\ UNCHANGED <<blames, sent>>
    BY DEF ServiceInv, UseReport
  <1>2. ASSUME NEW a, Answer(j, a), previews \subseteq previews', UNCHANGED attempts
        PROVE  ServiceInv'
    <2>1. /\ OnlyJob(j) /\ jobs'[j].at = "answered"
          /\ jobs'[j].target = jobs[j].target /\ jobs'[j].blame = jobs[j].blame
      BY <1>2, AnswerEffect
    <2>2. Growth(j)  BY <1>1, <1>2 DEF Growth
    <2>3. JobInv(j)'  BY <1>1, <1>2, <2>1 DEF JobInv, OnlyJob, Given
    <2> QED  BY <2>1, <2>2, <2>3, OneJobSteps
  <1> DEFINE s == Snapshot(j)
  <1>3. ASSUME NEW status, NEW session, UNCHANGED previews,
               attempts' = With(attempts, j, Attempt(status, session, s))
        PROVE  /\ Growth(j) /\ j \in DOMAIN attempts'
               /\ DOMAIN attempts'[j] = {"status", "session", "requested", "snapshot"}
               /\ attempts'[j].snapshot = s
    <2> DEFINE e == Attempt(status, session, s)
    <2>1. DOMAIN e = {"status", "session", "requested", "snapshot"} /\ e.snapshot = s
      BY DEF Attempt
    <2> HIDE DEF e, s
    <2>2. /\ j \in DOMAIN attempts' /\ attempts'[j] = e
          /\ \A i \in DOMAIN attempts : i # j => i \in DOMAIN attempts' /\ attempts'[i] = attempts[i]
      BY <1>3 DEF With, e
    <2>3. Growth(j)  BY <1>1, <1>3, <2>2 DEF Growth
    <2> QED  BY <2>1, <2>2, <2>3
  <1> HIDE DEF s
  <1>4. ASSUME NEW a, Answer(j, a), UNCHANGED previews,
               attempts' = With(attempts, j, Attempt("failed", "none", s))
        PROVE  ServiceInv'
    <2>1. /\ OnlyJob(j) /\ jobs'[j].at = "answered"
          /\ jobs'[j].target = jobs[j].target /\ jobs'[j].blame = jobs[j].blame
      BY <1>4, AnswerEffect
    <2>2. Growth(j)  BY <1>3, <1>4
    <2>3. JobInv(j)'  BY <1>1, <1>4, <2>1 DEF JobInv, OnlyJob, Given
    <2> QED  BY <2>1, <2>2, <2>3, OneJobSteps
  <1>5. ASSUME jobs[j].kind = "ai", jobs[j].consent = s, UNCHANGED previews,
               attempts' = With(attempts, j, Attempt("running", "active", s)),
               jobs' = [jobs EXCEPT ![j].at = "attempting", ![j].snapshot = s]
        PROVE  ServiceInv'
    <2> DEFINE r == [jobs[j] EXCEPT !.at = "attempting", !.snapshot = s]
    <2>1. DOMAIN jobs[j] = Fields  BY <1>1 DEF JobInv
    <2>2. jobs' = [jobs EXCEPT ![j] = r]  BY <1>5
    <2>3. DOMAIN r = Fields /\ r.kind = jobs[j].kind /\ r.consent = jobs[j].consent
          /\ r.at = "attempting" /\ r.snapshot = s
          /\ r.blame = jobs[j].blame /\ r.target = jobs[j].target
      BY <2>1 DEF Fields
    <2> HIDE DEF r
    <2>4. OnlyJob(j) /\ jobs'[j] = r  BY <2>2, <2>3, ReplaceJob
    <2>5. /\ Growth(j) /\ j \in DOMAIN attempts'
          /\ DOMAIN attempts'[j] = {"status", "session", "requested", "snapshot"}
          /\ attempts'[j].snapshot = s
      BY <1>3, <1>5
    <2>6. Attempted(j)'  BY <1>5, <2>3, <2>4, <2>5 DEF Attempted
    <2>7. JobInv(j)'
      <3>1. \A x \in sent' : x.job # j  BY <1>1 DEF JobInv
      <3>2. Given(j)  BY <1>1 DEF Given
      <3>3. jobs[j].blame # Nothing =>
               jobs[j].target \in DOMAIN blames /\ jobs[j].blame = blames[jobs[j].target]
        BY <1>1, <3>2 DEF JobInv
      <3>4. jobs[j].consent \in previews'  BY <1>1, <1>5 DEF JobInv
      <3> QED  BY <1>1, <1>5, <2>3, <2>4, <2>6, <3>1, <3>3, <3>4 DEF JobInv, OnlyJob
    <2> QED  BY <2>4, <2>5, <2>7, OneJobSteps
  <1> QED  BY <1>2, <1>4, <1>5 DEF UseReport, Consented, Fail, s

\* What will be sent is put on record, then it is sent: it is what was agreed to.
LEMMA TransmitStep ==
    ASSUME NEW j \in DOMAIN jobs PROVE ServiceInv /\ Transmit(j) => ServiceInv'
  <1> SUFFICES ASSUME ServiceInv, Transmit(j) PROVE ServiceInv'  OBVIOUS
  <1>1. JobInv(j) /\ jobs[j].at = "attempting" /\ UNCHANGED <<blames, previews>>
        /\ DOMAIN jobs[j] = Fields /\ Attempted(j)
    BY DEF ServiceInv, Transmit, JobInv
  <1>2. CASE /\ attempts' = [attempts EXCEPT ![j].requested = TRUE]
             /\ sent' = sent \cup {[job |-> j, snapshot |-> jobs[j].snapshot]}
             /\ Step(j, "sent")
    <2> DEFINE r == [jobs[j] EXCEPT !.at = "sent"]
    <2>1. jobs' = [jobs EXCEPT ![j] = r]  BY <1>2 DEF Step
    <2>2. DOMAIN r = Fields /\ r.kind = jobs[j].kind /\ r.consent = jobs[j].consent
          /\ r.at = "sent" /\ r.snapshot = jobs[j].snapshot
          /\ r.blame = jobs[j].blame /\ r.target = jobs[j].target
      BY <1>1 DEF Fields
    <2> HIDE DEF r
    <2>3. OnlyJob(j) /\ jobs'[j] = r  BY <2>1, <2>2, ReplaceJob
    <2>4. /\ Attempted(j)' /\ attempts'[j].requested
          /\ \A i \in DOMAIN attempts : i # j => i \in DOMAIN attempts' /\ attempts'[i] = attempts[i]
      BY <1>1, <1>2, <2>2, <2>3 DEF Attempted
    <2>5. Growth(j)  BY <1>1, <1>2, <2>4 DEF Growth
    <2>6. JobInv(j)'
      <3>1. \A x \in sent : x.job # j  BY <1>1 DEF JobInv
      <3>2. \A x \in sent' : x.job = j => x.snapshot = jobs[j].consent
        BY <1>1, <1>2, <3>1 DEF JobInv
      <3>3. Given(j)  BY <1>1 DEF Given
      <3>4. jobs[j].blame # Nothing =>
               jobs[j].target \in DOMAIN blames /\ jobs[j].blame = blames[jobs[j].target]
        BY <1>1, <3>3 DEF JobInv
      <3>5. jobs[j].kind = "ai" /\ jobs[j].snapshot = jobs[j].consent
            /\ jobs[j].consent \in previews'
        BY <1>1 DEF JobInv
      <3> QED  BY <1>1, <2>2, <2>3, <2>4, <3>2, <3>4, <3>5 DEF JobInv, OnlyJob
    <2> QED  BY <2>3, <2>5, <2>6, OneJobSteps
  <1>3. CASE GiveUp(j, FALSE) /\ UNCHANGED sent
    <2>1. /\ OnlyJob(j) /\ jobs'[j].at = "answered"
          /\ jobs'[j].target = jobs[j].target /\ jobs'[j].blame = jobs[j].blame
      BY <1>3, AnswerEffect DEF GiveUp
    <2>2. Growth(j)  BY <1>1, <1>3 DEF Growth, GiveUp
    <2>3. JobInv(j)'  BY <1>1, <1>3, <2>1 DEF JobInv, OnlyJob, Given
    <2> QED  BY <2>1, <2>2, <2>3, OneJobSteps
  <1> QED  BY <1>2, <1>3 DEF Transmit

\* The provider answers or not: what was sent is not denied.
LEMMA RespondStep ==
    ASSUME NEW j \in DOMAIN jobs PROVE ServiceInv /\ Respond(j) => ServiceInv'
  <1> SUFFICES ASSUME ServiceInv, Respond(j) PROVE ServiceInv'  OBVIOUS
  <1>1. JobInv(j) /\ jobs[j].at = "sent" /\ UNCHANGED <<blames, previews, sent>>
        /\ Attempted(j) /\ attempts[j].requested /\ jobs[j].kind = "ai"
    BY DEF ServiceInv, Respond, JobInv
  <1>2. PICK status \in {"failed", "completed"}, session \in {"crashed", "completed"} :
           /\ attempts' = [attempts EXCEPT ![j].status = status, ![j].session = session]
           /\ \E report : Answer(j, [report |-> report, external |-> TRUE])
    BY DEF Respond, GiveUp
  <1>3. PICK report : Answer(j, [report |-> report, external |-> TRUE])  BY <1>2
  <1>4. /\ OnlyJob(j) /\ jobs'[j].at = "answered" /\ jobs'[j].answer.external
        /\ jobs'[j].target = jobs[j].target /\ jobs'[j].blame = jobs[j].blame
    BY <1>3, AnswerEffect
  <1>5. /\ Attempted(j)' /\ attempts'[j].requested /\ attempts'[j].status = status
        /\ \A i \in DOMAIN attempts : i # j => i \in DOMAIN attempts' /\ attempts'[i] = attempts[i]
    BY <1>1, <1>2, <1>4 DEF Attempted, OnlyJob
  <1>6. Growth(j)  BY <1>1, <1>5 DEF Growth
  <1>7. JobInv(j)'  BY <1>1, <1>4, <1>5 DEF JobInv, OnlyJob, Given
  <1> QED  BY <1>4, <1>6, <1>7, OneJobSteps

-----------------------------------------------------------------------------
(* The invariant, and what follows from it.                                *)

\* At first nobody has asked for anything.
LEMMA InitServiceInv == Init => ServiceInv
  <1> SUFFICES ASSUME Init PROVE ServiceInv  OBVIOUS
  <1>1. jobs = <<>> /\ sent = {}  BY DEF Init
  <1>2. Sequential
    <2>1. DOMAIN jobs = {} /\ Len(jobs) = 0  BY <1>1
    <2>2. jobs \in Seq({jobs[i] : i \in DOMAIN jobs})  BY <1>1, EmptySeq
    <2> QED  BY <2>1, <2>2 DEF Sequential
  <1> QED  BY <1>1, <1>2 DEF ServiceInv

\* Every step keeps the invariant.
LEMMA StepServiceInv == ServiceInv /\ [Next]_vars => ServiceInv'
  <1> SUFFICES ASSUME ServiceInv, [Next]_vars PROVE ServiceInv'  OBVIOUS
  <1>1. CASE Record \/ EndSession \/ UNCHANGED vars
    BY <1>1, QuietStep DEF Record, EndSession, vars
  <1>2. CASE Ask  BY <1>2, AskStep
  <1>3. CASE Advance
    BY <1>3, BeginReportStep, LookUpStep, FinishBlameStep, FinishReportStep, UseReportStep,
       TransmitStep, RespondStep DEF Advance
  <1> QED  BY <1>1, <1>2, <1>3 DEF Next

\* The invariant of the service holds in every reachable state.
THEOREM ServiceInvHolds == Spec => []ServiceInv
  BY InitServiceInv, StepServiceInv, PTL DEF Spec

\* An analysis a request was given is the stored one.
LEMMA AgreementFollows == ServiceInv => AnswersAgree
  BY DEF ServiceInv, JobInv, Given, AnswersAgree

\* A request that has transmitted has the snapshot of its preview, on record.
LEMMA ConsentFollows == ServiceInv => ConsentCoversWhatIsSent
  BY DEF ServiceInv, JobInv, Attempted, ConsentCoversWhatIsSent

\* Two requests about one action are given the analysis that is stored for it, however
\* many run at once, whatever contexts they saw and whichever was first.
THEOREM RequestsAgree == Spec => []AnswersAgree
  BY AgreementFollows, ServiceInvHolds, PTL

\* The provider is given only what the user was shown and agreed to, it is on record
\* before it is sent, and no answer denies it.
THEOREM ConsentCoversEverythingSent == Spec => []ConsentCoversWhatIsSent
  BY ConsentFollows, ServiceInvHolds, PTL
-----------------------------------------------------------------------------
(* What is stored about an action, while the session goes on.              *)

\* The events are numbered, each after its parent and its request.
Linked(h, n) ==
    /\ n \in Nat
    /\ \A i \in 1 .. n : h[i].parent \in 0 .. i - 1 /\ h[i].request \in 0 .. i - 1

\* The invocation of an action is looked for up to the action.
LEMMA RelatedIsEarlier ==
    ASSUME NEW h, NEW t \in Nat \ {0}, Linked(h, t) PROVE RelatedInvocation(h, t) \in 1 .. t
  <1> DEFINE C == Calls(h, t)
             score == [i \in C |-> RelatedScore(h, i, t)]
             matching == {i \in C : score[i] > 0}
  <1>1. PICK p \in 0 .. t - 1 : p = h[t].parent  BY DEF Linked
  <1>2. PICK g \in 0 .. t - 1 : g = IF p = 0 THEN 0 ELSE h[p].parent
    <2>1. CASE p = 0  BY <2>1
    <2>2. CASE p # 0
      <3>1. h[p].parent \in 0 .. p - 1  BY <2>2 DEF Linked
      <3> QED  BY <2>2, <3>1
    <2> QED  BY <2>1, <2>2
  <1>3. matching # {} => LatestBest(matching, score) \in 1 .. t
    <2>1. \A i \in C : RelatedScore(h, i, t) \in 0 .. 3  BY DEF RelatedScore
    <2>2. C \subseteq 1 .. t - 1  BY DEF Calls
    <2> HIDE DEF C
    <2>3. \A i \in matching : score[i] \in 0 .. 3  BY <2>1
    <2>4. matching \in SUBSET (1 .. t - 1)  BY <2>2
    <2>5. t - 1 \in Nat  OBVIOUS
    <2> HIDE DEF matching, score
    <2>6. matching # {} => LatestBest(matching, score) \in matching
      BY <2>3, <2>4, <2>5, LatestBestIsOne
    <2>7. 1 .. t - 1 \subseteq 1 .. t  OBVIOUS
    <2> QED  BY <2>4, <2>6, <2>7
  <1>4. \/ RelatedInvocation(h, t) = t
        \/ p # 0 /\ RelatedInvocation(h, t) = p
        \/ g # 0 /\ RelatedInvocation(h, t) = g
        \/ matching # {} /\ RelatedInvocation(h, t) = LatestBest(matching, score)
    <2>1. RelatedInvocation(h, t) =
            CASE IsCall(h, t) -> t
              [] ~IsCall(h, t) /\ IsCall(h, p) -> p
              [] ~IsCall(h, t) /\ ~IsCall(h, p) /\ IsCall(h, g) -> g
              [] OTHER -> IF matching = {} THEN t ELSE LatestBest(matching, score)
      BY <1>1, <1>2 DEF RelatedInvocation
    <2> HIDE DEF matching, score
    <2> QED  BY <2>1 DEF IsCall
  <1> HIDE DEF matching, score
  <1> QED  BY <1>3, <1>4

\* More of the session does not change which contexts an action may have had.
LEMMA ContextsAreLocal ==
    ASSUME NEW a, NEW b, NEW t \in Nat \ {0}, Linked(a, t), Agree(a, b, t)
    PROVE  Contexts(a, t) = Contexts(b, t)
  <1>1. \A i \in 1 .. t : a[i] = b[i]  BY DEF Agree
  <1>2. PICK p \in 0 .. t - 1 : p = a[t].parent  BY DEF Linked
  <1>3. p # 0 => a[p] = b[p]  BY <1>1
  <1>4. Calls(a, t) = Calls(b, t)  BY SameInvocation
  <1>5. RelatedInvocation(a, t) = RelatedInvocation(b, t)
    <2>1. [i \in Calls(a, t) |-> RelatedScore(a, i, t)] = [i \in Calls(b, t) |-> RelatedScore(b, i, t)]
      <3>1. Calls(a, t) \subseteq 1 .. t - 1  BY DEF Calls
      <3>2. \A i \in Calls(a, t) : RelatedScore(a, i, t) = RelatedScore(b, i, t)
        BY <1>1, <3>1 DEF RelatedScore
      <3> QED  BY <1>4, <3>2
    <2> DEFINE C == Calls(a, t)
               score == [i \in C |-> RelatedScore(a, i, t)]
               matching == {i \in C : score[i] > 0}
               g == IF p = 0 THEN 0 ELSE a[p].parent
               related(x, y, z) ==
                  CASE x -> t [] ~x /\ y -> p [] ~x /\ ~y /\ z -> g
                    [] OTHER -> IF matching = {} THEN t ELSE LatestBest(matching, score)
    <2>2. RelatedInvocation(a, t) = related(IsCall(a, t), IsCall(a, p), IsCall(a, g))
      BY <1>2 DEF RelatedInvocation
    <2>3. RelatedInvocation(b, t) = related(IsCall(b, t), IsCall(b, p), IsCall(b, g))
      <3>1. b[t].parent = p /\ g = IF p = 0 THEN 0 ELSE b[p].parent  BY <1>1, <1>2, <1>3
      <3> QED  BY <1>4, <2>1, <3>1 DEF RelatedInvocation
    <2>4. g # 0 => g \in 1 .. t
      <3>1. p # 0 => a[p].parent \in 0 .. p - 1  BY DEF Linked
      <3> QED  BY <3>1
    <2>5. /\ IsCall(a, t) <=> IsCall(b, t)
          /\ IsCall(a, p) <=> IsCall(b, p)
          /\ IsCall(a, g) <=> IsCall(b, g)
      <3> HIDE DEF g
      <3> QED  BY <1>1, <1>3, <2>4 DEF IsCall
    <2> HIDE DEF g, matching, score
    <2> QED  BY <2>2, <2>3, <2>5
  <1>6. PICK i \in 1 .. t : i = RelatedInvocation(a, t)  BY RelatedIsEarlier
  <1>7. {j \in 1 .. i : a[j].type = "model.request"} = {j \in 1 .. i : b[j].type = "model.request"}
    BY <1>1
  <1>8. RequestOf(a, t) = RequestOf(b, t)
    BY <1>1, <1>5, <1>6, <1>7 DEF RequestOf
  <1>9. RequestOf(a, t) \in 0 .. t
    <2> DEFINE E == {j \in 1 .. i : a[j].type = "model.request"}
    <2>1. a[i].request \in 0 .. t
      <3>1. a[i].request \in 0 .. i - 1  BY DEF Linked
      <3> QED  BY <3>1
    <2>2. E # {} => Max(E) \in E
      <3>1. E \in SUBSET Nat /\ i \in Nat /\ \A k \in E : k <= i  OBVIOUS
      <3> HIDE DEF E
      <3>2. E # {} => \E m \in E : \A n \in E : n <= m  BY <3>1, GreatestExists
      <3>3. E # {} => \E m \in E : \A n \in E : m >= n  BY <3>1, <3>2
      <3> QED  BY <3>3 DEF Max
    <2>3. E \subseteq 0 .. t  OBVIOUS
    <2>4. \/ RequestOf(a, t) = a[i].request
          \/ E # {} /\ RequestOf(a, t) = Max(E)
          \/ RequestOf(a, t) = 0
      BY <1>6 DEF RequestOf
    <2> HIDE DEF E
    <2>5. E # {} => Max(E) \in 0 .. t  BY <2>2, <2>3
    <2>6. 0 \in 0 .. t  OBVIOUS
    <2> QED  BY <2>1, <2>4, <2>5, <2>6
  <1>10. PICK r \in 0 .. t : r = RequestOf(a, t) /\ r = RequestOf(b, t)  BY <1>8, <1>9
  <1>11. r # 0 => a[r] = b[r]  BY <1>1
  <1> QED  BY <1>10, <1>11 DEF Contexts

\* What an analysis of the action says now.
Current(h, t, result) ==
    \E c \in Contexts(h, t) : result = Analyze(h, t, c, MaximumCandidates)

\* A job is about an action of the session, and has a current analysis until one is stored.
TargetInv(j) ==
    /\ jobs[j].target \in {0} \cup DOMAIN log
    /\ jobs[j].at \in {"looking up", "analyzed"} \/ (jobs[j].at = "begun" /\ jobs[j].kind = "blame")
          => jobs[j].target # 0
    /\ jobs[j].at = "analyzed" => Current(log, jobs[j].target, jobs[j].blame)

HistoryInv ==
    /\ log \in Seq(Events) /\ Linked(log, Len(log))
    /\ \A j \in DOMAIN jobs : TargetInv(j)
    /\ \A t \in DOMAIN blames : t \in DOMAIN log /\ Current(log, t, blames[t])

\* A log that goes on agrees with what it was, so what was current is.
LEMMA CurrentStays ==
    ASSUME NEW a, NEW b, NEW n \in Nat, Linked(a, n), \A i \in 1 .. n : b[i] = a[i],
           NEW t \in 1 .. n, NEW result, Current(a, t, result)
    PROVE  Current(b, t, result)
  <1>1. t \in Nat \ {0} /\ Linked(a, t) /\ Agree(a, b, t)
    <2>1. \A i \in 1 .. t : i \in 1 .. n  OBVIOUS
    <2> QED  BY <2>1 DEF Linked, Agree
  <1>2. Contexts(a, t) = Contexts(b, t)  BY <1>1, ContextsAreLocal
  <1>3. \A c : Analyze(a, t, c, MaximumCandidates) = Analyze(b, t, c, MaximumCandidates)
    BY <1>1, AnalysisIsLocal
  <1> QED  BY <1>2, <1>3 DEF Current

\* The analyzer sees the session up to the action: its result is current.
LEMMA BlameIsCurrent ==
    ASSUME HistoryInv, NEW t \in DOMAIN log, NEW c \in Contexts(log, t)
    PROVE  Current(log, t, Blame(t, c))
  <1> PICK n \in Nat : n = Len(log) /\ DOMAIN log = 1 .. n  BY LenProperties DEF HistoryInv
  <1>1. t \in 1 .. n /\ t \in Nat \ {0} /\ t \in Int  OBVIOUS
  <1>2. \A i \in 1 .. t : log[i] \in Events
    BY <1>1, ElementOfSeq DEF HistoryInv
  <1> DEFINE h == SubSeq(log, 1, t)
  <1>3. \A i \in 1 .. t : h[i] = log[i]
    <2>1. \A i \in 1 .. t - 1 + 1 : h[i] = log[1 + i - 1]
      BY <1>1, <1>2, SubSeqProperties
    <2> HIDE DEF h
    <2> QED  BY <1>1, <2>1
  <1>4. Agree(log, h, t)  BY <1>1, <1>3 DEF HistoryInv, Linked, Agree
  <1>5. Analyze(log, t, c, MaximumCandidates) = Analyze(h, t, c, MaximumCandidates)
    <2> HIDE DEF h
    <2> QED  BY <1>1, <1>4, AnalysisIsLocal
  <1> QED  BY <1>5 DEF Blame, Current

\* The session goes on: its log stays linked, and nothing else moves.
LEMMA RecordKeepsHistory == HistoryInv /\ Record => HistoryInv'
  <1> SUFFICES ASSUME HistoryInv, Record PROVE HistoryInv'  OBVIOUS
  <1>1. PICK n \in Nat : n = Len(log) /\ DOMAIN log = 1 .. n  BY LenProperties DEF HistoryInv
  <1>2. PICK e \in Events : log' = Append(log, e) /\ e.parent \in 0 .. n /\ e.request \in 0 .. n
    BY <1>1 DEF Record
  <1>3. /\ log' \in Seq(Events) /\ Len(log') = n + 1 /\ DOMAIN log' = 1 .. n + 1
        /\ log'[n + 1] = e /\ \A i \in 1 .. n : log'[i] = log[i]
    BY <1>1, <1>2, AppendProperties, LenProperties DEF HistoryInv
  <1>4. Linked(log, n)  BY <1>1 DEF HistoryInv
  <1>5. Linked(log', n + 1)
    <2> SUFFICES ASSUME NEW i \in 1 .. n + 1
                 PROVE  log'[i].parent \in 0 .. i - 1 /\ log'[i].request \in 0 .. i - 1
      BY DEF Linked
    <2>1. CASE i \in 1 .. n  BY <1>3, <1>4, <2>1 DEF Linked
    <2>2. CASE i = n + 1  BY <1>2, <1>3, <2>2
    <2> QED  BY <2>1, <2>2
  <1>6. \A t \in DOMAIN log : t \in DOMAIN log' BY <1>1, <1>3
  <1>7. ASSUME NEW t \in DOMAIN log, NEW result, Current(log, t, result)
        PROVE  Current(log', t, result)
    BY <1>1, <1>3, <1>4, <1>7, CurrentStays
  <1>8. UNCHANGED <<jobs, blames>>  BY DEF Record
  <1>9. ASSUME NEW j \in DOMAIN jobs PROVE TargetInv(j)'
    <2>1. TargetInv(j)  BY DEF HistoryInv
    <2>2. jobs[j].at = "analyzed" => jobs[j].target \in DOMAIN log
      BY <2>1 DEF TargetInv
    <2>3. jobs[j].at = "analyzed" => Current(log', jobs[j].target, jobs[j].blame)
      BY <1>7, <2>1, <2>2 DEF TargetInv
    <2> QED  BY <1>6, <1>8, <2>1, <2>3 DEF TargetInv
  <1>10. ASSUME NEW t \in DOMAIN blames PROVE t \in DOMAIN log' /\ Current(log', t, blames[t])
    BY <1>6, <1>7 DEF HistoryInv
  <1> QED  BY <1>3, <1>5, <1>8, <1>9, <1>10 DEF HistoryInv

\* A step of one request keeps the history if it keeps that of the request and stores
\* only what is current.
LEMMA OneJobKeepsHistory ==
    ASSUME HistoryInv, NEW j \in DOMAIN jobs, OnlyJob(j), UNCHANGED log, TargetInv(j)',
           \A t \in DOMAIN blames' :
              (t \in DOMAIN blames /\ blames'[t] = blames[t])
                 \/ (t \in DOMAIN log /\ Current(log, t, blames'[t]))
    PROVE  HistoryInv'
  <1>1. ASSUME NEW i \in DOMAIN jobs PROVE TargetInv(i)'
    <2>1. CASE i = j  BY <2>1
    <2>2. CASE i # j
      <3>1. jobs'[i] = jobs[i] /\ TargetInv(i)  BY <2>2 DEF OnlyJob, HistoryInv
      <3> QED  BY <3>1 DEF TargetInv
    <2> QED  BY <2>1, <2>2
  <1>2. \A i \in DOMAIN jobs' : TargetInv(i)'  BY <1>1 DEF OnlyJob
  <1> QED  BY <1>2 DEF HistoryInv

\* A request that goes on with what it has, past the analysis, keeps it.
LEMMA LaterStagesKeepHistory ==
    ASSUME HistoryInv, NEW j \in DOMAIN jobs, OnlyJob(j), UNCHANGED <<log, blames>>,
           jobs'[j].target = jobs[j].target,
           jobs'[j].at \in {"answered", "blamed", "reported", "attempting", "sent"}
    PROVE  HistoryInv'
  <1>1. TargetInv(j)'  BY DEF HistoryInv, TargetInv
  <1>2. log' = log /\ \A t \in DOMAIN blames' : t \in DOMAIN blames /\ blames'[t] = blames[t]
    OBVIOUS
  <1> QED  BY <1>1, <1>2, OneJobKeepsHistory

\* A new request is about an action of the session, or about the session.
LEMMA AskKeepsHistory == ServiceInv /\ HistoryInv /\ Ask => HistoryInv'
  <1> SUFFICES ASSUME ServiceInv, HistoryInv, Ask PROVE HistoryInv'  OBVIOUS
  <1>1. PICK kind \in {"blame", "report", "preflight", "ai"}, t \in {0} \cup DOMAIN log,
             consent \in {Nothing} \cup previews :
          jobs' = Append(jobs, Job(kind, t, consent)) /\ (kind = "blame" => t \in DOMAIN log)
    BY DEF Ask
  <1>2. UNCHANGED <<log, blames>>  BY DEF Ask
  <1> PICK n \in Nat : n = Len(jobs) /\ DOMAIN jobs = 1 .. n
    BY DEF ServiceInv, Sequential
  <1> DEFINE new == Job(kind, t, consent)
             U == {jobs[i] : i \in DOMAIN jobs} \cup {new}
  <1>3. new.kind = kind /\ new.target = t /\ new.at = "begun"  BY DEF Job
  <1> HIDE DEF new
  <1>4. /\ DOMAIN jobs' = 1 .. n + 1 /\ jobs'[n + 1] = new
        /\ \A i \in 1 .. n : jobs'[i] = jobs[i]
    <2>1. jobs \in Seq({jobs[i] : i \in DOMAIN jobs})  BY DEF ServiceInv, Sequential
    <2>2. jobs \in Seq(U) /\ new \in U  BY <2>1
    <2>3. jobs' = Append(jobs, new)  BY <1>1 DEF new
    <2> HIDE DEF U
    <2> QED  BY <2>2, <2>3, AppendProperties, LenProperties
  <1>5. 0 \notin DOMAIN log  BY LenProperties DEF HistoryInv
  <1>6. ASSUME NEW i \in 1 .. n PROVE TargetInv(i)'
    <2>1. TargetInv(i) /\ jobs'[i] = jobs[i]  BY <1>4 DEF HistoryInv
    <2> QED  BY <1>2, <2>1 DEF TargetInv
  <1>7. TargetInv(n + 1)'  BY <1>1, <1>2, <1>3, <1>4, <1>5 DEF TargetInv
  <1>8. ASSUME NEW i \in DOMAIN jobs' PROVE TargetInv(i)'
    <2>1. i \in 1 .. n \/ i = n + 1  BY <1>4
    <2> QED  BY <1>6, <1>7, <2>1
  <1> QED  BY <1>2, <1>8 DEF HistoryInv

\* The action that is selected is one of the session.
LEMMA SelectedIsRecorded ==
    ASSUME HistoryInv, NEW t \in {0} \cup DOMAIN log
    PROVE  Selected(t) \in {0} \cup DOMAIN log
  <1> PICK n \in Nat : n = Len(log) /\ DOMAIN log = 1 .. n  BY LenProperties DEF HistoryInv
  <1> DEFINE A == {i \in DOMAIN log : Analyzable(log[i])}
             f == [i \in A |-> Severity(log[i])]
  <1>1. \A i \in A : f[i] \in 0 .. 150  BY DEF Severity
  <1>2. A \in SUBSET (1 .. n)  OBVIOUS
  <1>3. Selected(t) = t \/ (A # {} /\ Selected(t) = LatestBest(A, f))  BY DEF Selected
  <1> HIDE DEF A, f
  <1>4. A # {} => LatestBest(A, f) \in A  BY <1>1, <1>2, LatestBestIsOne
  <1> QED  BY <1>2, <1>3, <1>4

\* A report begins with an action, or without one.
LEMMA BeginReportKeepsHistory ==
    ASSUME NEW j \in DOMAIN jobs
    PROVE  ServiceInv /\ HistoryInv /\ BeginReport(j) => HistoryInv'
  <1> SUFFICES ASSUME ServiceInv, HistoryInv, BeginReport(j) PROVE HistoryInv'  OBVIOUS
  <1>1. JobInv(j) /\ TargetInv(j) /\ jobs[j].kind # "blame" /\ UNCHANGED <<log, blames>>
    BY DEF ServiceInv, HistoryInv, BeginReport
  <1> DEFINE t == Selected(jobs[j].target)
             stored == [jobs[j] EXCEPT !.target = t, !.at = "reported",
                                       !.report = reports[t], !.seen = Len(log)]
             at == IF t = 0 THEN "blamed" ELSE "looking up"
             begun == [jobs[j] EXCEPT !.target = t, !.seen = Len(log), !.at = at]
  <1>2. \/ jobs' = [jobs EXCEPT ![j] = stored]
        \/ jobs' = [jobs EXCEPT ![j] = begun]
    BY DEF BeginReport
  <1>3. t \in {0} \cup DOMAIN log
    <2>1. jobs[j].target \in {0} \cup DOMAIN log  BY <1>1 DEF TargetInv
    <2> QED  BY <2>1, SelectedIsRecorded
  <1> HIDE DEF t
  <1>4. ASSUME NEW r, r \in {stored, begun}
        PROVE  /\ DOMAIN r = Fields /\ r.kind = jobs[j].kind /\ r.consent = jobs[j].consent
               /\ r.target = t /\ r.at \in {"reported", "blamed", "looking up"}
               /\ t = 0 => r.at # "looking up"
    <2>1. DOMAIN jobs[j] = Fields  BY <1>1 DEF JobInv
    <2>2. at \in {"blamed", "looking up"} /\ (t = 0 => at = "blamed")  OBVIOUS
    <2> HIDE DEF at
    <2> QED  BY <1>4, <2>1, <2>2 DEF Fields
  <1> HIDE DEF stored, begun
  <1>5. PICK r \in {stored, begun} : jobs' = [jobs EXCEPT ![j] = r]  BY <1>2
  <1>6. OnlyJob(j) /\ jobs'[j] = r  BY <1>4, <1>5, ReplaceJob
  <1>7. TargetInv(j)'  BY <1>1, <1>3, <1>4, <1>6 DEF TargetInv
  <1>8. log' = log /\ \A u \in DOMAIN blames' : u \in DOMAIN blames /\ blames'[u] = blames[u]
    BY <1>1
  <1> QED  BY <1>6, <1>7, <1>8, OneJobKeepsHistory

\* What the analyzer finds is current when it is found.
LEMMA LookUpKeepsHistory ==
    ASSUME NEW j \in DOMAIN jobs
    PROVE  ServiceInv /\ HistoryInv /\ LookUp(j) => HistoryInv'
  <1> SUFFICES ASSUME ServiceInv, HistoryInv, LookUp(j) PROVE HistoryInv'  OBVIOUS
  <1>1. JobInv(j) /\ TargetInv(j) /\ UNCHANGED <<log, blames>>
    BY DEF ServiceInv, HistoryInv, LookUp
  <1>2. ASSUME NEW b, jobs' = Got(j, b) PROVE HistoryInv'
    BY <1>1, <1>2, GotEffect, LaterStagesKeepHistory
  <1>3. ASSUME NEW c \in Contexts(log, jobs[j].target),
               jobs' = [jobs EXCEPT ![j].at = "analyzed", ![j].blame = Blame(jobs[j].target, c)]
        PROVE  HistoryInv'
    <2> DEFINE b == Blame(jobs[j].target, c)
               r == [jobs[j] EXCEPT !.at = "analyzed", !.blame = b]
    <2>1. DOMAIN jobs[j] = Fields  BY <1>1 DEF JobInv
    <2>2. jobs[j].target \in DOMAIN log  BY <1>1 DEF TargetInv, LookUp
    <2>3. Current(log, jobs[j].target, b)  BY <1>3, <2>2, BlameIsCurrent
    <2>4. jobs' = [jobs EXCEPT ![j] = r]  BY <1>3
    <2> HIDE DEF b
    <2>5. DOMAIN r = Fields /\ r.kind = jobs[j].kind /\ r.consent = jobs[j].consent
          /\ r.at = "analyzed" /\ r.target = jobs[j].target /\ r.blame = b
      BY <2>1 DEF Fields
    <2> HIDE DEF r
    <2>6. OnlyJob(j) /\ jobs'[j] = r  BY <2>4, <2>5, ReplaceJob
    <2>7. TargetInv(j)'
      <3>1. 0 \notin DOMAIN log  BY LenProperties DEF HistoryInv
      <3> QED  BY <1>1, <2>2, <2>3, <2>5, <2>6, <3>1 DEF TargetInv
    <2>8. log' = log /\ \A u \in DOMAIN blames' : u \in DOMAIN blames /\ blames'[u] = blames[u]
      BY <1>1
    <2> QED  BY <2>6, <2>7, <2>8, OneJobKeepsHistory
  <1> QED  BY <1>2, <1>3 DEF LookUp

\* What is stored first was found about the session as it was, and is current.
LEMMA FinishBlameKeepsHistory ==
    ASSUME NEW j \in DOMAIN jobs
    PROVE  ServiceInv /\ HistoryInv /\ FinishBlame(j) => HistoryInv'
  <1> SUFFICES ASSUME ServiceInv, HistoryInv, FinishBlame(j) PROVE HistoryInv'  OBVIOUS
  <1>1. TargetInv(j) /\ jobs[j].at = "analyzed" /\ UNCHANGED log
    BY DEF HistoryInv, FinishBlame
  <1>2. CASE StoreBlame(j)
    <2> DEFINE t == jobs[j].target
    <2>1. blames' = Stored(blames, t, jobs[j].blame) /\ jobs' = Got(j, blames'[t])
      BY <1>2 DEF StoreBlame
    <2>2. t \in DOMAIN log /\ Current(log, t, jobs[j].blame)  BY <1>1 DEF TargetInv
    <2>3. \A u \in DOMAIN blames' :
             (u \in DOMAIN blames /\ blames'[u] = blames[u])
                \/ (u \in DOMAIN log /\ Current(log, u, blames'[u]))
      <3>1. CASE t \in DOMAIN blames  BY <2>1, <3>1 DEF Stored
      <3>2. CASE t \notin DOMAIN blames  BY <2>1, <2>2, <3>2 DEF Stored, With
      <3> QED  BY <3>1, <3>2
    <2>4. /\ OnlyJob(j) /\ jobs'[j].at \in {"answered", "blamed"}
          /\ jobs'[j].target = t
      BY <2>1, GotEffect
    <2>5. TargetInv(j)'  BY <1>1, <2>2, <2>4 DEF TargetInv
    <2> QED  BY <1>1, <2>3, <2>4, <2>5, OneJobKeepsHistory
  <1>3. CASE Fail(j) /\ UNCHANGED blames
    <2>1. OnlyJob(j) /\ jobs'[j].at = "answered" /\ jobs'[j].target = jobs[j].target
      BY <1>3, AnswerEffect DEF Fail
    <2> QED  BY <1>1, <1>3, <2>1, LaterStagesKeepHistory
  <1> QED  BY <1>2, <1>3 DEF FinishBlame

\* The later stages of a request leave what is stored.
LEMMA ReportKeepsHistory ==
    ASSUME NEW j \in DOMAIN jobs
    PROVE  ServiceInv /\ HistoryInv /\ (FinishReport(j) \/ UseReport(j) \/ Transmit(j) \/ Respond(j))
              => HistoryInv'
  <1> SUFFICES ASSUME ServiceInv, HistoryInv,
                      FinishReport(j) \/ UseReport(j) \/ Transmit(j) \/ Respond(j)
               PROVE  HistoryInv'
    OBVIOUS
  <1>1. JobInv(j) /\ UNCHANGED <<log, blames>>
    BY DEF ServiceInv, FinishReport, UseReport, Transmit, Respond
  <1>2. ASSUME NEW a, Answer(j, a) PROVE HistoryInv'
    BY <1>1, <1>2, AnswerEffect, LaterStagesKeepHistory
  <1>3. ASSUME NEW r, jobs' = [jobs EXCEPT ![j] = r], DOMAIN r = Fields,
               r.kind = jobs[j].kind, r.consent = jobs[j].consent, r.target = jobs[j].target,
               r.at \in {"reported", "attempting", "sent"}
        PROVE  HistoryInv'
    <2>1. OnlyJob(j) /\ jobs'[j] = r  BY <1>3, ReplaceJob
    <2> QED  BY <1>1, <1>3, <2>1, LaterStagesKeepHistory
  <1>4. DOMAIN jobs[j] = Fields  BY <1>1 DEF JobInv
  <1>5. CASE FinishReport(j)
    <2>1. ASSUME NEW q, jobs' = [jobs EXCEPT ![j].at = "reported", ![j].report = q]
          PROVE  HistoryInv'
      <3> DEFINE r == [jobs[j] EXCEPT !.at = "reported", !.report = q]
      <3>1. jobs' = [jobs EXCEPT ![j] = r]  BY <2>1
      <3>2. DOMAIN r = Fields /\ r.kind = jobs[j].kind /\ r.consent = jobs[j].consent
            /\ r.target = jobs[j].target /\ r.at = "reported"
        BY <1>4 DEF Fields
      <3> HIDE DEF r
      <3> QED  BY <1>3, <3>1, <3>2
    <2> QED  BY <1>2, <1>5, <2>1 DEF FinishReport, Fail
  <1>6. CASE UseReport(j)
    <2>1. ASSUME NEW s, jobs' = [jobs EXCEPT ![j].at = "attempting", ![j].snapshot = s]
          PROVE  HistoryInv'
      <3> DEFINE r == [jobs[j] EXCEPT !.at = "attempting", !.snapshot = s]
      <3>1. jobs' = [jobs EXCEPT ![j] = r]  BY <2>1
      <3>2. DOMAIN r = Fields /\ r.kind = jobs[j].kind /\ r.consent = jobs[j].consent
            /\ r.target = jobs[j].target /\ r.at = "attempting"
        BY <1>4 DEF Fields
      <3> HIDE DEF r
      <3> QED  BY <1>3, <3>1, <3>2
    <2> QED  BY <1>2, <1>6, <2>1 DEF UseReport, Fail
  <1>7. CASE Transmit(j)
    <2>1. CASE Step(j, "sent")
      <3> DEFINE r == [jobs[j] EXCEPT !.at = "sent"]
      <3>1. jobs' = [jobs EXCEPT ![j] = r]  BY <2>1 DEF Step
      <3>2. DOMAIN r = Fields /\ r.kind = jobs[j].kind /\ r.consent = jobs[j].consent
            /\ r.target = jobs[j].target /\ r.at = "sent"
        BY <1>4 DEF Fields
      <3> HIDE DEF r
      <3> QED  BY <1>3, <3>1, <3>2
    <2> QED  BY <1>2, <1>7, <2>1 DEF Transmit, GiveUp
  <1>8. CASE Respond(j)  BY <1>2, <1>8 DEF Respond, GiveUp
  <1> QED  BY <1>5, <1>6, <1>7, <1>8

\* At first nothing is recorded or stored.
LEMMA InitHistoryInv == Init => HistoryInv
  <1> SUFFICES ASSUME Init PROVE HistoryInv  OBVIOUS
  <1>1. log = <<>> /\ jobs = <<>> /\ blames = <<>>  BY DEF Init
  <1>2. log \in Seq(Events) /\ Len(log) = 0 /\ DOMAIN jobs = {} /\ DOMAIN blames = {}
    BY <1>1, EmptySeq
  <1>3. Linked(log, Len(log))  BY <1>2 DEF Linked
  <1> QED  BY <1>2, <1>3 DEF HistoryInv

\* Every step keeps the history.
LEMMA StepHistoryInv == ServiceInv /\ HistoryInv /\ [Next]_vars => HistoryInv'
  <1> SUFFICES ASSUME ServiceInv, HistoryInv, [Next]_vars PROVE HistoryInv'  OBVIOUS
  <1>1. CASE Record  BY <1>1, RecordKeepsHistory
  <1>2. CASE EndSession \/ UNCHANGED vars
    <2>1. UNCHANGED <<log, jobs, blames>>  BY <1>2 DEF EndSession, vars
    <2> QED  BY <2>1 DEF HistoryInv, TargetInv
  <1>3. CASE Ask  BY <1>3, AskKeepsHistory
  <1>4. CASE Advance
    BY <1>4, BeginReportKeepsHistory, LookUpKeepsHistory, FinishBlameKeepsHistory,
       ReportKeepsHistory DEF Advance
  <1> QED  BY <1>1, <1>2, <1>3, <1>4 DEF Next

\* The invariant of what is stored holds in every reachable state.
THEOREM HistoryInvHolds == Spec => []HistoryInv
  BY InitHistoryInv, StepHistoryInv, ServiceInvHolds, PTL DEF Spec

\* What is current is what an analysis says, and its evidence is earlier.
LEMMA HistoryFollows == HistoryInv => LaterEvidenceChangesNothing
  <1> SUFFICES ASSUME HistoryInv, NEW t \in DOMAIN blames
               PROVE  /\ \E c \in Contexts(log, t) :
                            blames[t] = Analyze(log, t, c, MaximumCandidates)
                      /\ \A c \in ToSet(blames[t].candidates) : c.event < blames[t].invocation
                      /\ blames[t].evidence \cup blames[t].counterevidence \subseteq 1 .. t
    BY DEF LaterEvidenceChangesNothing
  <1>1. PICK c \in Contexts(log, t) : blames[t] = Analyze(log, t, c, MaximumCandidates)
    BY DEF HistoryInv, Current
  <1>2. t \in Nat \ {0}  BY LenProperties DEF HistoryInv
  <1> QED  BY <1>1, <1>2, EvidenceIsEarlier

\* However much of the session is recorded after an action, and whoever asked first:
\* what is stored about the action is what an analysis of the session would say now,
\* and its evidence comes before the call that had the effect.
THEOREM StoredAnalysesStand == Spec => []LaterEvidenceChangesNothing
  BY HistoryFollows, HistoryInvHolds, PTL
=============================================================================
