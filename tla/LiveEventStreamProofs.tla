------------------------ MODULE LiveEventStreamProofs ------------------------
(***************************************************************************)
(* Proofs about LiveEventStream, for every number of viewers, connections  *)
(* and writers and every page, batch and connection limit.                 *)
(***************************************************************************)
EXTENDS LiveEventStream, FiniteSetTheorems, SequenceTheorems, TLAPS

Sequences == 1 .. MaxSequence
StreamStates == {"free", "poll", "send", "broken"}
ViewerStates == {"loading", "failed", "offline", "online"}
StreamRecord == [pc : StreamStates, cursor : 0 .. MaxSequence,
                 batch : Seq(Sequences), inFlight : Seq(Sequences)]
ViewerRecord == [pc : ViewerStates, seen : SUBSET Sequences, after : 0 .. MaxSequence,
                 connection : Connections \cup {NoConnection}, drops : 0 .. MaxDrops]

Rising(s) == \A i, j \in 1 .. Len(s) : i < j => s[i] < s[j]

\* The streams that hold a place under the limit.
Active == {c \in Connections : streams[c].pc # "free"}

StreamTypes ==
    /\ nextSequence \in 1 .. MaxSequence + 1
    /\ held \in [Writers -> SUBSET Sequences]
    /\ stored \subseteq Sequences
    /\ activeConnections \in 0 .. MaximumConnections
    /\ streams \in [Connections -> StreamRecord]
    /\ viewers \in [Viewers -> ViewerRecord]
    /\ IsFiniteSet(Active)
    /\ Cardinality(Active) = activeConnections

\* A stream has rows to send exactly in its send state, all beyond its cursor
\* and in order; what it wrote lies up to its cursor, in order.
StreamOrder(s) ==
    /\ s.pc \in {"poll", "send"} => (s.pc = "send" <=> s.batch # <<>>)
    /\ Rising(s.batch)
    /\ \A i \in 1 .. Len(s.batch) : s.cursor < s.batch[i]
    /\ Rising(s.inFlight)
    /\ \A i \in 1 .. Len(s.inFlight) : s.inFlight[i] <= s.cursor

\* Only an online viewer has a connection, a live one of its own, and what is
\* in flight on it lies beyond what the viewer took.
Link(v) ==
    IF viewers[v].pc # "online"
    THEN viewers[v].connection = NoConnection
    ELSE
        LET c == viewers[v].connection IN
        /\ c \in Connections
        /\ streams[c].pc \in {"poll", "send"}
        /\ viewers[v].after <= streams[c].cursor
        /\ \A i \in 1 .. Len(streams[c].inFlight) : viewers[v].after < streams[c].inFlight[i]

LinksApart ==
    \A u, v \in Viewers :
        viewers[u].pc = "online" /\ viewers[v].pc = "online" /\ u # v =>
            viewers[u].connection # viewers[v].connection

StreamInv ==
    /\ StreamTypes
    /\ \A c \in Connections : StreamOrder(streams[c])
    /\ \A v \in Viewers : Link(v)
    /\ LinksApart

OneWriter == \A w, x \in Writers : w = x

\* With one writer the rows are inserted in the order of their sequences.
WriterAhead ==
    /\ \A n \in stored : n < nextSequence
    /\ \A w \in Writers : \A n \in held[w] :
          n < nextSequence /\ (\A m \in stored : m < n)

\* Cursors and rows on their way are those of stored rows, with none left out.
StreamComplete(s) ==
    /\ s.cursor \in stored \cup {0}
    /\ \A i \in 1 .. Len(s.batch) : s.batch[i] \in stored
    /\ \A i \in 1 .. Len(s.inFlight) : s.inFlight[i] \in stored
    /\ \A i \in 1 .. Len(s.batch) : \A n \in stored :
          s.cursor < n /\ n <= s.batch[i] => \E j \in 1 .. Len(s.batch) : s.batch[j] = n

ViewerComplete(v) ==
    /\ viewers[v].after \in stored \cup {0}
    /\ \A n \in stored : n <= viewers[v].after => n \in viewers[v].seen
    /\ viewers[v].pc = "online" =>
          \A n \in stored :
             viewers[v].after < n /\ n <= streams[viewers[v].connection].cursor =>
                \E j \in 1 .. Len(streams[viewers[v].connection].inFlight) :
                    streams[viewers[v].connection].inFlight[j] = n

CompleteInv ==
    /\ WriterAhead
    /\ \A c \in Connections : StreamComplete(streams[c])
    /\ \A v \in Viewers : ViewerComplete(v)

-----------------------------------------------------------------------------
(* The rows of a page or a batch.                                          *)

Below(S, n) == {m \in S : m < n}

\* More rows lie before a later row than before an earlier one.
LEMMA RankRises ==
    ASSUME NEW S, S \subseteq Nat, IsFiniteSet(S), NEW n \in S, NEW m \in S
    PROVE  /\ IsFiniteSet(Below(S, n))
           /\ Cardinality(Below(S, n)) \in 0 .. Cardinality(S) - 1
           /\ n < m => Cardinality(Below(S, n)) < Cardinality(Below(S, m))
           /\ n <= m => Cardinality(Below(S, n)) <= Cardinality(Below(S, m))
  <1>0. \A x \in S : IsFiniteSet(Below(S, x)) /\ Cardinality(Below(S, x)) \in Nat
    <2> TAKE x \in S
    <2>1. Below(S, x) \in SUBSET S  BY DEF Below
    <2> QED  BY <2>1, FS_Subset, FS_CardinalityType
  <1>a. n \in Nat /\ m \in Nat /\ \A x \in S : x \in Nat  OBVIOUS
  <1>1. Cardinality(Below(S, n)) <= Cardinality(S) - 1
    <2>1. Below(S, n) \in SUBSET (S \ {n})  BY DEF Below
    <2>2. IsFiniteSet(S \ {n}) /\ Cardinality(S \ {n}) = Cardinality(S) - 1
      BY FS_RemoveElement
    <2>3. Cardinality(Below(S, n)) <= Cardinality(S \ {n})  BY <2>1, <2>2, FS_Subset
    <2> QED  BY <2>2, <2>3
  <1>2. Cardinality(S) \in Nat  BY FS_CardinalityType
  <1>5. ASSUME NEW x \in Nat, n < m, x < n PROVE x < m  BY <1>a, <1>5
  <1>6. ASSUME NEW x \in Nat, n <= m, x < n PROVE x < m  BY <1>a, <1>6
  <1>3. ASSUME n < m PROVE Cardinality(Below(S, n)) < Cardinality(Below(S, m))
    <2>1. Below(S, n) \cup {n} \subseteq Below(S, m)  BY <1>a, <1>3, <1>5 DEF Below
    <2>2. n \notin Below(S, n)  BY DEF Below
    <2>3. Cardinality(Below(S, n) \cup {n}) = Cardinality(Below(S, n)) + 1
      BY <1>0, <2>2, FS_AddElement
    <2>4. Cardinality(Below(S, n) \cup {n}) <= Cardinality(Below(S, m))
      BY <1>0, <2>1, FS_Subset
    <2> QED  BY <1>0, <2>3, <2>4
  <1>4. ASSUME n <= m PROVE Cardinality(Below(S, n)) <= Cardinality(Below(S, m))
    <2>1. Below(S, n) \subseteq Below(S, m)  BY <1>a, <1>4, <1>6 DEF Below
    <2> QED  BY <1>0, <2>1, FS_Subset
  <1> QED  BY <1>0, <1>1, <1>2, <1>3, <1>4

\* Every place up to the number of rows is the place of a row.
LEMMA EveryRankIsTaken ==
    ASSUME NEW S, S \subseteq Nat, IsFiniteSet(S), NEW i \in 1 .. Cardinality(S)
    PROVE  \E n \in S : Cardinality(Below(S, n)) = i - 1
  <1> DEFINE k == Cardinality(S)
             rank == [n \in S |-> Cardinality(Below(S, n))]
  <1>1. k \in Nat  BY FS_CardinalityType
  <1>2. IsFiniteSet(0 .. k - 1) /\ Cardinality(0 .. k - 1) = k
    <2>1. 0 \in Int /\ k - 1 \in Int  BY <1>1
    <2> HIDE DEF k
    <2>2. IsFiniteSet(0 .. k - 1)  BY <2>1, FS_Interval
    <2>3. Cardinality(0 .. k - 1) = IF 0 > k - 1 THEN 0 ELSE k - 1 - 0 + 1
      BY <2>1, FS_Interval
    <2> QED  BY <1>1, <2>2, <2>3
  <1>3. rank \in [S -> 0 .. k - 1]  BY RankRises
  <1>4. \A n, m \in S : n # m => rank[n] # rank[m]
    <2> SUFFICES ASSUME NEW n \in S, NEW m \in S, n < m PROVE rank[n] # rank[m]
      OBVIOUS
    <2>1. Cardinality(Below(S, n)) < Cardinality(Below(S, m))  BY RankRises
    <2>2. Cardinality(Below(S, n)) # Cardinality(Below(S, m))
      <3>1. Cardinality(Below(S, n)) \in 0 .. k - 1 /\ Cardinality(Below(S, m)) \in 0 .. k - 1
        BY RankRises
      <3> QED  BY <1>1, <2>1, <3>1
    <2> QED  BY <2>2
  <1>5. rank \in Injection(S, 0 .. k - 1)  BY <1>3, <1>4 DEF Injection, IsInjective
  <1>6. rank \in Surjection(S, 0 .. k - 1)  BY <1>2, <1>5, FS_Injection
  <1>7. i - 1 \in 0 .. k - 1  BY <1>1
  <1>8. \E n \in S : rank[n] = i - 1  BY <1>6, <1>7 DEF Surjection
  <1> QED  BY <1>8

\* A page or a batch holds the first rows in order, and leaves none of them out.
LEMMA FirstOfIsAPrefix ==
    ASSUME NEW S, S \subseteq Sequences, NEW limit \in Nat \ {0}
    PROVE  /\ FirstOf(S, limit) \in Seq(S)
           /\ FirstOf(S, limit) = <<>> <=> S = {}
           /\ Rising(FirstOf(S, limit))
           /\ \A i \in 1 .. Len(FirstOf(S, limit)) : \A n \in S :
                 n <= FirstOf(S, limit)[i] =>
                    \E j \in 1 .. Len(FirstOf(S, limit)) : FirstOf(S, limit)[j] = n
  <1> DEFINE f == FirstOf(S, limit)
             k == Cardinality(S)
             len == IF k < limit THEN k ELSE limit
  <1>1. S \subseteq Nat /\ IsFiniteSet(S)
    <2>1. S \subseteq Nat  BY LimitsAssumption DEF Sequences
    <2>2. S \in SUBSET Nat /\ \A n \in S : n <= MaxSequence  BY <2>1 DEF Sequences
    <2>3. MaxSequence \in Nat  BY LimitsAssumption
    <2> QED  BY <2>1, <2>2, <2>3, FS_BoundedSetOfNaturals
  <1>a. \A x \in S : x \in Nat  BY <1>1
  <1>2. k \in Nat /\ (k = 0 <=> S = {})  BY <1>1, FS_CardinalityType, FS_EmptySet
  <1>3. len \in Nat /\ len <= k /\ (len = 0 <=> k = 0)  BY <1>2
  <1>4. \A i \in 1 .. len : f[i] \in S /\ Cardinality(Below(S, f[i])) = i - 1
    <2> TAKE i \in 1 .. len
    <2>1. \E n \in S : Cardinality(Below(S, n)) = i - 1
      <3>1. i \in 1 .. Cardinality(S)  BY <1>2, <1>3
      <3> QED  BY <1>1, <3>1, EveryRankIsTaken
    <2>2. f[i] = CHOOSE n \in S : Cardinality(Below(S, n)) = i - 1  BY DEF FirstOf, Below
    <2> QED  BY <2>1, <2>2
  <1>5. f = [i \in 1 .. len |-> CHOOSE n \in S : Cardinality({m \in S : m < n}) = i - 1]
    BY DEF FirstOf
  <1> HIDE DEF f, len, k
  <1>6. f \in Seq(S) /\ Len(f) = len
    <2>1. f \in [1 .. len -> S]  BY <1>4, <1>5
    <2> QED  BY <1>3, <2>1, LenProperties, SeqDef
  <1>7. f = <<>> <=> S = {}
    <2>1. f = <<>> <=> len = 0  BY <1>6, EmptySeq
    <2> QED  BY <2>1, <1>2, <1>3
  <1>8. \A i, j \in 1 .. len : i < j => f[i] < f[j]
    <2> SUFFICES ASSUME NEW i \in 1 .. len, NEW j \in 1 .. len, i < j, ~(f[i] < f[j])
                 PROVE  FALSE
      OBVIOUS
    <2>1. f[i] \in S /\ f[j] \in S  BY <1>4
    <2>2. f[j] <= f[i]
      <3>1. f[i] \in Nat /\ f[j] \in Nat  BY <1>a, <2>1
      <3> QED  BY <3>1
    <2>3. Cardinality(Below(S, f[j])) <= Cardinality(Below(S, f[i]))
      BY <1>1, <2>1, <2>2, RankRises
    <2>4. j - 1 <= i - 1  BY <1>4, <2>3
    <2> QED  BY <1>3, <2>4
  <1>9. ASSUME NEW i \in 1 .. len, NEW n \in S, n <= f[i]
        PROVE  \E j \in 1 .. len : f[j] = n
    <2> DEFINE r == Cardinality(Below(S, n))
    <2>1. f[i] \in S  BY <1>4
    <2>2. r \in Nat
      <3>1. r \in 0 .. Cardinality(S) - 1  BY <1>1, RankRises
      <3> QED  BY <3>1, <1>2 DEF k
    <2>3. r <= i - 1
      <3>1. r <= Cardinality(Below(S, f[i]))  BY <1>1, <1>9, <2>1, RankRises
      <3> QED  BY <1>4, <3>1
    <2>4. r + 1 \in 1 .. len  BY <1>3, <2>2, <2>3
    <2>5. f[r + 1] \in S /\ Cardinality(Below(S, f[r + 1])) = r
      <3> HIDE DEF r
      <3>1. f[r + 1] \in S /\ Cardinality(Below(S, f[r + 1])) = (r + 1) - 1  BY <1>4, <2>4
      <3>2. (r + 1) - 1 = r  BY <2>2
      <3> QED  BY <3>1, <3>2
    <2>6. ~(f[r + 1] < n) /\ ~(n < f[r + 1])
      <3>1. f[r + 1] < n => Cardinality(Below(S, f[r + 1])) < r
        BY <1>1, <2>5, RankRises
      <3>2. n < f[r + 1] => r < Cardinality(Below(S, f[r + 1]))
        BY <1>1, <2>5, RankRises
      <3> QED  BY <2>2, <2>5, <3>1, <3>2
    <2>7. f[r + 1] = n
      <3>1. f[r + 1] \in Nat /\ n \in Nat  BY <1>a, <2>5
      <3> HIDE DEF r
      <3> QED  BY <2>6, <3>1
    <2> QED  BY <2>4, <2>7
  <1> QED  BY <1>6, <1>7, <1>8, <1>9 DEF Rising, f

\* Taking the first frame of a rising sequence leaves a rising one beyond it.
LEMMA RisingTail ==
    ASSUME NEW s \in Seq(Sequences), s # <<>>, Rising(s)
    PROVE  /\ Head(s) \in Sequences /\ Head(s) = s[1] /\ 1 \in 1 .. Len(s)
           /\ Tail(s) \in Seq(Sequences) /\ Rising(Tail(s))
           /\ Len(s) = 1 <=> Tail(s) = <<>>
           /\ Len(Tail(s)) = Len(s) - 1
           /\ \A i \in 1 .. Len(Tail(s)) :
                 i + 1 \in 1 .. Len(s) /\ Tail(s)[i] = s[i + 1] /\ Head(s) < Tail(s)[i]
           /\ \A i \in 1 .. Len(s) : i # 1 => i - 1 \in 1 .. Len(Tail(s)) /\ s[i] = Tail(s)[i - 1]
  <1>1. /\ Head(s) \in Sequences /\ Tail(s) \in Seq(Sequences) /\ Len(Tail(s)) = Len(s) - 1
        /\ \A i \in 1 .. Len(Tail(s)) : Tail(s)[i] = s[i + 1]
    BY HeadTailProperties
  <1>2. Len(s) \in Nat \ {0} /\ Len(Tail(s)) \in Nat
    BY <1>1, EmptySeq, LenProperties
  <1>3. Head(s) = s[1] /\ 1 \in 1 .. Len(s)  BY <1>2
  <1>4. Tail(s) = <<>> <=> Len(Tail(s)) = 0  BY <1>1, EmptySeq
  <1>5. \A i \in 1 .. Len(Tail(s)) : i + 1 \in 1 .. Len(s) /\ 1 < i + 1
    BY <1>1, <1>2
  <1>6. \A i \in 1 .. Len(s) : i # 1 => i - 1 \in 1 .. Len(Tail(s)) /\ (i - 1) + 1 = i
    BY <1>1, <1>2
  <1>7. Rising(Tail(s))
    <2> SUFFICES ASSUME NEW i \in 1 .. Len(Tail(s)), NEW j \in 1 .. Len(Tail(s)), i < j
                 PROVE  Tail(s)[i] < Tail(s)[j]
      BY DEF Rising
    <2>1. i + 1 < j + 1  BY <1>2
    <2>2. s[i + 1] < s[j + 1]  BY <1>5, <2>1 DEF Rising
    <2> QED  BY <1>1, <2>2
  <1>8. \A i \in 1 .. Len(Tail(s)) : Head(s) < Tail(s)[i]
    BY <1>1, <1>3, <1>5 DEF Rising
  <1>9. \A i \in 1 .. Len(s) : i # 1 => s[i] = Tail(s)[i - 1]
    BY <1>1, <1>6
  <1> QED  BY <1>1, <1>2, <1>3, <1>4, <1>5, <1>6, <1>7, <1>8, <1>9

\* A frame beyond the last one keeps a sequence rising.
LEMMA RisingAppend ==
    ASSUME NEW s \in Seq(Sequences), NEW n \in Sequences, Rising(s),
           \A i \in 1 .. Len(s) : s[i] < n
    PROVE  /\ Append(s, n) \in Seq(Sequences) /\ Rising(Append(s, n))
           /\ Len(Append(s, n)) = Len(s) + 1
           /\ \A i \in 1 .. Len(s) : Append(s, n)[i] = s[i]
           /\ Append(s, n)[Len(s) + 1] = n
  <1>1. /\ Append(s, n) \in Seq(Sequences) /\ Len(Append(s, n)) = Len(s) + 1
        /\ \A i \in 1 .. Len(s) : Append(s, n)[i] = s[i]
        /\ Append(s, n)[Len(s) + 1] = n
    BY AppendProperties
  <1>2. Len(s) \in Nat  BY LenProperties
  <1>3. Rising(Append(s, n))
    <2> SUFFICES ASSUME NEW i \in 1 .. Len(s) + 1, NEW j \in 1 .. Len(s) + 1, i < j
                 PROVE  Append(s, n)[i] < Append(s, n)[j]
      BY <1>1 DEF Rising
    <2>1. i \in 1 .. Len(s)  BY <1>2
    <2>2. CASE j \in 1 .. Len(s)
      <3>1. s[i] < s[j]  BY <2>1, <2>2 DEF Rising
      <3> QED  BY <1>1, <2>1, <2>2, <3>1
    <2>3. CASE j = Len(s) + 1  BY <1>1, <2>1, <2>3
    <2> QED  BY <1>2, <2>2, <2>3
  <1> QED  BY <1>1, <1>3

\* Sending one frame keeps the order of a stream.
LEMMA SendKeepsOrder ==
    ASSUME NEW s \in StreamRecord, s.pc = "send", StreamOrder(s),
           NEW t, t.inFlight = Append(s.inFlight, Head(s.batch)), t.cursor = Head(s.batch),
           t.batch = Tail(s.batch), t.pc = IF Len(s.batch) = 1 THEN "poll" ELSE "send"
    PROVE  /\ s.batch # <<>> /\ t.inFlight \in Seq(Sequences) /\ t.batch \in Seq(Sequences)
           /\ t.cursor \in Sequences /\ s.cursor < t.cursor
           /\ StreamOrder(t)
  <1> DEFINE b == s.batch
             f == s.inFlight
  <1>1. b \in Seq(Sequences) /\ f \in Seq(Sequences) /\ s.cursor \in 0 .. MaxSequence
    BY DEF StreamRecord
  <1>2. b # <<>> /\ Rising(b) /\ Rising(f) /\ \A i \in 1 .. Len(b) : s.cursor < b[i]
    BY DEF StreamOrder
  <1>3. \A i \in 1 .. Len(f) : f[i] \in Sequences /\ f[i] <= s.cursor
    BY <1>1, ElementOfSeq DEF StreamOrder
  <1>4. t.inFlight = Append(f, Head(b)) /\ t.cursor = Head(b) /\ t.batch = Tail(b)
        /\ t.pc = IF Len(b) = 1 THEN "poll" ELSE "send"
    OBVIOUS
  <1> HIDE DEF b, f
  <1>5. Head(b) \in Sequences /\ s.cursor < Head(b)
    BY <1>1, <1>2, RisingTail
  <1>6. \A i \in 1 .. Len(f) : f[i] < Head(b) /\ f[i] <= Head(b)
    <2> TAKE i \in 1 .. Len(f)
    <2>1. f[i] \in Int /\ s.cursor \in Int /\ Head(b) \in Int
      BY <1>1, <1>3, <1>5, LimitsAssumption DEF Sequences
    <2> QED  BY <1>3, <1>5, <2>1
  <1>7. /\ Append(f, Head(b)) \in Seq(Sequences) /\ Rising(Append(f, Head(b)))
        /\ Len(Append(f, Head(b))) = Len(f) + 1
        /\ \A i \in 1 .. Len(f) : Append(f, Head(b))[i] = f[i]
        /\ Append(f, Head(b))[Len(f) + 1] = Head(b)
    BY <1>1, <1>2, <1>5, <1>6, RisingAppend
  <1>8. \A i \in 1 .. Len(f) + 1 : Append(f, Head(b))[i] <= Head(b)
    <2> TAKE i \in 1 .. Len(f) + 1
    <2>1. Len(f) \in Nat /\ Head(b) \in Int
      BY <1>1, <1>5, LenProperties DEF Sequences
    <2>2. CASE i \in 1 .. Len(f)  BY <1>6, <1>7, <2>2
    <2>3. CASE i = Len(f) + 1  BY <1>7, <2>1, <2>3
    <2> QED  BY <2>1, <2>2, <2>3
  <1>9. Tail(b) \in Seq(Sequences) /\ Rising(Tail(b)) /\ (Len(b) = 1 <=> Tail(b) = <<>>)
        /\ \A i \in 1 .. Len(Tail(b)) : Head(b) < Tail(b)[i]
    BY <1>1, <1>2, RisingTail
  <1>10. StreamOrder(t)
    BY <1>4, <1>7, <1>8, <1>9 DEF StreamOrder
  <1> QED  BY <1>2, <1>4, <1>5, <1>7, <1>9, <1>10 DEF b

-----------------------------------------------------------------------------
(* Types, order and ownership, for any number of writers.                  *)

\* A free stream and a fresh viewer are well-formed.
LEMMA FreshEnds ==
    /\ FreeStream \in StreamRecord /\ FreeStream.pc = "free" /\ StreamOrder(FreeStream)
    /\ FreeStream.batch = <<>> /\ FreeStream.inFlight = <<>> /\ FreeStream.cursor = 0
    /\ \A n \in 0 .. MaxDrops : NewViewer(n) \in ViewerRecord /\ NewViewer(n).pc = "loading"
                                 /\ NewViewer(n).after = 0
                                 /\ NewViewer(n).connection = NoConnection
  <1>1. <<>> \in Seq(Sequences) /\ Len(<<>>) = 0  BY EmptySeq
  <1>2. FreeStream \in StreamRecord
    BY <1>1, LimitsAssumption DEF FreeStream, StreamRecord, StreamStates
  <1>3. StreamOrder(FreeStream)
    BY <1>1 DEF FreeStream, StreamOrder, Rising
  <1> QED  BY <1>2, <1>3, LimitsAssumption DEF FreeStream, NewViewer, ViewerRecord, ViewerStates

\* The initial state satisfies the invariant.
LEMMA InitStreamInv == Init => StreamInv
  <1> SUFFICES ASSUME Init PROVE StreamInv  OBVIOUS
  <1> USE DEF Init
  <1>1. \A c \in Connections : streams[c] = FreeStream  OBVIOUS
  <1>2. \A v \in Viewers : viewers[v].pc = "loading" /\ viewers[v].connection = NoConnection
    BY FreshEnds, LimitsAssumption
  <1>3. Active = {}  BY <1>1, FreshEnds DEF Active
  <1>4. IsFiniteSet(Active) /\ Cardinality(Active) = activeConnections  BY <1>3, FS_EmptySet
  <1>5. StreamTypes
    <2>1. streams \in [Connections -> StreamRecord]  BY FreshEnds
    <2>2. viewers \in [Viewers -> ViewerRecord]  BY FreshEnds, LimitsAssumption
    <2>3. held \in [Writers -> SUBSET Sequences]  OBVIOUS
    <2> QED  BY <1>4, <2>1, <2>2, <2>3, LimitsAssumption DEF StreamTypes
  <1>6. \A c \in Connections : StreamOrder(streams[c])  BY <1>1, FreshEnds
  <1> QED  BY <1>2, <1>5, <1>6 DEF StreamInv, Link, LinksApart

\* The steps of the writers keep the types.
LEMMA WriterTypes ==
    ASSUME StreamInv, NEW w \in Writers, Reserve(w) \/ Insert(w) \/ Abandon(w)
    PROVE  StreamInv'
  <1> USE DEF StreamInv, StreamTypes
  <1>1. UNCHANGED <<activeConnections, streams, viewers>>
    BY DEF Reserve, Insert, Abandon
  <1>2. held' \in [Writers -> SUBSET Sequences] /\ nextSequence' \in 1 .. MaxSequence + 1
        /\ stored' \subseteq Sequences
    <2>1. CASE Reserve(w)
      <3>1. PICK k \in 1 .. MaxBlock :
               /\ nextSequence + k - 1 <= MaxSequence
               /\ held' = [held EXCEPT ![w] = nextSequence .. nextSequence + k - 1]
               /\ nextSequence' = nextSequence + k
        BY <2>1 DEF Reserve
      <3>2. nextSequence .. nextSequence + k - 1 \subseteq Sequences
        <4>1. nextSequence \in Nat \ {0} /\ k \in Nat /\ MaxSequence \in Nat
          BY LimitsAssumption
        <4>2. ASSUME NEW n \in nextSequence .. nextSequence + k - 1 PROVE n \in 1 .. MaxSequence
          BY <3>1, <4>1
        <4> QED  BY <4>2 DEF Sequences
      <3>3. nextSequence + k \in 1 .. MaxSequence + 1
        BY <3>1, LimitsAssumption
      <3> QED  BY <2>1, <3>1, <3>2, <3>3 DEF Reserve
    <2>2. CASE Insert(w) \/ Abandon(w)
      BY <2>2 DEF Insert, Abandon
    <2> QED  BY <2>1, <2>2
  <1>3. Active' = Active  BY <1>1 DEF Active
  <1>4. StreamTypes'  BY <1>1, <1>2, <1>3
  <1>5. (\A c \in Connections : StreamOrder(streams[c]))'  BY <1>1
  <1>6. (\A v \in Viewers : Link(v))' /\ LinksApart'  BY <1>1 DEF Link, LinksApart
  <1> QED  BY <1>4, <1>5, <1>6

\* A step of the server's stream c alone, that keeps c well-formed and keeps
\* its frames beyond its viewer's last, keeps the invariant.
LEMMA StreamStep ==
    ASSUME StreamInv, NEW c \in Connections,
           UNCHANGED <<nextSequence, held, stored, activeConnections, viewers>>,
           streams' \in [Connections -> StreamRecord],
           \A d \in Connections : d # c => streams'[d] = streams[d],
           streams[c].pc \in {"poll", "send"}, streams'[c].pc \in {"poll", "send"},
           StreamOrder(streams'[c]),
           streams[c].cursor <= streams'[c].cursor,
           \A i \in 1 .. Len(streams'[c].inFlight) :
              \/ \E j \in 1 .. Len(streams[c].inFlight) :
                    streams'[c].inFlight[i] = streams[c].inFlight[j]
              \/ streams'[c].inFlight[i] > streams[c].cursor
    PROVE  StreamInv'
  <1>1. Active' = Active  BY DEF Active
  <1>2. StreamTypes'  BY <1>1 DEF StreamInv, StreamTypes
  <1>3. (\A d \in Connections : StreamOrder(streams[d]))'  BY DEF StreamInv
  <1>4. ASSUME NEW v \in Viewers PROVE Link(v)'
    <2> SUFFICES ASSUME viewers[v].pc = "online",
                        viewers[v].connection = c
                 PROVE  Link(v)'
      BY DEF StreamInv, Link
    <2>1. Link(v)  BY DEF StreamInv
    <2>2. viewers[v].after \in Int /\ streams[c].cursor \in Int /\ streams'[c].cursor \in Int
          /\ streams'[c].inFlight \in Seq(Sequences)
      BY DEF StreamInv, StreamTypes, ViewerRecord, StreamRecord
    <2>3. viewers[v].after <= streams'[c].cursor
      BY <2>1, <2>2 DEF Link
    <2>4. ASSUME NEW i \in 1 .. Len(streams'[c].inFlight)
          PROVE  viewers[v].after < streams'[c].inFlight[i]
      <3>1. streams'[c].inFlight[i] \in Int
        <4>1. streams'[c].inFlight[i] \in Sequences  BY <2>2, ElementOfSeq
        <4> QED  BY <4>1 DEF Sequences
      <3>2. CASE \E j \in 1 .. Len(streams[c].inFlight) :
                    streams'[c].inFlight[i] = streams[c].inFlight[j]
        BY <2>1, <3>2 DEF Link
      <3>3. CASE streams'[c].inFlight[i] > streams[c].cursor
        BY <2>1, <2>2, <3>1, <3>3 DEF Link
      <3> QED  BY <3>2, <3>3
    <2> QED  BY <2>3, <2>4 DEF Link
  <1>5. LinksApart'  BY DEF StreamInv, LinksApart
  <1> QED  BY <1>2, <1>3, <1>4, <1>5 DEF StreamInv

\* Reading a batch keeps the invariant.
LEMMA PollStep ==
    ASSUME StreamInv, NEW c \in Connections, Poll(c)
    PROVE  StreamInv'
  <1> DEFINE rest == {n \in stored : n > streams[c].cursor}
             page == FirstOf(rest, BatchSize)
  <1>1. rest \subseteq Sequences /\ rest # {}
    BY DEF Poll, StreamInv, StreamTypes
  <1>2. page \in Seq(rest) /\ page # <<>> /\ Rising(page)
    BY <1>1, LimitsAssumption, FirstOfIsAPrefix
  <1>3. page \in Seq(Sequences) /\ \A i \in 1 .. Len(page) : page[i] \in rest
    BY <1>1, <1>2, SeqMonotonic, ElementOfSeq
  <1>4. \A i \in 1 .. Len(page) : streams[c].cursor < page[i]
    <2>1. \A n \in rest : streams[c].cursor < n
      BY DEF StreamInv, StreamTypes, StreamRecord, Sequences
    <2> QED  BY <1>3, <2>1
  <1> HIDE DEF page
  <1>5. streams' = [streams EXCEPT ![c].pc = "send", ![c].batch = page]
    BY DEF Poll, page
  <1>6. /\ streams'[c].pc = "send" /\ streams'[c].batch = page
        /\ streams'[c].cursor = streams[c].cursor /\ streams'[c].inFlight = streams[c].inFlight
        /\ \A d \in Connections : d # c => streams'[d] = streams[d]
    BY <1>5 DEF StreamInv, StreamTypes, StreamRecord
  <1>7. streams' \in [Connections -> StreamRecord]
    BY <1>3, <1>5 DEF StreamInv, StreamTypes, StreamRecord, StreamStates
  <1>8. StreamOrder(streams'[c])
    <2>1. StreamOrder(streams[c])  BY DEF StreamInv
    <2> QED  BY <1>2, <1>4, <1>6, <2>1 DEF StreamOrder
  <1>9. streams[c].cursor \in Int  BY DEF StreamInv, StreamTypes, StreamRecord
  <1>10. UNCHANGED <<nextSequence, held, stored, activeConnections, viewers>> /\ streams[c].pc = "poll"
    BY DEF Poll
  <1>11. streams[c].cursor <= streams'[c].cursor  BY <1>6, <1>9
  <1> QED  BY <1>6, <1>7, <1>8, <1>10, <1>11, StreamStep

\* Sending a frame keeps the invariant.
LEMMA SendStep ==
    ASSUME StreamInv, NEW c \in Connections, Send(c)
    PROVE  /\ StreamInv'
           /\ streams[c].batch # <<>>
           /\ streams[c].cursor < streams'[c].cursor
           /\ \A d \in Connections : d # c => streams'[d] = streams[d]
           /\ streams'[c].inFlight = Append(streams[c].inFlight, Head(streams[c].batch))
           /\ streams'[c].cursor = Head(streams[c].batch)
           /\ streams'[c].batch = Tail(streams[c].batch)
  <1> DEFINE s == streams[c]
             t == streams'[c]
  <1>1. s \in StreamRecord /\ StreamOrder(s) /\ s.pc = "send"
    BY DEF Send, StreamInv, StreamTypes
  <1>2. /\ t.inFlight = Append(s.inFlight, Head(s.batch))
        /\ t.cursor = Head(s.batch)
        /\ t.batch = Tail(s.batch)
        /\ t.pc = IF Len(s.batch) = 1 THEN "poll" ELSE "send"
        /\ \A d \in Connections : d # c => streams'[d] = streams[d]
    BY DEF Send, StreamInv, StreamTypes, StreamRecord
  <1>3. /\ s.batch # <<>> /\ t.inFlight \in Seq(Sequences) /\ t.batch \in Seq(Sequences)
        /\ t.cursor \in Sequences /\ s.cursor < t.cursor
        /\ StreamOrder(t)
    <2> HIDE DEF s, t
    <2> QED  BY <1>1, <1>2, SendKeepsOrder
  <1>4. streams' \in [Connections -> StreamRecord]
    <2>1. Append(s.inFlight, Head(s.batch)) \in Seq(Sequences) /\ Tail(s.batch) \in Seq(Sequences)
          /\ Head(s.batch) \in 0 .. MaxSequence
      BY <1>2, <1>3 DEF Sequences
    <2>2. streams' = [streams EXCEPT
              ![c].inFlight = Append(@, Head(streams[c].batch)),
              ![c].cursor = Head(streams[c].batch),
              ![c].batch = Tail(@),
              ![c].pc = IF Len(streams[c].batch) = 1 THEN "poll" ELSE "send"]
      BY DEF Send
    <2>3. streams \in [Connections -> StreamRecord]  BY DEF StreamInv, StreamTypes
    <2> QED  BY <2>1, <2>2, <2>3 DEF StreamRecord, StreamStates
  <1>5. \A i \in 1 .. Len(t.inFlight) :
           \/ \E j \in 1 .. Len(s.inFlight) : t.inFlight[i] = s.inFlight[j]
           \/ t.inFlight[i] > s.cursor
    <2>1. s.inFlight \in Seq(Sequences) /\ s.batch \in Seq(Sequences)
      BY <1>1 DEF StreamRecord
    <2>2. Head(s.batch) \in Sequences  BY <1>2, <1>3
    <2>3. Len(s.inFlight) \in Nat /\ Len(t.inFlight) = Len(s.inFlight) + 1
          /\ (\A i \in 1 .. Len(s.inFlight) : t.inFlight[i] = s.inFlight[i])
          /\ t.inFlight[Len(s.inFlight) + 1] = t.cursor
      BY <1>2, <2>1, <2>2, AppendProperties, LenProperties
    <2>4. s.cursor \in Int /\ t.cursor \in Int  BY <1>1, <1>3 DEF StreamRecord, Sequences
    <2> HIDE DEF s, t
    <2>5. t.cursor > s.cursor  BY <1>3, <2>4
    <2> TAKE i \in 1 .. Len(t.inFlight)
    <2>6. i \in 1 .. Len(s.inFlight) \/ i = Len(s.inFlight) + 1  BY <2>3
    <2> QED  BY <2>3, <2>5, <2>6
  <1>6. s.cursor <= t.cursor
    <2>1. s.cursor \in Int /\ t.cursor \in Int  BY <1>1, <1>3 DEF StreamRecord, Sequences
    <2> HIDE DEF s, t
    <2> QED  BY <1>3, <2>1
  <1>7. UNCHANGED <<nextSequence, held, stored, activeConnections, viewers>> /\ t.pc \in {"poll", "send"}
    BY <1>2 DEF Send
  <1>8. StreamInv'  BY <1>1, <1>2, <1>3, <1>4, <1>5, <1>6, <1>7, StreamStep
  <1> QED  BY <1>2, <1>3, <1>8

\* A step of the viewer v that leaves the server alone and does not end online
\* keeps the invariant.
LEMMA ViewerStep ==
    ASSUME StreamInv, NEW v \in Viewers,
           UNCHANGED <<nextSequence, held, stored, activeConnections, streams>>,
           viewers' \in [Viewers -> ViewerRecord],
           \A u \in Viewers : u # v => viewers'[u] = viewers[u],
           viewers'[v].pc # "online", viewers'[v].connection = NoConnection
    PROVE  StreamInv'
  <1>1. Active' = Active  BY DEF Active
  <1>2. StreamTypes'  BY <1>1 DEF StreamInv, StreamTypes
  <1>3. (\A d \in Connections : StreamOrder(streams[d]))'  BY DEF StreamInv
  <1>4. (\A u \in Viewers : Link(u))'  BY DEF StreamInv, Link
  <1>5. LinksApart'  BY DEF StreamInv, LinksApart
  <1> QED  BY <1>2, <1>3, <1>4, <1>5 DEF StreamInv

\* Loading a page keeps the invariant, and moves the cursor of the viewer to a
\* row of the page, or leaves it.
LEMMA LoadPageStep ==
    ASSUME StreamInv, NEW v \in Viewers, LoadPage(v)
    PROVE  LET rest == {n \in stored : n > viewers[v].after}
               page == FirstOf(rest, PageSize) IN
           /\ StreamInv'
           /\ viewers'[v].pc # "online"
           /\ \A u \in Viewers : u # v => viewers'[u] = viewers[u]
           /\ viewers'[v].seen = viewers[v].seen \cup ToSet(page)
           /\ viewers'[v].after = IF page = <<>> THEN viewers[v].after ELSE Last(page)
           /\ page \in Seq(rest)
  <1> DEFINE rest == {n \in stored : n > viewers[v].after}
             page == FirstOf(rest, PageSize)
  <1>1. rest \subseteq Sequences  BY DEF StreamInv, StreamTypes
  <1>2. page \in Seq(rest)
    BY <1>1, LimitsAssumption, FirstOfIsAPrefix
  <1>3. page \in Seq(Sequences)  BY <1>1, <1>2, SeqMonotonic
  <1>4. ToSet(page) \subseteq Sequences
    <2>1. \A i \in DOMAIN page : page[i] \in Sequences
      BY <1>3, LenProperties, ElementOfSeq
    <2> QED  BY <2>1 DEF ToSet
  <1>5. page # <<>> => Last(page) \in Sequences
    <2>1. page # <<>> => Len(page) \in 1 .. Len(page)
      BY <1>3, EmptySeq
    <2> QED  BY <1>3, <2>1, ElementOfSeq DEF Last
  <1>6. viewers' = [viewers EXCEPT
            ![v].seen = @ \cup ToSet(page),
            ![v].after = IF page = <<>> THEN @ ELSE Last(page),
            ![v].pc = IF Cardinality(rest) > PageSize THEN "loading" ELSE "offline"]
    BY DEF LoadPage
  <1>7. /\ viewers'[v].seen = viewers[v].seen \cup ToSet(page)
        /\ viewers'[v].after = IF page = <<>> THEN viewers[v].after ELSE Last(page)
        /\ viewers'[v].pc # "online" /\ viewers'[v].connection = NoConnection
        /\ \A u \in Viewers : u # v => viewers'[u] = viewers[u]
    <2>1. viewers[v].connection = NoConnection  BY DEF LoadPage, StreamInv, Link
    <2> HIDE DEF page, rest
    <2> QED  BY <1>6, <2>1 DEF StreamInv, StreamTypes, ViewerRecord
  <1>8. viewers' \in [Viewers -> ViewerRecord]
    <2>1. viewers \in [Viewers -> ViewerRecord]  BY DEF StreamInv, StreamTypes
    <2> DEFINE seen == viewers[v].seen \cup ToSet(page)
               after == IF page = <<>> THEN viewers[v].after ELSE Last(page)
               pc == IF Cardinality(rest) > PageSize THEN "loading" ELSE "offline"
    <2>2. \A n \in Sequences : n \in 0 .. MaxSequence  BY LimitsAssumption DEF Sequences
    <2>3. after \in 0 .. MaxSequence
      <3>1. viewers[v].after \in 0 .. MaxSequence  BY <2>1 DEF ViewerRecord
      <3> HIDE DEF page
      <3> QED  BY <1>5, <2>2, <3>1
    <2>4. seen \in SUBSET Sequences
      <3>1. viewers[v].seen \in SUBSET Sequences  BY <2>1 DEF ViewerRecord
      <3> HIDE DEF page
      <3> QED  BY <1>4, <3>1
    <2>5. pc \in ViewerStates  BY DEF ViewerStates
    <2>6. viewers' = [viewers EXCEPT ![v].seen = seen, ![v].after = after, ![v].pc = pc]
      BY <1>6
    <2> HIDE DEF seen, after, pc
    <2> QED  BY <2>1, <2>3, <2>4, <2>5, <2>6 DEF ViewerRecord
  <1>9. UNCHANGED <<nextSequence, held, stored, activeConnections, streams>>  BY DEF LoadPage
  <1>10. StreamInv'
    <2> HIDE DEF page, rest
    <2> QED  BY <1>7, <1>8, <1>9, ViewerStep
  <1> QED  BY <1>2, <1>7, <1>10

\* A failed page request keeps the invariant.
LEMMA LoadFailsStep ==
    ASSUME StreamInv, NEW v \in Viewers, LoadFails(v)
    PROVE  /\ StreamInv'
           /\ viewers'[v].pc = "failed" /\ viewers'[v].after = viewers[v].after
           /\ viewers'[v].seen = viewers[v].seen
           /\ \A u \in Viewers : u # v => viewers'[u] = viewers[u]
  <1>1. /\ viewers'[v].pc = "failed" /\ viewers'[v].after = viewers[v].after
        /\ viewers'[v].seen = viewers[v].seen /\ viewers'[v].connection = NoConnection
        /\ \A u \in Viewers : u # v => viewers'[u] = viewers[u]
    BY DEF LoadFails, StreamInv, StreamTypes, ViewerRecord, Link
  <1>2. viewers' \in [Viewers -> ViewerRecord]
    <2>1. viewers \in [Viewers -> ViewerRecord]  BY DEF StreamInv, StreamTypes
    <2>2. viewers[v].drops + 1 \in 0 .. MaxDrops
      BY <2>1, LimitsAssumption DEF LoadFails, ViewerRecord
    <2>3. viewers' = [viewers EXCEPT ![v].pc = "failed", ![v].drops = @ + 1]  BY DEF LoadFails
    <2> QED  BY <2>1, <2>2, <2>3 DEF ViewerRecord, ViewerStates
  <1>3. UNCHANGED <<nextSequence, held, stored, activeConnections, streams>>  BY DEF LoadFails
  <1> QED  BY <1>1, <1>2, <1>3, ViewerStep

\* Taking a frame keeps the invariant.
LEMMA ReceiveStep ==
    ASSUME StreamInv, NEW v \in Viewers, Receive(v)
    PROVE  LET c == viewers[v].connection
               n == Head(streams[c].inFlight) IN
           /\ StreamInv'
           /\ c \in Connections /\ viewers[v].pc = "online"
           /\ streams[c].inFlight \in Seq(Sequences) /\ streams[c].inFlight # <<>>
           /\ Rising(streams[c].inFlight)
           /\ viewers'[v].pc = "online" /\ viewers'[v].connection = c
           /\ viewers'[v].seen = viewers[v].seen \cup {n}
           /\ viewers'[v].after = n /\ viewers[v].after < n /\ n <= streams[c].cursor
           /\ \A u \in Viewers : u # v => viewers'[u] = viewers[u]
           /\ \A d \in Connections : d # c => streams'[d] = streams[d]
           /\ streams'[c].inFlight = Tail(streams[c].inFlight)
           /\ streams'[c].cursor = streams[c].cursor
           /\ streams'[c].batch = streams[c].batch
  <1> DEFINE c == viewers[v].connection
             f == streams[c].inFlight
             n == Head(f)
  <1>1. /\ viewers[v].pc = "online" /\ f # <<>>
        /\ viewers' = [viewers EXCEPT ![v].seen = @ \cup {n},
                                      ![v].after = IF n > @ THEN n ELSE @]
        /\ streams' = [streams EXCEPT ![c].inFlight = Tail(@)]
        /\ UNCHANGED <<nextSequence, held, stored, activeConnections>>
    BY DEF Receive
  <1>2. /\ viewers \in [Viewers -> ViewerRecord]
        /\ streams \in [Connections -> StreamRecord]
    BY DEF StreamInv, StreamTypes
  <1>3. /\ c \in Connections /\ streams[c].pc \in {"poll", "send"}
        /\ viewers[v].after <= streams[c].cursor
        /\ \A i \in 1 .. Len(f) : viewers[v].after < f[i]
    BY <1>1 DEF StreamInv, Link
  <1>4. /\ Rising(f) /\ f \in Seq(Sequences)
        /\ \A i \in 1 .. Len(f) : f[i] <= streams[c].cursor
        /\ StreamOrder(streams[c])
        /\ streams[c].cursor \in 0 .. MaxSequence
    BY <1>2, <1>3 DEF StreamInv, StreamOrder, StreamRecord
  <1>5. /\ streams'[c].inFlight = Tail(f) /\ streams'[c].cursor = streams[c].cursor
        /\ streams'[c].batch = streams[c].batch /\ streams'[c].pc = streams[c].pc
        /\ \A d \in Connections : d # c => streams'[d] = streams[d]
    BY <1>1, <1>2, <1>3 DEF StreamRecord
  <1>6. /\ n \in Sequences /\ Tail(f) \in Seq(Sequences) /\ Rising(Tail(f))
        /\ viewers[v].after < n /\ n <= streams[c].cursor
        /\ \A i \in 1 .. Len(Tail(f)) : n < Tail(f)[i] /\ Tail(f)[i] <= streams[c].cursor
    <2> HIDE DEF f
    <2>1. /\ Head(f) \in Sequences /\ Head(f) = f[1] /\ 1 \in 1 .. Len(f)
          /\ Tail(f) \in Seq(Sequences) /\ Rising(Tail(f))
          /\ \A i \in 1 .. Len(Tail(f)) :
                 i + 1 \in 1 .. Len(f) /\ Tail(f)[i] = f[i + 1] /\ Head(f) < Tail(f)[i]
      BY <1>1, <1>4, RisingTail
    <2> QED  BY <1>3, <1>4, <2>1
  <1>7. /\ viewers'[v].pc = "online" /\ viewers'[v].connection = c
        /\ viewers'[v].seen = viewers[v].seen \cup {n}
        /\ viewers'[v].after = n
        /\ \A u \in Viewers : u # v => viewers'[u] = viewers[u]
    <2>1. n > viewers[v].after
      <3>1. viewers[v].after \in 0 .. MaxSequence  BY <1>2 DEF ViewerRecord
      <3> HIDE DEF n
      <3> QED  BY <1>6, <3>1 DEF Sequences
    <2> HIDE DEF n
    <2> QED  BY <1>1, <1>2, <2>1 DEF ViewerRecord
  <1> HIDE DEF n, f
  <1>8. viewers' \in [Viewers -> ViewerRecord]
    <2>1. n \in 0 .. MaxSequence /\ {n} \subseteq Sequences  BY <1>6, LimitsAssumption DEF Sequences
    <2> QED  BY <1>1, <1>2, <2>1 DEF ViewerRecord
  <1>9. streams' \in [Connections -> StreamRecord]
    <2>1. streams' = [streams EXCEPT ![c].inFlight = Tail(f)]  BY <1>1 DEF f
    <2> HIDE DEF c
    <2> QED  BY <1>2, <1>6, <2>1 DEF StreamRecord
  <1>10. StreamTypes'
    <2>1. Active' = Active  BY <1>3, <1>5 DEF Active
    <2> QED  BY <1>1, <1>8, <1>9, <2>1 DEF StreamInv, StreamTypes
  <1>11. (\A d \in Connections : StreamOrder(streams[d]))'
    <2>1. StreamOrder(streams'[c])
      <3> HIDE DEF c
      <3>1. StreamOrder(streams[c])  BY <1>4
      <3>2. \A i \in 1 .. Len(streams'[c].inFlight) :
               streams'[c].inFlight[i] <= streams'[c].cursor
        BY <1>5, <1>6
      <3>3. Rising(streams'[c].inFlight)  BY <1>5, <1>6
      <3> QED  BY <1>5, <3>1, <3>2, <3>3 DEF StreamOrder
    <2> QED
      <3> SUFFICES ASSUME NEW d \in Connections PROVE StreamOrder(streams'[d])  OBVIOUS
      <3>1. CASE d = c  BY <2>1, <3>1
      <3>2. CASE d # c  BY <1>5, <3>2 DEF StreamInv
      <3> QED  BY <3>1, <3>2
  <1>12. LinksApart'
    <2> HIDE DEF c
    <2>1. viewers[v].connection = c  BY DEF c
    <2>2. \A u \in Viewers : viewers'[u].pc = viewers[u].pc
                              /\ viewers'[u].connection = viewers[u].connection
      BY <1>1, <1>7, <2>1
    <2> QED  BY <2>2 DEF StreamInv, LinksApart
  <1>13. ASSUME NEW u \in Viewers PROVE Link(u)'
    <2>1. CASE u = v
      BY <1>3, <1>5, <1>6, <1>7, <2>1 DEF Link
    <2>2. CASE u # v
      <3>1. Link(u) /\ viewers'[u] = viewers[u]  BY <1>7, <2>2 DEF StreamInv
      <3>2. viewers[u].pc = "online" => viewers[u].connection # c
        BY <1>1, <2>2 DEF StreamInv, LinksApart
      <3> QED  BY <1>5, <3>1, <3>2 DEF Link
    <2> QED  BY <2>1, <2>2
  <1>14. StreamInv'  BY <1>10, <1>11, <1>12, <1>13 DEF StreamInv
  <1> QED  BY <1>1, <1>3, <1>4, <1>5, <1>6, <1>7, <1>14 DEF n, f

\* What a broken connection leaves: its stream with nothing in flight, the
\* other streams as they were.
LEMMA BrokenStreams ==
    ASSUME StreamInv, NEW v \in Viewers, streams' = Broken(v)
    PROVE  /\ streams' \in [Connections -> StreamRecord]
           /\ \A d \in Connections : d # viewers[v].connection => streams'[d] = streams[d]
           /\ \A d \in Connections : StreamOrder(streams'[d])
           /\ \A d \in Connections : streams'[d].cursor = streams[d].cursor
                                     /\ streams'[d].batch = streams[d].batch
                                     /\ streams'[d].inFlight \in {<<>>, streams[d].inFlight}
           /\ Active' = Active
  <1>1. streams \in [Connections -> StreamRecord]  BY DEF StreamInv, StreamTypes
  <1>2. <<>> \in Seq(Sequences) /\ Len(<<>>) = 0  BY EmptySeq
  <1>3. \A d \in Connections :
           streams'[d] = IF d = viewers[v].connection
                         THEN [streams[d] EXCEPT !.pc = "broken", !.inFlight = <<>>]
                         ELSE streams[d]
    BY DEF Broken
  <1>4. \A d \in Connections :
           /\ streams'[d] \in StreamRecord
           /\ streams'[d].cursor = streams[d].cursor
           /\ streams'[d].batch = streams[d].batch
    BY <1>1, <1>2, <1>3 DEF StreamRecord, StreamStates
  <1>5. \A d \in Connections : d = viewers[v].connection =>
           streams'[d].pc = "broken" /\ streams'[d].inFlight = <<>>
    BY <1>1, <1>3 DEF StreamRecord
  <1>6. streams' \in [Connections -> StreamRecord]
    <2>1. streams' = [c \in Connections |-> streams'[c]]  BY DEF Broken
    <2> QED  BY <1>4, <2>1
  <1>7. \A d \in Connections : StreamOrder(streams'[d])
    <2> TAKE d \in Connections
    <2>1. StreamOrder(streams[d])  BY DEF StreamInv
    <2>2. CASE d = viewers[v].connection
      <3>1. Rising(streams'[d].inFlight)  BY <1>2, <1>5, <2>2 DEF Rising
      <3> QED  BY <1>2, <1>4, <1>5, <2>1, <2>2, <3>1 DEF StreamOrder
    <2>3. CASE d # viewers[v].connection  BY <1>3, <2>1, <2>3
    <2> QED  BY <2>2, <2>3
  <1>8. \A d \in Connections : d = viewers[v].connection => streams[d].pc \in {"poll", "send"}
    BY NoConnectionAssumption DEF StreamInv, Link
  <1>9. \A d \in Connections : streams'[d].pc # "free" <=> streams[d].pc # "free"
    BY <1>3, <1>5, <1>8
  <1>10. Active' = Active  BY <1>9 DEF Active
  <1> QED  BY <1>3, <1>4, <1>5, <1>6, <1>7, <1>10

\* Losing the connection, or starting anew, keeps the invariant.
LEMMA BreakStep ==
    ASSUME StreamInv, NEW v \in Viewers, Drop(v) \/ Reload(v)
    PROVE  /\ StreamInv'
           /\ viewers'[v].pc # "online"
           /\ \A u \in Viewers : u # v => viewers'[u] = viewers[u]
           /\ \A d \in Connections : streams'[d].cursor = streams[d].cursor
                                     /\ streams'[d].batch = streams[d].batch
                                     /\ streams'[d].inFlight \in {<<>>, streams[d].inFlight}
           /\ \A d \in Connections : d # viewers[v].connection => streams'[d] = streams[d]
           /\ Reload(v) => viewers'[v].after = 0
           /\ Drop(v) => viewers'[v].after = viewers[v].after /\ viewers'[v].seen = viewers[v].seen
  <1>1. streams' = Broken(v) /\ UNCHANGED <<nextSequence, held, stored, activeConnections>>
    BY DEF Drop, Reload
  <1>2. viewers \in [Viewers -> ViewerRecord]  BY DEF StreamInv, StreamTypes
  <1>3. viewers[v].drops + 1 \in 0 .. MaxDrops
    BY <1>2, LimitsAssumption DEF Drop, Reload, ViewerRecord
  <1>4. /\ viewers' \in [Viewers -> ViewerRecord]
        /\ viewers'[v].pc # "online" /\ viewers'[v].connection = NoConnection
        /\ \A u \in Viewers : u # v => viewers'[u] = viewers[u]
        /\ Reload(v) => viewers'[v].after = 0
        /\ Drop(v) => viewers'[v].after = viewers[v].after /\ viewers'[v].seen = viewers[v].seen
    <2>1. CASE Drop(v)
      <3>1. viewers' = [viewers EXCEPT ![v].pc = "offline", ![v].connection = NoConnection,
                                       ![v].drops = @ + 1]
        BY <2>1 DEF Drop
      <3>2. viewers' \in [Viewers -> ViewerRecord]
        BY <1>2, <1>3, <3>1 DEF ViewerRecord, ViewerStates
      <3>3. ~Reload(v) \/ viewers'[v].after = 0
        <4>1. Reload(v) => viewers'[v] = NewViewer(viewers[v].drops + 1)
          BY <1>2 DEF Reload
        <4> QED  BY <1>3, <4>1, FreshEnds
      <3> QED  BY <1>2, <3>1, <3>2, <3>3 DEF ViewerRecord
    <2>2. CASE Reload(v)
      <3>1. viewers' = [viewers EXCEPT ![v] = NewViewer(viewers[v].drops + 1)]
        BY <2>2 DEF Reload
      <3>2. NewViewer(viewers[v].drops + 1) \in ViewerRecord
            /\ NewViewer(viewers[v].drops + 1).pc = "loading"
            /\ NewViewer(viewers[v].drops + 1).after = 0
            /\ NewViewer(viewers[v].drops + 1).connection = NoConnection
        BY <1>3, FreshEnds
      <3>3. ~Drop(v)
        <4> SUFFICES ASSUME Drop(v) PROVE FALSE  OBVIOUS
        <4>1. viewers'[v].pc = "offline"  BY <1>2 DEF Drop, ViewerRecord
        <4> QED  BY <1>2, <3>1, <3>2, <4>1
      <3> QED  BY <1>2, <3>1, <3>2, <3>3
    <2> QED  BY <2>1, <2>2
  <1>5. /\ streams' \in [Connections -> StreamRecord]
        /\ \A d \in Connections : d # viewers[v].connection => streams'[d] = streams[d]
        /\ \A d \in Connections : StreamOrder(streams'[d])
        /\ \A d \in Connections : streams'[d].cursor = streams[d].cursor
                                  /\ streams'[d].batch = streams[d].batch
                                  /\ streams'[d].inFlight \in {<<>>, streams[d].inFlight}
        /\ Active' = Active
    BY <1>1, BrokenStreams
  <1>6. StreamTypes'  BY <1>1, <1>4, <1>5 DEF StreamInv, StreamTypes
  <1>7. LinksApart'  BY <1>4 DEF StreamInv, LinksApart
  <1>8. ASSUME NEW u \in Viewers PROVE Link(u)'
    <2>1. CASE u = v  BY <1>4, <2>1 DEF Link
    <2>2. CASE u # v
      <3>1. Link(u) /\ viewers'[u] = viewers[u]  BY <1>4, <2>2 DEF StreamInv
      <3>2. viewers[u].pc = "online" => viewers[u].connection # viewers[v].connection
        BY <2>2, <3>1, NoConnectionAssumption DEF StreamInv, Link, LinksApart
      <3> QED  BY <1>5, <3>1, <3>2 DEF Link
    <2> QED  BY <2>1, <2>2
  <1>9. (\A d \in Connections : StreamOrder(streams[d]))'  BY <1>5
  <1> QED  BY <1>4, <1>5, <1>6, <1>7, <1>8, <1>9 DEF StreamInv

\* A new stream takes one place under the limit and starts at the viewer's cursor.
LEMMA ConnectStep ==
    ASSUME StreamInv, NEW v \in Viewers, NEW c \in Connections, Connect(v, c)
    PROVE  /\ StreamInv'
           /\ streams'[c].cursor = viewers[v].after /\ streams'[c].batch = <<>>
           /\ streams'[c].inFlight = <<>>
           /\ viewers'[v].after = viewers[v].after /\ viewers'[v].seen = viewers[v].seen
           /\ viewers'[v].connection = c
           /\ \A u \in Viewers : u # v => viewers'[u] = viewers[u]
           /\ \A d \in Connections : d # c => streams'[d] = streams[d]
           /\ \A u \in Viewers : u # v => viewers[u].connection # c
  <1> DEFINE new == [FreeStream EXCEPT !.pc = "poll", !.cursor = viewers[v].after]
  <1>1. /\ viewers \in [Viewers -> ViewerRecord] /\ streams \in [Connections -> StreamRecord]
        /\ viewers[v].after \in 0 .. MaxSequence
    BY DEF StreamInv, StreamTypes, ViewerRecord
  <1>2. new \in StreamRecord /\ new.pc = "poll" /\ new.cursor = viewers[v].after
        /\ new.batch = <<>> /\ new.inFlight = <<>>
    BY <1>1, FreshEnds DEF StreamRecord, StreamStates, FreeStream
  <1>3. StreamOrder(new)
    BY <1>2, EmptySeq DEF StreamOrder, Rising
  <1> HIDE DEF new
  <1>4. streams' = [streams EXCEPT ![c] = new]  BY DEF Connect, new
  <1>5. /\ streams' \in [Connections -> StreamRecord]
        /\ streams'[c] = new
        /\ \A d \in Connections : d # c => streams'[d] = streams[d]
    BY <1>1, <1>2, <1>4
  <1>6. /\ viewers' \in [Viewers -> ViewerRecord]
        /\ viewers'[v].pc = "online" /\ viewers'[v].connection = c
        /\ viewers'[v].after = viewers[v].after /\ viewers'[v].seen = viewers[v].seen
        /\ \A u \in Viewers : u # v => viewers'[u] = viewers[u]
    <2>1. viewers' = [viewers EXCEPT ![v].pc = "online", ![v].connection = c]  BY DEF Connect
    <2> QED  BY <1>1, <2>1 DEF ViewerRecord, ViewerStates
  <1>7. streams[c].pc = "free" /\ activeConnections < MaximumConnections
        /\ activeConnections' = activeConnections + 1
        /\ UNCHANGED <<nextSequence, held, stored>>
    BY DEF Connect
  <1>8. IsFiniteSet(Active)' /\ Cardinality(Active)' = activeConnections'
        /\ activeConnections' \in 0 .. MaximumConnections
    <2>1. Active' = Active \cup {c} /\ c \notin Active
      BY <1>2, <1>5, <1>7 DEF Active
    <2>2. IsFiniteSet(Active) /\ Cardinality(Active) = activeConnections
          /\ activeConnections \in 0 .. MaximumConnections
      BY DEF StreamInv, StreamTypes
    <2>3. IsFiniteSet(Active \cup {c}) /\ Cardinality(Active \cup {c}) = Cardinality(Active) + 1
      BY <2>1, <2>2, FS_AddElement
    <2> QED  BY <1>7, <2>1, <2>2, <2>3, LimitsAssumption
  <1>9. StreamTypes'  BY <1>5, <1>6, <1>7, <1>8 DEF StreamInv, StreamTypes
  <1>10. (\A d \in Connections : StreamOrder(streams[d]))'
    BY <1>3, <1>5 DEF StreamInv
  <1>11. \A u \in Viewers : viewers[u].connection # c
    BY <1>7, NoConnectionAssumption DEF StreamInv, Link
  <1>12. LinksApart'  BY <1>6, <1>11 DEF StreamInv, LinksApart
  <1>13. ASSUME NEW u \in Viewers PROVE Link(u)'
    <2>1. CASE u = v
      BY <1>1, <1>2, <1>5, <1>6, <2>1, EmptySeq DEF Link
    <2>2. CASE u # v
      BY <1>5, <1>6, <1>11, <2>2 DEF StreamInv, Link
    <2> QED  BY <2>1, <2>2
  <1> QED  BY <1>2, <1>5, <1>6, <1>9, <1>10, <1>11, <1>12, <1>13 DEF StreamInv

\* The end of a stream gives its place back.
LEMMA CloseStep ==
    ASSUME StreamInv, NEW c \in Connections, CloseStream(c)
    PROVE  /\ StreamInv'
           /\ streams'[c] = FreeStream
           /\ \A d \in Connections : d # c => streams'[d] = streams[d]
           /\ \A v \in Viewers : viewers[v].connection # c
  <1>1. streams[c].pc = "broken" /\ activeConnections' = activeConnections - 1
        /\ UNCHANGED <<nextSequence, held, stored, viewers>>
        /\ streams' = [streams EXCEPT ![c] = FreeStream]
    BY DEF CloseStream
  <1>2. /\ streams' \in [Connections -> StreamRecord]
        /\ streams'[c] = FreeStream
        /\ \A d \in Connections : d # c => streams'[d] = streams[d]
    BY <1>1, FreshEnds DEF StreamInv, StreamTypes
  <1>3. IsFiniteSet(Active)' /\ Cardinality(Active)' = activeConnections'
        /\ activeConnections' \in 0 .. MaximumConnections
    <2>1. Active' = Active \ {c} /\ c \in Active
      BY <1>1, <1>2, FreshEnds DEF Active
    <2>2. IsFiniteSet(Active) /\ Cardinality(Active) = activeConnections
          /\ activeConnections \in 0 .. MaximumConnections
      BY DEF StreamInv, StreamTypes
    <2>3. IsFiniteSet(Active \ {c}) /\ Cardinality(Active \ {c}) = Cardinality(Active) - 1
      BY <2>1, <2>2, FS_RemoveElement
    <2>4. Cardinality(Active \ {c}) \in Nat  BY <2>3, FS_CardinalityType
    <2> QED  BY <1>1, <2>1, <2>2, <2>3, <2>4, LimitsAssumption
  <1>4. StreamTypes'  BY <1>1, <1>2, <1>3 DEF StreamInv, StreamTypes
  <1>5. (\A d \in Connections : StreamOrder(streams[d]))'
    BY <1>2, FreshEnds DEF StreamInv
  <1>6. \A v \in Viewers : viewers[v].connection # c
    BY <1>1, NoConnectionAssumption DEF StreamInv, Link
  <1>7. LinksApart'  BY <1>1 DEF StreamInv, LinksApart
  <1>8. (\A v \in Viewers : Link(v))'  BY <1>1, <1>2, <1>6 DEF StreamInv, Link
  <1> QED  BY <1>2, <1>4, <1>5, <1>6, <1>7, <1>8 DEF StreamInv

\* Every step keeps the invariant.
LEMMA StepStreamInv == StreamInv /\ [Next]_vars => StreamInv'
  <1> SUFFICES ASSUME StreamInv, [Next]_vars PROVE StreamInv'  OBVIOUS
  <1>1. CASE \E w \in Writers : Reserve(w) \/ Insert(w) \/ Abandon(w)
    BY <1>1, WriterTypes
  <1>2. CASE \E v \in Viewers : LoadPage(v)  BY <1>2, LoadPageStep
  <1>3. CASE \E v \in Viewers : LoadFails(v)  BY <1>3, LoadFailsStep
  <1>4. CASE \E v \in Viewers : Receive(v)  BY <1>4, ReceiveStep
  <1>5. CASE \E v \in Viewers : Drop(v) \/ Reload(v)  BY <1>5, BreakStep
  <1>6. CASE \E v \in Viewers, c \in Connections : Connect(v, c)  BY <1>6, ConnectStep
  <1>7. CASE \E c \in Connections : Poll(c)  BY <1>7, PollStep
  <1>8. CASE \E c \in Connections : Send(c)  BY <1>8, SendStep
  <1>9. CASE \E c \in Connections : CloseStream(c)  BY <1>9, CloseStep
  <1>10. CASE UNCHANGED vars
    <2>1. Active' = Active  BY <1>10 DEF Active, vars
    <2> QED
      BY <1>10, <2>1 DEF vars, StreamInv, StreamTypes, Link, LinksApart
  <1> QED
    BY <1>1, <1>2, <1>3, <1>4, <1>5, <1>6, <1>7, <1>8, <1>9, <1>10 DEF Next

\* The invariant of the streams and viewers, for any number of writers.
THEOREM StreamInvHolds == Spec => []StreamInv
  BY InitStreamInv, StepStreamInv, PTL DEF Spec

\* The stored rows, cursors, frames and the number of connections keep their
\* types; there are never more active connections than the limit, nor fewer
\* than none.
THEOREM StreamsAreTyped == Spec => []TypeOK
  <1>1. StreamInv => TypeOK
    BY DEF StreamInv, StreamTypes, TypeOK, StreamRecord, ViewerRecord, StreamStates, ViewerStates,
           Sequences
  <1> QED  BY <1>1, StreamInvHolds, PTL

\* Three rising sequences, each beyond the one before, rise together.
LEMMA RisingConcat ==
    ASSUME NEW a \in Int, NEW f \in Seq(Sequences), NEW b \in Seq(Sequences), NEW cursor \in Int,
           Rising(f), Rising(b), a <= cursor,
           \A i \in 1 .. Len(f) : a < f[i] /\ f[i] <= cursor,
           \A i \in 1 .. Len(b) : cursor < b[i]
    PROVE  LET frames == <<a>> \o f \o b
           IN  \A i \in 1 .. Len(frames) - 1 : frames[i] < frames[i + 1]
  <1> DEFINE g == <<a>> \o f
             frames == g \o b
  <1>1. f \in Seq(Int) /\ b \in Seq(Int) /\ <<a>> \in Seq(Int) /\ Len(<<a>>) = 1 /\ <<a>>[1] = a
    <2>1. Sequences \subseteq Int  BY DEF Sequences
    <2>2. f \in Seq(Int) /\ b \in Seq(Int)  BY <2>1, SeqMonotonic
    <2> QED  BY <2>2
  <1>2. /\ g \in Seq(Int) /\ Len(g) = 1 + Len(f)
        /\ g[1] = a /\ \A i \in 1 .. Len(f) : g[i + 1] = f[i]
    <2>1. Len(f) \in Nat  BY <1>1, LenProperties
    <2>2. /\ g \in Seq(Int) /\ Len(g) = Len(<<a>>) + Len(f)
          /\ \A i \in 1 .. Len(<<a>>) + Len(f) :
                g[i] = IF i <= Len(<<a>>) THEN <<a>>[i] ELSE f[i - Len(<<a>>)]
      BY <1>1, ConcatProperties
    <2> HIDE DEF g
    <2>3. \A i \in 1 .. 1 + Len(f) : g[i] = IF i <= 1 THEN a ELSE f[i - 1]
      BY <1>1, <2>2
    <2>4. \A i \in 1 .. Len(f) : i + 1 \in 1 .. 1 + Len(f) /\ ~(i + 1 <= 1) /\ (i + 1) - 1 = i
      BY <2>1
    <2> QED  BY <1>1, <2>1, <2>2, <2>3, <2>4
  <1>3. /\ Len(frames) = Len(g) + Len(b)
        /\ \A i \in 1 .. Len(g) + Len(b) :
              frames[i] = IF i <= Len(g) THEN g[i] ELSE b[i - Len(g)]
    <2> HIDE DEF g
    <2> QED  BY <1>1, <1>2, ConcatProperties
  <1>4. Len(f) \in Nat /\ Len(b) \in Nat  BY <1>1, LenProperties
  <1> HIDE DEF g, frames
  <1>5. \A i \in 1 .. Len(g) : g[i] \in Int /\ g[i] <= cursor
    <2> TAKE i \in 1 .. Len(g)
    <2>1. g[i] \in Int  BY <1>2, ElementOfSeq
    <2>2. CASE i = 1  BY <1>2, <2>1, <2>2
    <2>3. CASE i # 1
      <3>1. i - 1 \in 1 .. Len(f) /\ (i - 1) + 1 = i  BY <1>2, <1>4, <2>3
      <3>2. g[i] = f[i - 1]  BY <1>2, <3>1
      <3> QED  BY <2>1, <3>1, <3>2
    <2> QED  BY <2>2, <2>3
  <1>6. ASSUME NEW i \in 1 .. Len(frames) - 1 PROVE frames[i] < frames[i + 1]
    <2>1. /\ i \in Nat /\ i + 1 \in 1 .. Len(g) + Len(b) /\ i \in 1 .. Len(g) + Len(b)
      BY <1>2, <1>3, <1>4
    <2>2. CASE i + 1 <= Len(g)
      <3>1. i \in 1 .. Len(f) /\ i <= Len(g)  BY <1>2, <1>4, <2>1, <2>2
      <3>2. frames[i] = g[i] /\ frames[i + 1] = f[i]  BY <1>2, <1>3, <2>1, <2>2, <3>1
      <3>3. CASE i = 1  BY <1>2, <3>1, <3>2, <3>3
      <3>4. CASE i # 1
        <4>1. i - 1 \in 1 .. Len(f) /\ (i - 1) + 1 = i /\ i - 1 < i  BY <1>4, <3>1, <3>4
        <4>2. g[i] = f[i - 1]  BY <1>2, <4>1
        <4> QED  BY <3>1, <3>2, <4>1, <4>2 DEF Rising
      <3> QED  BY <3>3, <3>4
    <2>3. CASE i = Len(g)
      <3>1. frames[i] = g[i] /\ frames[i + 1] = b[1] /\ 1 \in 1 .. Len(b) /\ i \in 1 .. Len(g)
        <4>1. ~(i + 1 <= Len(g)) /\ (i + 1) - Len(g) = 1 /\ 1 \in 1 .. Len(b)
          BY <1>2, <1>4, <2>1, <2>3
        <4>2. i <= Len(g) /\ i \in 1 .. Len(g)  BY <1>2, <1>4, <2>1, <2>3
        <4> QED  BY <1>3, <2>1, <4>1, <4>2
      <3>2. b[1] \in Int  BY <1>1, <3>1, ElementOfSeq
      <3> QED  BY <1>5, <3>1, <3>2
    <2>4. CASE i > Len(g)
      <3>1. /\ i - Len(g) \in 1 .. Len(b) /\ (i + 1) - Len(g) \in 1 .. Len(b)
            /\ i - Len(g) < (i + 1) - Len(g) /\ ~(i <= Len(g)) /\ ~(i + 1 <= Len(g))
        BY <1>2, <1>4, <2>1, <2>4
      <3>2. frames[i] = b[i - Len(g)] /\ frames[i + 1] = b[(i + 1) - Len(g)]
        BY <1>3, <2>1, <3>1
      <3> QED  BY <3>1, <3>2 DEF Rising
    <2> QED  BY <1>2, <1>4, <2>1, <2>2, <2>3, <2>4
  <1> QED  BY <1>6 DEF frames, g

\* No viewer is sent an event it has, or events out of order, across pages,
\* batches and reconnects, whatever the writers do.
THEOREM FramesAlwaysRise == Spec => []FramesRise
  <1>1. ASSUME StreamInv PROVE FramesRise
    <2> SUFFICES ASSUME NEW v \in Viewers, viewers[v].pc = "online"
                 PROVE  LET c == viewers[v].connection
                            frames == <<viewers[v].after>> \o streams[c].inFlight \o streams[c].batch
                        IN  \A i \in 1 .. Len(frames) - 1 : frames[i] < frames[i + 1]
      BY DEF FramesRise
    <2> DEFINE c == viewers[v].connection
    <2>1. c \in Connections /\ viewers[v].after <= streams[c].cursor
          /\ \A i \in 1 .. Len(streams[c].inFlight) : viewers[v].after < streams[c].inFlight[i]
      BY <1>1 DEF StreamInv, Link
    <2>2. viewers[v].after \in Int /\ streams[c].cursor \in Int
          /\ streams[c].inFlight \in Seq(Sequences) /\ streams[c].batch \in Seq(Sequences)
      BY <1>1, <2>1 DEF StreamInv, StreamTypes, ViewerRecord, StreamRecord
    <2>3. /\ Rising(streams[c].inFlight) /\ Rising(streams[c].batch)
          /\ \A i \in 1 .. Len(streams[c].inFlight) : streams[c].inFlight[i] <= streams[c].cursor
          /\ \A i \in 1 .. Len(streams[c].batch) : streams[c].cursor < streams[c].batch[i]
      BY <1>1, <2>1 DEF StreamInv, StreamOrder
    <2> QED  BY <2>1, <2>2, <2>3, RisingConcat
  <1> QED  BY <1>1, StreamInvHolds, PTL

-----------------------------------------------------------------------------
(* Completeness, with one writer.                                          *)

\* The integers the arithmetic below is about.
LEMMA Integral ==
    StreamInv =>
        /\ nextSequence \in Int
        /\ \A n \in stored : n \in Int /\ n > 0
        /\ \A w \in Writers : \A n \in held[w] : n \in Int /\ n > 0
        /\ \A c \in Connections : streams[c].cursor \in Int
        /\ \A v \in Viewers : viewers[v].after \in Int
  BY DEF StreamInv, StreamTypes, StreamRecord, ViewerRecord, Sequences

\* The initial state has nothing to leave out.
LEMMA InitCompleteInv == Init => CompleteInv
  <1> SUFFICES ASSUME Init PROVE CompleteInv  OBVIOUS
  <1>1. stored = {} /\ (\A c \in Connections : streams[c] = FreeStream)
        /\ (\A w \in Writers : held[w] = {}) /\ \A v \in Viewers : viewers[v] = NewViewer(0)
    BY DEF Init
  <1>2. \A c \in Connections : StreamComplete(streams[c])
    BY <1>1, FreshEnds, EmptySeq DEF StreamComplete
  <1>3. \A v \in Viewers : ViewerComplete(v)
    BY <1>1, FreshEnds, LimitsAssumption DEF ViewerComplete
  <1> QED  BY <1>1, <1>2, <1>3 DEF CompleteInv, WriterAhead

\* The single writer inserts beyond everything stored, so that nothing appears
\* behind a cursor.
LEMMA WriterComplete ==
    ASSUME OneWriter, StreamInv, CompleteInv, NEW w \in Writers,
           Reserve(w) \/ Insert(w) \/ Abandon(w)
    PROVE  CompleteInv' /\ \A n \in stored' \ stored : \A m \in stored : m < n
  <1>1. UNCHANGED <<activeConnections, streams, viewers>>
    BY DEF Reserve, Insert, Abandon
  <1>2. held \in [Writers -> SUBSET Sequences]  BY DEF StreamInv, StreamTypes
  <1>3. \A x \in Writers : x = w  BY DEF OneWriter
  <1>4. CASE Reserve(w)
    <2>1. PICK k \in 1 .. MaxBlock :
             /\ held' = [held EXCEPT ![w] = nextSequence .. nextSequence + k - 1]
             /\ nextSequence' = nextSequence + k
             /\ stored' = stored
      BY <1>4 DEF Reserve
    <2>2. held'[w] = nextSequence .. nextSequence + k - 1  BY <1>2, <2>1
    <2>3. WriterAhead'
      <3>1. ASSUME NEW n \in stored' PROVE n < nextSequence'
        BY <2>1, LimitsAssumption, Integral DEF CompleteInv, WriterAhead
      <3>2. ASSUME NEW n \in held'[w] PROVE n < nextSequence' /\ \A m \in stored' : m < n
        <4>1. n \in Int /\ nextSequence <= n /\ n <= nextSequence + k - 1
          BY <2>2, Integral
        <4>2. \A m \in stored : m \in Int /\ m < nextSequence
          BY Integral DEF CompleteInv, WriterAhead
        <4> QED  BY <2>1, <4>1, <4>2, LimitsAssumption, Integral
      <3> QED  BY <1>3, <3>1, <3>2 DEF WriterAhead
    <2> QED  BY <1>1, <2>1, <2>3 DEF CompleteInv, StreamComplete, ViewerComplete
  <1>5. CASE Insert(w)
    <2>1. stored' = stored \cup held[w] /\ held'[w] = {} /\ nextSequence' = nextSequence
      BY <1>2, <1>5 DEF Insert
    <2>2. \A n \in held[w] : n \in Int /\ n > 0 /\ n < nextSequence /\ \A m \in stored : m < n
      BY Integral DEF CompleteInv, WriterAhead
    <2>3. WriterAhead'
      BY <1>3, <2>1, <2>2 DEF CompleteInv, WriterAhead
    <2>4. \A m \in stored \cup {0} : \A n \in stored' : n <= m => n \in stored
      <3> SUFFICES ASSUME NEW m \in stored \cup {0}, NEW n \in held[w], n <= m PROVE FALSE
        BY <2>1
      <3>1. m < n /\ m \in Int /\ n \in Int  BY <2>2, Integral
      <3> QED  BY <3>1
    <2>5. ASSUME NEW c \in Connections PROVE StreamComplete(streams[c])'
      <3>1. StreamComplete(streams[c])  BY DEF CompleteInv
      <3> QED  BY <1>1, <2>1, <2>4, <3>1 DEF StreamComplete
    <2>6. ASSUME NEW v \in Viewers PROVE ViewerComplete(v)'
      <3>1. ViewerComplete(v)  BY DEF CompleteInv
      <3>2. viewers[v].pc = "online" => streams[viewers[v].connection].cursor \in stored \cup {0}
        BY DEF StreamInv, Link, CompleteInv, StreamComplete
      <3>3. \A n \in stored' : n <= viewers[v].after => n \in stored
        BY <2>4, <3>1 DEF ViewerComplete
      <3>4. viewers[v].pc = "online" =>
               \A n \in stored' : n <= streams[viewers[v].connection].cursor => n \in stored
        BY <2>4, <3>2
      <3>5. (viewers[v].after \in stored \cup {0})'
        BY <1>1, <2>1, <3>1 DEF ViewerComplete
      <3> QED  BY <1>1, <3>1, <3>3, <3>4, <3>5 DEF ViewerComplete
    <2>7. CompleteInv'  BY <2>3, <2>5, <2>6 DEF CompleteInv
    <2> QED  BY <2>1, <2>2, <2>7
  <1>6. CASE Abandon(w)
    <2>1. stored' = stored /\ held'[w] = {} /\ nextSequence' = nextSequence
      BY <1>2, <1>6 DEF Abandon
    <2>2. WriterAhead'  BY <1>3, <2>1 DEF CompleteInv, WriterAhead
    <2> QED  BY <1>1, <2>1, <2>2 DEF CompleteInv, StreamComplete, ViewerComplete
  <1> QED  BY <1>4, <1>5, <1>6

\* A page leaves no stored row out up to its last.
LEMMA PageComplete ==
    ASSUME StreamInv, CompleteInv, NEW v \in Viewers, LoadPage(v)
    PROVE  CompleteInv'
  <1> DEFINE rest == {n \in stored : n > viewers[v].after}
             page == FirstOf(rest, PageSize)
  <1>1. /\ viewers'[v].pc # "online"
        /\ \A u \in Viewers : u # v => viewers'[u] = viewers[u]
        /\ viewers'[v].seen = viewers[v].seen \cup ToSet(page)
        /\ viewers'[v].after = IF page = <<>> THEN viewers[v].after ELSE Last(page)
        /\ page \in Seq(rest)
    BY LoadPageStep
  <1>2. UNCHANGED <<nextSequence, held, stored, streams>>  BY DEF LoadPage
  <1>3. rest \subseteq Sequences  BY DEF StreamInv, StreamTypes
  <1>4. \A i \in 1 .. Len(page) : \A n \in rest :
           n <= page[i] => \E j \in 1 .. Len(page) : page[j] = n
    <2> HIDE DEF rest
    <2> QED  BY <1>3, LimitsAssumption, FirstOfIsAPrefix
  <1>5. ViewerComplete(v)  BY DEF CompleteInv
  <1> HIDE DEF page
  <1>6. ViewerComplete(v)'
    <2>1. CASE page = <<>>
      BY <1>1, <1>2, <1>5, <2>1 DEF ViewerComplete
    <2>2. CASE page # <<>>
      <3>1. Len(page) \in 1 .. Len(page) /\ DOMAIN page = 1 .. Len(page)
        BY <1>1, <2>2, EmptySeq, LenProperties
      <3>2. viewers'[v].after = page[Len(page)] /\ page[Len(page)] \in rest
        BY <1>1, <2>2, <3>1, ElementOfSeq DEF Last
      <3>3. ASSUME NEW n \in stored, n <= viewers'[v].after PROVE n \in viewers'[v].seen
        <4>1. CASE n <= viewers[v].after  BY <1>1, <1>5, <4>1 DEF ViewerComplete
        <4>2. CASE n > viewers[v].after
          <5>1. \E j \in 1 .. Len(page) : page[j] = n
            BY <1>4, <3>1, <3>2, <3>3, <4>2
          <5> QED  BY <1>1, <3>1, <5>1 DEF ToSet
        <4> QED  BY <4>1, <4>2, Integral
      <3> QED  BY <1>1, <1>2, <3>2, <3>3 DEF ViewerComplete
    <2> QED  BY <2>1, <2>2
  <1>7. ASSUME NEW u \in Viewers, u # v PROVE ViewerComplete(u)'
    BY <1>1, <1>2, <1>7 DEF CompleteInv, ViewerComplete
  <1> QED  BY <1>2, <1>6, <1>7 DEF CompleteInv, WriterAhead, StreamComplete

\* Taking a frame moves the viewer's cursor to the next stored row.
LEMMA ReceiveComplete ==
    ASSUME StreamInv, CompleteInv, NEW v \in Viewers, Receive(v)
    PROVE  CompleteInv'
  <1> DEFINE c == viewers[v].connection
             f == streams[c].inFlight
             n == Head(f)
  <1>1. /\ c \in Connections /\ viewers[v].pc = "online"
        /\ f \in Seq(Sequences) /\ f # <<>> /\ Rising(f)
        /\ viewers'[v].pc = "online" /\ viewers'[v].connection = c
        /\ viewers'[v].seen = viewers[v].seen \cup {n}
        /\ viewers'[v].after = n /\ viewers[v].after < n /\ n <= streams[c].cursor
        /\ \A u \in Viewers : u # v => viewers'[u] = viewers[u]
        /\ \A d \in Connections : d # c => streams'[d] = streams[d]
        /\ streams'[c].inFlight = Tail(f)
        /\ streams'[c].cursor = streams[c].cursor
        /\ streams'[c].batch = streams[c].batch
    BY ReceiveStep
  <1>2. UNCHANGED <<nextSequence, held, stored>>  BY DEF Receive
  <1>3. viewers[v].connection = c  OBVIOUS
  <1>4. ViewerComplete(v) /\ StreamComplete(streams[c])  BY <1>1 DEF CompleteInv
  <1>5. \A m \in stored : viewers[v].after < m /\ m <= streams[c].cursor =>
                \E j \in 1 .. Len(f) : f[j] = m
    BY <1>1, <1>4 DEF ViewerComplete
  <1>6. \A i \in 1 .. Len(f) : f[i] \in stored  BY <1>4 DEF StreamComplete
  <1>7. \A u \in Viewers : u # v /\ viewers[u].pc = "online" =>
           viewers[u].connection # c /\ viewers[u].connection \in Connections
    BY <1>1 DEF StreamInv, Link, LinksApart
  <1> HIDE DEF n, f, c
  <1>8. /\ n = f[1] /\ 1 \in 1 .. Len(f)
        /\ \A i \in 1 .. Len(Tail(f)) : i + 1 \in 1 .. Len(f) /\ Tail(f)[i] = f[i + 1]
        /\ \A i \in 1 .. Len(f) : i # 1 => i - 1 \in 1 .. Len(Tail(f)) /\ f[i] = Tail(f)[i - 1]
    BY <1>1, RisingTail DEF n
  <1>9. n \in stored /\ \A i \in 1 .. Len(f) : i # 1 => n < f[i]
    BY <1>1, <1>6, <1>8 DEF Rising
  <1>10. ViewerComplete(v)'
    <2>1. ASSUME NEW m \in stored, m <= n PROVE m \in viewers'[v].seen
      <3>1. CASE m <= viewers[v].after  BY <1>1, <1>4, <3>1 DEF ViewerComplete
      <3>2. CASE m > viewers[v].after
        <4>1. m <= streams[c].cursor /\ viewers[v].after < m
          BY <1>1, <1>9, <2>1, <3>2, Integral
        <4>2. PICK j \in 1 .. Len(f) : f[j] = m  BY <1>5, <4>1
        <4>3. m \in Int /\ n \in Int  BY <1>9, Integral
        <4>4. j = 1  BY <1>9, <2>1, <4>2, <4>3
        <4> QED  BY <1>1, <1>8, <4>2, <4>4
      <3> QED  BY <3>1, <3>2, Integral
    <2>2. ASSUME NEW m \in stored, n < m, m <= streams[c].cursor
          PROVE  \E j \in 1 .. Len(Tail(f)) : Tail(f)[j] = m
      <3>1. viewers[v].after < m  BY <1>1, <1>9, <2>2, Integral
      <3>2. PICK j \in 1 .. Len(f) : f[j] = m  BY <1>5, <2>2, <3>1
      <3>3. j # 1  BY <1>8, <1>9, <2>2, <3>2, Integral
      <3> QED  BY <1>8, <3>2, <3>3
    <2> QED  BY <1>1, <1>2, <1>9, <2>1, <2>2 DEF ViewerComplete
  <1>11. ASSUME NEW u \in Viewers, u # v PROVE ViewerComplete(u)'
    <2>1. ViewerComplete(u) /\ viewers'[u] = viewers[u]  BY <1>1, <1>11 DEF CompleteInv
    <2>2. viewers[u].pc = "online" =>
             streams'[viewers[u].connection] = streams[viewers[u].connection]
      BY <1>1, <1>7, <1>11
    <2> QED  BY <1>2, <2>1, <2>2 DEF ViewerComplete
  <1>12. ASSUME NEW d \in Connections PROVE StreamComplete(streams[d])'
    <2>1. StreamComplete(streams[d])  BY DEF CompleteInv
    <2>2. streams'[d].cursor = streams[d].cursor /\ streams'[d].batch = streams[d].batch
      BY <1>1
    <2>3. \A i \in 1 .. Len(streams'[d].inFlight) : streams'[d].inFlight[i] \in stored
      <3>1. CASE d = c  BY <1>1, <1>6, <1>8, <3>1
      <3>2. CASE d # c  BY <1>1, <2>1, <3>2 DEF StreamComplete
      <3> QED  BY <3>1, <3>2
    <2> QED  BY <1>2, <2>1, <2>2, <2>3 DEF StreamComplete
  <1> QED  BY <1>2, <1>10, <1>11, <1>12 DEF CompleteInv, WriterAhead

\* A batch leaves no stored row out up to its last.
LEMMA PollComplete ==
    ASSUME StreamInv, CompleteInv, NEW c \in Connections, Poll(c)
    PROVE  CompleteInv'
  <1> DEFINE rest == {n \in stored : n > streams[c].cursor}
             page == FirstOf(rest, BatchSize)
  <1>1. /\ streams[c].pc = "poll"
        /\ streams' = [streams EXCEPT ![c].pc = "send", ![c].batch = page]
        /\ UNCHANGED <<nextSequence, held, stored, activeConnections, viewers>>
    BY DEF Poll
  <1>2. rest \subseteq Sequences  BY DEF StreamInv, StreamTypes
  <1>3. /\ page \in Seq(rest)
        /\ \A i \in 1 .. Len(page) : \A n \in rest :
              n <= page[i] => \E j \in 1 .. Len(page) : page[j] = n
    <2> HIDE DEF rest
    <2>1. page \in Seq(rest)  BY <1>2, LimitsAssumption, FirstOfIsAPrefix
    <2>2. \A i \in 1 .. Len(page) : \A n \in rest :
             n <= page[i] => \E j \in 1 .. Len(page) : page[j] = n
      BY <1>2, LimitsAssumption, FirstOfIsAPrefix
    <2> QED  BY <2>1, <2>2
  <1>4. \A i \in 1 .. Len(page) : page[i] \in stored
    <2>1. \A i \in 1 .. Len(page) : page[i] \in rest
      <3> HIDE DEF page, rest
      <3> QED  BY <1>3, ElementOfSeq
    <2> QED  BY <2>1
  <1>5. ASSUME NEW n \in stored, streams[c].cursor < n PROVE n \in rest
    BY <1>5, Integral
  <1> HIDE DEF page, rest
  <1>6. /\ streams'[c].cursor = streams[c].cursor /\ streams'[c].batch = page
        /\ streams'[c].inFlight = streams[c].inFlight
        /\ \A d \in Connections : d # c => streams'[d] = streams[d]
    BY <1>1 DEF StreamInv, StreamTypes, StreamRecord
  <1>a. stored' = stored /\ viewers' = viewers /\ nextSequence' = nextSequence /\ held' = held
    BY <1>1
  <1>7. StreamComplete(streams[c])'
    <2>1. StreamComplete(streams[c])  BY DEF CompleteInv
    <2> QED  BY <1>a, <1>3, <1>4, <1>5, <1>6, <2>1 DEF StreamComplete
  <1>8. ASSUME NEW d \in Connections, d # c PROVE StreamComplete(streams[d])'
    BY <1>a, <1>6, <1>8 DEF CompleteInv, StreamComplete
  <1>9. ASSUME NEW v \in Viewers PROVE ViewerComplete(v)'
    <2>1. ViewerComplete(v)  BY DEF CompleteInv
    <2>2. viewers[v].pc = "online" => viewers[v].connection \in Connections
      BY DEF StreamInv, Link
    <2>3. \A d \in Connections : streams'[d].cursor = streams[d].cursor
                                 /\ streams'[d].inFlight = streams[d].inFlight
      BY <1>6
    <2> QED  BY <1>a, <2>1, <2>2, <2>3 DEF ViewerComplete
  <1> QED  BY <1>a, <1>7, <1>8, <1>9 DEF CompleteInv, WriterAhead

\* The frame sent is the next stored row after the cursor.
LEMMA SendComplete ==
    ASSUME StreamInv, CompleteInv, NEW c \in Connections, Send(c)
    PROVE  CompleteInv'
  <1> DEFINE f == streams[c].inFlight
             b == streams[c].batch
             n == Head(b)
  <1>1. /\ b # <<>> /\ streams[c].cursor < streams'[c].cursor
        /\ \A d \in Connections : d # c => streams'[d] = streams[d]
        /\ streams'[c].inFlight = Append(f, n) /\ streams'[c].cursor = n
        /\ streams'[c].batch = Tail(b)
    BY SendStep
  <1>2. UNCHANGED <<nextSequence, held, stored, viewers>>  BY DEF Send
  <1>3. b \in Seq(Sequences) /\ f \in Seq(Sequences) /\ Rising(b)
    BY DEF StreamInv, StreamTypes, StreamRecord, StreamOrder
  <1>4. StreamComplete(streams[c])  BY DEF CompleteInv
  <1>5. /\ streams[c].cursor \in stored \cup {0}
        /\ \A i \in 1 .. Len(b) : b[i] \in stored
        /\ \A i \in 1 .. Len(f) : f[i] \in stored
        /\ \A i \in 1 .. Len(b) : \A m \in stored :
              streams[c].cursor < m /\ m <= b[i] => \E j \in 1 .. Len(b) : b[j] = m
    BY <1>4 DEF StreamComplete
  <1> HIDE DEF f, b, n
  <1>6. /\ n \in Sequences /\ n = b[1] /\ 1 \in 1 .. Len(b)
        /\ \A i \in 1 .. Len(Tail(b)) :
              i + 1 \in 1 .. Len(b) /\ Tail(b)[i] = b[i + 1] /\ n < Tail(b)[i]
        /\ \A i \in 1 .. Len(b) : i # 1 => i - 1 \in 1 .. Len(Tail(b)) /\ b[i] = Tail(b)[i - 1]
    BY <1>1, <1>3, RisingTail DEF n
  <1>7. /\ n \in stored /\ streams[c].cursor < n
        /\ \A i \in 1 .. Len(b) : i # 1 => n < b[i]
    BY <1>1, <1>5, <1>6
  <1>8. /\ Len(Append(f, n)) = Len(f) + 1 /\ Len(f) \in Nat
        /\ \A i \in 1 .. Len(f) : Append(f, n)[i] = f[i]
        /\ Append(f, n)[Len(f) + 1] = n
    BY <1>3, <1>6, AppendProperties, LenProperties
  <1>9. \A i \in 1 .. Len(Append(f, n)) : Append(f, n)[i] \in stored
    <2> TAKE i \in 1 .. Len(Append(f, n))
    <2>1. i \in 1 .. Len(f) \/ i = Len(f) + 1  BY <1>8
    <2> QED  BY <1>5, <1>7, <1>8, <2>1
  <1>10. ASSUME NEW i \in 1 .. Len(Tail(b)), NEW m \in stored, n < m, m <= Tail(b)[i]
         PROVE  \E j \in 1 .. Len(Tail(b)) : Tail(b)[j] = m
    <2>1. streams[c].cursor < m
      BY <1>7, <1>10, Integral
    <2>2. i + 1 \in 1 .. Len(b) /\ m <= b[i + 1]  BY <1>6, <1>10
    <2>3. PICK j \in 1 .. Len(b) : b[j] = m  BY <1>5, <2>1, <2>2
    <2>4. j # 1  BY <1>6, <1>7, <1>10, <2>3, Integral
    <2> QED  BY <1>6, <2>3, <2>4
  <1>11. StreamComplete(streams[c])'
    <2>1. \A i \in 1 .. Len(Tail(b)) : Tail(b)[i] \in stored  BY <1>5, <1>6
    <2> QED  BY <1>1, <1>2, <1>7, <1>9, <1>10, <2>1 DEF StreamComplete
  <1>12. ASSUME NEW d \in Connections, d # c PROVE StreamComplete(streams[d])'
    BY <1>1, <1>2, <1>12 DEF CompleteInv, StreamComplete
  <1>13. ASSUME NEW v \in Viewers PROVE ViewerComplete(v)'
    <2>1. ViewerComplete(v)  BY DEF CompleteInv
    <2>2. CASE viewers[v].pc = "online" /\ viewers[v].connection = c
      <3>1. ASSUME NEW m \in stored, viewers[v].after < m, m <= n
            PROVE  \E j \in 1 .. Len(Append(f, n)) : Append(f, n)[j] = m
        <4>1. CASE m <= streams[c].cursor
          <5>1. \E j \in 1 .. Len(f) : f[j] = m
            BY <2>1, <2>2, <3>1, <4>1 DEF ViewerComplete, f
          <5>2. \A j \in 1 .. Len(f) : j \in 1 .. Len(Append(f, n))  BY <1>8
          <5> QED  BY <1>8, <5>1, <5>2
        <4>2. CASE streams[c].cursor < m
          <5>1. PICK j \in 1 .. Len(b) : b[j] = m  BY <1>5, <1>6, <3>1, <4>2
          <5>2. j = 1  BY <1>7, <3>1, <5>1, Integral
          <5>3. Len(f) + 1 \in 1 .. Len(Append(f, n))  BY <1>8
          <5> QED  BY <1>6, <1>8, <5>1, <5>2, <5>3
        <4> QED  BY <4>1, <4>2, Integral
      <3> QED  BY <1>1, <1>2, <2>1, <2>2, <3>1 DEF ViewerComplete
    <2>3. CASE ~(viewers[v].pc = "online" /\ viewers[v].connection = c)
      <3>1. viewers[v].pc = "online" =>
               streams'[viewers[v].connection] = streams[viewers[v].connection]
        BY <1>1, <2>3 DEF StreamInv, Link
      <3> QED  BY <1>2, <2>1, <3>1 DEF ViewerComplete
    <2> QED  BY <2>2, <2>3
  <1> QED  BY <1>2, <1>11, <1>12, <1>13 DEF CompleteInv, WriterAhead

\* The steps that read and send nothing leave nothing out.
LEMMA QuietComplete ==
    ASSUME StreamInv, CompleteInv, UNCHANGED <<nextSequence, held, stored>>,
           \A c \in Connections :
              /\ streams'[c].cursor \in stored \cup {0}
              /\ streams'[c].batch \in {<<>>, streams[c].batch}
              /\ streams'[c].batch # <<>> => streams'[c].cursor = streams[c].cursor
              /\ streams'[c].inFlight \in {<<>>, streams[c].inFlight},
           \A v \in Viewers :
              \/ /\ viewers'[v].after = viewers[v].after /\ viewers'[v].seen = viewers[v].seen
                 /\ viewers'[v].pc = "online" =>
                       \/ viewers'[v].after = streams'[viewers'[v].connection].cursor
                       \/ /\ viewers[v].pc = "online"
                          /\ viewers'[v].connection = viewers[v].connection
                          /\ streams'[viewers[v].connection] = streams[viewers[v].connection]
              \/ viewers'[v].after = 0 /\ viewers'[v].pc # "online"
    PROVE  CompleteInv'
  <1>1. Len(<<>>) = 0  BY EmptySeq
  <1>2. ASSUME NEW c \in Connections PROVE StreamComplete(streams[c])'
    <2>1. StreamComplete(streams[c])  BY DEF CompleteInv
    <2>2. \A i \in 1 .. Len(streams'[c].inFlight) : streams'[c].inFlight[i] \in stored
      BY <1>1, <2>1 DEF StreamComplete
    <2>3. CASE streams'[c].batch = <<>>  BY <1>1, <2>2, <2>3 DEF StreamComplete
    <2>4. CASE streams'[c].batch # <<>>  BY <2>1, <2>2, <2>4 DEF StreamComplete
    <2> QED  BY <2>3, <2>4
  <1>3. ASSUME NEW v \in Viewers PROVE ViewerComplete(v)'
    <2>1. ViewerComplete(v)  BY DEF CompleteInv
    <2>2. CASE viewers'[v].after = 0 /\ viewers'[v].pc # "online"
      BY <2>2, Integral DEF ViewerComplete
    <2>3. CASE viewers'[v].after = viewers[v].after /\ viewers'[v].seen = viewers[v].seen
               /\ viewers'[v].pc # "online"
      BY <2>1, <2>3 DEF ViewerComplete
    <2>4. CASE viewers'[v].after = viewers[v].after /\ viewers'[v].seen = viewers[v].seen
               /\ viewers'[v].after = streams'[viewers'[v].connection].cursor
      <3>1. \A n \in stored : ~(viewers'[v].after < n /\ n <= viewers'[v].after)
        BY <2>4, Integral
      <3> QED  BY <2>1, <2>4, <3>1 DEF ViewerComplete
    <2>5. CASE viewers'[v].after = viewers[v].after /\ viewers'[v].seen = viewers[v].seen
               /\ viewers[v].pc = "online" /\ viewers'[v].connection = viewers[v].connection
               /\ streams'[viewers[v].connection] = streams[viewers[v].connection]
      BY <2>1, <2>5 DEF ViewerComplete
    <2> QED  BY <2>2, <2>3, <2>4, <2>5
  <1> QED  BY <1>2, <1>3 DEF CompleteInv, WriterAhead

\* With one writer every step leaves nothing out.
LEMMA StepCompleteInv ==
    ASSUME OneWriter
    PROVE  StreamInv /\ CompleteInv /\ [Next]_vars => CompleteInv'
  <1> SUFFICES ASSUME StreamInv, CompleteInv, [Next]_vars PROVE CompleteInv'  OBVIOUS
  <1>a. \A c \in Connections : streams[c].cursor \in stored \cup {0}
    BY DEF CompleteInv, StreamComplete
  <1>b. \A v \in Viewers : viewers[v].after \in stored \cup {0}
    BY DEF CompleteInv, ViewerComplete
  <1>1. CASE \E w \in Writers : Reserve(w) \/ Insert(w) \/ Abandon(w)
    BY <1>1, WriterComplete
  <1>2. CASE \E v \in Viewers : LoadPage(v)  BY <1>2, PageComplete
  <1>3. ASSUME NEW v \in Viewers, LoadFails(v) PROVE CompleteInv'
    <2>1. UNCHANGED <<nextSequence, held, stored, streams>>  BY <1>3 DEF LoadFails
    <2>2. /\ viewers'[v].pc = "failed" /\ viewers'[v].after = viewers[v].after
          /\ viewers'[v].seen = viewers[v].seen
          /\ \A u \in Viewers : u # v => viewers'[u] = viewers[u]
      BY <1>3, LoadFailsStep
    <2> QED  BY <1>a, <2>1, <2>2, QuietComplete
  <1>4. CASE \E v \in Viewers : Receive(v)  BY <1>4, ReceiveComplete
  <1>5. ASSUME NEW v \in Viewers, Drop(v) \/ Reload(v) PROVE CompleteInv'
    <2>1. UNCHANGED <<nextSequence, held, stored>>  BY <1>5 DEF Drop, Reload
    <2>2. /\ viewers'[v].pc # "online"
          /\ \A u \in Viewers : u # v => viewers'[u] = viewers[u]
          /\ \A d \in Connections : streams'[d].cursor = streams[d].cursor
                                    /\ streams'[d].batch = streams[d].batch
                                    /\ streams'[d].inFlight \in {<<>>, streams[d].inFlight}
          /\ \A d \in Connections : d # viewers[v].connection => streams'[d] = streams[d]
          /\ Reload(v) => viewers'[v].after = 0
          /\ Drop(v) => viewers'[v].after = viewers[v].after /\ viewers'[v].seen = viewers[v].seen
      BY <1>5, BreakStep
    <2>3. \A u \in Viewers : u # v /\ viewers[u].pc = "online" =>
             streams'[viewers[u].connection] = streams[viewers[u].connection]
      BY <2>2, NoConnectionAssumption DEF StreamInv, Link, LinksApart
    <2> QED  BY <1>a, <1>5, <2>1, <2>2, <2>3, QuietComplete
  <1>6. ASSUME NEW v \in Viewers, NEW c \in Connections, Connect(v, c) PROVE CompleteInv'
    <2>1. UNCHANGED <<nextSequence, held, stored>>  BY <1>6 DEF Connect
    <2>2. /\ streams'[c].cursor = viewers[v].after /\ streams'[c].batch = <<>>
          /\ streams'[c].inFlight = <<>>
          /\ viewers'[v].after = viewers[v].after /\ viewers'[v].seen = viewers[v].seen
          /\ viewers'[v].connection = c
          /\ \A u \in Viewers : u # v => viewers'[u] = viewers[u]
          /\ \A d \in Connections : d # c => streams'[d] = streams[d]
          /\ \A u \in Viewers : u # v => viewers[u].connection # c
      BY <1>6, ConnectStep
    <2>3. \A u \in Viewers : u # v /\ viewers[u].pc = "online" =>
             streams'[viewers[u].connection] = streams[viewers[u].connection]
      BY <2>2 DEF StreamInv, Link
    <2> QED  BY <1>a, <1>b, <2>1, <2>2, <2>3, QuietComplete
  <1>7. CASE \E c \in Connections : Poll(c)  BY <1>7, PollComplete
  <1>8. CASE \E c \in Connections : Send(c)  BY <1>8, SendComplete
  <1>9. ASSUME NEW c \in Connections, CloseStream(c) PROVE CompleteInv'
    <2>1. UNCHANGED <<nextSequence, held, stored, viewers>>  BY <1>9 DEF CloseStream
    <2>2. /\ streams'[c] = FreeStream
          /\ \A d \in Connections : d # c => streams'[d] = streams[d]
          /\ \A v \in Viewers : viewers[v].connection # c
      BY <1>9, CloseStep
    <2>3. \A u \in Viewers : viewers[u].pc = "online" =>
             streams'[viewers[u].connection] = streams[viewers[u].connection]
      BY <2>2 DEF StreamInv, Link
    <2> QED  BY <1>a, <2>1, <2>2, <2>3, FreshEnds, QuietComplete
  <1>10. CASE UNCHANGED vars
    BY <1>10 DEF vars, CompleteInv, WriterAhead, StreamComplete, ViewerComplete
  <1> QED
    BY <1>1, <1>2, <1>3, <1>4, <1>5, <1>6, <1>7, <1>8, <1>9, <1>10 DEF Next

\* While one process writes a session, cursors are those of stored rows and
\* every stored row up to a cursor is seen or on its way.
THEOREM CompleteInvHolds ==
    ASSUME OneWriter
    PROVE  Spec => [](StreamInv /\ CompleteInv)
  <1>1. Init => StreamInv /\ CompleteInv  BY InitStreamInv, InitCompleteInv
  <1>2. StreamInv /\ CompleteInv /\ [Next]_vars => (StreamInv /\ CompleteInv)'
    BY StepStreamInv, StepCompleteInv
  <1> QED  BY <1>1, <1>2, PTL DEF Spec

\* While one process writes a session, a viewer has every stored event up to
\* its cursor.
THEOREM NothingIsSkippedWithOneWriter ==
    ASSUME OneWriter
    PROVE  Spec => []NoEventIsSkipped
  <1>1. CompleteInv => NoEventIsSkipped
    BY DEF CompleteInv, ViewerComplete, NoEventIsSkipped
  <1> QED  BY <1>1, CompleteInvHolds, PTL

\* While one process writes a session, an event committed while a viewer is
\* offline lies beyond the viewer's cursor, where its reconnect starts.
THEOREM OfflineEventsAreReplayedWithOneWriter ==
    ASSUME OneWriter
    PROVE  Spec => OfflineEventsAreReplayed
  <1> DEFINE Replayed == \A v \in Viewers : \A n \in stored' \ stored :
                            viewers[v].pc = "offline" => n > viewers[v].after
  <1>1. StreamInv /\ CompleteInv /\ [Next]_vars => [Replayed]_vars
    <2> SUFFICES ASSUME StreamInv, CompleteInv, [Next]_vars,
                        NEW v \in Viewers, NEW n \in stored' \ stored
                 PROVE  n > viewers[v].after
      OBVIOUS
    <2>1. ASSUME NEW w \in Writers, Reserve(w) \/ Insert(w) \/ Abandon(w)
          PROVE  n > viewers[v].after
      <3>1. \A m \in stored : m < n  BY <2>1, WriterComplete
      <3>2. viewers[v].after \in stored \cup {0}  BY DEF CompleteInv, ViewerComplete
      <3>3. n \in Int /\ n > 0
        <4>1. stored' \subseteq stored \cup held[w]  BY <2>1 DEF Reserve, Insert, Abandon
        <4> QED  BY <4>1, Integral
      <3> QED  BY <3>1, <3>2, <3>3, Integral
    <2>2. CASE ~\E w \in Writers : Reserve(w) \/ Insert(w) \/ Abandon(w)
      <3>1. stored' = stored
        BY <2>2 DEF Next, vars, LoadPage, LoadFails, Receive, Drop, Reload, Connect, Poll, Send,
                    CloseStream
      <3> QED  BY <3>1
    <2> QED  BY <2>1, <2>2
  <1>2. Spec => [][Replayed]_vars
    BY <1>1, CompleteInvHolds, PTL DEF Spec
  <1> QED  BY <1>2 DEF OfflineEventsAreReplayed
=============================================================================

