--------------------------- MODULE ComponentsProofs ---------------------------
(***************************************************************************)
(* Proofs about Components.  The properties of a component follow from its *)
(* inductive invariant, which AnalysisServiceProofs, EvidenceJournalProofs *)
(* and EvidenceComponentsProofs prove, and which the behaviours of the     *)
(* other components leave alone.                                           *)
(***************************************************************************)
EXTENDS Components, EvidenceComponentsProofs

-----------------------------------------------------------------------------
(* A behaviour is of one component.                                        *)

\* The component of a behaviour begins with its own initial state and goes on by
\* its own steps; each lemma says this of one of them.
LEMMA AnalysisRuns ==
    /\ Init /\ component = "analysis" => Analysis!Init
    /\ [Next]_all /\ component' = "analysis" =>
           component = "analysis" /\ [Analysis!Next]_(Analysis!vars)
  <1>1. Init /\ component = "analysis" => Analysis!Init
    BY DEF Init
  <1>2. [Next]_all /\ component' = "analysis" =>
           component = "analysis" /\ [Analysis!Next]_(Analysis!vars)
    BY DEF Next, all, analysing, Analysis!vars
  <1> QED  BY <1>1, <1>2

\* The blob store.
LEMMA BlobsRun ==
    /\ Init /\ component = "blobs" => Blobs!Init
    /\ [Next]_all /\ component' = "blobs" => component = "blobs" /\ [Blobs!Next]_(Blobs!vars)
  <1>1. Init /\ component = "blobs" => Blobs!Init
    BY DEF Init
  <1>2. [Next]_all /\ component' = "blobs" =>
           component = "blobs" /\ [Blobs!Next]_(Blobs!vars)
    BY DEF Next, all, storing, Blobs!vars
  <1> QED  BY <1>1, <1>2

\* The journal.
LEMMA JournalRuns ==
    /\ Init /\ component = "journal" => Journal!Init
    /\ [Next]_all /\ component' = "journal" =>
           component = "journal" /\ [Journal!Next]_(Journal!vars)
  <1>1. Init /\ component = "journal" => Journal!Init
    BY DEF Init
  <1>2. [Next]_all /\ component' = "journal" =>
           component = "journal" /\ [Journal!Next]_(Journal!vars)
    BY DEF Next, all, journaling, Journal!vars
  <1> QED  BY <1>1, <1>2

\* The sessionizer.
LEMMA SessionsRun ==
    /\ Init /\ component = "sessions" => Sessionizing!Init
    /\ [Next]_all /\ component' = "sessions" =>
           component = "sessions" /\ [Sessionizing!Next]_(Sessionizing!vars)
  <1>1. Init /\ component = "sessions" => Sessionizing!Init
    BY DEF Init
  <1>2. [Next]_all /\ component' = "sessions" =>
           component = "sessions" /\ [Sessionizing!Next]_(Sessionizing!vars)
    BY DEF Next, all, sessionizing, Sessionizing!vars
  <1> QED  BY <1>1, <1>2

\* The reconstruction of a chain.
LEMMA ContextRuns ==
    /\ Init /\ component = "context" => Context!Init
    /\ [Next]_all /\ component' = "context" =>
           component = "context" /\ [Context!Next]_(Context!vars)
  <1>1. Init /\ component = "context" => Context!Init
    BY DEF Init
  <1>2. [Next]_all /\ component' = "context" =>
           component = "context" /\ [Context!Next]_(Context!vars)
    BY DEF Next, all, reconstructing, Context!vars
  <1> QED  BY <1>1, <1>2

\* The schema of the database.
LEMMA SchemaRuns ==
    /\ Init /\ component = "schema" => Schema!Init
    /\ [Next]_all /\ component' = "schema" =>
           component = "schema" /\ [Schema!Next]_(Schema!vars)
  <1>1. Init /\ component = "schema" => Schema!Init
    BY DEF Init
  <1>2. [Next]_all /\ component' = "schema" =>
           component = "schema" /\ [Schema!Next]_(Schema!vars)
    BY DEF Next, all, migrating, Schema!vars
  <1> QED  BY <1>1, <1>2

\* Deletion and pruning.
LEMMA RetentionRuns ==
    /\ Init /\ component = "retention" => Retention!Init
    /\ [Next]_all /\ component' = "retention" =>
           component = "retention" /\ [Retention!Next]_(Retention!vars)
  <1>1. Init /\ component = "retention" => Retention!Init
    BY DEF Init
  <1>2. [Next]_all /\ component' = "retention" =>
           component = "retention" /\ [Retention!Next]_(Retention!vars)
    BY DEF Next, all, archiving, Retention!vars
  <1> QED  BY <1>1, <1>2

\* Exporting and importing.
LEMMA TransferRuns ==
    /\ Init /\ component = "transfer" => Transfer!Init
    /\ [Next]_all /\ component' = "transfer" =>
           component = "transfer" /\ [Transfer!Next]_(Transfer!vars)
  <1>1. Init /\ component = "transfer" => Transfer!Init
    BY DEF Init
  <1>2. [Next]_all /\ component' = "transfer" =>
           component = "transfer" /\ [Transfer!Next]_(Transfer!vars)
    BY DEF Next, all, archiving, Transfer!vars
  <1> QED  BY <1>1, <1>2

\* The decoder of event streams.
LEMMA DecodingRuns ==
    /\ Init /\ component = "decoder" => Decoder!Init
    /\ [Next]_all /\ component' = "decoder" =>
           component = "decoder" /\ [Decoder!Next]_(Decoder!vars)
  <1>1. Init /\ component = "decoder" => Decoder!Init
    BY DEF Init
  <1>2. [Next]_all /\ component' = "decoder" =>
           component = "decoder" /\ [Decoder!Next]_(Decoder!vars)
    BY DEF Next, all, decoding, Decoder!vars
  <1> QED  BY <1>1, <1>2

-----------------------------------------------------------------------------
(***************************************************************************)
(* SseDecoder: however a body is cut, what was handed out is what is read  *)
(* of the characters that were taken.  The reading is a recursive          *)
(* function: that there is one comes first, by the least number for which  *)
(* there were none.                                                        *)
(***************************************************************************)

\* Counting from a number in a set that goes on with each of its numbers.
LEMMA CountingUp ==
    ASSUME NEW m \in Nat, NEW n \in Nat, NEW S, m \in S,
           \A k \in m .. n - 1 : k \in S => k + 1 \in S
    PROVE  m .. n \subseteq S
  <1> DEFINE T == {k \in m .. n : k \notin S}
  <1> SUFFICES ASSUME T # {} PROVE FALSE
    OBVIOUS
  <1>1. PICK k \in T : \A l \in T : k <= l
    <2>1. T \in SUBSET (0 .. n)
      OBVIOUS
    <2> HIDE DEF T
    <2> QED  BY <2>1, LeastExists
  <1>2. k \in m .. n /\ k \notin S /\ k # m
    OBVIOUS
  <1>3. k - 1 \in m .. n - 1 /\ k - 1 \notin T
    BY <1>1, <1>2
  <1>4. k - 1 \in S
    BY <1>2, <1>3
  <1>5. (k - 1) + 1 \in S
    BY <1>3, <1>4
  <1> QED  BY <1>2, <1>5

\* Nothing was read yet.
Start == [line |-> 0, open |-> <<>>, all |-> <<>>]

\* f is the reading of the first n characters.
Reads(f, text, n) ==
    f = [k \in 0 .. n |-> IF k = 0 THEN Start ELSE Decoder!ReadNext(text, k, f[k - 1])]

\* There is a reading of any number of characters.
LEMMA ReadingExists ==
    ASSUME NEW text, NEW n \in Nat PROVE \E f : Reads(f, text, n)
  <1> DEFINE S == {k \in 0 .. n : \E f : Reads(f, text, k)}
  <1>1. 0 \in S
    <2>1. Reads([k \in 0 .. 0 |-> Start], text, 0)
      BY DEF Reads
    <2> QED  BY <2>1
  <1>2. ASSUME NEW k \in 0 .. n - 1, k \in S PROVE k + 1 \in S
    <2>1. PICK f : Reads(f, text, k)
      BY <1>2
    <2> DEFINE next == Decoder!ReadNext(text, k + 1, f[k])
               g == [j \in 0 .. k + 1 |-> IF j = k + 1 THEN next ELSE f[j]]
    <2>2. \A j \in 0 .. k : f[j] = IF j = 0 THEN Start ELSE Decoder!ReadNext(text, j, f[j - 1])
      BY <2>1 DEF Reads
    <2>3. \A j \in 0 .. k + 1 :
              g[j] = IF j = 0 THEN Start ELSE Decoder!ReadNext(text, j, g[j - 1])
      <3> SUFFICES ASSUME NEW j \in 0 .. k + 1
                   PROVE  g[j] = IF j = 0 THEN Start ELSE Decoder!ReadNext(text, j, g[j - 1])
        OBVIOUS
      <3> HIDE DEF next
      <3>1. CASE j = k + 1
        <4>1. j # 0 /\ j - 1 = k /\ g[j] = next /\ g[j - 1] = f[k]
          BY <3>1
        <4> QED  BY <3>1, <4>1 DEF next
      <3>2. CASE j # k + 1
        <4>1. j \in 0 .. k /\ g[j] = f[j] /\ (j # 0 => g[j - 1] = f[j - 1])
          BY <3>2
        <4> QED  BY <2>2, <4>1
      <3> QED  BY <3>1, <3>2
    <2>4. Reads(g, text, k + 1)
      <3> HIDE DEF next
      <3>1. g = [j \in 0 .. k + 1 |-> g[j]]
        OBVIOUS
      <3> HIDE DEF g
      <3> QED  BY <2>3, <3>1 DEF Reads
    <2> HIDE DEF g
    <2> QED  BY <2>4
  <1>3. 0 .. n \subseteq S
    <2> HIDE DEF S
    <2> QED  BY <1>1, <1>2, CountingUp
  <1>4. n \in S
    BY <1>3
  <1> QED  BY <1>4

\* What is read grows by one character after the other.
LEMMA ReadingSteps ==
    ASSUME NEW text, Len(text) \in Nat
    PROVE  /\ Decoder!Reading(text)[0] = Start
           /\ \A n \in 1 .. Len(text) :
                  Decoder!Reading(text)[n]
                      = Decoder!ReadNext(text, n, Decoder!Reading(text)[n - 1])
  <1>1. \E f : Reads(f, text, Len(text))
    BY ReadingExists
  <1>2. Reads(Decoder!Reading(text), text, Len(text))
    BY <1>1 DEF Reads, Decoder!Reading, Start
  <1> HIDE DEF Decoder!Reading
  <1>3. \A k \in 0 .. Len(text) : Decoder!Reading(text)[k]
            = IF k = 0 THEN Start ELSE Decoder!ReadNext(text, k, Decoder!Reading(text)[k - 1])
    BY <1>2 DEF Reads
  <1> QED  BY <1>3

\* The characters of a body.
Chars == Decoder!Characters

\* What is read of a body has the types of what the decoder keeps.
IsReading(r) ==
    /\ DOMAIN r = {"line", "open", "all"}
    /\ r.line \in Nat /\ r.open \in Seq(Nat) /\ r.all \in Seq(Seq(Nat))

\* The end of a line leaves a reading.
LEMMA EndedIsReading ==
    ASSUME NEW r, IsReading(r) PROVE IsReading(Decoder!Ended(r))
  <1>1. CASE r.line > 0
    <2>1. Append(r.open, r.line) \in Seq(Nat)
      BY AppendProperties DEF IsReading
    <2> QED  BY <1>1, <2>1 DEF IsReading, Decoder!Ended
  <1>2. CASE r.line = 0 /\ r.open # <<>>
    <2>1. Append(r.all, r.open) \in Seq(Seq(Nat)) /\ <<>> \in Seq(Nat)
      BY AppendProperties, EmptySeq DEF IsReading
    <2>2. Decoder!Ended(r) = [r EXCEPT !.open = <<>>, !.all = Append(r.all, r.open)]
      BY <1>2 DEF Decoder!Ended, IsReading
    <2> QED  BY <2>1, <2>2 DEF IsReading
  <1>3. CASE r.line = 0 /\ r.open = <<>>
    <2>1. Decoder!Ended(r) = r
      BY <1>3 DEF Decoder!Ended
    <2> QED  BY <2>1
  <1> QED  BY <1>1, <1>2, <1>3 DEF IsReading

\* One character more leaves a reading.
LEMMA NextIsReading ==
    ASSUME NEW text, NEW n, NEW r, IsReading(r) PROVE IsReading(Decoder!ReadNext(text, n, r))
  <1>1. CASE text[n] = "x"
    <2>1. Decoder!ReadNext(text, n, r) = [r EXCEPT !.line = r.line + 1]
      BY <1>1 DEF Decoder!ReadNext
    <2> QED  BY <2>1 DEF IsReading
  <1>2. CASE text[n] # "x"
    <2>1. Decoder!ReadNext(text, n, r) \in {r, Decoder!Ended(r)}
      BY <1>2 DEF Decoder!ReadNext
    <2> QED  BY <2>1, EndedIsReading
  <1> QED  BY <1>1, <1>2

\* What is read of any beginning of a body is a reading.
LEMMA ReadingIsReading ==
    ASSUME NEW text, Len(text) \in Nat, NEW n \in 0 .. Len(text)
    PROVE  IsReading(Decoder!Reading(text)[n])
  <1> DEFINE S == {k \in 0 .. Len(text) : IsReading(Decoder!Reading(text)[k])}
  <1>1. 0 \in S
    <2>1. <<>> \in Seq(Nat) /\ <<>> \in Seq(Seq(Nat))
      BY EmptySeq
    <2>2. IsReading(Start)
      BY <2>1 DEF IsReading, Start
    <2>3. Decoder!Reading(text)[0] = Start
      BY ReadingSteps
    <2> QED  BY <2>2, <2>3
  <1>2. ASSUME NEW k \in 0 .. Len(text) - 1, k \in S PROVE k + 1 \in S
    <2>1. k + 1 \in 1 .. Len(text) /\ (k + 1) - 1 = k
      OBVIOUS
    <2>2. Decoder!Reading(text)[k + 1]
              = Decoder!ReadNext(text, k + 1, Decoder!Reading(text)[k])
      BY <2>1, ReadingSteps
    <2> QED  BY <1>2, <2>1, <2>2, NextIsReading
  <1> HIDE DEF S
  <1>3. 0 .. Len(text) \subseteq S
    BY <1>1, <1>2, CountingUp
  <1> QED  BY <1>3 DEF S

\* What is read of the beginning is the same, whatever follows.
LEMMA ReadingAgrees ==
    ASSUME NEW text, NEW other, Len(text) \in Nat, Len(other) \in Nat,
           NEW n \in 0 .. Len(text), n <= Len(other), \A k \in 1 .. n : text[k] = other[k]
    PROVE  Decoder!Reading(text)[n] = Decoder!Reading(other)[n]
  <1> DEFINE S == {k \in 0 .. n : Decoder!Reading(text)[k] = Decoder!Reading(other)[k]}
  <1>1. 0 \in S
    BY ReadingSteps
  <1>2. ASSUME NEW k \in 0 .. n - 1, k \in S PROVE k + 1 \in S
    <2>1. /\ k + 1 \in 1 .. Len(text) /\ k + 1 \in 1 .. Len(other) /\ (k + 1) - 1 = k
          /\ k + 1 \in 1 .. n /\ (k + 1 > 1 => k \in 1 .. n)
      OBVIOUS
    <2>2. Decoder!ReadNext(text, k + 1, Decoder!Reading(text)[k])
              = Decoder!ReadNext(other, k + 1, Decoder!Reading(text)[k])
      <3>1. text[k + 1] = other[k + 1] /\ (k + 1 > 1 => text[k] = other[k])
        BY <2>1
      <3> QED  BY <2>1, <3>1 DEF Decoder!ReadNext
    <2> QED  BY <1>2, <2>1, <2>2, ReadingSteps
  <1>3. n \in Nat
    OBVIOUS
  <1> HIDE DEF S
  <1>4. 0 .. n \subseteq S
    BY <1>1, <1>2, <1>3, CountingUp
  <1> QED  BY <1>3, <1>4 DEF S

\* The frames that were read stay.
Begins(some, more) ==
    Len(some) <= Len(more) /\ \A i \in 1 .. Len(some) : some[i] = more[i]

\* The frames that are read of a beginning of a body begin those of the body.
LEMMA ReadingGrows ==
    ASSUME NEW text, Len(text) \in Nat, NEW m \in 0 .. Len(text), NEW n \in m .. Len(text)
    PROVE  Begins(Decoder!Reading(text)[m].all, Decoder!Reading(text)[n].all)
  <1> DEFINE R == Decoder!Reading(text)
             S == {k \in m .. n : Begins(R[m].all, R[k].all)}
  <1>1. m \in S
    <2>1. Len(R[m].all) \in Nat
      BY ReadingIsReading, LenProperties DEF IsReading
    <2> QED  BY <2>1 DEF Begins
  <1>2. ASSUME NEW k \in m .. n - 1, k \in S PROVE k + 1 \in S
    <2>1. /\ k + 1 \in 1 .. Len(text) /\ (k + 1) - 1 = k
          /\ k + 1 \in m .. n /\ k \in 0 .. Len(text)
      OBVIOUS
    <2>2. IsReading(R[k]) /\ R[k + 1] = Decoder!ReadNext(text, k + 1, R[k]) /\ IsReading(R[m])
      BY <2>1, ReadingSteps, ReadingIsReading
    <2>3. PICK r : r = R[k]
      OBVIOUS
    <2>4. PICK a : a = R[m].all
      OBVIOUS
    <2>5. /\ a \in Seq(Seq(Nat)) /\ Begins(a, r.all) /\ IsReading(r)
          /\ R[k + 1] = Decoder!ReadNext(text, k + 1, r)
      BY <1>2, <2>2, <2>3, <2>4 DEF IsReading
    <2>6. \/ R[k + 1].all = r.all
          \/ R[k + 1].all = Append(r.all, r.open)
      <3> HIDE DEF R
      <3> QED  BY <2>5 DEF Decoder!ReadNext, Decoder!Ended, IsReading
    <2>7. Begins(a, Append(r.all, r.open))
      <3>1. /\ Len(Append(r.all, r.open)) = Len(r.all) + 1
            /\ Len(r.all) \in Nat /\ Len(a) \in Nat
            /\ \A i \in 1 .. Len(r.all) : Append(r.all, r.open)[i] = r.all[i]
        BY <2>5, AppendProperties, LenProperties DEF IsReading
      <3>2. Len(a) <= Len(r.all) /\ \A i \in 1 .. Len(a) : a[i] = r.all[i]
        BY <2>5 DEF Begins
      <3>3. ASSUME NEW i \in 1 .. Len(a) PROVE a[i] = Append(r.all, r.open)[i]
        <4>1. i \in 1 .. Len(r.all)
          BY <3>1, <3>2
        <4> QED  BY <3>1, <3>2, <4>1
      <3>4. Len(a) <= Len(Append(r.all, r.open))
        BY <3>1, <3>2
      <3> QED  BY <3>3, <3>4 DEF Begins
    <2>8. Begins(a, R[k + 1].all)
      BY <2>5, <2>6, <2>7
    <2> QED  BY <2>1, <2>4, <2>8
  <1>3. m \in Nat /\ n \in Nat /\ n \in m .. n
    OBVIOUS
  <1> HIDE DEF S, R
  <1>4. m .. n \subseteq S
    BY <1>1, <1>2, <1>3, CountingUp
  <1> QED  BY <1>3, <1>4 DEF S, R

\* A run of characters of a line.
LEMMA LineIsRead ==
    ASSUME NEW text, Len(text) \in Nat, NEW k \in 0 .. Len(text), NEW n \in k .. Len(text),
           \A j \in k + 1 .. n : text[j] = "x"
    PROVE  LET from == Decoder!Reading(text)[k]  to == Decoder!Reading(text)[n] IN
           to.line = from.line + (n - k) /\ to.open = from.open /\ to.all = from.all
  <1> DEFINE R == Decoder!Reading(text)
             S == {j \in k .. n : /\ R[j].line = R[k].line + (j - k)
                                  /\ R[j].open = R[k].open /\ R[j].all = R[k].all}
  <1>1. R[k].line \in Nat
    BY ReadingIsReading DEF IsReading
  <1>2. k \in S
    BY <1>1
  <1>3. ASSUME NEW j \in k .. n - 1, j \in S PROVE j + 1 \in S
    <2>1. /\ j + 1 \in 1 .. Len(text) /\ (j + 1) - 1 = j /\ j + 1 \in k + 1 .. n
          /\ j + 1 \in k .. n /\ j \in 0 .. Len(text)
      OBVIOUS
    <2>2. R[j + 1] = [R[j] EXCEPT !.line = R[j].line + 1] /\ IsReading(R[j])
      BY <2>1, ReadingSteps, ReadingIsReading DEF Decoder!ReadNext
    <2>3. /\ R[j + 1].line = R[j].line + 1
          /\ R[j + 1].open = R[j].open /\ R[j + 1].all = R[j].all
      BY <2>2 DEF IsReading
    <2>4. R[j].line + 1 = R[k].line + ((j + 1) - k)
      <3>1. R[j].line = R[k].line + (j - k) /\ j \in Nat /\ k \in Nat
        BY <1>3
      <3> HIDE DEF R
      <3> QED  BY <1>1, <3>1
    <2> QED  BY <1>3, <2>1, <2>3, <2>4
  <1>4. n \in Nat /\ k \in Nat /\ n \in k .. n
    OBVIOUS
  <1> HIDE DEF S, R
  <1>5. k .. n \subseteq S
    BY <1>2, <1>3, <1>4, CountingUp
  <1> QED  BY <1>4, <1>5 DEF S, R

\* What is left of a text without its first k characters.
IsRest(left, text, k) ==
    /\ Len(left) + k = Len(text)
    /\ \A i \in 1 .. Len(left) : left[i] = text[k + i]

\* The decoder has taken the first k characters, and what it has made of them is what
\* is read of them; of a line end it has taken all or nothing.
TakenOf(text, k) ==
    /\ IsRest(textBuffer, text, k)
    /\ LET r == Decoder!Reading(text)[k] IN
       /\ dispatched = r.all
       /\ \/ r.line = 0 /\ frameLines = r.open
          \/ /\ phase \in {"flushing", "finished"} /\ textBuffer = <<>>
             /\ r.line > 0 /\ frameLines = Append(r.open, r.line)
    /\ k > 0 /\ text[k] = "CR" =>
          IF textBuffer = <<>> THEN phase \in {"flushing", "finished"} ELSE textBuffer[1] # "LF"
    /\ phase = "finished" => textBuffer = <<>>

\* What was handed out is what is read of the characters that were taken, and so is what is
\* kept open, unless the decoder failed.
DecoderInv ==
    /\ arrived \in Seq(Chars) /\ textBuffer \in Seq(Chars)
    /\ \E k \in 0 .. Len(arrived) :
          /\ dispatched = Decoder!Reading(arrived)[k].all
          /\ phase # "failed" => TakenOf(arrived, k)

\* Nothing was taken at first.
LEMMA InitDecoder == Decoder!Init => DecoderInv
  <1> SUFFICES ASSUME Decoder!Init PROVE DecoderInv
    OBVIOUS
  <1>1. <<>> \in Seq(Chars) /\ Len(<<>>) = 0
    BY EmptySeq
  <1>2. Decoder!Reading(arrived)[0] = Start
    BY <1>1, ReadingSteps DEF Decoder!Init
  <1>3. TakenOf(arrived, 0)
    BY <1>1, <1>2 DEF Decoder!Init, TakenOf, IsRest, Start
  <1> QED  BY <1>1, <1>2, <1>3 DEF Decoder!Init, DecoderInv, Start

\* A text that goes on goes on in what is left of it.
LEMMA JoinedBegins ==
    ASSUME NEW t \in Seq(Chars), NEW c \in Seq(Chars)
    PROVE  t \o c \in Seq(Chars) /\ Len(t) \in Nat /\ Len(t \o c) \in Nat /\ Begins(t, t \o c)
  <1>1. Len(t) \in Nat /\ Len(c) \in Nat
    BY LenProperties
  <1>2. /\ t \o c \in Seq(Chars) /\ Len(t \o c) = Len(t) + Len(c)
        /\ \A i \in 1 .. Len(t) + Len(c) :
               (t \o c)[i] = IF i <= Len(t) THEN t[i] ELSE c[i - Len(t)]
    BY ConcatProperties
  <1> DEFINE tc == t \o c
  <1> HIDE DEF tc
  <1>3. PICK lt \in Nat, lc \in Nat : lt = Len(t) /\ lc = Len(c)
    BY <1>1
  <1>4. /\ Len(tc) = lt + lc
        /\ \A i \in 1 .. lt + lc : tc[i] = IF i <= lt THEN t[i] ELSE c[i - lt]
    BY <1>2, <1>3 DEF tc
  <1>5. \A i \in 1 .. lt : tc[i] = t[i]
    BY <1>4
  <1> QED  BY <1>2, <1>3, <1>4, <1>5 DEF tc, Begins

\* What arrives joins what is left.
LEMMA JoinedIsRest ==
    ASSUME NEW t \in Seq(Chars), NEW b \in Seq(Chars), NEW c \in Seq(Chars), NEW k \in Nat,
           IsRest(b, t, k)
    PROVE  IsRest(b \o c, t \o c, k)
  <1> DEFINE tc == t \o c
             bc == b \o c
  <1>1. PICK lt \in Nat, lb \in Nat, lc \in Nat : lt = Len(t) /\ lb = Len(b) /\ lc = Len(c)
    BY LenProperties
  <1>2. /\ Len(tc) = lt + lc
        /\ \A i \in 1 .. lt + lc : tc[i] = IF i <= lt THEN t[i] ELSE c[i - lt]
    BY <1>1, ConcatProperties
  <1>3. /\ Len(bc) = lb + lc
        /\ \A i \in 1 .. lb + lc : bc[i] = IF i <= lb THEN b[i] ELSE c[i - lb]
    BY <1>1, ConcatProperties
  <1>4. lb + k = lt /\ \A i \in 1 .. lb : b[i] = t[k + i]
    BY <1>1 DEF IsRest
  <1> HIDE DEF tc, bc
  <1>5. ASSUME NEW i \in 1 .. lb + lc PROVE bc[i] = tc[k + i]
    <2>1. CASE i <= lb
      <3>1. i \in 1 .. lb /\ k + i <= lt /\ k + i \in 1 .. lt + lc
        BY <1>4, <2>1
      <3>2. bc[i] = b[i] /\ tc[k + i] = t[k + i]
        BY <1>2, <1>3, <2>1, <3>1
      <3> QED  BY <1>4, <3>1, <3>2
    <2>2. CASE i > lb
      <3>1. ~(k + i <= lt) /\ k + i \in 1 .. lt + lc /\ (k + i) - lt = i - lb /\ ~(i <= lb)
        BY <1>4, <2>2
      <3>2. bc[i] = c[i - lb] /\ tc[k + i] = c[(k + i) - lt]
        BY <1>2, <1>3, <3>1
      <3> QED  BY <3>1, <3>2
    <2> QED  BY <1>4, <2>1, <2>2
  <1>6. (lb + lc) + k = lt + lc
    BY <1>4
  <1> QED  BY <1>2, <1>3, <1>5, <1>6 DEF tc, bc, IsRest

\* What arrives comes after what was taken.
LEMMA PushKeepsDecoder == DecoderInv /\ Decoder!Push => DecoderInv'
  <1> SUFFICES ASSUME DecoderInv, Decoder!Push PROVE DecoderInv'
    OBVIOUS
  <1>1. PICK c \in Seq(Chars) : arrived' = arrived \o c /\ textBuffer' = textBuffer \o c
    <2>1. PICK c \in Decoder!Chunks : arrived' = arrived \o c /\ textBuffer' = textBuffer \o c
      BY DEF Decoder!Push
    <2>2. PICK n \in 1 .. MaxText : c \in [1 .. n -> Chars]
      BY <2>1 DEF Decoder!Chunks, Chars
    <2>3. c \in Seq(Chars)
      BY <2>2
    <2> QED  BY <2>1, <2>3
  <1>2. PICK k \in 0 .. Len(arrived) : TakenOf(arrived, k)
    BY DEF DecoderInv, Decoder!Push
  <1>3. /\ phase = "idle" /\ phase' = "draining"
        /\ frameLines' = frameLines /\ dispatched' = dispatched
    BY DEF Decoder!Push
  <1>4. PICK t \in Seq(Chars), b \in Seq(Chars) : t = arrived /\ b = textBuffer
    BY DEF DecoderInv
  <1>5. /\ k \in 0 .. Len(t) /\ IsRest(b, t, k)
        /\ k > 0 /\ t[k] = "CR" => b # <<>> /\ b[1] # "LF"
    BY <1>2, <1>3, <1>4 DEF TakenOf
  <1>6. PICK tc, bc : tc = t \o c /\ bc = b \o c
    OBVIOUS
  <1>7. /\ tc \in Seq(Chars) /\ Len(t) \in Nat /\ Len(tc) \in Nat /\ Begins(t, tc)
        /\ bc \in Seq(Chars) /\ Len(b) \in Nat /\ Len(bc) \in Nat /\ Begins(b, bc)
    BY <1>6, JoinedBegins
  <1>8. k \in Nat /\ IsRest(bc, tc, k)
    <2>1. k \in Nat
      BY <1>5, <1>7
    <2> QED  BY <1>5, <1>6, <2>1, JoinedIsRest
  <1>9. k \in 0 .. Len(tc) /\ Decoder!Reading(tc)[k] = Decoder!Reading(t)[k]
    <2>1. k \in 0 .. Len(tc) /\ \A i \in 1 .. k : t[i] = tc[i]
      BY <1>5, <1>7 DEF Begins
    <2> QED  BY <1>5, <1>7, <2>1, ReadingAgrees
  <1>10. k > 0 /\ tc[k] = "CR" => bc # <<>> /\ bc[1] # "LF"
    <2> SUFFICES ASSUME k > 0, tc[k] = "CR" PROVE bc # <<>> /\ bc[1] # "LF"
      OBVIOUS
    <2>1. tc[k] = t[k]
      BY <1>5, <1>7, <1>8 DEF Begins
    <2>2. Len(b) > 0
      BY <1>5, <1>7, <2>1, EmptySeq
    <2>3. bc[1] = b[1] /\ Len(bc) > 0
      BY <1>7, <2>2 DEF Begins
    <2> QED  BY <1>5, <2>1, <2>3, EmptySeq
  <1>11. TakenOf(arrived, k)'
    BY <1>2, <1>3, <1>4, <1>1, <1>6, <1>8, <1>9, <1>10 DEF TakenOf
  <1> QED  BY <1>1, <1>2, <1>3, <1>4, <1>6, <1>7, <1>9, <1>11 DEF DecoderInv, TakenOf

\* Before the first line end is a line.
LEMMA FirstEnd ==
    ASSUME NEW b \in Seq(Chars), Decoder!LineEnds(b) # {}, NEW i, i = Decoder!FirstLineEnd(b)
    PROVE  i \in 1 .. Len(b) /\ b[i] # "x" /\ \A j \in 1 .. i - 1 : b[j] = "x"
  <1>1. Len(b) \in Nat /\ DOMAIN b = 1 .. Len(b)
    BY LenProperties
  <1>2. Decoder!LineEnds(b) \in SUBSET (0 .. Len(b))
    BY <1>1 DEF Decoder!LineEnds
  <1>3. \E k \in Decoder!LineEnds(b) : \A l \in Decoder!LineEnds(b) : k <= l
    BY <1>1, <1>2, LeastExists
  <1>4. i \in Decoder!LineEnds(b) /\ \A l \in Decoder!LineEnds(b) : i <= l
    BY <1>3 DEF Decoder!FirstLineEnd
  <1>5. i \in 1 .. Len(b) /\ b[i] # "x"
    BY <1>1, <1>4 DEF Decoder!LineEnds
  <1>6. ASSUME NEW j \in 1 .. i - 1 PROVE b[j] = "x"
    <2>1. j \in 1 .. Len(b) /\ ~(i <= j)
      BY <1>1, <1>5
    <2>2. j \notin Decoder!LineEnds(b)
      BY <1>4, <2>1
    <2> QED  BY <1>1, <2>1, <2>2 DEF Decoder!LineEnds
  <1> QED  BY <1>5, <1>6

\* What is read up to the first line end of the rest is a line, and then its end.
LEMMA EndIsRead ==
    ASSUME NEW t \in Seq(Chars), NEW b \in Seq(Chars), NEW k \in 0 .. Len(t), IsRest(b, t, k),
           NEW i \in 1 .. Len(b), b[i] # "x", \A j \in 1 .. i - 1 : b[j] = "x",
           Decoder!Reading(t)[k].line = 0,
           k > 0 /\ t[k] = "CR" => b[1] # "LF"
    PROVE  LET from == Decoder!Reading(t)[k]  line == Decoder!Reading(t)[k + (i - 1)] IN
           /\ line.line = i - 1 /\ line.open = from.open /\ line.all = from.all
           /\ Decoder!Reading(t)[k + i] = Decoder!Ended(line)
  <1> DEFINE R == Decoder!Reading(t)
             n == k + (i - 1)
  <1>1. Len(t) \in Nat /\ Len(b) \in Nat /\ k \in Nat /\ Len(b) + k = Len(t)
    BY LenProperties DEF IsRest
  <1>2. \A j \in 1 .. Len(b) : t[k + j] = b[j]
    BY DEF IsRest
  <1>3. n \in k .. Len(t) /\ n + 1 \in 1 .. Len(t) /\ n + 1 = k + i /\ (n + 1) - 1 = n
    BY <1>1
  <1>4. ASSUME NEW j \in k + 1 .. n PROVE t[j] = "x"
    <2>1. j - k \in 1 .. i - 1 /\ j - k \in 1 .. Len(b) /\ k + (j - k) = j
      BY <1>1
    <2> QED  BY <1>2, <2>1
  <1>5. R[n].line = R[k].line + (n - k) /\ R[n].open = R[k].open /\ R[n].all = R[k].all
    <2> HIDE DEF n
    <2> QED  BY <1>1, <1>3, <1>4, LineIsRead
  <1>6. n - k = i - 1 /\ R[n].line = i - 1
    BY <1>1, <1>5
  <1>7. t[n + 1] = b[i]
    BY <1>2, <1>3
  <1>8. ~(t[n + 1] = "LF" /\ n + 1 > 1 /\ t[n] = "CR")
    <2>1. CASE i = 1
      <3>1. n = k /\ (n + 1 > 1 => k > 0)
        BY <1>1, <2>1
      <3> QED  BY <1>7, <2>1, <3>1
    <2>2. CASE i # 1
      <3>1. n \in k + 1 .. n
        BY <1>1, <2>2
      <3>2. t[n] = "x"
        BY <1>4, <3>1
      <3> QED  BY <3>2
    <2> QED  BY <2>1, <2>2
  <1>9. R[n + 1] = Decoder!ReadNext(t, n + 1, R[n])
    BY <1>1, <1>3, ReadingSteps
  <1>10. R[n + 1] = Decoder!Ended(R[n])
    <2> HIDE DEF R, n
    <2> QED  BY <1>3, <1>7, <1>8, <1>9 DEF Decoder!ReadNext
  <1> QED  BY <1>3, <1>5, <1>6, <1>10

\* What is left after the line that ends at the ith of the characters left.
AfterLine(b, i, t, k) ==
    LET from == i + Decoder!LineEndLength(b, i)
        next == k + (from - 1)
        rest == SubSeq(b, from, Len(b))
    IN  /\ next \in 0 .. Len(t) /\ rest \in Seq(Chars) /\ IsRest(rest, t, next)
        /\ next > 0 /\ t[next] = "CR" =>
              IF rest = <<>> THEN i = Len(b) /\ b[i] = "CR" ELSE rest[1] # "LF"
        /\ Decoder!Reading(t)[next] = Decoder!Reading(t)[k + i]

\* A line is taken with all of its end.
LEMMA RestAfterLine ==
    ASSUME NEW t \in Seq(Chars), NEW b \in Seq(Chars), NEW k \in 0 .. Len(t), IsRest(b, t, k),
           NEW i \in 1 .. Len(b)
    PROVE  AfterLine(b, i, t, k)
  <1>0. PICK from : from = i + Decoder!LineEndLength(b, i)
    OBVIOUS
  <1> DEFINE next == k + (from - 1)
             rest == SubSeq(b, from, Len(b))
  <1>1. PICK lt \in Nat, lb \in Nat : lt = Len(t) /\ lb = Len(b) /\ lb + k = lt /\ k \in Nat
    BY LenProperties DEF IsRest
  <1>2. \A j \in 1 .. lb : t[k + j] = b[j]
    BY <1>1 DEF IsRest
  <1>3. /\ from \in {i + 1, i + 2}
        /\ from = i + 2 => b[i] = "CR" /\ i < lb /\ b[i + 1] = "LF"
        /\ from = i + 1 => ~(b[i] = "CR" /\ i < lb /\ b[i + 1] = "LF")
    BY <1>0, <1>1 DEF Decoder!LineEndLength
  <1>4. from \in 1 .. lb + 1 /\ i \in 1 .. lb
    BY <1>1, <1>3
  <1>5. /\ rest \in Seq(Chars) /\ Len(rest) = lb - (from - 1)
        /\ \A j \in 1 .. lb - (from - 1) : rest[j] = b[(from - 1) + j]
    <2>1. \A j \in from .. lb : b[j] \in Chars
      BY <1>1, <1>4, ElementOfSeq
    <2>2. /\ rest \in Seq(Chars) /\ Len(rest) = IF from <= lb THEN lb - from + 1 ELSE 0
          /\ \A j \in 1 .. lb - from + 1 : rest[j] = b[from + j - 1]
      BY <1>1, <1>4, <2>1, SubSeqProperties
    <2> HIDE DEF rest
    <2>3. lb - from + 1 = lb - (from - 1) /\ (~(from <= lb) => lb - (from - 1) = 0)
      BY <1>4
    <2>4. \A j \in 1 .. lb : from + j - 1 = (from - 1) + j
      BY <1>4
    <2>5. 1 .. lb - (from - 1) \subseteq 1 .. lb
      BY <1>4
    <2> QED  BY <2>2, <2>3, <2>4, <2>5
  <1> HIDE DEF rest
  <1>6. next \in 0 .. lt /\ (lb - (from - 1)) + next = lt /\ next > 0
    BY <1>1, <1>4, <1>3
  <1>7. ASSUME NEW j \in 1 .. lb - (from - 1) PROVE rest[j] = t[next + j]
    <2>1. (from - 1) + j \in 1 .. lb /\ k + ((from - 1) + j) = next + j
      BY <1>1, <1>4
    <2>2. t[k + ((from - 1) + j)] = b[(from - 1) + j]
      BY <1>2, <2>1
    <2> QED  BY <1>5, <2>1, <2>2
  <1>8. IsRest(rest, t, next)
    <2> HIDE DEF next
    <2> QED  BY <1>1, <1>5, <1>6, <1>7 DEF IsRest
  <1>9. t[next] = b[from - 1]
    <2>1. from - 1 \in 1 .. lb
      BY <1>3, <1>4
    <2> QED  BY <1>2, <2>1
  <1>10. t[next] = "CR" => IF rest = <<>> THEN i = Len(b) /\ b[i] = "CR" ELSE rest[1] # "LF"
    <2> SUFFICES ASSUME t[next] = "CR"
                 PROVE  IF rest = <<>> THEN i = Len(b) /\ b[i] = "CR" ELSE rest[1] # "LF"
      OBVIOUS
    <2>1. CASE from = i + 2
      <3>1. from - 1 = i + 1
        BY <1>4, <2>1
      <3> QED  BY <1>3, <1>9, <2>1, <3>1
    <2>2. CASE from = i + 1
      <3>1. from - 1 = i
        BY <1>4, <2>2
      <3>2. b[i] = "CR"
        BY <1>9, <3>1
      <3>3. CASE rest = <<>>
        <4>1. lb - i = 0
          BY <1>5, <3>1, <3>3, EmptySeq
        <4> QED  BY <1>1, <1>4, <3>2, <3>3, <4>1
      <3>4. CASE rest # <<>>
        <4>1. lb - i > 0
          <5>1. Len(rest) # 0
            BY <1>5, <3>4, EmptySeq
          <5> QED  BY <1>4, <1>5, <3>1, <5>1
        <4>2. 1 \in 1 .. lb - (from - 1) /\ i < lb
          BY <1>4, <3>1, <4>1
        <4>3. rest[1] = b[i + 1]
          BY <1>5, <3>1, <4>2
        <4> QED  BY <1>3, <2>2, <3>2, <3>4, <4>2, <4>3
      <3> QED  BY <3>3, <3>4
    <2> QED  BY <1>3, <2>1, <2>2
  <1>11. Decoder!Reading(t)[next] = Decoder!Reading(t)[k + i]
    <2>1. CASE from = i + 2
      <3>1. next = (k + i) + 1 /\ next \in 1 .. Len(t) /\ next - 1 = k + i /\ next > 1
        <4>1. from - 1 = i + 1 /\ k + (i + 1) = (k + i) + 1 /\ k + i \in Nat /\ k + i > 0
          BY <1>1, <1>4, <2>1
        <4>2. next \in 1 .. Len(t)
          BY <1>1, <1>6
        <4> QED  BY <4>1, <4>2
      <3>2. t[next] = "LF" /\ t[k + i] = "CR"
        <4>1. from - 1 = i + 1
          BY <1>4, <2>1
        <4> QED  BY <1>2, <1>3, <1>4, <1>9, <2>1, <4>1
      <3>3. Len(t) \in Nat
        BY <1>1
      <3> HIDE DEF next
      <3>4. Decoder!Reading(t)[next] = Decoder!ReadNext(t, next, Decoder!Reading(t)[k + i])
        BY <3>1, <3>3, ReadingSteps
      <3> QED  BY <3>1, <3>2, <3>4 DEF Decoder!ReadNext
    <2>2. CASE from = i + 1
      <3>1. next = k + i
        BY <1>4, <2>2
      <3> QED  BY <3>1
    <2> QED  BY <1>3, <2>1, <2>2
  <1>12. /\ next \in 0 .. Len(t) /\ rest \in Seq(Chars) /\ IsRest(rest, t, next)
         /\ next > 0 /\ t[next] = "CR" =>
               IF rest = <<>> THEN i = Len(b) /\ b[i] = "CR" ELSE rest[1] # "LF"
         /\ Decoder!Reading(t)[next] = Decoder!Reading(t)[k + i]
    BY <1>1, <1>5, <1>6, <1>8, <1>10, <1>11
  <1> QED  BY <1>0, <1>12, Zenon DEF AfterLine, rest

\* A line that was taken is in the open frame, or it ended that frame.
LEMMA LineKeepsDecoder == DecoderInv /\ Decoder!DrainLine => DecoderInv'
  <1> SUFFICES ASSUME DecoderInv, Decoder!DrainLine PROVE DecoderInv'
    OBVIOUS
  <1>1. PICK k \in 0 .. Len(arrived) : TakenOf(arrived, k)
    BY DEF DecoderInv, Decoder!DrainLine
  <1>2. PICK t \in Seq(Chars), b \in Seq(Chars) : t = arrived /\ b = textBuffer
    BY DEF DecoderInv
  <1>3. PICK i, from : i = Decoder!FirstLineEnd(b) /\ from = i + Decoder!LineEndLength(b, i)
    OBVIOUS
  <1>4. /\ phase \in {"draining", "flushing"} /\ arrived' = t
        /\ Decoder!LineEnds(b) # {} /\ ~(Decoder!Undecided(b) /\ phase = "draining")
        /\ textBuffer' = SubSeq(b, from, Len(b))
        /\ IF i = 1 THEN Decoder!DispatchFrame ELSE Decoder!AcceptLine(i - 1)
    BY <1>2, <1>3 DEF Decoder!DrainLine
  <1>5. i \in 1 .. Len(b) /\ b[i] # "x" /\ \A j \in 1 .. i - 1 : b[j] = "x"
    BY <1>3, <1>4, FirstEnd
  <1> DEFINE R == Decoder!Reading(t)
  <1>6. /\ k \in 0 .. Len(t) /\ IsRest(b, t, k) /\ b # <<>>
        /\ k > 0 /\ t[k] = "CR" => b[1] # "LF"
        /\ R[k].line = 0 /\ frameLines = R[k].open /\ dispatched = R[k].all
    <2>1. b # <<>>
      BY <1>5, EmptySeq
    <2> QED  BY <1>1, <1>2, <2>1 DEF TakenOf
  <1>7. PICK n, rest : n = k + (from - 1) /\ rest = SubSeq(b, from, Len(b))
    OBVIOUS
  <1>8. /\ n \in 0 .. Len(t) /\ rest \in Seq(Chars) /\ IsRest(rest, t, n)
        /\ n > 0 /\ t[n] = "CR" =>
              IF rest = <<>> THEN i = Len(b) /\ b[i] = "CR" ELSE rest[1] # "LF"
        /\ R[n] = R[k + i]
    <2>1. AfterLine(b, i, t, k)
      BY <1>5, <1>6, RestAfterLine
    <2> QED  BY <1>3, <1>7, <2>1, Zenon DEF AfterLine
  <1>9. PICK line : /\ line.line = i - 1 /\ line.open = R[k].open /\ line.all = R[k].all
                    /\ R[k + i] = Decoder!Ended(line) /\ IsReading(line)
    <2>1. /\ R[k + (i - 1)].line = i - 1 /\ R[k + (i - 1)].open = R[k].open
          /\ R[k + (i - 1)].all = R[k].all /\ R[k + i] = Decoder!Ended(R[k + (i - 1)])
      BY <1>5, <1>6, EndIsRead
    <2>2. Len(t) \in Nat /\ k + (i - 1) \in 0 .. Len(t)
      <3>1. Len(t) \in Nat /\ Len(b) \in Nat /\ Len(b) + k = Len(t)
        BY <1>6, LenProperties DEF IsRest
      <3> QED  BY <1>5, <1>6, <3>1
    <2> QED  BY <2>1, <2>2, ReadingIsReading
  <1>10. R[n] = Decoder!Ended(line)
    BY <1>8, <1>9
  <1> HIDE DEF R
  <1>11. phase' \in {phase, "failed"}
    BY <1>4 DEF Decoder!DispatchFrame, Decoder!AcceptLine
  <1>12. CASE phase' = "failed"
    <2>1. dispatched' = dispatched
      BY <1>4, <1>12 DEF Decoder!DispatchFrame, Decoder!AcceptLine
    <2> QED  BY <1>2, <1>4, <1>6, <1>7, <1>8, <1>12, <2>1 DEF DecoderInv, R
  <1>13. CASE phase' = phase
    <2>1. R[n].line = 0 /\ frameLines' = R[n].open /\ dispatched' = R[n].all
      <3>1. CASE i = 1
        <4>1. CASE frameLines = <<>>
          <5>1. frameLines' = frameLines /\ dispatched' = dispatched
            BY <1>4, <3>1, <4>1 DEF Decoder!DispatchFrame
          <5> QED  BY <1>6, <1>9, <1>10, <3>1, <4>1, <5>1 DEF Decoder!Ended
        <4>2. CASE frameLines # <<>>
          <5>1. frameLines' = <<>> /\ dispatched' = Append(dispatched, frameLines)
            BY <1>4, <1>13, <3>1, <4>2 DEF Decoder!DispatchFrame
          <5>2. R[n] = [line EXCEPT !.open = <<>>, !.all = Append(line.all, line.open)]
            BY <1>6, <1>9, <1>10, <3>1, <4>2 DEF Decoder!Ended
          <5> QED  BY <1>6, <1>9, <3>1, <5>1, <5>2 DEF IsReading
        <4> QED  BY <4>1, <4>2
      <3>2. CASE i # 1
        <4>1. frameLines' = Append(frameLines, i - 1) /\ dispatched' = dispatched
          BY <1>4, <1>13, <3>2 DEF Decoder!AcceptLine
        <4>2. line.line > 0
          BY <1>5, <1>9, <3>2
        <4>3. R[n] = [line EXCEPT !.line = 0, !.open = Append(line.open, line.line)]
          BY <1>10, <4>2 DEF Decoder!Ended
        <4> QED  BY <1>6, <1>9, <4>1, <4>3 DEF IsReading
      <3> QED  BY <3>1, <3>2
    <2>2. n > 0 /\ t[n] = "CR" => IF rest = <<>> THEN phase = "flushing" ELSE rest[1] # "LF"
      <3> SUFFICES ASSUME rest = <<>>, i = Len(b), b[i] = "CR" PROVE phase = "flushing"
        BY <1>8
      <3>1. Decoder!Undecided(b)
        BY <1>3, <1>4 DEF Decoder!Undecided, Decoder!Last
      <3> QED  BY <1>4, <3>1
    <2>3. TakenOf(arrived, n)'
      BY <1>4, <1>7, <1>8, <1>13, <2>1, <2>2 DEF TakenOf, R
    <2> QED  BY <1>4, <1>7, <1>8, <2>1, <2>3 DEF DecoderInv, R
  <1> QED  BY <1>11, <1>12, <1>13

\* The rest of a body is a line without an end.
LEMMA FlushKeepsDecoder == DecoderInv /\ Decoder!FlushRest => DecoderInv'
  <1> SUFFICES ASSUME DecoderInv, Decoder!FlushRest PROVE DecoderInv'
    OBVIOUS
  <1>1. PICK k \in 0 .. Len(arrived) : TakenOf(arrived, k)
    BY DEF DecoderInv, Decoder!FlushRest
  <1>2. PICK t \in Seq(Chars), b \in Seq(Chars) : t = arrived /\ b = textBuffer
    BY DEF DecoderInv
  <1>3. /\ phase = "flushing" /\ arrived' = t /\ textBuffer' = <<>>
        /\ Decoder!LineEnds(b) = {} /\ b # <<>> /\ Decoder!AcceptLine(Len(b))
    BY <1>2 DEF Decoder!FlushRest
  <1> DEFINE R == Decoder!Reading(t)
  <1>4. /\ k \in 0 .. Len(t) /\ IsRest(b, t, k)
        /\ R[k].line = 0 /\ frameLines = R[k].open /\ dispatched = R[k].all
    BY <1>1, <1>2, <1>3 DEF TakenOf
  <1>5. PICK lt \in Nat, lb \in Nat : /\ lt = Len(t) /\ lb = Len(b) /\ lb + k = lt /\ k \in Nat
                                      /\ lb > 0 /\ DOMAIN b = 1 .. lb
    BY <1>3, <1>4, LenProperties, EmptySeq DEF IsRest
  <1>6. ASSUME NEW j \in k + 1 .. lt PROVE t[j] = "x"
    <2>1. j - k \in 1 .. lb /\ k + (j - k) = j
      BY <1>5
    <2>2. b[j - k] = "x"
      BY <1>3, <1>5, <2>1 DEF Decoder!LineEnds
    <2> QED  BY <1>4, <1>5, <2>1, <2>2 DEF IsRest
  <1>7. R[lt].line = lb /\ R[lt].open = R[k].open /\ R[lt].all = R[k].all
    <2>1. lt \in k .. Len(t) /\ lt - k = lb /\ 0 + lb = lb
      BY <1>5
    <2>2. R[lt].line = R[k].line + (lt - k) /\ R[lt].open = R[k].open /\ R[lt].all = R[k].all
      BY <1>4, <1>5, <1>6, <2>1, LineIsRead
    <2> QED  BY <1>4, <2>1, <2>2
  <1>8. t[lt] = "x" /\ lt \in 0 .. Len(t)
    BY <1>5, <1>6
  <1>9. <<>> \in Seq(Chars) /\ IsRest(<<>>, t, lt)
    BY <1>5, EmptySeq DEF IsRest
  <1> HIDE DEF R
  <1>10. CASE phase' = "failed"
    <2>1. dispatched' = dispatched
      BY <1>3, <1>10 DEF Decoder!AcceptLine
    <2> QED  BY <1>2, <1>3, <1>4, <1>9, <1>10, <2>1 DEF DecoderInv, R
  <1>11. CASE phase' # "failed"
    <2>1. phase' = phase /\ dispatched' = dispatched /\ frameLines' = Append(frameLines, lb)
      BY <1>3, <1>5, <1>11 DEF Decoder!AcceptLine
    <2>2. TakenOf(arrived, lt)'
      BY <1>3, <1>4, <1>5, <1>7, <1>8, <1>9, <2>1 DEF TakenOf, R
    <2> QED  BY <1>3, <1>4, <1>7, <1>8, <1>9, <2>1, <2>2 DEF DecoderInv, R
  <1> QED  BY <1>10, <1>11

\* Every step of the decoder keeps what it has made of the body.
LEMMA StepDecoder == DecoderInv /\ [Decoder!Next]_(Decoder!vars) => DecoderInv'
  <1> SUFFICES ASSUME DecoderInv, [Decoder!Next]_(Decoder!vars) PROVE DecoderInv'
    OBVIOUS
  <1>1. ASSUME \/ Decoder!Finish \/ Decoder!StopDraining \/ Decoder!StopFlushing
               \/ UNCHANGED Decoder!vars
        PROVE  DecoderInv'
    <2>1. /\ arrived' = arrived /\ textBuffer' = textBuffer
          /\ frameLines' = frameLines /\ dispatched' = dispatched
      BY <1>1 DEF Decoder!Finish, Decoder!StopDraining, Decoder!StopFlushing, Decoder!vars
    <2>2. /\ phase' = "failed" => phase = "failed"
          /\ phase # "failed" /\ phase' # phase =>
                \/ phase = "idle" /\ phase' = "flushing"
                \/ phase = "draining" /\ phase' = "idle"
                \/ phase = "flushing" /\ phase' = "finished" /\ textBuffer = <<>>
          /\ phase = "failed" => phase' = "failed"
      BY <1>1 DEF Decoder!Finish, Decoder!StopDraining, Decoder!StopFlushing, Decoder!vars
    <2>3. PICK k \in 0 .. Len(arrived) : /\ dispatched = Decoder!Reading(arrived)[k].all
                                         /\ phase # "failed" => TakenOf(arrived, k)
      BY DEF DecoderInv
    <2>4. phase' # "failed" => TakenOf(arrived, k)'
      BY <2>1, <2>2, <2>3 DEF TakenOf
    <2> QED  BY <2>1, <2>3, <2>4 DEF DecoderInv
  <1> QED  BY <1>1, PushKeepsDecoder, LineKeepsDecoder, FlushKeepsDecoder DEF Decoder!Next

\* A decoder that took all has made of the body what is read of it at once.
LEMMA SplitsFollow == DecoderInv => Decoder!SplitsAreInvisible
  <1> SUFFICES ASSUME DecoderInv PROVE Decoder!SplitsAreInvisible
    OBVIOUS
  <1>1. PICK k \in 0 .. Len(arrived) : /\ dispatched = Decoder!Reading(arrived)[k].all
                                       /\ phase # "failed" => TakenOf(arrived, k)
    BY DEF DecoderInv
  <1>2. Len(arrived) \in Nat /\ Len(arrived) \in k .. Len(arrived)
    BY LenProperties DEF DecoderInv
  <1> DEFINE whole == Decoder!Reading(arrived)[Len(arrived)]
  <1>3. dispatched \in Seq(Seq(Nat)) /\ whole.all \in Seq(Seq(Nat)) /\ whole.line \in Nat
    BY <1>1, <1>2, ReadingIsReading DEF IsReading
  <1>4. Begins(dispatched, whole.all)
    BY <1>1, <1>2, ReadingGrows
  <1> HIDE DEF whole
  <1>5. Decoder!IsPrefix(dispatched, whole.all)
    <2>1. PICK m \in Nat, n \in Nat : m = Len(dispatched) /\ n = Len(whole.all)
      BY <1>3, LenProperties
    <2>2. m <= n /\ \A i \in 1 .. m : dispatched[i] = whole.all[i]
      BY <1>4, <2>1 DEF Begins
    <2>3. SubSeq(dispatched, 1, m) = SubSeq(whole.all, 1, m)
      BY <2>2
    <2> QED  BY <2>1, <2>2, <2>3 DEF Decoder!IsPrefix
  <1>6. ASSUME phase = "finished"
        PROVE  /\ dispatched = whole.all
               /\ frameLines = IF whole.line > 0 THEN Append(whole.open, whole.line)
                               ELSE whole.open
    <2>1. TakenOf(arrived, k) /\ textBuffer = <<>>
      BY <1>1, <1>6 DEF TakenOf
    <2>2. k = Len(arrived)
      BY <1>2, <2>1, EmptySeq DEF TakenOf, IsRest
    <2> QED  BY <1>3, <2>1, <2>2 DEF TakenOf, whole
  <1> QED  BY <1>5, <1>6 DEF Decoder!SplitsAreInvisible, whole

-----------------------------------------------------------------------------
(* What the inductive invariants of the components give.                   *)

SessionsInv == component = "sessions" => KindsInv /\ EvidenceInv /\ ClientsInv

\* What the proxy remembers, what is stored and what was recorded agree, for any
\* requests, responses, ticks and restarts.
THEOREM SessionsInvHolds == Spec => []SessionsInv
  <1>1. Init => SessionsInv
    BY SessionsRun, InitKinds, InitEvidence, InitClients DEF SessionsInv
  <1>2. SessionsInv /\ [Next]_all => SessionsInv'
    BY SessionsRun, StepKinds, StepEvidence, StepClients DEF SessionsInv
  <1> QED  BY <1>1, <1>2, PTL DEF Spec

\* No session holds both analysis and investigated traffic, whatever the requests name
\* and however often the daemon restarts.
THEOREM AnalysisAlwaysApart == Spec => []AnalysisStaysApart
  <1>1. SessionsInv => AnalysisStaysApart
    BY KindsFollow DEF SessionsInv, AnalysisStaysApart
  <1> QED  BY <1>1, SessionsInvHolds, PTL

\* The proxy knows exactly the responses the evidence shows, also after a restart.
THEOREM AncestryIsKept == Spec => []AncestryIsTheEvidence
  <1>1. SessionsInv => AncestryIsTheEvidence
    BY DEF SessionsInv, EvidenceInv, AncestryIsTheEvidence
  <1> QED  BY <1>1, SessionsInvHolds, PTL

\* A client goes on in its session exactly while the idle window is open, and shares
\* it with no other.
THEOREM ClientsStartAnew == Spec => []IdleClientsStartAnew
  <1>1. SessionsInv => IdleClientsStartAnew
    BY DEF SessionsInv, ClientsInv, IdleClientsStartAnew
  <1> QED  BY <1>1, SessionsInvHolds, PTL

ContextInv == component = "context" => ChainInv

\* The invariant of the chain holds in every reachable state.
THEOREM ContextInvHolds == Spec => []ContextInv
  <1>1. Init => ContextInv
    <2> SUFFICES ASSUME Context!Init PROVE ChainInv
      BY ContextRuns DEF ContextInv
    <2> QED  BY EmptySeq DEF Context!Init, ChainInv
  <1>2. ContextInv /\ [Next]_all => ContextInv'
    BY ContextRuns, StepChain DEF ContextInv
  <1> QED  BY <1>1, <1>2, PTL DEF Spec

\* A chain that is called complete is one: every turn continues a response of the next,
\* which was recorded before it, the last continues nothing, and each was read and
\* captured to its end, whatever was recorded while the chain was followed.
THEOREM CompleteChainsAreLinked == Spec => []CompleteMeansLinked
  <1>1. ContextInv => CompleteMeansLinked
    <2> SUFFICES ASSUME component = "context", ChainInv, Context!Complete
                 PROVE  Context!CompleteMeansLinked
      BY DEF ContextInv, CompleteMeansLinked, Context!CompleteMeansLinked
    <2>1. reading = "answered" /\ Context!Completeness = "reconstructed-client-chain"
      BY DEF ChainInv, Context!Complete, Context!NoAnswer
    <2>2. Len(turns) \in Nat \ {0} /\ DOMAIN turns = 1 .. Len(turns)
          /\ turns[1] \in DOMAIN chain
      BY <2>1, LenProperties, EmptySeq DEF ChainInv
    <2>3. chain[turns[1]].kept \in BOOLEAN
      BY <2>2, TurnsAssumption DEF ChainInv
    <2>4. Unmarked
      BY <2>1, <2>3 DEF Context!Completeness, Unmarked, ChainInv
    <2>5. LinkedSoFar /\ previous = Context!NoResponse
      BY <2>1, <2>4 DEF ChainInv
    <2> QED
      BY <2>2, <2>5 DEF Context!CompleteMeansLinked, LinkedSoFar, Context!Last
  <1> QED  BY <1>1, ContextInvHolds, PTL

MigrationsInv == component = "schema" => SchemaInv

\* What the openers of the database have found and done, whoever migrates it meanwhile.
THEOREM MigrationsInvHolds == Spec => []MigrationsInv
  <1>1. Init => MigrationsInv
    BY SchemaRuns, InitSchema DEF MigrationsInv
  <1>2. MigrationsInv /\ [Next]_all => MigrationsInv'
    BY SchemaRuns, StepSchema DEF MigrationsInv
  <1> QED  BY <1>1, <1>2, PTL DEF Spec

\* An opening that upgrades the version it found has made a backup of that version
\* that holds all it found, for any number of processes of any builds.
THEOREM UpgradesHaveBackups == Spec => UpgradesAreBackedUp
  <1>1. MigrationsInv /\ [Next]_all => [component = "schema" => Schema!BacksUpFirst]_all
    <2> SUFFICES ASSUME SchemaInv, NEW p \in Openers, Schema!Migrate(p),
                        database'.version > database.version,
                        database.version = opener[p].looked, opener[p].found # {}
                 PROVE  Schema!HasItsBackup(p)
      BY DEF MigrationsInv, Schema!BacksUpFirst
    <2> QED  BY MigrateKeeps
  <1> QED  BY <1>1, MigrationsInvHolds, PTL DEF Spec, UpgradesAreBackedUp

RetentionInv == component = "retention" => PreviewInv

\* What the plan that is shown says of the sessions it was made from.
THEOREM RetentionInvHolds == Spec => []RetentionInv
  <1>1. Init => RetentionInv
    BY RetentionRuns, InitPreview DEF RetentionInv
  <1>2. RetentionInv /\ [Next]_all => RetentionInv'
    BY RetentionRuns, StepPreview DEF RetentionInv
  <1> QED  BY <1>1, <1>2, PTL DEF Spec

\* A deletion leaves what its preview projected, unless the sessions have changed
\* since, and leaves no analysis without its session that was there to be seen.
THEOREM DeletionsKeepTheirPreview == Spec => DeletionsKeepThePreview
  <1>1. RetentionInv /\ [Next]_all => [component = "retention" => Retention!KeepsThePreview]_all
    BY PreviewIsKept DEF RetentionInv
  <1> QED  BY <1>1, RetentionInvHolds, PTL DEF Spec, DeletionsKeepThePreview

TransferredInv == component = "transfer" => TransferInv

\* What an export has read is what its session held, and what an import stores is
\* what some export read.
THEOREM TransferredInvHolds == Spec => []TransferredInv
  <1>1. Init => TransferredInv
    BY TransferRuns, InitTransfer DEF TransferredInv
  <1>2. TransferredInv /\ [Next]_all => TransferredInv'
    BY TransferRuns, StepTransfer DEF TransferredInv
  <1> QED  BY <1>1, <1>2, PTL DEF Spec

\* A session that was imported has its bodies and is what some archive was written with,
\* and what can be imported is what its session held at one moment, whatever was
\* recorded, completed, deleted, damaged or given up in between.
THEOREM ImportsAreAlwaysSnapshots == Spec => []ImportsAreSnapshots
  <1>1. TransferredInv => ImportsAreSnapshots
    BY SnapshotsFollow DEF TransferredInv, ImportsAreSnapshots
  <1> QED  BY <1>1, TransferredInvHolds, PTL

DecodingInv == component = "decoder" => DecoderInv

\* What the decoder handed out and what it keeps open is what is read of the characters
\* it took, for a body cut anywhere.
THEOREM DecodingInvHolds == Spec => []DecodingInv
  <1>1. Init => DecodingInv
    BY DecodingRuns, InitDecoder DEF DecodingInv
  <1>2. DecodingInv /\ [Next]_all => DecodingInv'
    BY DecodingRuns, StepDecoder DEF DecodingInv
  <1> QED  BY <1>1, <1>2, PTL DEF Spec

\* The frames handed out are a beginning of those of the body read at once, and all of
\* them, with the same incomplete rest, when the body was finished: for any body, cut
\* anywhere, and any limits.
THEOREM SplitsAreAlwaysInvisible == Spec => []SplitsAreInvisible
  <1>1. DecodingInv => SplitsAreInvisible
    BY SplitsFollow DEF DecodingInv, SplitsAreInvisible
  <1> QED  BY <1>1, DecodingInvHolds, PTL

AnalysisInv == component = "analysis" => Analysis!ServiceInv /\ Analysis!HistoryInv

\* What AnalysisServiceProofs proves of every session and any number of requests.
THEOREM AnalysisInvHolds == Spec => []AnalysisInv
  <1>1. Init => AnalysisInv
    BY AnalysisRuns, Analysis!InitServiceInv, Analysis!InitHistoryInv DEF AnalysisInv
  <1>2. AnalysisInv /\ [Next]_all => AnalysisInv'
    <2>1. SUFFICES ASSUME AnalysisInv, [Next]_all, component' = "analysis"
                   PROVE  Analysis!ServiceInv' /\ Analysis!HistoryInv'
      BY DEF AnalysisInv
    <2>2. component = "analysis" /\ [Analysis!Next]_(Analysis!vars)
      BY <2>1, AnalysisRuns
    <2>3. Analysis!ServiceInv /\ Analysis!HistoryInv
      BY <2>1, <2>2 DEF AnalysisInv
    <2> QED  BY <2>2, <2>3, Analysis!StepServiceInv, Analysis!StepHistoryInv
  <1> QED  BY <1>1, <1>2, PTL DEF Spec

\* Requests about one action are given one analysis, the one its reports tell.
THEOREM AnswersAlwaysAgree == Spec => []AnswersAgree
  <1>1. AnalysisInv => AnswersAgree
    BY Analysis!AgreementFollows DEF AnalysisInv, AnswersAgree
  <1> QED  BY <1>1, AnalysisInvHolds, PTL

\* The provider is given what its user agreed to, on record before it is sent.
THEOREM ConsentIsKept == Spec => []ConsentCoversWhatIsSent
  <1>1. AnalysisInv => ConsentCoversWhatIsSent
    BY Analysis!ConsentFollows DEF AnalysisInv, ConsentCoversWhatIsSent
  <1> QED  BY <1>1, AnalysisInvHolds, PTL

\* A stored analysis is what an analysis of the session as it is now would say.
THEOREM LaterEvidenceIsIgnored == Spec => []LaterEvidenceChangesNothing
  <1>1. AnalysisInv => LaterEvidenceChangesNothing
    BY Analysis!HistoryFollows DEF AnalysisInv, LaterEvidenceChangesNothing
  <1> QED  BY <1>1, AnalysisInvHolds, PTL

BlobsInv == component = "blobs" => StoreInv /\ QuotaInv

\* What EvidenceComponentsProofs proves of every number of processes, puts and contents.
THEOREM BlobsInvHolds == Spec => []BlobsInv
  <1>1. Init => BlobsInv
    BY BlobsRun, BlobsAssumption, InitStore, InitQuota DEF BlobsInv
  <1>2. BlobsInv /\ [Next]_all => BlobsInv'
    <2>1. SUFFICES ASSUME BlobsInv, [Next]_all, component' = "blobs"
                   PROVE  StoreInv' /\ QuotaInv'
      BY DEF BlobsInv
    <2>2. component = "blobs" /\ [Blobs!Next]_(Blobs!vars)
      BY <2>1, BlobsRun
    <2>3. StoreInv /\ StoreTypes /\ QuotaInv
      BY <2>1, <2>2 DEF BlobsInv, StoreInv
    <2> QED  BY <2>2, <2>3, BlobsAssumption, StepStore, StepQuota
  <1> QED  BY <1>1, <1>2, PTL DEF Spec

\* Where puts overlap only puts a row has its file.
THEOREM RowsAlwaysReadable == Spec => []RowsAreReadable
  <1>1. BlobsInv => RowsAreReadable
    BY RowsHaveFiles DEF BlobsInv, RowsAreReadable
  <1> QED  BY <1>1, BlobsInvHolds, PTL

\* The limited puts pass the ceiling by less than one blob each.
THEOREM OvershootIsBounded == Spec => []QuotaOvershootIsBounded
  <1>1. BlobsInv => QuotaOvershootIsBounded
    BY BlobsAssumption, OvershootFollows DEF BlobsInv, QuotaOvershootIsBounded
  <1> QED  BY <1>1, BlobsInvHolds, PTL

JournalInv == component = "journal" => Journal!ContentInv

\* What EvidenceJournalProofs proves of every set of sessions and exchanges.
THEOREM JournalInvHolds == Spec => []JournalInv
  <1>1. Init => JournalInv
    BY JournalRuns, JournalAssumption, Journal!InitContentInv DEF JournalInv
  <1>2. JournalInv /\ [Next]_all => JournalInv'
    <2>1. SUFFICES ASSUME JournalInv, [Next]_all, component' = "journal"
                   PROVE  Journal!ContentInv'
      BY DEF JournalInv
    <2>2. component = "journal" /\ [Journal!Next]_(Journal!vars)
      BY <2>1, JournalRuns
    <2>3. Journal!ContentInv
      BY <2>1, <2>2 DEF JournalInv
    <2> QED  BY <2>2, <2>3, JournalAssumption, Journal!StepContentInv
  <1> QED  BY <1>1, <1>2, PTL DEF Spec

\* Recovery closes nothing that a live daemon is recording.
THEOREM OpenJobsAreRecording == Spec => []OpenJobIsRecording
  <1>1. JournalInv => OpenJobIsRecording
    BY DEF JournalInv, OpenJobIsRecording, Journal!ContentInv
  <1> QED  BY <1>1, JournalInvHolds, PTL
=============================================================================
