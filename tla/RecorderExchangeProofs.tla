------------------------- MODULE RecorderExchangeProofs -------------------------
(***************************************************************************)
(* Proofs about RecorderExchange, for every finite set of exchanges and all *)
(* limits.                                                                 *)
(***************************************************************************)
EXTENDS RecorderExchange, FiniteSetTheorems, WellFoundedInduction, NaturalsInduction, TLAPS

Outcomes == {"none", "capture-incomplete", "client-disconnected", "completed",
             "upstream-disconnected", "upstream-error"}
Proxies == {"listening", "closing", "cut", "flushing", "closed", "crashed"}
Uploads == {"none", "sending", "ended", "stopped"}
Downloads == {"none", "waiting", "streaming", "ended", "flushed", "cut", "lost", "failed"}
Captured == [retained : 0 .. BodyLimit, dropped : 0 .. MaxObserved, closed : BOOLEAN,
             released : BOOLEAN]
Entries == [kept : 0 .. ManifestLimit, dropped : Nat]
Journals == [pc : {"none", "request", "response", "manifest", "normalize", "done"},
             outcome : Outcomes, failed : BOOLEAN, request : Int, response : Int]
Rows == [state : {"absent", "recording", "complete"}, outcome : Outcomes,
         requestComplete : BOOLEAN, responseComplete : BOOLEAN, request : Int, response : Int]

ProxyTypes ==
    /\ proxy \in Proxies
    /\ upload \in [Exchanges -> Uploads]
    /\ download \in [Exchanges -> Downloads]
    /\ captures \in [Exchanges -> [Bodies -> Captured]]
    /\ manifest \in [Exchanges -> Entries]
    /\ used \in 0 .. BudgetLimit
    /\ active \subseteq Exchanges /\ pending \subseteq Exchanges
    /\ journal \in [Exchanges -> Journals]
    /\ rows \in [Exchanges -> Rows]
    /\ requests \in [started : Nat, completed : Nat]
    /\ settlement \in [pc : {"none", "waiting", "done"}, begun : SUBSET Exchanges]

\* An exchange is active from its beginning until it is terminal, is pending until
\* its journal is done, and holds capture memory until then.
Lifecycle(x) ==
    /\ upload[x] = "none" => download[x] = "none" /\ ~Terminal(x) /\ rows[x].state = "absent"
    /\ x \in active => ~Terminal(x) /\ upload[x] # "none"
    /\ ~Terminal(x) /\ x \notin active =>
          /\ upload[x] # "sending" /\ download[x] \notin {"waiting", "streaming", "ended"}
          /\ rows[x].state = "absent"
          /\ \A b \in Bodies : captures[x][b].retained = 0
    /\ Terminal(x) => download[x] \notin {"waiting", "streaming"}
    /\ x \in pending <=> journal[x].pc \in {"request", "response", "manifest", "normalize"}
    /\ \A b \in Bodies : captures[x][b].released <=> journal[x].pc = "done"

\* The reference to the response body is that of the bytes captured, which no
\* longer change, unless storing it failed.
Evidence(x) ==
    /\ journal[x].pc = "response" => journal[x].response = captures[x]["response"].retained
    /\ journal[x].pc = "manifest" /\ HeadSeen(x) =>
          journal[x].failed \/ journal[x].response = captures[x]["response"].retained
    /\ rows[x].state = "complete" =>
          /\ Terminal(x)
          /\ rows[x].outcome # "capture-incomplete" /\ HeadSeen(x)
                => rows[x].response = Observed(captures[x]["response"])
          /\ rows[x].responseComplete => ResponseEnded(x)

SettlementControl ==
    /\ settlement.pc # "none" => \A x \in settlement.begun : Terminal(x)
    /\ SettlementIsComplete

CloseControl ==
    /\ proxy \in {"flushing", "closed"} => active = {}
    /\ ClosedMeansDrained

-----------------------------------------------------------------------------
(* Sums over the subsets of a finite set.                                  *)

\* Strong induction over the subsets of a finite set.
LEMMA SubsetInduction ==
    ASSUME NEW X, IsFiniteSet(X), NEW G,
           \A T \in SUBSET X : (\A x \in T : T \ {x} \in G) => T \in G
    PROVE  \A T \in SUBSET X : T \in G
  <1> DEFINE Bad == {T \in SUBSET X : T \notin G}
  <1>1. SUFFICES ASSUME Bad # {} PROVE FALSE  OBVIOUS
  <1>2. IsWellFoundedOn(StrictSubsetOrdering(X), FiniteSubsetsOf(X))
    BY FS_StrictSubsetOrderingWellFounded
  <1>3. Bad \subseteq FiniteSubsetsOf(X)
    BY FS_Subset DEF FiniteSubsetsOf
  <1>4. PICK T \in Bad : \A U \in Bad : ~(<<U, T>> \in StrictSubsetOrdering(X))
    <2> HIDE DEF Bad
    <2> QED  BY <1>1, <1>2, <1>3, WFMin
  <1>5. \A x \in T : T \ {x} \in G
    <2> SUFFICES ASSUME NEW x \in T, T \ {x} \notin G PROVE FALSE  OBVIOUS
    <2>1. T \ {x} \in Bad  OBVIOUS
    <2>2. <<T \ {x}, T>> \in StrictSubsetOrdering(X)
      BY DEF StrictSubsetOrdering
    <2> QED  BY <1>4, <2>1, <2>2
  <1> QED  BY <1>5

\* Induction over the naturals, for the members of a set.
LEMMA NaturalInduction ==
    ASSUME NEW G, 0 \in G, \A n \in Nat : n \in G => n + 1 \in G
    PROVE  \A n \in Nat : n \in G
  <1> DEFINE Bad == {n \in Nat : n \notin G}
             R == {ss \in Nat \X Nat : ss[1] < ss[2]}
  <1>1. SUFFICES ASSUME Bad # {} PROVE FALSE  OBVIOUS
  <1>2. IsWellFoundedOn(R, Nat)  BY NatLessThanWellFounded DEF OpToRel
  <1>3. PICK n \in Bad : \A m \in Bad : ~(<<m, n>> \in R)
    <2> HIDE DEF R
    <2>1. Bad \subseteq Nat  OBVIOUS
    <2> HIDE DEF Bad
    <2> QED  BY <1>1, <1>2, <2>1, WFMin
  <1>4. n \in Nat /\ n # 0 /\ n - 1 \in Nat /\ n - 1 < n  OBVIOUS
  <1>5. n - 1 \in G
    <2>1. n - 1 \notin Bad  BY <1>3, <1>4
    <2> QED  BY <1>4, <2>1
  <1> QED  BY <1>4, <1>5

Member(s) == CHOOSE x \in s : TRUE

IsSum(f, h, D) ==
    \A s \in D : f[s] = IF s = {} THEN 0 ELSE h[Member(s)] + f[s \ {Member(s)}]

\* Adding up a function of natural numbers over the subsets of a finite set has a result:
\* the function that adds the chosen member of a subset to the sum of the others exists.
LEMMA SumExists ==
    ASSUME NEW X, IsFiniteSet(X), NEW h \in [X -> Nat]
    PROVE  \E f \in [SUBSET X -> Nat] : IsSum(f, h, SUBSET X)
  <1> DEFINE D(n) == {s \in SUBSET X : Cardinality(s) <= n}
             G == {n \in Nat : \E f \in [D(n) -> Nat] : IsSum(f, h, D(n))}
  <1>1. \A s \in SUBSET X : IsFiniteSet(s) /\ Cardinality(s) \in Nat /\ Cardinality(s) <= Cardinality(X)
    BY FS_Subset, FS_CardinalityType
  <1>2. 0 \in G
    <2>1. \A s \in D(0) : s = {}  BY <1>1, FS_EmptySet
    <2> DEFINE f == [s \in D(0) |-> 0]
    <2>2. f \in [D(0) -> Nat]  OBVIOUS
    <2>3. \A s \in D(0) : f[s] = 0  OBVIOUS
    <2>4. IsSum(f, h, D(0))  BY <2>1, <2>3 DEF IsSum
    <2> QED  BY <2>2, <2>4
  <1>3. ASSUME NEW n \in Nat, n \in G PROVE n + 1 \in G
    <2>1. PICK f \in [D(n) -> Nat] : IsSum(f, h, D(n))  BY <1>3
    <2> DEFINE Value(s) == IF s = {} THEN 0 ELSE h[Member(s)] + f[s \ {Member(s)}]
               g == [s \in D(n + 1) |-> Value(s)]
    <2>2. ASSUME NEW s \in D(n + 1), s # {}
          PROVE  Member(s) \in X /\ s \ {Member(s)} \in D(n)
      <3>1. Member(s) \in s  BY <2>2 DEF Member
      <3>2. Cardinality(s \ {Member(s)}) = Cardinality(s) - 1
        BY <1>1, <3>1, FS_RemoveElement
      <3> QED  BY <1>1, <3>1, <3>2
    <2>3. \A s \in D(n + 1) : Value(s) \in Nat  BY <2>2
    <2>4. g \in [D(n + 1) -> Nat] /\ \A s \in D(n + 1) : g[s] = Value(s)
      <3> HIDE DEF Value
      <3> QED  BY <2>3
    <2>5. \A s \in D(n) : s \in D(n + 1) /\ g[s] = f[s]
      <3> TAKE s \in D(n)
      <3>1. s \in D(n + 1)  BY <1>1
      <3>2. f[s] = Value(s)  BY <2>1 DEF IsSum
      <3> QED  BY <2>4, <3>1, <3>2
    <2>6. \A s \in D(n + 1) : g[s] = IF s = {} THEN 0 ELSE h[Member(s)] + g[s \ {Member(s)}]
      <3> HIDE DEF g
      <3> QED  BY <2>2, <2>4, <2>5
    <2> HIDE DEF g
    <2>7. IsSum(g, h, D(n + 1))  BY <2>6 DEF IsSum
    <2> HIDE DEF D
    <2> QED  BY <2>4, <2>7
  <1>4. \A n \in Nat : n \in G
    <2> HIDE DEF G
    <2> QED  BY <1>2, <1>3, NaturalInduction
  <1>5. Cardinality(X) \in Nat /\ D(Cardinality(X)) = SUBSET X
    BY <1>1, FS_CardinalityType
  <1>6. Cardinality(X) \in G  BY <1>4, <1>5
  <1> QED  BY <1>5, <1>6

Sum(h, X) == CHOOSE f \in [SUBSET X -> Nat] : IsSum(f, h, SUBSET X)

\* The equation the sum is chosen to satisfy.
LEMMA SumStep ==
    ASSUME NEW X, IsFiniteSet(X), NEW h \in [X -> Nat]
    PROVE  /\ \A S \in SUBSET X : Sum(h, X)[S] \in Nat
           /\ Sum(h, X)[{}] = 0
           /\ \A S \in SUBSET X : S # {} =>
                 Member(S) \in S /\ Sum(h, X)[S] = h[Member(S)] + Sum(h, X)[S \ {Member(S)}]
  <1> DEFINE F == Sum(h, X)
  <1>1. F \in [SUBSET X -> Nat] /\ IsSum(F, h, SUBSET X)
    BY SumExists DEF Sum
  <1> HIDE DEF F
  <1>2. \A S \in SUBSET X : S # {} => Member(S) \in S  BY DEF Member
  <1>3. {} \in SUBSET X  OBVIOUS
  <1>4. \A S \in SUBSET X : F[S] \in Nat  BY <1>1
  <1>5. F[{}] = 0  BY <1>1, <1>3 DEF IsSum
  <1>6. \A S \in SUBSET X : S # {} => F[S] = h[Member(S)] + F[S \ {Member(S)}]
    BY <1>1 DEF IsSum
  <1> QED  BY <1>2, <1>4, <1>5, <1>6 DEF F

\* Any member may be taken out of a sum first, not only the chosen one.
LEMMA SumRemove ==
    ASSUME NEW X, IsFiniteSet(X), NEW h \in [X -> Nat]
    PROVE  \A S \in SUBSET X : \A x \in S : Sum(h, X)[S] = h[x] + Sum(h, X)[S \ {x}]
  <1> DEFINE F == Sum(h, X)
             G == {S \in SUBSET X : \A x \in S : F[S] = h[x] + F[S \ {x}]}
  <1>1. /\ \A S \in SUBSET X : F[S] \in Nat
        /\ \A S \in SUBSET X : S # {} =>
                 Member(S) \in S /\ F[S] = h[Member(S)] + F[S \ {Member(S)}]
    BY SumStep
  <1> HIDE DEF F
  <1>2. ASSUME NEW S \in SUBSET X, \A x \in S : S \ {x} \in G PROVE S \in G
    <2> SUFFICES ASSUME NEW x \in S PROVE F[S] = h[x] + F[S \ {x}]  OBVIOUS
    <2> DEFINE c == Member(S)
    <2>1. c \in S /\ F[S] = h[c] + F[S \ {c}]  BY <1>1
    <2> HIDE DEF c
    <2>2. CASE x = c  BY <2>1, <2>2
    <2>3. CASE x # c
      <3>1. F[S \ {c}] = h[x] + F[(S \ {c}) \ {x}]  BY <1>2, <2>1, <2>3
      <3>2. F[S \ {x}] = h[c] + F[(S \ {x}) \ {c}]  BY <1>2, <2>1, <2>3
      <3>3. (S \ {c}) \ {x} = (S \ {x}) \ {c}  OBVIOUS
      <3>4. (S \ {x}) \ {c} \in SUBSET X  OBVIOUS
      <3>5. F[(S \ {x}) \ {c}] \in Nat /\ h[x] \in Nat /\ h[c] \in Nat  BY <1>1, <2>1, <3>4
      <3> QED  BY <2>1, <3>1, <3>2, <3>3, <3>5
    <2> QED  BY <2>2, <2>3
  <1>3. \A S \in SUBSET X : S \in G
    <2> HIDE DEF G
    <2> QED  BY <1>2, SubsetInduction
  <1> QED  BY <1>3 DEF F

\* A sum is that over a subset and that of the function that is zero there.
LEMMA SumSplit ==
    ASSUME NEW X, IsFiniteSet(X), NEW h \in [X -> Nat], NEW k \in [X -> Nat],
           NEW Y \in SUBSET X,
           \A x \in Y : k[x] = 0, \A x \in X \ Y : k[x] = h[x]
    PROVE  Sum(h, X)[X] = Sum(h, X)[Y] + Sum(k, X)[X]
  <1> DEFINE F == Sum(h, X)
             K == Sum(k, X)
             G == {S \in SUBSET X : F[S] = F[S \cap Y] + K[S]}
  <1>1. /\ \A S \in SUBSET X : F[S] \in Nat /\ K[S] \in Nat
        /\ F[{}] = 0 /\ K[{}] = 0
    BY SumStep
  <1>2. /\ \A S \in SUBSET X : \A x \in S : F[S] = h[x] + F[S \ {x}]
        /\ \A S \in SUBSET X : \A x \in S : K[S] = k[x] + K[S \ {x}]
    BY SumRemove
  <1> HIDE DEF F, K
  <1>3. ASSUME NEW S \in SUBSET X, \A x \in S : S \ {x} \in G PROVE S \in G
    <2>1. CASE S = {}
      <3>1. S \cap Y = {}  BY <2>1
      <3> QED  BY <1>1, <2>1, <3>1
    <2>2. ASSUME NEW x \in S PROVE F[S] = F[S \cap Y] + K[S]
      <3>1. F[S] = h[x] + F[S \ {x}] /\ K[S] = k[x] + K[S \ {x}]  BY <1>2
      <3>2. F[S \ {x}] = F[(S \ {x}) \cap Y] + K[S \ {x}]  BY <1>3
      <3>3. S \cap Y \in SUBSET X /\ (S \ {x}) \cap Y \in SUBSET X /\ S \ {x} \in SUBSET X
        OBVIOUS
      <3>4. /\ F[S \cap Y] \in Nat /\ F[(S \ {x}) \cap Y] \in Nat /\ K[S \ {x}] \in Nat
            /\ h[x] \in Nat /\ k[x] \in Nat
        BY <1>1, <3>3
      <3>5. CASE x \in Y
        <4>1. (S \cap Y) \ {x} = (S \ {x}) \cap Y /\ x \in S \cap Y  BY <3>5
        <4>2. F[S \cap Y] = h[x] + F[(S \ {x}) \cap Y]  BY <1>2, <3>3, <4>1
        <4>3. k[x] = 0  BY <3>5
        <4> QED  BY <3>1, <3>2, <3>4, <4>2, <4>3
      <3>6. CASE x \notin Y
        <4>1. S \cap Y = (S \ {x}) \cap Y  BY <3>6
        <4>2. k[x] = h[x]  BY <3>6
        <4>3. F[S \cap Y] = F[(S \ {x}) \cap Y]  BY <4>1
        <4> QED  BY <3>1, <3>2, <3>4, <4>2, <4>3
      <3> QED  BY <3>5, <3>6
    <2> QED  BY <2>1, <2>2
  <1>4. \A S \in SUBSET X : S \in G
    <2> HIDE DEF G
    <2> QED  BY <1>3, SubsetInduction
  <1>5. X \in G /\ X \cap Y = Y  BY <1>4
  <1> QED  BY <1>5 DEF F, K

\* A sum grows as its summand does.
LEMMA SumAdd ==
    ASSUME NEW X, IsFiniteSet(X), NEW h \in [X -> Nat], NEW y \in X, NEW n \in Nat
    PROVE  Sum([h EXCEPT ![y] = h[y] + n], X)[X] = Sum(h, X)[X] + n
  <1> DEFINE k == [h EXCEPT ![y] = 0]
             g == [h EXCEPT ![y] = h[y] + n]
  <1>1. /\ k \in [X -> Nat] /\ k[y] = 0 /\ \A x \in X \ {y} : k[x] = h[x]
        /\ g \in [X -> Nat] /\ g[y] = h[y] + n /\ \A x \in X \ {y} : g[x] = h[x]
    OBVIOUS
  <1> HIDE DEF k, g
  <1>2. {y} \in SUBSET X /\ {y} \ {y} = {} /\ X \in SUBSET X  OBVIOUS
  <1>3. Sum(h, X)[X] = Sum(h, X)[{y}] + Sum(k, X)[X]
    BY <1>1, <1>2, SumSplit
  <1>4. Sum(g, X)[X] = Sum(g, X)[{y}] + Sum(k, X)[X]
    <2>1. \A x \in X \ {y} : k[x] = g[x]  BY <1>1
    <2> QED  BY <1>1, <1>2, <2>1, SumSplit
  <1>5. Sum(h, X)[{y}] = h[y] + Sum(h, X)[{}] /\ Sum(g, X)[{y}] = g[y] + Sum(g, X)[{}]
    <2>1. Sum(h, X)[{y}] = h[y] + Sum(h, X)[{y} \ {y}]  BY <1>2, SumRemove
    <2>2. Sum(g, X)[{y}] = g[y] + Sum(g, X)[{y} \ {y}]  BY <1>1, <1>2, SumRemove
    <2> QED  BY <1>2, <2>1, <2>2
  <1>6. Sum(h, X)[{}] = 0 /\ Sum(g, X)[{}] = 0 /\ Sum(k, X)[X] \in Nat
    BY <1>1, <1>2, SumStep
  <1>7. h[y] \in Nat  OBVIOUS
  <1> QED  BY <1>1, <1>3, <1>4, <1>5, <1>6, <1>7 DEF g

\* A sum of zeros is zero.
LEMMA SumOfNothing ==
    ASSUME NEW X, IsFiniteSet(X), NEW h \in [X -> Nat], \A x \in X : h[x] = 0
    PROVE  Sum(h, X)[X] = 0
  <1>1. X \in SUBSET X  OBVIOUS
  <1>2. Sum(h, X)[X] = Sum(h, X)[X] + Sum(h, X)[X]  BY <1>1, SumSplit
  <1> DEFINE n == Sum(h, X)[X]
  <1>3. n \in Nat  BY <1>1, SumStep
  <1>4. n = n + n  BY <1>2
  <1> HIDE DEF n
  <1>5. n = 0  BY <1>3, <1>4
  <1> QED  BY <1>5 DEF n

-----------------------------------------------------------------------------
(* The capture memory.                                                     *)

Held == [x \in Exchanges |-> Holds(x)]

\* MapThenSumSet, by which the model adds up what the captures hold, is that sum.
LEMMA HeldSum ==
    ASSUME IsFiniteSet(Exchanges), \A x \in Exchanges : Holds(x) \in Nat, NEW S \in SUBSET Exchanges
    PROVE  MapThenSumSet(Holds, S) = Sum(Held, Exchanges)[S]
  <1> DEFINE F == Sum(Held, Exchanges)
             Rhs(f) == [s \in SUBSET S |->
                          IF s = {} THEN 0 ELSE Holds(Member(s)) + f[s \ {Member(s)}]]
             iter == CHOOSE f : f = Rhs(f)
  <1>1. MapThenSumSet(Holds, S) = iter[S]
    BY DEF MapThenSumSet, MapThenFoldSet, Member
  <1>2. Held \in [Exchanges -> Nat] /\ \A x \in Exchanges : Held[x] = Holds(x)  BY DEF Held
  <1>3. /\ F[{}] = 0
        /\ \A s \in SUBSET S : s # {} =>
              Member(s) \in s /\ F[s] = Holds(Member(s)) + F[s \ {Member(s)}]
    <2>1. /\ F[{}] = 0
          /\ \A s \in SUBSET Exchanges : s # {} =>
                Member(s) \in s /\ F[s] = Held[Member(s)] + F[s \ {Member(s)}]
      BY <1>2, SumStep
    <2> HIDE DEF F
    <2>2. SUBSET S \subseteq SUBSET Exchanges  OBVIOUS
    <2> QED  BY <1>2, <2>1, <2>2
  <1> HIDE DEF F
  <1>4. iter = Rhs(iter)
    <2> DEFINE f == [s \in SUBSET S |-> F[s]]
    <2>1. \A s \in SUBSET S : f[s] = Rhs(f)[s]
      <3> TAKE s \in SUBSET S
      <3>1. s # {} => s \ {Member(s)} \in SUBSET S  OBVIOUS
      <3> QED  BY <1>3, <3>1
    <2>2. f = Rhs(f)
      <3>1. f = [s \in SUBSET S |-> f[s]] /\ Rhs(f) = [s \in SUBSET S |-> Rhs(f)[s]]
        OBVIOUS
      <3> QED  BY <2>1, <3>1
    <2> HIDE DEF f, Rhs
    <2> QED  BY <2>2
  <1>5. \A s \in SUBSET S :
           iter[s] = IF s = {} THEN 0 ELSE Holds(Member(s)) + iter[s \ {Member(s)}]
    <2> HIDE DEF iter
    <2> QED  BY <1>4
  <1> HIDE DEF iter
  <1> DEFINE G == {s \in SUBSET S : iter[s] = F[s]}
  <1>6. ASSUME NEW s \in SUBSET S, \A x \in s : s \ {x} \in G PROVE s \in G
    BY <1>3, <1>5, <1>6
  <1>7. IsFiniteSet(S)  BY FS_Subset
  <1>8. \A s \in SUBSET S : s \in G
    <2> HIDE DEF G
    <2> QED  BY <1>6, <1>7, SubsetInduction
  <1>9. S \in G  BY <1>8
  <1> QED  BY <1>1, <1>9 DEF F

\* The memory in use is that of all exchanges.
Budget == used = Sum(Held, Exchanges)[Exchanges]

\* Every exchange that was started is completed or active.
Accounts == requests.started = requests.completed + Cardinality(active)

ProxyInv ==
    /\ ProxyTypes
    /\ Budget
    /\ Accounts
    /\ \A x \in Exchanges : Lifecycle(x) /\ Evidence(x)
    /\ SettlementControl
    /\ CloseControl

-----------------------------------------------------------------------------
(* What the callbacks do to the capture memory.                            *)

\* The smallest of three.
LEMMA SmallestOfThree ==
    ASSUME NEW a \in Int, NEW b \in Int, NEW c \in Int
    PROVE  /\ Smallest({a, b, c}) \in {a, b, c}
           /\ Smallest({a, b, c}) <= a /\ Smallest({a, b, c}) <= b /\ Smallest({a, b, c}) <= c
  <1> DEFINE S == {a, b, c}
  <1>1. \E n \in S : \A m \in S : n <= m
    <2>1. CASE a <= b /\ a <= c  BY <2>1
    <2>2. CASE b <= a /\ b <= c  BY <2>2
    <2>3. CASE c <= a /\ c <= b  BY <2>3
    <2> QED  BY <2>1, <2>2, <2>3
  <1>2. Smallest(S) \in S /\ \A m \in S : Smallest(S) <= m
    <2> HIDE DEF S
    <2> QED  BY <1>1 DEF Smallest
  <1> QED  BY <1>2

\* What is granted of a chunk fits the body limit and what is left of the budget.
LEMMA GrantFits ==
    ASSUME used \in 0 .. BudgetLimit, NEW c \in Captured
    PROVE  /\ Granted(c) \in 0 .. ChunkBytes
           /\ used + Granted(c) \in 0 .. BudgetLimit
           /\ c.retained + Granted(c) \in 0 .. BodyLimit
  <1> DEFINE body == IF c.closed \/ Observed(c) > BodyLimit THEN 0 ELSE BodyLimit - Observed(c)
             budget == IF used > BudgetLimit THEN 0 ELSE BudgetLimit - used
  <1>1. /\ ChunkBytes \in Nat /\ BodyLimit \in Nat /\ BudgetLimit \in Nat /\ MaxObserved \in Nat
    BY LimitsAssumption
  <1>2. c.retained \in Nat /\ c.retained <= BodyLimit /\ c.dropped \in Nat
    BY <1>1 DEF Captured
  <1>3. /\ body \in Nat /\ body + c.retained <= BodyLimit
        /\ budget \in Nat /\ used + budget <= BudgetLimit /\ used \in Nat
    BY <1>1, <1>2 DEF Observed
  <1>4. Granted(c) = Smallest({ChunkBytes, body, budget})  BY DEF Granted
  <1> HIDE DEF body, budget
  <1>5. /\ Granted(c) \in {ChunkBytes, body, budget}
        /\ Granted(c) <= ChunkBytes /\ Granted(c) <= body /\ Granted(c) <= budget
    <2>1. ChunkBytes \in Int /\ body \in Int /\ budget \in Int  BY <1>1, <1>3
    <2>2. /\ Smallest({ChunkBytes, body, budget}) \in {ChunkBytes, body, budget}
          /\ Smallest({ChunkBytes, body, budget}) <= ChunkBytes
          /\ Smallest({ChunkBytes, body, budget}) <= body
          /\ Smallest({ChunkBytes, body, budget}) <= budget
      BY <2>1, SmallestOfThree
    <2> QED  BY <1>4, <2>2
  <1>6. Granted(c) \in Nat  BY <1>1, <1>3, <1>5
  <1> QED  BY <1>1, <1>2, <1>3, <1>5, <1>6

\* What an exchange holds.
LEMMA HeldTypes ==
    captures \in [Exchanges -> [Bodies -> Captured]] =>
        /\ Held \in [Exchanges -> Nat]
        /\ \A y \in Exchanges : Held[y] = Holds(y) /\ Holds(y) \in Nat
  <1> SUFFICES ASSUME captures \in [Exchanges -> [Bodies -> Captured]]
               PROVE  /\ Held \in [Exchanges -> Nat]
                      /\ \A y \in Exchanges : Held[y] = Holds(y) /\ Holds(y) \in Nat
    OBVIOUS
  <1>1. BodyLimit \in Nat  BY LimitsAssumption
  <1>2. \A x \in Exchanges : captures[x]["request"] \in Captured /\ captures[x]["response"] \in Captured
    BY DEF Bodies
  <1>3. \A x \in Exchanges : Holds(x) \in Nat
    BY <1>1, <1>2 DEF Holds, Captured
  <1> QED  BY <1>3 DEF Held

\* The same after a step.
LEMMA HeldTypesAfter ==
    (captures \in [Exchanges -> [Bodies -> Captured]])' =>
        (/\ Held \in [Exchanges -> Nat]
         /\ \A y \in Exchanges : Held[y] = Holds(y) /\ Holds(y) \in Nat)'
  BY HeldTypes, PTL

\* A chunk is captured as far as the limits allow, and is accounted for.
LEMMA CaptureEffect ==
    ASSUME ProxyTypes, Budget, NEW x \in Exchanges, NEW b \in Bodies, Capture(x, b),
           \A i \in Bodies : ~captures[x][i].released,
           Observed(captures[x][b]) + ChunkBytes <= MaxObserved
    PROVE  /\ captures' \in [Exchanges -> [Bodies -> Captured]]
           /\ manifest' \in [Exchanges -> Entries]
           /\ used' \in 0 .. BudgetLimit
           /\ Budget'
           /\ \A y \in Exchanges : y # x => captures'[y] = captures[y]
           /\ \A i \in Bodies : i # b => captures'[x][i] = captures[x][i]
           /\ captures'[x][b].released = FALSE
  <1> DEFINE c == captures[x][b]
             g == Granted(c)
             d == [retained |-> c.retained + g, dropped |-> c.dropped + ChunkBytes - g,
                   closed |-> c.closed \/ g < ChunkBytes, released |-> FALSE]
  <1>1. c \in Captured /\ used \in 0 .. BudgetLimit  BY DEF ProxyTypes
  <1>2. g \in 0 .. ChunkBytes /\ used + g \in 0 .. BudgetLimit /\ c.retained + g \in 0 .. BodyLimit
    BY <1>1, GrantFits
  <1>3. captures' = [captures EXCEPT ![x][b] = d] /\ used' = used + g
        /\ manifest' = [manifest EXCEPT ![x] = WithEntry(manifest[x])]
    BY DEF Capture, ProxyTypes
  <1> HIDE DEF g
  <1>4. d \in Captured
    <2>1. /\ ChunkBytes \in Nat /\ MaxObserved \in Nat /\ BodyLimit \in Nat  BY LimitsAssumption
    <2>2. c.retained \in Nat /\ c.dropped \in Nat /\ c.closed \in BOOLEAN
          /\ c.retained + c.dropped + ChunkBytes <= MaxObserved
      BY <1>1, <2>1 DEF Captured, Observed
    <2> HIDE DEF c
    <2>3. c.dropped + ChunkBytes - g \in 0 .. MaxObserved  BY <1>2, <2>1, <2>2
    <2>4. (c.closed \/ g < ChunkBytes) \in BOOLEAN  OBVIOUS
    <2> QED  BY <1>2, <2>3, <2>4 DEF Captured
  <1>5. d.retained = c.retained + g /\ d.released = FALSE  OBVIOUS
  <1> HIDE DEF d, c
  <1>6. /\ captures' \in [Exchanges -> [Bodies -> Captured]]
        /\ \A y \in Exchanges : y # x => captures'[y] = captures[y]
        /\ \A i \in Bodies : i # b => captures'[x][i] = captures[x][i]
        /\ captures'[x][b] = d
    BY <1>3, <1>4 DEF ProxyTypes
  <1>7. manifest' \in [Exchanges -> Entries]
    <2>1. manifest[x] \in Entries /\ ManifestLimit \in Nat  BY LimitsAssumption DEF ProxyTypes
    <2>2. WithEntry(manifest[x]) \in Entries  BY <2>1 DEF WithEntry, Entries
    <2> QED  BY <1>3, <2>2 DEF ProxyTypes
  <1>8. Budget'
    <2>1. Held \in [Exchanges -> Nat] /\ Held' \in [Exchanges -> Nat]
          /\ (\A y \in Exchanges : Held[y] = Holds(y)) /\ (\A y \in Exchanges : Held'[y] = Holds(y)')
      <3>1. captures \in [Exchanges -> [Bodies -> Captured]]  BY DEF ProxyTypes
      <3>2. (captures \in [Exchanges -> [Bodies -> Captured]])'  BY <1>6
      <3>3. (/\ Held \in [Exchanges -> Nat]
             /\ \A y \in Exchanges : Held[y] = Holds(y) /\ Holds(y) \in Nat)'
        BY <3>2, HeldTypesAfter
      <3> QED  BY <3>1, <3>3, HeldTypes
    <2>2. Held'[x] = Held[x] + g
      <3>1. captures[x]["request"] \in Captured /\ captures[x]["response"] \in Captured
        BY DEF ProxyTypes, Bodies
      <3>2. captures[x]["request"].retained \in Nat /\ captures[x]["response"].retained \in Nat /\ g \in Nat
        BY <1>2, <3>1, LimitsAssumption DEF Captured
      <3>3. ~captures[x]["request"].released  BY DEF Bodies
      <3>4. CASE b = "request"
        <4>1. captures'[x]["request"] = d /\ captures'[x]["response"] = captures[x]["response"]
          BY <1>6, <3>4 DEF Bodies
        <4>2. Held'[x] = d.retained + captures[x]["response"].retained
          BY <1>5, <2>1, <4>1 DEF Holds
        <4>3. Held[x] = captures[x]["request"].retained + captures[x]["response"].retained
          BY <2>1, <3>3 DEF Holds
        <4>4. d.retained = captures[x]["request"].retained + g  BY <1>5, <3>4 DEF c
        <4> QED  BY <3>2, <4>2, <4>3, <4>4
      <3>5. CASE b = "response"
        <4>1. captures'[x]["response"] = d /\ captures'[x]["request"] = captures[x]["request"]
          BY <1>6, <3>5 DEF Bodies
        <4>2. Held'[x] = captures[x]["request"].retained + d.retained
          BY <2>1, <3>3, <4>1 DEF Holds
        <4>3. Held[x] = captures[x]["request"].retained + captures[x]["response"].retained
          BY <2>1, <3>3 DEF Holds
        <4>4. d.retained = captures[x]["response"].retained + g  BY <1>5, <3>5 DEF c
        <4> QED  BY <3>2, <4>2, <4>3, <4>4
      <3> QED  BY <3>4, <3>5 DEF Bodies
    <2>3. \A y \in Exchanges \ {x} : Held'[y] = Held[y]
      BY <1>6, <2>1 DEF Holds
    <2>4. Held' = [Held EXCEPT ![x] = Held[x] + g]
      <3>1. Held = [y \in Exchanges |-> Held[y]] /\ Held' = [y \in Exchanges |-> Held'[y]]
        BY <2>1
      <3> QED  BY <2>1, <2>2, <2>3
    <2>5. g \in Nat  BY <1>2, LimitsAssumption
    <2>6. Sum([Held EXCEPT ![x] = Held[x] + g], Exchanges)[Exchanges]
            = Sum(Held, Exchanges)[Exchanges] + g
      BY <2>1, <2>5, ExchangesAssumption, SumAdd
    <2> QED  BY <1>3, <2>4, <2>6 DEF Budget
  <1> QED  BY <1>2, <1>3, <1>5, <1>6, <1>7, <1>8

\* What is released is what was held, and nothing is held of it any more.
LEMMA ReleaseEffect ==
    ASSUME ProxyTypes, Budget, NEW S \in SUBSET Exchanges, Release(S)
    PROVE  /\ captures' \in [Exchanges -> [Bodies -> Captured]]
           /\ used' \in 0 .. BudgetLimit
           /\ Budget'
           /\ \A x \in Exchanges : x \notin S => captures'[x] = captures[x]
           /\ \A x \in S : \A b \in Bodies :
                 /\ captures'[x][b].released
                 /\ captures'[x][b].retained = captures[x][b].retained
                 /\ captures'[x][b].dropped = captures[x][b].dropped
  <1> DEFINE freed(x) == [b \in Bodies |-> [captures[x][b] EXCEPT !.released = TRUE]]
  <1>1. captures' = [x \in Exchanges |-> IF x \in S THEN freed(x) ELSE captures[x]]
        /\ used' = used - MapThenSumSet(Holds, S)
    BY DEF Release
  <1>2. ASSUME NEW x \in S
        PROVE  /\ freed(x) \in [Bodies -> Captured]
               /\ \A b \in Bodies : /\ freed(x)[b].released
                                    /\ freed(x)[b].retained = captures[x][b].retained
                                    /\ freed(x)[b].dropped = captures[x][b].dropped
    <2>1. \A b \in Bodies : captures[x][b] \in Captured  BY DEF ProxyTypes
    <2> QED  BY <2>1 DEF Captured
  <1> HIDE DEF freed
  <1>3. captures' \in [Exchanges -> [Bodies -> Captured]]
    BY <1>1, <1>2 DEF ProxyTypes
  <1>4. /\ \A x \in Exchanges : x \notin S => captures'[x] = captures[x]
        /\ \A x \in S : captures'[x] = freed(x)
    BY <1>1
  <1>5. Held \in [Exchanges -> Nat] /\ Held' \in [Exchanges -> Nat]
        /\ (\A x \in Exchanges : Held[x] = Holds(x) /\ Holds(x) \in Nat)
        /\ (\A x \in Exchanges : Held'[x] = Holds(x)')
    <2>1. captures \in [Exchanges -> [Bodies -> Captured]]  BY DEF ProxyTypes
    <2>2. (captures \in [Exchanges -> [Bodies -> Captured]])'  BY <1>3
    <2>3. (/\ Held \in [Exchanges -> Nat]
           /\ \A y \in Exchanges : Held[y] = Holds(y) /\ Holds(y) \in Nat)'
      BY <2>2, HeldTypesAfter
    <2> QED  BY <2>1, <2>3, HeldTypes
  <1>6. \A x \in S : Held'[x] = 0
    BY <1>2, <1>4, <1>5 DEF Holds, Bodies
  <1>7. \A x \in Exchanges \ S : Held'[x] = Held[x]
    BY <1>4, <1>5 DEF Holds
  <1>8. Sum(Held, Exchanges)[Exchanges] = Sum(Held, Exchanges)[S] + Sum(Held', Exchanges)[Exchanges]
    BY <1>5, <1>6, <1>7, ExchangesAssumption, SumSplit
  <1>9. MapThenSumSet(Holds, S) = Sum(Held, Exchanges)[S]
    BY <1>5, ExchangesAssumption, HeldSum
  <1>10. Sum(Held, Exchanges)[S] \in Nat /\ Sum(Held', Exchanges)[Exchanges] \in Nat
    <2>1. Exchanges \in SUBSET Exchanges  OBVIOUS
    <2> QED  BY <1>5, <2>1, ExchangesAssumption, SumStep
  <1>11. used' = Sum(Held', Exchanges)[Exchanges]
    <2> DEFINE m == Sum(Held, Exchanges)[S]
               n == Sum(Held', Exchanges)[Exchanges]
    <2>1. used = m + n /\ used' = used - m /\ m \in Nat /\ n \in Nat
      BY <1>1, <1>8, <1>9, <1>10 DEF Budget
    <2> HIDE DEF m, n
    <2>2. used' = n  BY <2>1
    <2> QED  BY <2>2 DEF n
  <1>12. used' \in 0 .. BudgetLimit
    <2> DEFINE m == Sum(Held, Exchanges)[S]
               n == Sum(Held', Exchanges)[Exchanges]
    <2>1. used = m + n /\ used' = n /\ m \in Nat /\ n \in Nat
      BY <1>8, <1>10, <1>11 DEF Budget
    <2>2. used \in 0 .. BudgetLimit /\ BudgetLimit \in Nat
      BY LimitsAssumption DEF ProxyTypes
    <2> HIDE DEF m, n
    <2> QED  BY <2>1, <2>2
  <1>13. Budget'  BY <1>11 DEF Budget
  <1> QED  BY <1>2, <1>3, <1>4, <1>12, <1>13

-----------------------------------------------------------------------------
(* What keeps the invariant.                                               *)

\* A stream goes on: it does not begin again, and what the response of a terminal
\* exchange was is settled.
Follows(x) ==
    /\ upload'[x] = "none" <=> upload[x] = "none"
    /\ upload'[x] = "sending" => upload[x] = "sending"
    /\ download[x] = "none" => download'[x] = "none"
    /\ download'[x] \in {"waiting", "streaming", "ended"} =>
          download[x] \in {"waiting", "streaming", "ended"}
    /\ Terminal(x) =>
          /\ download'[x] \notin {"waiting", "streaming"}
          /\ HeadSeen(x) <=> HeadSeen(x)'
          /\ ResponseEnded(x) => ResponseEnded(x)'

StreamTypes == upload \in [Exchanges -> Uploads] /\ download \in [Exchanges -> Downloads]

\* A step of the streams and of the server alone keeps the invariant.
LEMMA StreamInv ==
    ASSUME ProxyInv,
           UNCHANGED <<captures, manifest, used, active, pending, journal, rows, requests,
                       settlement>>,
           StreamTypes', \A x \in Exchanges : Follows(x),
           proxy' \in Proxies, proxy' \in {"flushing", "closed"} => proxy' = proxy
    PROVE  ProxyInv'
  <1>1. ProxyTypes'  BY DEF ProxyInv, ProxyTypes, StreamTypes
  <1>2. Budget'
    <2>1. Held' = Held  BY DEF Held, Holds
    <2> QED  BY <2>1 DEF ProxyInv, Budget
  <1>3. Accounts'  BY DEF ProxyInv, Accounts
  <1>4. ASSUME NEW x \in Exchanges PROVE Lifecycle(x)' /\ Evidence(x)'
    <2>1. Lifecycle(x) /\ Evidence(x) /\ Follows(x)  BY DEF ProxyInv
    <2>2. Terminal(x)' <=> Terminal(x)  BY DEF Terminal
    <2>3. Lifecycle(x)'  BY <2>1, <2>2 DEF Lifecycle, Follows
    <2>4. journal[x].pc = "manifest" => Terminal(x)  BY DEF Terminal
    <2>5. Evidence(x)'  BY <2>1, <2>2, <2>4 DEF Evidence, Follows, Observed
    <2> QED  BY <2>3, <2>5
  <1>5. SettlementControl'
    BY DEF ProxyInv, SettlementControl, SettlementIsComplete, Terminal
  <1>6. CloseControl'
    BY DEF ProxyInv, CloseControl, ClosedMeansDrained
  <1> QED  BY <1>1, <1>2, <1>3, <1>4, <1>5, <1>6 DEF ProxyInv

\* The reference of a body that is not stored.
LEMMA NoRefIsInt == NoRef \in Int /\ \A n \in Nat : NoRef # n
  BY DEF NoRef

\* The journal of an exchange that is not terminal.
LEMMA NoJournalTyped == NoJournal \in Journals
  BY NoRefIsInt DEF NoJournal, Journals, Outcomes

\* What finish does: what was not terminal is, its copied request body included,
\* and is counted; what could not be begun holds nothing any more.
LEMMA FinishEffect ==
    ASSUME ProxyInv, NEW S \in SUBSET Exchanges, NEW outcome \in Outcomes,
           Finish(S, outcome), \A x \in S : ~Terminal(x) => x \in active
    PROVE  /\ captures' \in [Exchanges -> [Bodies -> Captured]] /\ used' \in 0 .. BudgetLimit
           /\ journal' \in [Exchanges -> Journals]
           /\ requests' \in [started : Nat, completed : Nat]
           /\ pending' \subseteq Exchanges
           /\ Budget' /\ Accounts'
           /\ active' = {x \in active : x \notin S}
           /\ \A x \in Exchanges : x \notin S \/ Terminal(x) =>
                 /\ captures'[x] = captures[x] /\ journal'[x] = journal[x]
                 /\ x \in pending' <=> x \in pending
           /\ \A x \in S : ~Terminal(x) =>
                 /\ journal'[x].pc \in {"request", "done"}
                 /\ x \in pending' <=> journal'[x].pc = "request"
                 /\ \A b \in Bodies :
                       /\ captures'[x][b].released <=> journal'[x].pc = "done"
                       /\ captures'[x][b].retained = captures[x][b].retained
                       /\ captures'[x][b].dropped = captures[x][b].dropped
  <1> DEFINE ending == {x \in S : ~Terminal(x)}
             recorded == {x \in ending : rows[x].state # "absent"}
             begun(x) == [NoJournal EXCEPT !.pc = "request", !.outcome = outcome,
                                           !.request = captures[x]["request"].retained]
             unbegun == [NoJournal EXCEPT !.pc = "done", !.outcome = outcome]
  <1>1. /\ active' = active \ ending
        /\ requests' = [requests EXCEPT !.completed = requests.completed + Cardinality(ending)]
        /\ pending' = pending \cup recorded
        /\ journal' = [x \in Exchanges |->
              IF x \notin ending THEN journal[x]
              ELSE IF x \notin recorded THEN unbegun ELSE begun(x)]
        /\ Release(ending \ recorded)
    BY DEF Finish, ProxyInv, ProxyTypes
  <1>2. ProxyTypes /\ Budget /\ Accounts /\ \A x \in Exchanges : Lifecycle(x)
    BY DEF ProxyInv
  <1>3. ending \subseteq active /\ recorded \subseteq ending /\ ending \subseteq S
        /\ ending \ recorded \in SUBSET Exchanges
    OBVIOUS
  <1>4. \A x \in Exchanges : begun(x) \in Journals /\ begun(x).pc = "request"
    <2> TAKE x \in Exchanges
    <2>1. captures[x]["request"] \in Captured /\ BodyLimit \in Nat
      BY <1>2, LimitsAssumption DEF ProxyTypes, Bodies
    <2>2. captures[x]["request"].retained \in Int  BY <2>1 DEF Captured
    <2> QED  BY <2>2, NoJournalTyped DEF Journals
  <1>5. unbegun \in Journals /\ unbegun.pc = "done"
    BY NoJournalTyped DEF Journals
  <1> HIDE DEF begun, unbegun
  <1>6. journal' \in [Exchanges -> Journals]
    BY <1>1, <1>2, <1>4, <1>5 DEF ProxyTypes
  <1>7. /\ \A x \in Exchanges : x \notin ending => journal'[x] = journal[x]
        /\ \A x \in ending : /\ x \in recorded => journal'[x].pc = "request"
                             /\ x \notin recorded => journal'[x].pc = "done"
    BY <1>1, <1>4, <1>5
  <1>8. /\ captures' \in [Exchanges -> [Bodies -> Captured]] /\ used' \in 0 .. BudgetLimit
        /\ Budget'
        /\ \A x \in Exchanges : x \notin ending \ recorded => captures'[x] = captures[x]
        /\ \A x \in ending \ recorded : \A b \in Bodies :
              /\ captures'[x][b].released
              /\ captures'[x][b].retained = captures[x][b].retained
              /\ captures'[x][b].dropped = captures[x][b].dropped
    <2> HIDE DEF ending, recorded
    <2> QED  BY <1>1, <1>2, <1>3, ReleaseEffect
  <1>9. \A x \in ending : x \notin pending /\ \A b \in Bodies : captures[x][b].released = FALSE
    <2> TAKE x \in ending
    <2>1. Lifecycle(x) /\ ~Terminal(x)  BY <1>2
    <2>2. \A b \in Bodies : captures[x][b].released \in BOOLEAN
      BY <1>2 DEF ProxyTypes, Captured
    <2> QED  BY <2>1, <2>2 DEF Lifecycle, Terminal
  <1>10. Accounts' /\ requests' \in [started : Nat, completed : Nat]
    <2>1. IsFiniteSet(active)  BY <1>2, FS_Subset, ExchangesAssumption DEF ProxyTypes
    <2>2. active \cap ending = ending /\ ending \in SUBSET active  BY <1>3
    <2>3. Cardinality(active \ ending) = Cardinality(active) - Cardinality(ending)
      BY <2>1, <2>2, FS_Difference
    <2>4. Cardinality(active) \in Nat /\ Cardinality(ending) \in Nat
      BY <2>1, <2>2, FS_CardinalityType, FS_Subset
    <2> HIDE DEF ending, recorded
    <2>5. requests'.started = requests.started
          /\ requests'.completed = requests.completed + Cardinality(ending)
          /\ requests' \in [started : Nat, completed : Nat]
      BY <1>1, <1>2, <2>4 DEF ProxyTypes
    <2>6. requests.started \in Nat /\ requests.completed \in Nat  BY <1>2 DEF ProxyTypes
    <2> QED  BY <1>1, <1>2, <2>3, <2>4, <2>5, <2>6 DEF Accounts
  <1>11. \A x \in Exchanges : x \notin S \/ Terminal(x) =>
                 /\ captures'[x] = captures[x] /\ journal'[x] = journal[x]
                 /\ x \in pending' <=> x \in pending
    BY <1>1, <1>7, <1>8
  <1>12. ASSUME NEW x \in S, ~Terminal(x)
         PROVE  /\ journal'[x].pc \in {"request", "done"}
                /\ x \in pending' <=> journal'[x].pc = "request"
                /\ \A b \in Bodies :
                      /\ captures'[x][b].released <=> journal'[x].pc = "done"
                      /\ captures'[x][b].retained = captures[x][b].retained
                      /\ captures'[x][b].dropped = captures[x][b].dropped
    <2>1. x \in ending  BY <1>12
    <2>2. CASE x \in recorded
      <3>1. journal'[x].pc = "request" /\ x \in pending' /\ captures'[x] = captures[x]
        BY <1>1, <1>7, <1>8, <2>2
      <3> QED  BY <1>9, <2>1, <3>1
    <2>3. CASE x \notin recorded
      <3>1. journal'[x].pc = "done" /\ x \notin pending'
        BY <1>1, <1>7, <1>9, <2>1, <2>3
      <3> QED  BY <1>8, <2>1, <2>3, <3>1
    <2> QED  BY <2>2, <2>3
  <1>13. active' = {x \in active : x \notin S}
    BY <1>1, <1>2 DEF Lifecycle, ProxyTypes
  <1>14. pending' \subseteq Exchanges  BY <1>1, <1>2 DEF ProxyTypes
  <1> HIDE DEF ending, recorded
  <1> QED  BY <1>6, <1>8, <1>10, <1>11, <1>12, <1>13, <1>14

\* Whatever ends exchanges keeps the invariant, if their responses end with them.
LEMMA FinishInv ==
    ASSUME ProxyInv, NEW S \in SUBSET Exchanges, NEW outcome \in Outcomes,
           Finish(S, outcome), \A x \in S : ~Terminal(x) => x \in active,
           UNCHANGED <<manifest, rows>>,
           StreamTypes', \A x \in Exchanges : Follows(x),
           \A x \in S : download'[x] \notin {"waiting", "streaming"},
           proxy' \in Proxies, proxy' # "closed", proxy' = "flushing" => active \subseteq S,
           settlement' \in [pc : {"none", "waiting", "done"}, begun : SUBSET Exchanges],
           \/ settlement' = settlement
           \/ settlement'.pc = "waiting" /\ \A x \in settlement'.begun : x \in S \/ Terminal(x)
    PROVE  ProxyInv'
  <1>1. /\ captures' \in [Exchanges -> [Bodies -> Captured]] /\ used' \in 0 .. BudgetLimit
        /\ journal' \in [Exchanges -> Journals]
        /\ requests' \in [started : Nat, completed : Nat]
        /\ pending' \subseteq Exchanges
        /\ Budget' /\ Accounts'
        /\ active' = {x \in active : x \notin S}
        /\ \A x \in Exchanges : x \notin S \/ Terminal(x) =>
              /\ captures'[x] = captures[x] /\ journal'[x] = journal[x]
              /\ x \in pending' <=> x \in pending
        /\ \A x \in S : ~Terminal(x) =>
              /\ journal'[x].pc \in {"request", "done"}
              /\ x \in pending' <=> journal'[x].pc = "request"
              /\ \A b \in Bodies :
                    /\ captures'[x][b].released <=> journal'[x].pc = "done"
                    /\ captures'[x][b].retained = captures[x][b].retained
                    /\ captures'[x][b].dropped = captures[x][b].dropped
    BY FinishEffect
  <1>2. ProxyTypes'  BY <1>1 DEF ProxyInv, ProxyTypes, StreamTypes
  <1>3. ASSUME NEW x \in Exchanges PROVE Lifecycle(x)' /\ Evidence(x)'
    <2>1. Lifecycle(x) /\ Evidence(x) /\ Follows(x)  BY DEF ProxyInv
    <2>2. CASE x \notin S \/ Terminal(x)
      <3>1. captures'[x] = captures[x] /\ journal'[x] = journal[x] /\ (x \in pending' <=> x \in pending)
            /\ (Terminal(x)' <=> Terminal(x)) /\ rows'[x] = rows[x]
            /\ (x \in active' <=> x \in active)
        BY <1>1, <2>1, <2>2 DEF Terminal, Lifecycle
      <3>2. Lifecycle(x)'  BY <2>1, <3>1 DEF Lifecycle, Follows
      <3>3. journal[x].pc = "manifest" => Terminal(x)  BY DEF Terminal
      <3>4. Evidence(x)'  BY <2>1, <3>1, <3>3 DEF Evidence, Follows, Observed
      <3> QED  BY <3>2, <3>4
    <2>3. CASE x \in S /\ ~Terminal(x)
      <3>1. /\ journal'[x].pc \in {"request", "done"} /\ Terminal(x)' /\ x \notin active'
            /\ x \in pending' <=> journal'[x].pc = "request"
            /\ \A b \in Bodies : captures'[x][b].released <=> journal'[x].pc = "done"
            /\ rows'[x] = rows[x] /\ upload'[x] # "none" /\ rows[x].state # "complete"
            /\ download'[x] \notin {"waiting", "streaming"}
        BY <1>1, <2>1, <2>3 DEF Terminal, Lifecycle, Evidence, Follows
      <3>2. Lifecycle(x)'  BY <3>1 DEF Lifecycle
      <3>3. Evidence(x)'  BY <3>1 DEF Evidence
      <3> QED  BY <3>2, <3>3
    <2> QED  BY <2>2, <2>3
  <1>4. \A x \in Exchanges : /\ Terminal(x) \/ x \in S => Terminal(x)'
                             /\ Terminal(x) => journal'[x] = journal[x]
    BY <1>1 DEF Terminal
  <1>5. SettlementControl'
    <2>1. settlement.begun \subseteq Exchanges /\ settlement'.begun \subseteq Exchanges
      BY DEF ProxyInv, ProxyTypes
    <2>2. SettlementControl  BY DEF ProxyInv
    <2>3. settlement'.pc # "none" => \A x \in settlement'.begun : Terminal(x)'
      BY <1>4, <2>1, <2>2 DEF SettlementControl
    <2>4. SettlementIsComplete'
      BY <1>4, <2>1, <2>2 DEF SettlementControl, SettlementIsComplete
    <2> QED  BY <2>3, <2>4 DEF SettlementControl
  <1>6. CloseControl'
    <2>1. proxy' = "flushing" => active' = {}  BY <1>1
    <2> QED  BY <2>1 DEF CloseControl, ClosedMeansDrained
  <1> QED  BY <1>1, <1>2, <1>3, <1>5, <1>6 DEF ProxyInv

-----------------------------------------------------------------------------
(* The steps of the traffic.                                               *)

\* The facts every step starts from.
LEMMA Typed ==
    ProxyInv =>
        /\ ProxyTypes /\ Budget /\ Accounts /\ SettlementControl /\ CloseControl
        /\ \A x \in Exchanges : Lifecycle(x) /\ Evidence(x)
        /\ \A x \in Exchanges :
              /\ upload[x] \in Uploads /\ download[x] \in Downloads /\ journal[x] \in Journals
              /\ rows[x] \in Rows /\ manifest[x] \in Entries
              /\ \A b \in Bodies : captures[x][b] \in Captured
  BY DEF ProxyInv, ProxyTypes

\* A stream that stays as it is goes on.
LEMMA Stays ==
    ProxyInv => \A x \in Exchanges : upload'[x] = upload[x] /\ download'[x] = download[x] => Follows(x)
  BY DEF ProxyInv, Follows, Lifecycle, HeadSeen, ResponseEnded

\* A destroyed stream goes on, and its response is over.
LEMMA StopEffect ==
    ASSUME ProxyInv, NEW S \in SUBSET Exchanges, Stop(S)
    PROVE  /\ StreamTypes' /\ \A x \in Exchanges : Follows(x)
           /\ \A x \in S : download'[x] \notin {"waiting", "streaming"}
  <1>1. ASSUME NEW x \in Exchanges
        PROVE  /\ upload'[x] = IF x \in S /\ upload[x] = "sending" THEN "stopped" ELSE upload[x]
               /\ x \notin S => download'[x] = download[x]
               /\ x \in S /\ download[x] = "waiting" => download'[x] = "failed"
               /\ x \in S /\ download[x] = "streaming" => download'[x] = "cut"
               /\ x \in S /\ download[x] \notin {"waiting", "streaming"} => download'[x] = download[x]
    BY DEF Stop
  <1>2. ASSUME NEW x \in Exchanges
        PROVE  upload'[x] \in Uploads /\ download'[x] \in Downloads
    BY <1>1, Typed DEF Uploads, Downloads
  <1>3. StreamTypes'
    <2>1. /\ upload' = [x \in Exchanges |-> upload'[x]]
          /\ download' = [x \in Exchanges |-> download'[x]]
      BY DEF Stop
    <2> QED  BY <1>2, <2>1 DEF StreamTypes
  <1>4. ASSUME NEW x \in Exchanges PROVE Follows(x)
    <2>1. Lifecycle(x)  BY Typed
    <2> QED  BY <1>1, <2>1 DEF Follows, Lifecycle, HeadSeen, ResponseEnded
  <1>5. \A x \in S : download'[x] \notin {"waiting", "streaming"}
    BY <1>1
  <1> QED  BY <1>3, <1>4, <1>5

\* The end of the request, the head and the end of the response.
LEMMA StreamSteps ==
    ASSUME NEW x \in Exchanges
    PROVE  ProxyInv /\ (RequestEnd(x) \/ ResponseHead(x) \/ ResponseEnd(x)) => ProxyInv'
  <1> SUFFICES ASSUME ProxyInv, RequestEnd(x) \/ ResponseHead(x) \/ ResponseEnd(x)
               PROVE  ProxyInv'
    OBVIOUS
  <1>1. UNCHANGED <<proxy, captures, manifest, used, active, pending, journal, rows, requests,
                    settlement>>
    BY DEF RequestEnd, ResponseHead, ResponseEnd
  <1>2. StreamTypes'
    BY Typed DEF RequestEnd, ResponseHead, ResponseEnd, ProxyTypes, StreamTypes, Uploads, Downloads
  <1>3. ASSUME NEW y \in Exchanges PROVE Follows(y)
    <2>1. CASE y # x
      <3>1. upload'[y] = upload[y] /\ download'[y] = download[y]
        BY <2>1, Typed DEF RequestEnd, ResponseHead, ResponseEnd, ProxyTypes
      <3> QED  BY <3>1, Stays
    <2>2. CASE y = x
      <3>1. \/ upload[x] = "sending" /\ upload'[x] = "ended" /\ download'[x] = download[x]
            \/ download[x] = "waiting" /\ download'[x] = "streaming" /\ upload'[x] = upload[x]
            \/ download[x] = "streaming" /\ download'[x] = "ended" /\ upload'[x] = upload[x]
        BY Typed DEF RequestEnd, ResponseHead, ResponseEnd, ProxyTypes
      <3>2. Lifecycle(x)  BY Typed
      <3> QED  BY <2>2, <3>1, <3>2 DEF Follows, Lifecycle, HeadSeen, ResponseEnded
    <2> QED  BY <2>1, <2>2
  <1>4. proxy \in Proxies  BY Typed DEF ProxyTypes
  <1> QED  BY <1>1, <1>2, <1>3, <1>4, StreamInv

\* What ends an exchange with both of its streams.
LEMMA SettleSteps ==
    ASSUME NEW x \in Exchanges
    PROVE  ProxyInv /\ (ClientAborts(x) \/ UpstreamBreaks(x)) => ProxyInv'
  <1> SUFFICES ASSUME ProxyInv, ClientAborts(x) \/ UpstreamBreaks(x) PROVE ProxyInv'
    OBVIOUS
  <1>1. PICK outcome \in Outcomes : Finish({x}, outcome) /\ Stop({x})
    BY DEF ClientAborts, UpstreamBreaks, Settle, Outcomes
  <1>2. /\ UNCHANGED <<proxy, manifest, rows, settlement>> /\ proxy # "closed"
        /\ upload[x] = "sending" \/ download[x] \in {"waiting", "streaming"}
    BY DEF ClientAborts, UpstreamBreaks, Serving
  <1>3. ~Terminal(x) => x \in active  BY <1>2, Typed DEF Lifecycle
  <1>4. proxy \in Proxies /\ settlement \in [pc : {"none", "waiting", "done"}, begun : SUBSET Exchanges]
        /\ (proxy = "flushing" => active = {})
    BY Typed DEF ProxyTypes, CloseControl
  <1>5. {x} \in SUBSET Exchanges  OBVIOUS
  <1>6. /\ StreamTypes' /\ \A y \in Exchanges : Follows(y)
        /\ \A y \in {x} : download'[y] \notin {"waiting", "streaming"}
    BY <1>1, <1>5, StopEffect
  <1> QED  BY <1>1, <1>2, <1>3, <1>4, <1>5, <1>6, FinishInv

\* What ends an exchange and leaves its request to flow.
LEMMA FinishSteps ==
    ASSUME NEW x \in Exchanges
    PROVE  ProxyInv /\ (ResponseFinish(x) \/ UpstreamFails(x) \/ UpstreamResets(x)) => ProxyInv'
  <1> SUFFICES ASSUME ProxyInv, ResponseFinish(x) \/ UpstreamFails(x) \/ UpstreamResets(x)
               PROVE  ProxyInv'
    OBVIOUS
  <1>1. PICK outcome \in Outcomes : Finish({x}, outcome)
    BY DEF ResponseFinish, UpstreamFails, UpstreamResets, Outcomes
  <1>2. /\ UNCHANGED <<proxy, upload, manifest, rows, settlement>> /\ proxy # "closed"
        /\ \/ download[x] = "ended" /\ download' = [download EXCEPT ![x] = "flushed"]
           \/ download[x] = "waiting" /\ download' = [download EXCEPT ![x] = "failed"]
           \/ download[x] = "ended" /\ download' = [download EXCEPT ![x] = "lost"]
           \/ download[x] = "streaming" /\ download' = [download EXCEPT ![x] = "cut"]
    BY DEF ResponseFinish, UpstreamFails, UpstreamResets, Serving
  <1>3. ~Terminal(x) => x \in active  BY <1>2, Typed DEF Lifecycle
  <1>4. proxy \in Proxies /\ settlement \in [pc : {"none", "waiting", "done"}, begun : SUBSET Exchanges]
        /\ (proxy = "flushing" => active = {})
    BY Typed DEF ProxyTypes, CloseControl
  <1>5. {x} \in SUBSET Exchanges  OBVIOUS
  <1>6. StreamTypes'
    BY <1>2, Typed DEF ProxyTypes, StreamTypes, Downloads
  <1>7. ASSUME NEW y \in Exchanges PROVE Follows(y)
    <2>1. CASE y # x
      <3>1. upload'[y] = upload[y] /\ download'[y] = download[y]
        BY <1>2, <2>1, Typed DEF ProxyTypes
      <3> QED  BY <3>1, Stays
    <2>2. CASE y = x
      <3>1. /\ upload'[x] = upload[x]
            /\ \/ download[x] = "ended" /\ download'[x] \in {"flushed", "lost"}
               \/ download[x] = "waiting" /\ download'[x] = "failed"
               \/ download[x] = "streaming" /\ download'[x] = "cut"
        BY <1>2, Typed DEF ProxyTypes
      <3>2. Lifecycle(x)  BY Typed
      <3> QED  BY <2>2, <3>1, <3>2 DEF Follows, Lifecycle, HeadSeen, ResponseEnded
    <2> QED  BY <2>1, <2>2
  <1>8. \A y \in {x} : download'[y] \notin {"waiting", "streaming"}
    BY <1>2, Typed DEF ProxyTypes
  <1> QED  BY <1>1, <1>2, <1>3, <1>4, <1>5, <1>6, <1>7, <1>8, FinishInv

\* A connection that is reset while the response is flushed.
LEMMA ClientResetsStep ==
    ASSUME NEW x \in Exchanges PROVE ProxyInv /\ ClientResets(x) => ProxyInv'
  <1> SUFFICES ASSUME ProxyInv, ClientResets(x) PROVE ProxyInv'  OBVIOUS
  <1>1. /\ UNCHANGED <<proxy, manifest, rows, settlement>> /\ proxy # "closed"
        /\ download[x] = "ended" /\ download' = [download EXCEPT ![x] = "lost"]
        /\ upload' = [upload EXCEPT ![x] = IF upload[x] = "sending" THEN "stopped" ELSE upload[x]]
    BY Typed DEF ClientResets, Serving, ProxyTypes
  <1>2. StreamTypes'
    BY <1>1, Typed DEF ProxyTypes, StreamTypes, Downloads, Uploads
  <1>3. ASSUME NEW y \in Exchanges PROVE Follows(y)
    <2>1. CASE y # x
      <3>1. upload'[y] = upload[y] /\ download'[y] = download[y]
        BY <1>1, <2>1, Typed DEF ProxyTypes
      <3> QED  BY <3>1, Stays
    <2>2. CASE y = x
      <3>1. /\ upload'[x] = IF upload[x] = "sending" THEN "stopped" ELSE upload[x]
            /\ download[x] = "ended" /\ download'[x] = "lost"
        BY <1>1, Typed DEF ProxyTypes
      <3>2. Lifecycle(x)  BY Typed
      <3> QED  BY <2>2, <3>1, <3>2 DEF Follows, Lifecycle, HeadSeen, ResponseEnded
    <2> QED  BY <2>1, <2>2
  <1>4. proxy \in Proxies /\ settlement \in [pc : {"none", "waiting", "done"}, begun : SUBSET Exchanges]
        /\ (proxy = "flushing" => active = {})
    BY Typed DEF ProxyTypes, CloseControl
  <1>5. CASE Finish({x}, "client-disconnected")
    <2>1. ~Terminal(x) => x \in active  BY <1>1, Typed DEF Lifecycle
    <2>2. {x} \in SUBSET Exchanges /\ "client-disconnected" \in Outcomes  BY DEF Outcomes
    <2>3. \A y \in {x} : download'[y] \notin {"waiting", "streaming"}
      BY <1>1, Typed DEF ProxyTypes
    <2> QED  BY <1>1, <1>2, <1>3, <1>4, <1>5, <2>1, <2>2, <2>3, FinishInv
  <1>6. CASE UNCHANGED <<captures, used, active, pending, journal, requests>>
    BY <1>1, <1>2, <1>3, <1>4, <1>6, StreamInv
  <1> QED  BY <1>5, <1>6 DEF ClientResets

\* An exchange begins, recorded or not.
LEMMA BeginStep ==
    ASSUME NEW x \in Exchanges PROVE ProxyInv /\ Begin(x) => ProxyInv'
  <1> SUFFICES ASSUME ProxyInv, Begin(x) PROVE ProxyInv'  OBVIOUS
  <1>1. /\ proxy \in {"listening", "closing"} /\ upload[x] = "none"
        /\ active' = active \cup {x}
        /\ upload' = [upload EXCEPT ![x] = "sending"]
        /\ download' = [download EXCEPT ![x] = "waiting"]
        /\ requests' = [requests EXCEPT !.started = requests.started + 1]
        /\ UNCHANGED <<proxy, captures, manifest, used, pending, journal, settlement>>
    BY Typed DEF Begin, ProxyTypes
  <1>2. PICK r \in {Begun, NoRow} : rows' = [rows EXCEPT ![x] = r]
    BY DEF Begin
  <1>3. r \in Rows /\ r.state # "complete"
    <2>1. NoRow \in Rows /\ NoRow.state = "absent"
      BY NoRefIsInt DEF NoRow, Rows, Outcomes
    <2>2. Begun \in Rows /\ Begun.state = "recording"
      BY <2>1 DEF Begun, Rows, Outcomes
    <2> QED  BY <2>1, <2>2
  <1>4. /\ Lifecycle(x) /\ ~Terminal(x) /\ x \notin active /\ x \notin pending
        /\ \A b \in Bodies : captures[x][b].released = FALSE
    <2>1. Lifecycle(x)  BY Typed
    <2>2. \A b \in Bodies : captures[x][b].released \in BOOLEAN  BY Typed DEF Captured
    <2> QED  BY <1>1, <2>1, <2>2 DEF Lifecycle, Terminal
  <1>5. ProxyTypes'
    <2>1. requests' \in [started : Nat, completed : Nat]  BY <1>1, Typed DEF ProxyTypes
    <2>2. rows' \in [Exchanges -> Rows]  BY <1>2, <1>3, Typed DEF ProxyTypes
    <2> QED  BY <1>1, <2>1, <2>2, Typed DEF ProxyTypes, Uploads, Downloads
  <1>6. Budget'
    <2>1. Held' = Held  BY <1>1 DEF Held, Holds
    <2> QED  BY <1>1, <2>1, Typed DEF Budget
  <1>7. Accounts'
    <2>1. IsFiniteSet(active)  BY FS_Subset, ExchangesAssumption, Typed DEF ProxyTypes
    <2>2. Cardinality(active') = Cardinality(active) + 1
      BY <1>1, <1>4, <2>1, FS_AddElement
    <2>3. Cardinality(active) \in Nat  BY <2>1, FS_CardinalityType
    <2>4. requests'.started = requests.started + 1 /\ requests'.completed = requests.completed
          /\ requests.started \in Nat /\ requests.completed \in Nat
      BY <1>1, Typed DEF ProxyTypes
    <2> QED  BY <2>2, <2>3, <2>4, Typed DEF Accounts
  <1>8. ASSUME NEW y \in Exchanges PROVE Lifecycle(y)' /\ Evidence(y)'
    <2>1. Lifecycle(y) /\ Evidence(y) /\ (Terminal(y)' <=> Terminal(y))
      BY <1>1, Typed DEF Terminal
    <2>2. CASE y # x
      <3>1. upload'[y] = upload[y] /\ download'[y] = download[y] /\ rows'[y] = rows[y]
            /\ (y \in active' <=> y \in active)
        BY <1>1, <1>2, <2>2, Typed DEF ProxyTypes
      <3>2. Lifecycle(y)'  BY <1>1, <2>1, <3>1 DEF Lifecycle
      <3>3. Evidence(y)'
        BY <1>1, <2>1, <3>1 DEF Evidence, HeadSeen, ResponseEnded, Observed
      <3> QED  BY <3>2, <3>3
    <2>3. CASE y = x
      <3>1. upload'[x] = "sending" /\ download'[x] = "waiting" /\ rows'[x] = r /\ x \in active'
        BY <1>1, <1>2, Typed DEF ProxyTypes
      <3>2. Lifecycle(x)'  BY <1>1, <1>4, <2>1, <2>3, <3>1 DEF Lifecycle
      <3>3. Evidence(x)'
        BY <1>1, <1>3, <1>4, <2>1, <2>3, <3>1 DEF Evidence, Terminal
      <3> QED  BY <2>3, <3>2, <3>3
    <2> QED  BY <2>2, <2>3
  <1>9. SettlementControl'
    BY <1>1, Typed DEF SettlementControl, SettlementIsComplete, Terminal
  <1>10. CloseControl'  BY <1>1 DEF CloseControl, ClosedMeansDrained
  <1> QED  BY <1>5, <1>6, <1>7, <1>8, <1>9, <1>10 DEF ProxyInv

\* A refused request is started and completed at once.
LEMMA RefuseStep ==
    ASSUME NEW x \in Exchanges PROVE ProxyInv /\ Refuse(x) => ProxyInv'
  <1> SUFFICES ASSUME ProxyInv, Refuse(x) PROVE ProxyInv'  OBVIOUS
  <1>1. /\ proxy \in {"listening", "closing"} /\ upload[x] = "none"
        /\ upload' = [upload EXCEPT ![x] = "stopped"]
        /\ download' = [download EXCEPT ![x] = "failed"]
        /\ requests' = [started |-> requests.started + 1, completed |-> requests.completed + 1]
        /\ UNCHANGED <<proxy, captures, manifest, used, active, pending, journal, rows, settlement>>
    BY DEF Refuse
  <1>2. ProxyTypes'
    <2>1. requests' \in [started : Nat, completed : Nat]  BY <1>1, Typed DEF ProxyTypes
    <2> QED  BY <1>1, <2>1, Typed DEF ProxyTypes, Uploads, Downloads
  <1>3. Budget'
    <2>1. Held' = Held  BY <1>1 DEF Held, Holds
    <2> QED  BY <1>1, <2>1, Typed DEF Budget
  <1>4. Accounts'
    <2>1. IsFiniteSet(active)  BY FS_Subset, ExchangesAssumption, Typed DEF ProxyTypes
    <2>2. Cardinality(active) \in Nat  BY <2>1, FS_CardinalityType
    <2>3. requests'.started = requests.started + 1 /\ requests'.completed = requests.completed + 1
          /\ requests.started \in Nat /\ requests.completed \in Nat
      BY <1>1, Typed DEF ProxyTypes
    <2> QED  BY <1>1, <2>2, <2>3, Typed DEF Accounts
  <1>5. ASSUME NEW y \in Exchanges PROVE Lifecycle(y)' /\ Evidence(y)'
    <2>1. Lifecycle(y) /\ Evidence(y) /\ (Terminal(y)' <=> Terminal(y))
      BY <1>1, Typed DEF Terminal
    <2>2. CASE y # x
      <3>1. upload'[y] = upload[y] /\ download'[y] = download[y]
        BY <1>1, <2>2, Typed DEF ProxyTypes
      <3>2. Lifecycle(y)'  BY <1>1, <2>1, <3>1 DEF Lifecycle
      <3>3. Evidence(y)'
        BY <1>1, <2>1, <3>1 DEF Evidence, HeadSeen, ResponseEnded, Observed
      <3> QED  BY <3>2, <3>3
    <2>3. CASE y = x
      <3>1. upload'[x] = "stopped" /\ download'[x] = "failed"
        BY <1>1, Typed DEF ProxyTypes
      <3>2. rows[x].state = "absent" /\ ~Terminal(x) /\ x \notin active
        BY <1>1, <2>1, <2>3 DEF Lifecycle
      <3>3. Lifecycle(x)'  BY <1>1, <2>1, <2>3, <3>1, <3>2 DEF Lifecycle
      <3>4. Evidence(x)'  BY <1>1, <3>1, <3>2 DEF Evidence, Terminal
      <3> QED  BY <2>3, <3>3, <3>4
    <2> QED  BY <2>2, <2>3
  <1>6. SettlementControl'
    BY <1>1, Typed DEF SettlementControl, SettlementIsComplete, Terminal
  <1>7. CloseControl'  BY <1>1 DEF CloseControl, ClosedMeansDrained
  <1> QED  BY <1>2, <1>3, <1>4, <1>5, <1>6, <1>7 DEF ProxyInv

\* A chunk is captured, or ends the process; it never belongs to a response that
\* is over, nor to an exchange that was released.
LEMMA ChunkSteps ==
    ASSUME NEW x \in Exchanges
    PROVE  ProxyInv /\ (RequestChunk(x) \/ ResponseChunk(x)) => ProxyInv'
  <1> SUFFICES ASSUME ProxyInv, RequestChunk(x) \/ ResponseChunk(x) PROVE ProxyInv'
    OBVIOUS
  <1>1. PICK b \in Bodies :
           /\ b = "request" => upload[x] = "sending"
           /\ b = "response" => download[x] = "streaming"
           /\ Observed(captures[x][b]) + ChunkBytes <= MaxObserved
           /\ \/ proxy' = "crashed" /\ UNCHANGED <<captures, used, manifest>>
              \/ ~captures[x][b].released /\ Capture(x, b) /\ UNCHANGED proxy
    BY DEF RequestChunk, ResponseChunk, Bodies
  <1>2. UNCHANGED <<upload, download, active, pending, journal, rows, requests, settlement>>
        /\ proxy # "closed"
    BY DEF RequestChunk, ResponseChunk, Serving
  <1>3. StreamTypes' /\ \A y \in Exchanges : Follows(y)
    <2>1. StreamTypes'  BY <1>2, Typed DEF ProxyTypes, StreamTypes
    <2> QED  BY <1>2, <2>1, Stays
  <1>4. CASE proxy' = "crashed" /\ UNCHANGED <<captures, used, manifest>>
    BY <1>2, <1>3, <1>4, StreamInv DEF Proxies
  <1>5. CASE ~captures[x][b].released /\ Capture(x, b) /\ UNCHANGED proxy
    <2>1. Lifecycle(x)  BY Typed
    <2>2. \A i \in Bodies : ~captures[x][i].released
      BY <1>5, <2>1 DEF Lifecycle
    <2>3. /\ captures' \in [Exchanges -> [Bodies -> Captured]]
          /\ manifest' \in [Exchanges -> Entries]
          /\ used' \in 0 .. BudgetLimit
          /\ Budget'
          /\ \A y \in Exchanges : y # x => captures'[y] = captures[y]
          /\ \A i \in Bodies : i # b => captures'[x][i] = captures[x][i]
          /\ captures'[x][b].released = FALSE
      BY <1>1, <1>5, <2>2, Typed, CaptureEffect
    <2>4. ProxyTypes'  BY <1>2, <1>5, <2>3, Typed DEF ProxyTypes
    <2>5. Accounts'  BY <1>2, Typed DEF Accounts
    <2>6. ASSUME NEW y \in Exchanges PROVE Lifecycle(y)' /\ Evidence(y)'
      <3>1. Lifecycle(y) /\ Evidence(y) /\ (Terminal(y)' <=> Terminal(y))
        BY <1>2, Typed DEF Terminal
      <3>2. CASE y # x
        <4>1. captures'[y] = captures[y]  BY <2>3, <3>2
        <4>2. Lifecycle(y)'  BY <1>2, <3>1, <4>1 DEF Lifecycle
        <4>3. Evidence(y)'
          BY <1>2, <3>1, <4>1 DEF Evidence, HeadSeen, ResponseEnded, Observed
        <4> QED  BY <4>2, <4>3
      <3>3. CASE y = x
        <4>1. Terminal(x) \/ x \in active  BY <1>1, <2>1 DEF Lifecycle, Bodies
        <4>2. \A i \in Bodies : captures'[x][i].released <=> captures[x][i].released
          BY <2>2, <2>3
        <4>3. Lifecycle(x)'  BY <1>2, <2>1, <3>1, <3>3, <4>1, <4>2 DEF Lifecycle
        <4>4. Evidence(x)'
          <5>1. CASE b = "request"
            <6>1. captures'[x]["response"] = captures[x]["response"]
              BY <2>3, <5>1 DEF Bodies
            <6> QED  BY <1>2, <3>1, <3>3, <6>1 DEF Evidence, HeadSeen, ResponseEnded, Observed
          <5>2. CASE b = "response"
            <6>1. ~Terminal(x) /\ rows[x].state # "complete"
              BY <1>1, <2>1, <3>1, <3>3, <5>2 DEF Lifecycle, Evidence
            <6> QED  BY <1>2, <6>1 DEF Evidence, Terminal
          <5> QED  BY <5>1, <5>2 DEF Bodies
        <4> QED  BY <3>3, <4>3, <4>4
      <3> QED  BY <3>2, <3>3
    <2>7. SettlementControl'
      BY <1>2, Typed DEF SettlementControl, SettlementIsComplete, Terminal
    <2>8. CloseControl'  BY <1>2, <1>5, Typed DEF CloseControl, ClosedMeansDrained
    <2> QED  BY <2>3, <2>4, <2>5, <2>6, <2>7, <2>8 DEF ProxyInv
  <1> QED  BY <1>1, <1>4, <1>5

-----------------------------------------------------------------------------
(* The steps of the journals.                                              *)

\* A journal that goes on, and the row it writes, keep the invariant if the evidence
\* is what the captures hold.
LEMMA JournalInv ==
    ASSUME ProxyInv, NEW x \in Exchanges, NEW j \in Journals, NEW r \in Rows,
           journal[x].pc \in {"request", "response", "manifest"},
           j.pc \in {"response", "manifest", "normalize"},
           journal' = [journal EXCEPT ![x] = j], rows' = [rows EXCEPT ![x] = r],
           Evidence(x)', proxy # "closed",
           UNCHANGED <<proxy, upload, download, captures, manifest, used, active, pending,
                       requests, settlement>>
    PROVE  ProxyInv'
  <1>1. ProxyTypes'  BY Typed DEF ProxyTypes
  <1>2. Budget'
    <2>1. Held' = Held  BY DEF Held, Holds
    <2> QED  BY <2>1, Typed DEF Budget
  <1>3. Accounts'  BY Typed DEF Accounts
  <1>4. journal'[x] = j /\ Terminal(x) /\ Terminal(x)'
    BY Typed DEF ProxyTypes, Terminal
  <1>5. ASSUME NEW y \in Exchanges PROVE Lifecycle(y)' /\ Evidence(y)' /\ (Terminal(y)' <=> Terminal(y))
    <2>1. Lifecycle(y) /\ Evidence(y)  BY Typed
    <2>2. CASE y # x
      <3>1. journal'[y] = journal[y] /\ rows'[y] = rows[y]
        BY <2>2, Typed DEF ProxyTypes
      <3>2. Terminal(y)' <=> Terminal(y)  BY <3>1 DEF Terminal
      <3>3. Lifecycle(y)'  BY <2>1, <3>1, <3>2 DEF Lifecycle
      <3>4. Evidence(y)'
        BY <2>1, <3>1, <3>2 DEF Evidence, HeadSeen, ResponseEnded, Observed
      <3> QED  BY <3>2, <3>3, <3>4
    <2>3. CASE y = x
      <3>1. Lifecycle(x)'  BY <1>4, <2>1, <2>3 DEF Lifecycle
      <3> QED  BY <1>4, <2>3, <3>1
    <2> QED  BY <2>2, <2>3
  <1>6. SettlementControl'
    <2>1. settlement.begun \subseteq Exchanges  BY Typed DEF ProxyTypes
    <2>2. settlement.pc # "none" => \A y \in settlement.begun : Terminal(y)'
      BY <1>5, <2>1, Typed DEF SettlementControl
    <2>3. SettlementIsComplete'
      <3>1. \A y \in settlement.begun : settlement.pc = "done" => journal[y].pc = "done"
        BY Typed DEF SettlementControl, SettlementIsComplete
      <3>2. \A y \in settlement.begun : y # x => journal'[y] = journal[y]
        BY <2>1, Typed DEF ProxyTypes
      <3> QED  BY <3>1, <3>2 DEF SettlementIsComplete
    <2> QED  BY <2>2, <2>3 DEF SettlementControl
  <1>7. CloseControl'  BY Typed DEF CloseControl, ClosedMeansDrained
  <1> QED  BY <1>1, <1>2, <1>3, <1>5, <1>6, <1>7 DEF ProxyInv

\* The request body is stored, and the response body is copied.
LEMMA PutRequestStep ==
    ASSUME NEW x \in Exchanges PROVE ProxyInv /\ PutRequest(x) => ProxyInv'
  <1> SUFFICES ASSUME ProxyInv, PutRequest(x) PROVE ProxyInv'  OBVIOUS
  <1>1. PICK stored \in PutAnswers :
          journal' = [journal EXCEPT ![x] =
              [journal[x] EXCEPT !.pc = IF HeadSeen(x) THEN "response" ELSE "manifest",
                        !.failed = ~stored,
                        !.request = IF stored THEN journal[x].request ELSE NoRef,
                        !.response = IF HeadSeen(x) THEN captures[x]["response"].retained
                                     ELSE NoRef]]
    BY DEF PutRequest
  <1> DEFINE pc == IF HeadSeen(x) THEN "response" ELSE "manifest"
             failed == ~stored
             request == IF stored THEN journal[x].request ELSE NoRef
             response == IF HeadSeen(x) THEN captures[x]["response"].retained ELSE NoRef
             j == [journal[x] EXCEPT !.pc = pc, !.failed = failed, !.request = request,
                                     !.response = response]
  <1>2. journal[x] \in Journals /\ journal[x].pc = "request" /\ rows[x] \in Rows
    BY Typed DEF PutRequest
  <1>3. captures[x]["response"].retained \in Int
    <2>1. captures[x]["response"] \in Captured /\ BodyLimit \in Nat
      BY Typed, LimitsAssumption DEF Bodies
    <2> QED  BY <2>1 DEF Captured
  <1>4. /\ pc \in {"response", "manifest"} /\ failed \in BOOLEAN
        /\ request \in Int /\ response \in Int
        /\ HeadSeen(x) => pc = "response" /\ response = captures[x]["response"].retained
        /\ ~HeadSeen(x) => pc = "manifest"
    BY <1>2, <1>3, NoRefIsInt DEF Journals
  <1>5. journal' = [journal EXCEPT ![x] = j]  BY <1>1
  <1> HIDE DEF pc, failed, request, response
  <1>6. j \in Journals /\ j.pc = pc /\ j.response = response
    BY <1>2, <1>4 DEF Journals
  <1> HIDE DEF j
  <1>7. UNCHANGED <<proxy, upload, download, captures, manifest, used, active, pending, rows,
                    requests, settlement>> /\ proxy # "closed"
    BY DEF PutRequest, Serving
  <1>8. rows' = [rows EXCEPT ![x] = rows[x]]  BY <1>7, Typed DEF ProxyTypes
  <1>9. Evidence(x)'
    <2>1. journal'[x] = j /\ (HeadSeen(x)' <=> HeadSeen(x))
      BY <1>5, <1>7, Typed DEF ProxyTypes, HeadSeen, ResponseEnded
    <2>2. Evidence(x) /\ Terminal(x)'  BY <1>4, <1>6, <2>1, Typed DEF Terminal
    <2> QED
      BY <1>4, <1>6, <1>7, <2>1, <2>2 DEF Evidence, HeadSeen, ResponseEnded, Observed
  <1> QED  BY <1>2, <1>4, <1>5, <1>6, <1>7, <1>8, <1>9, JournalInv

\* The response body is stored or lost.
LEMMA PutResponseStep ==
    ASSUME NEW x \in Exchanges PROVE ProxyInv /\ PutResponse(x) => ProxyInv'
  <1> SUFFICES ASSUME ProxyInv, PutResponse(x) PROVE ProxyInv'  OBVIOUS
  <1>1. PICK stored \in PutAnswers :
          journal' = [journal EXCEPT ![x] =
              [journal[x] EXCEPT !.pc = "manifest",
                        !.failed = journal[x].failed \/ ~stored,
                        !.response = IF stored THEN journal[x].response ELSE NoRef]]
    BY DEF PutResponse
  <1> DEFINE failed == journal[x].failed \/ ~stored
             response == IF stored THEN journal[x].response ELSE NoRef
             j == [journal[x] EXCEPT !.pc = "manifest", !.failed = failed, !.response = response]
  <1>2. journal[x] \in Journals /\ journal[x].pc = "response" /\ rows[x] \in Rows
    BY Typed DEF PutResponse
  <1>3. Evidence(x)  BY Typed
  <1>4. /\ failed \in BOOLEAN /\ response \in Int
        /\ failed \/ response = captures[x]["response"].retained
    BY <1>2, <1>3, NoRefIsInt DEF Journals, Evidence
  <1>5. journal' = [journal EXCEPT ![x] = j]  BY <1>1
  <1> HIDE DEF failed, response
  <1>6. j \in Journals /\ j.pc = "manifest" /\ j.response = response /\ j.failed = failed
    BY <1>2, <1>4 DEF Journals
  <1> HIDE DEF j
  <1>7. UNCHANGED <<proxy, upload, download, captures, manifest, used, active, pending, rows,
                    requests, settlement>> /\ proxy # "closed"
    BY DEF PutResponse, Serving
  <1>8. rows' = [rows EXCEPT ![x] = rows[x]]  BY <1>7, Typed DEF ProxyTypes
  <1>9. Evidence(x)'
    <2>1. journal'[x] = j  BY <1>5, Typed DEF ProxyTypes
    <2>2. Terminal(x)'  BY <1>6, <2>1 DEF Terminal
    <2> QED
      BY <1>3, <1>4, <1>6, <1>7, <2>1, <2>2 DEF Evidence, HeadSeen, ResponseEnded, Observed
  <1> QED  BY <1>2, <1>5, <1>6, <1>7, <1>8, <1>9, JournalInv

\* The row is finalized: it is not marked incomplete only if nothing was dropped and
\* the response body was stored.
LEMMA FinalizeStep ==
    ASSUME NEW x \in Exchanges PROVE ProxyInv /\ FinalizeExchange(x) => ProxyInv'
  <1> SUFFICES ASSUME ProxyInv, FinalizeExchange(x) PROVE ProxyInv'  OBVIOUS
  <1>1. PICK stored \in PutAnswers :
          LET incomplete == \/ journal[x].failed \/ ~stored
                            \/ manifest[x].dropped > 0
                            \/ DroppedRequest(x) > 0
                            \/ DroppedResponse(x) > 0 IN
          rows' = [rows EXCEPT ![x] =
              [state |-> "complete",
               outcome |-> IF incomplete THEN "capture-incomplete" ELSE journal[x].outcome,
               requestComplete |-> upload[x] = "ended" /\ DroppedRequest(x) = 0,
               responseComplete |-> ResponseEnded(x) /\ DroppedResponse(x) = 0,
               request |-> journal[x].request,
               response |-> journal[x].response]]
    BY DEF FinalizeExchange
  <1> DEFINE incomplete == \/ journal[x].failed \/ ~stored
                           \/ manifest[x].dropped > 0
                           \/ DroppedRequest(x) > 0
                           \/ DroppedResponse(x) > 0
             outcome == IF incomplete THEN "capture-incomplete" ELSE journal[x].outcome
             requestComplete == upload[x] = "ended" /\ DroppedRequest(x) = 0
             responseComplete == ResponseEnded(x) /\ DroppedResponse(x) = 0
             r == [state |-> "complete", outcome |-> outcome,
                   requestComplete |-> requestComplete, responseComplete |-> responseComplete,
                   request |-> journal[x].request, response |-> journal[x].response]
             j == [journal[x] EXCEPT !.pc = "normalize"]
  <1>2. rows' = [rows EXCEPT ![x] = r]  BY <1>1
  <1>3. journal[x] \in Journals /\ journal[x].pc = "manifest" /\ journal' = [journal EXCEPT ![x] = j]
    BY Typed DEF FinalizeExchange, ProxyTypes
  <1>4. outcome \in Outcomes /\ requestComplete \in BOOLEAN /\ responseComplete \in BOOLEAN
    BY <1>3 DEF Journals, Outcomes
  <1>5. /\ outcome # "capture-incomplete" => ~journal[x].failed /\ ~(DroppedResponse(x) > 0)
        /\ responseComplete => ResponseEnded(x)
    OBVIOUS
  <1> HIDE DEF incomplete, outcome, requestComplete, responseComplete
  <1>6. r \in Rows /\ r.outcome = outcome /\ r.responseComplete = responseComplete
        /\ r.response = journal[x].response
    BY <1>3, <1>4 DEF Rows, Journals
  <1>7. j \in Journals /\ j.pc = "normalize"  BY <1>3 DEF Journals
  <1> HIDE DEF r, j
  <1>8. UNCHANGED <<proxy, upload, download, captures, manifest, used, active, pending,
                    requests, settlement>> /\ proxy # "closed"
    BY DEF FinalizeExchange, Serving
  <1>9. Evidence(x)'
    <2>1. /\ journal'[x] = j /\ rows'[x] = r /\ captures'[x] = captures[x]
          /\ HeadSeen(x)' <=> HeadSeen(x)
          /\ ResponseEnded(x)' <=> ResponseEnded(x)
      BY <1>2, <1>3, <1>8, Typed DEF ProxyTypes, HeadSeen, ResponseEnded
    <2>2. Terminal(x)'  BY <1>7, <2>1 DEF Terminal
    <2>3. ASSUME outcome # "capture-incomplete", HeadSeen(x)
          PROVE  journal[x].response = Observed(captures[x]["response"])
      <3> DEFINE c == captures[x]["response"]
      <3>1. Evidence(x) /\ c \in Captured /\ BodyLimit \in Nat /\ MaxObserved \in Nat
        BY Typed, LimitsAssumption DEF Bodies
      <3>2. journal[x].response = c.retained  BY <1>3, <1>5, <2>3, <3>1 DEF Evidence
      <3>3. c.retained \in Nat /\ c.dropped \in Nat  BY <3>1 DEF Captured
      <3>4. journal[x].response # NoRef  BY <3>2, <3>3, NoRefIsInt
      <3>5. DroppedResponse(x) = c.dropped + 0  BY <3>4 DEF DroppedResponse
      <3> HIDE DEF c
      <3>6. c.dropped = 0  BY <1>5, <2>3, <3>3, <3>5
      <3>7. journal[x].response = Observed(c)  BY <3>2, <3>3, <3>6 DEF Observed
      <3> QED  BY <3>7 DEF c
    <2>4. Observed(captures[x]["response"])' = Observed(captures[x]["response"])
      BY <2>1 DEF Observed
    <2> QED  BY <1>5, <1>6, <1>7, <2>1, <2>2, <2>3, <2>4 DEF Evidence
  <1> QED  BY <1>2, <1>3, <1>6, <1>7, <1>8, <1>9, JournalInv

\* The journal ends: its captures are released, and it is no longer pending.
LEMMA EndJournalStep ==
    ASSUME NEW x \in Exchanges PROVE ProxyInv /\ EndJournal(x) => ProxyInv'
  <1> SUFFICES ASSUME ProxyInv, EndJournal(x) PROVE ProxyInv'  OBVIOUS
  <1> DEFINE j == [NoJournal EXCEPT !.pc = "done", !.outcome = journal[x].outcome]
  <1>1. /\ journal[x].pc \in {"manifest", "normalize"}
        /\ journal' = [journal EXCEPT ![x] = j]
        /\ pending' = pending \ {x} /\ Release({x}) /\ proxy # "closed"
        /\ UNCHANGED <<proxy, upload, download, manifest, active, rows, requests, settlement>>
    BY DEF EndJournal, Serving
  <1>2. j \in Journals /\ j.pc = "done"
    BY NoJournalTyped, Typed DEF Journals
  <1> HIDE DEF j
  <1>3. ProxyTypes /\ Budget /\ {x} \in SUBSET Exchanges  BY Typed
  <1>4. /\ captures' \in [Exchanges -> [Bodies -> Captured]]
        /\ used' \in 0 .. BudgetLimit
        /\ Budget'
        /\ \A y \in Exchanges : y \notin {x} => captures'[y] = captures[y]
        /\ \A y \in {x} : \A b \in Bodies :
              /\ captures'[y][b].released
              /\ captures'[y][b].retained = captures[y][b].retained
              /\ captures'[y][b].dropped = captures[y][b].dropped
    BY <1>1, <1>3, ReleaseEffect
  <1>5. ProxyTypes'  BY <1>1, <1>2, <1>3, <1>4 DEF ProxyTypes
  <1>6. Accounts'  BY <1>1, Typed DEF Accounts
  <1>7. journal'[x] = j /\ Terminal(x) /\ Terminal(x)'
    BY <1>1, <1>2, <1>3 DEF ProxyTypes, Terminal
  <1>8. ASSUME NEW y \in Exchanges
        PROVE  /\ Lifecycle(y)' /\ Evidence(y)' /\ (Terminal(y)' <=> Terminal(y))
               /\ journal[y].pc = "done" => journal'[y].pc = "done"
    <2>1. Lifecycle(y) /\ Evidence(y)  BY Typed
    <2>2. CASE y # x
      <3>1. journal'[y] = journal[y] /\ captures'[y] = captures[y] /\ (y \in pending' <=> y \in pending)
        BY <1>1, <1>3, <1>4, <2>2 DEF ProxyTypes
      <3>2. Terminal(y)' <=> Terminal(y)  BY <3>1 DEF Terminal
      <3>3. Lifecycle(y)'  BY <1>1, <2>1, <3>1, <3>2 DEF Lifecycle
      <3>4. Evidence(y)'
        BY <1>1, <2>1, <3>1, <3>2 DEF Evidence, HeadSeen, ResponseEnded, Observed
      <3> QED  BY <3>1, <3>2, <3>3, <3>4
    <2>3. CASE y = x
      <3>1. /\ \A b \in Bodies : captures'[x][b].released
            /\ Observed(captures[x]["response"])' = Observed(captures[x]["response"])
        BY <1>4 DEF Bodies, Observed
      <3>2. Lifecycle(x)'  BY <1>1, <1>2, <1>7, <2>1, <2>3, <3>1 DEF Lifecycle
      <3>3. Evidence(x)'
        BY <1>1, <1>2, <1>7, <2>1, <2>3, <3>1 DEF Evidence, HeadSeen, ResponseEnded
      <3> QED  BY <1>2, <1>7, <2>3, <3>2, <3>3
    <2> QED  BY <2>2, <2>3
  <1>9. SettlementControl'
    <2>1. settlement.begun \subseteq Exchanges  BY Typed DEF ProxyTypes
    <2> QED  BY <1>1, <1>8, <2>1, Typed DEF SettlementControl, SettlementIsComplete
  <1>10. CloseControl'  BY <1>1, Typed DEF CloseControl, ClosedMeansDrained
  <1> QED  BY <1>4, <1>5, <1>6, <1>8, <1>9, <1>10 DEF ProxyInv

-----------------------------------------------------------------------------
(* The steps of the server.                                                *)

\* settleSession ends what is active of the session and waits for the rest.
LEMMA SettleSessionStep == ProxyInv /\ SettleSession => ProxyInv'
  <1> SUFFICES ASSUME ProxyInv, SettleSession PROVE ProxyInv'  OBVIOUS
  <1> DEFINE inSession == {x \in InSession : rows[x].state # "absent"}
             S == active \cap inSession
  <1>1. /\ proxy = "listening" /\ UNCHANGED <<proxy, manifest, rows>>
        /\ Finish(S, "client-disconnected") /\ Stop(S)
        /\ settlement' = [pc |-> "waiting", begun |-> inSession]
    BY DEF SettleSession, Settle
  <1>2. inSession \subseteq Exchanges /\ S \in SUBSET Exchanges /\ S \subseteq active
    BY InSessionAssumption
  <1>3. ASSUME NEW x \in inSession PROVE x \in S \/ Terminal(x)
    <2>1. Lifecycle(x) /\ rows[x].state # "absent"  BY <1>2, Typed
    <2> QED  BY <2>1 DEF Lifecycle
  <1> HIDE DEF inSession, S
  <1>4. settlement' \in [pc : {"none", "waiting", "done"}, begun : SUBSET Exchanges]
        /\ settlement'.pc = "waiting" /\ settlement'.begun = inSession
    BY <1>1, <1>2
  <1>5. /\ StreamTypes' /\ \A x \in Exchanges : Follows(x)
        /\ \A x \in S : download'[x] \notin {"waiting", "streaming"}
    BY <1>1, <1>2, StopEffect
  <1>6. proxy' \in Proxies /\ proxy' # "closed" /\ proxy' # "flushing"
        /\ "client-disconnected" \in Outcomes
    BY <1>1 DEF Proxies, Outcomes
  <1> QED  BY <1>1, <1>2, <1>3, <1>4, <1>5, <1>6, FinishInv

\* settleSession answers when no journal is pending: then those it ended are done.
LEMMA SettlementReturnsStep == ProxyInv /\ SettlementReturns => ProxyInv'
  <1> SUFFICES ASSUME ProxyInv, SettlementReturns PROVE ProxyInv'  OBVIOUS
  <1>1. /\ proxy # "closed" /\ settlement.pc = "waiting" /\ pending = {}
        /\ settlement' = [settlement EXCEPT !.pc = "done"]
        /\ UNCHANGED <<proxy, upload, download, captures, manifest, used, active, pending,
                       journal, rows, requests>>
    BY DEF SettlementReturns, Serving
  <1>2. settlement' \in [pc : {"none", "waiting", "done"}, begun : SUBSET Exchanges]
        /\ settlement'.begun = settlement.begun /\ settlement.begun \subseteq Exchanges
    BY <1>1, Typed DEF ProxyTypes
  <1>3. ProxyTypes'  BY <1>1, <1>2, Typed DEF ProxyTypes
  <1>4. Budget'
    <2>1. Held' = Held  BY <1>1 DEF Held, Holds
    <2> QED  BY <1>1, <2>1, Typed DEF Budget
  <1>5. Accounts'  BY <1>1, Typed DEF Accounts
  <1>6. ASSUME NEW x \in Exchanges PROVE Lifecycle(x)' /\ Evidence(x)'
    <2>1. Lifecycle(x) /\ Evidence(x)  BY Typed
    <2>2. Lifecycle(x)'  BY <1>1, <2>1 DEF Lifecycle, Terminal
    <2>3. Evidence(x)'
      BY <1>1, <2>1 DEF Evidence, Terminal, HeadSeen, ResponseEnded, Observed
    <2> QED  BY <2>2, <2>3
  <1>7. SettlementControl'
    <2>1. ASSUME NEW x \in settlement.begun PROVE Terminal(x) /\ journal[x].pc = "done"
      <3>1. Terminal(x) /\ Lifecycle(x) /\ journal[x] \in Journals
        BY <1>1, <1>2, Typed DEF SettlementControl
      <3> QED  BY <1>1, <3>1 DEF Lifecycle, Terminal, Journals
    <2> QED  BY <1>1, <1>2, <2>1 DEF SettlementControl, SettlementIsComplete, Terminal
  <1>8. CloseControl'  BY <1>1, Typed DEF CloseControl, ClosedMeansDrained
  <1> QED  BY <1>3, <1>4, <1>5, <1>6, <1>7, <1>8 DEF ProxyInv

\* close stops the server from accepting.
LEMMA CloseStep == ProxyInv /\ Close => ProxyInv'
  <1> SUFFICES ASSUME ProxyInv, Close PROVE ProxyInv'  OBVIOUS
  <1>1. /\ proxy' = "closing"
        /\ UNCHANGED <<upload, download, captures, manifest, used, active, pending, journal,
                       rows, requests, settlement>>
    BY DEF Close
  <1>2. StreamTypes' /\ \A x \in Exchanges : Follows(x)
    <2>1. StreamTypes'  BY <1>1, Typed DEF ProxyTypes, StreamTypes
    <2> QED  BY <1>1, <2>1, Stays
  <1> QED  BY <1>1, <1>2, StreamInv DEF Proxies

\* The end of the grace period, and of the last connection, end what is active.
LEMMA CutSteps == ProxyInv /\ (GraceExpires \/ ConnectionsClosed) => ProxyInv'
  <1> SUFFICES ASSUME ProxyInv, GraceExpires \/ ConnectionsClosed PROVE ProxyInv'  OBVIOUS
  <1>1. PICK S \in SUBSET Exchanges :
           /\ active \subseteq S /\ Finish(active, "client-disconnected") /\ Stop(S)
           /\ proxy' \in {"cut", "flushing"} /\ UNCHANGED <<manifest, rows, settlement>>
    <2>1. active \in SUBSET Exchanges  BY Typed DEF ProxyTypes
    <2> QED  BY <2>1 DEF GraceExpires, ConnectionsClosed, Settle
  <1>2. active \in SUBSET Exchanges /\ "client-disconnected" \in Outcomes
        /\ proxy' \in Proxies /\ proxy' # "closed"
    BY <1>1, Typed DEF ProxyTypes, Outcomes, Proxies
  <1>3. /\ StreamTypes' /\ \A x \in Exchanges : Follows(x)
        /\ \A x \in S : download'[x] \notin {"waiting", "streaming"}
    BY <1>1, StopEffect
  <1>4. settlement' \in [pc : {"none", "waiting", "done"}, begun : SUBSET Exchanges]
    BY <1>1, Typed DEF ProxyTypes
  <1> QED  BY <1>1, <1>2, <1>3, <1>4, FinishInv

\* close returns: nothing is active or pending, so nothing is held.
LEMMA FlushReturnsStep == ProxyInv /\ FlushReturns => ProxyInv'
  <1> SUFFICES ASSUME ProxyInv, FlushReturns PROVE ProxyInv'  OBVIOUS
  <1>1. /\ proxy = "flushing" /\ pending = {} /\ proxy' = "closed"
        /\ UNCHANGED <<upload, download, captures, manifest, used, active, pending, journal,
                       rows, requests, settlement>>
    BY DEF FlushReturns
  <1>2. ProxyTypes'  BY <1>1, Typed DEF ProxyTypes, Proxies
  <1>3. Budget'
    <2>1. Held' = Held  BY <1>1 DEF Held, Holds
    <2> QED  BY <1>1, <2>1, Typed DEF Budget
  <1>4. Accounts'  BY <1>1, Typed DEF Accounts
  <1>5. ASSUME NEW x \in Exchanges PROVE Lifecycle(x)' /\ Evidence(x)'
    <2>1. Lifecycle(x) /\ Evidence(x)  BY Typed
    <2>2. Lifecycle(x)'  BY <1>1, <2>1 DEF Lifecycle, Terminal
    <2>3. Evidence(x)'
      BY <1>1, <2>1 DEF Evidence, Terminal, HeadSeen, ResponseEnded, Observed
    <2> QED  BY <2>2, <2>3
  <1>6. SettlementControl'
    BY <1>1, Typed DEF SettlementControl, SettlementIsComplete, Terminal
  <1>7. active = {}  BY <1>1, Typed DEF CloseControl
  <1>8. ASSUME NEW x \in Exchanges
        PROVE  Holds(x) = 0 /\ (rows[x].state # "absent" => journal[x].pc = "done")
    <2>1. Lifecycle(x) /\ journal[x] \in Journals  BY Typed
    <2>2. CASE Terminal(x)
      <3>1. journal[x].pc = "done"
        BY <1>1, <2>1, <2>2 DEF Lifecycle, Terminal, Journals
      <3>2. captures[x]["request"].released  BY <2>1, <3>1 DEF Lifecycle, Bodies
      <3> QED  BY <3>1, <3>2 DEF Holds
    <2>3. CASE ~Terminal(x)
      <3>1. /\ rows[x].state = "absent"
            /\ captures[x]["request"].retained = 0 /\ captures[x]["response"].retained = 0
        BY <1>7, <2>1, <2>3 DEF Lifecycle, Bodies
      <3> QED  BY <3>1 DEF Holds
    <2> QED  BY <2>2, <2>3
  <1>9. used = 0
    <2>1. Held \in [Exchanges -> Nat] /\ \A x \in Exchanges : Held[x] = 0
      <3>1. captures \in [Exchanges -> [Bodies -> Captured]]  BY Typed DEF ProxyTypes
      <3>2. Held \in [Exchanges -> Nat] /\ \A x \in Exchanges : Held[x] = Holds(x)
        BY <3>1, HeldTypes
      <3> QED  BY <1>8, <3>2
    <2>2. Sum(Held, Exchanges)[Exchanges] = 0
      BY <2>1, ExchangesAssumption, SumOfNothing
    <2> QED  BY <2>2, Typed DEF Budget
  <1>10. requests.started = requests.completed
    <2>1. Cardinality(active) = 0  BY <1>7, FS_EmptySet
    <2>2. requests.completed \in Nat  BY Typed DEF ProxyTypes
    <2> QED  BY <2>1, <2>2, Typed DEF Accounts
  <1>11. CloseControl'
    BY <1>1, <1>7, <1>8, <1>9, <1>10 DEF CloseControl, ClosedMeansDrained
  <1> QED  BY <1>2, <1>3, <1>4, <1>5, <1>6, <1>11 DEF ProxyInv

\* A step that changes nothing.
LEMMA StutterStep == ProxyInv /\ UNCHANGED vars => ProxyInv'
  <1> SUFFICES ASSUME ProxyInv, UNCHANGED vars PROVE ProxyInv'  OBVIOUS
  <1>1. UNCHANGED <<proxy, upload, download, captures, manifest, used, active, pending,
                    journal, rows, requests, settlement>>
    BY DEF vars
  <1>2. StreamTypes' /\ proxy' \in Proxies
    BY <1>1, Typed DEF ProxyTypes, StreamTypes
  <1>3. \A x \in Exchanges : Follows(x)  BY <1>1, Stays
  <1> QED  BY <1>1, <1>2, <1>3, StreamInv

-----------------------------------------------------------------------------
(* The invariant, and what follows from it.                                *)

\* Nothing has happened yet.
LEMMA InitProxyInv == Init => ProxyInv
  <1> SUFFICES ASSUME Init PROVE ProxyInv  OBVIOUS
  <1>1. BodyLimit \in Nat /\ BudgetLimit \in Nat /\ ManifestLimit \in Nat /\ MaxObserved \in Nat
    BY LimitsAssumption
  <1>2. EmptyCapture \in Captured  BY <1>1 DEF EmptyCapture, Captured
  <1>3. NoRow \in Rows /\ NoRow.state = "absent"
    BY NoRefIsInt DEF NoRow, Rows, Outcomes
  <1>4. NoJournal \in Journals /\ NoJournal.pc = "none"
    BY NoJournalTyped DEF NoJournal
  <1>5. \A x \in Exchanges : /\ upload[x] = "none" /\ download[x] = "none"
                             /\ rows[x] = NoRow /\ journal[x] = NoJournal
                             /\ \A b \in Bodies : captures[x][b] = EmptyCapture
    BY DEF Init
  <1>6. ProxyTypes
    <2>1. captures \in [Exchanges -> [Bodies -> Captured]]  BY <1>2 DEF Init
    <2>2. manifest \in [Exchanges -> Entries]  BY <1>1 DEF Init, Entries
    <2>3. journal \in [Exchanges -> Journals] /\ rows \in [Exchanges -> Rows]
      BY <1>3, <1>4 DEF Init
    <2>4. settlement \in [pc : {"none", "waiting", "done"}, begun : SUBSET Exchanges]
          /\ requests \in [started : Nat, completed : Nat]
      BY DEF Init
    <2> QED
      BY <1>1, <2>1, <2>2, <2>3, <2>4 DEF Init, ProxyTypes, Proxies, Uploads, Downloads
  <1>7. Budget
    <2>1. \A x \in Exchanges : Holds(x) = 0
      BY <1>5 DEF Holds, EmptyCapture, Bodies
    <2>2. Held \in [Exchanges -> Nat] /\ \A x \in Exchanges : Held[x] = 0
      BY <2>1 DEF Held
    <2> QED  BY <2>2, ExchangesAssumption, SumOfNothing DEF Init, Budget
  <1>8. Accounts  BY FS_EmptySet DEF Init, Accounts
  <1>9. ASSUME NEW x \in Exchanges PROVE Lifecycle(x) /\ Evidence(x)
    <2>1. ~Terminal(x) /\ x \notin active /\ x \notin pending
      BY <1>4, <1>5 DEF Init, Terminal
    <2>2. \A b \in Bodies : captures[x][b].released = FALSE /\ captures[x][b].retained = 0
      BY <1>5 DEF EmptyCapture
    <2>3. Lifecycle(x)  BY <1>3, <1>4, <1>5, <2>1, <2>2 DEF Lifecycle
    <2>4. Evidence(x)  BY <1>3, <1>4, <1>5 DEF Evidence
    <2> QED  BY <2>3, <2>4
  <1>10. SettlementControl  BY DEF Init, SettlementControl, SettlementIsComplete
  <1>11. CloseControl  BY DEF Init, CloseControl, ClosedMeansDrained
  <1> QED  BY <1>6, <1>7, <1>8, <1>9, <1>10, <1>11 DEF ProxyInv

\* Every step keeps the invariant.
LEMMA StepProxyInv == ProxyInv /\ [Next]_vars => ProxyInv'
  <1> SUFFICES ASSUME ProxyInv, [Next]_vars PROVE ProxyInv'  OBVIOUS
  <1>1. ASSUME NEW x \in Exchanges, Traffic(x) PROVE ProxyInv'
    BY <1>1, BeginStep, RefuseStep, ChunkSteps, StreamSteps, SettleSteps, FinishSteps,
       ClientResetsStep DEF Traffic
  <1>2. ASSUME NEW x \in Exchanges, Journal(x) PROVE ProxyInv'
    BY <1>2, PutRequestStep, PutResponseStep, FinalizeStep, EndJournalStep DEF Journal
  <1>3. CASE SettleSession  BY <1>3, SettleSessionStep
  <1>4. CASE SettlementReturns  BY <1>4, SettlementReturnsStep
  <1>5. CASE Close  BY <1>5, CloseStep
  <1>6. CASE GraceExpires \/ ConnectionsClosed  BY <1>6, CutSteps
  <1>7. CASE FlushReturns  BY <1>7, FlushReturnsStep
  <1>8. CASE UNCHANGED vars  BY <1>8, StutterStep
  <1> QED  BY <1>1, <1>2, <1>3, <1>4, <1>5, <1>6, <1>7, <1>8 DEF Next

\* The invariant of the proxy holds in every state of every behaviour.
THEOREM ProxyInvHolds == Spec => []ProxyInv
  BY InitProxyInv, StepProxyInv, PTL DEF Spec

\* The streams, the captures, the journals and the rows have their types: what is
\* retained and dropped of a body, and of a manifest, stays within its limit.
THEOREM ExchangesAreTyped == Spec => []TypeOK
  <1>1. ProxyInv => TypeOK
    BY DEF ProxyInv, ProxyTypes, TypeOK, Proxies, Uploads, Downloads, Captured, Entries,
           Journals, Rows
  <1> QED  BY <1>1, ProxyInvHolds, PTL

\* The capture memory the proxy counts is what its unreleased captures hold, and stays
\* within the budget, whatever ends an exchange and how often.
THEOREM CaptureMemoryIsExact == Spec => []BudgetIsExact
  <1>1. ProxyInv => BudgetIsExact
    <2> SUFFICES ASSUME ProxyInv PROVE BudgetIsExact  OBVIOUS
    <2>1. captures \in [Exchanges -> [Bodies -> Captured]] /\ used \in 0 .. BudgetLimit
      BY DEF ProxyInv, ProxyTypes
    <2>2. \A x \in Exchanges : Holds(x) \in Nat  BY <2>1, HeldTypes
    <2>3. Exchanges \in SUBSET Exchanges  OBVIOUS
    <2>4. MapThenSumSet(Holds, Exchanges) = Sum(Held, Exchanges)[Exchanges]
      BY <2>2, <2>3, ExchangesAssumption, HeldSum
    <2>5. used <= BudgetLimit  BY <2>1, LimitsAssumption
    <2> QED  BY <2>4, <2>5 DEF ProxyInv, Budget, BudgetIsExact
  <1> QED  BY <1>1, ProxyInvHolds, PTL

\* A finalized row that is not marked capture-incomplete has every byte of the response
\* that reached the proxy, whatever the limits are and whenever the exchange ended.
THEOREM StoredResponsesAreWhole == Spec => []ResponseIsWhole
  <1>1. ProxyInv => ResponseIsWhole
    BY DEF ProxyInv, Evidence, ResponseIsWhole
  <1> QED  BY <1>1, ProxyInvHolds, PTL

\* When settleSession answers, the exchanges of the session have their final journals.
THEOREM SettledSessionsAreWritten == Spec => []SettlementIsComplete
  <1>1. ProxyInv => SettlementIsComplete  BY DEF ProxyInv, SettlementControl
  <1> QED  BY <1>1, ProxyInvHolds, PTL

\* When close returns, no exchange is open, no journal pending and no memory held.
THEOREM ClosedProxiesAreDrained == Spec => []ClosedMeansDrained
  <1>1. ProxyInv => ClosedMeansDrained  BY DEF ProxyInv, CloseControl
  <1> QED  BY <1>1, ProxyInvHolds, PTL

\* The event that ends an exchange first decides its outcome.
THEOREM TheFirstOutcomeStands == Spec => FirstOutcomeStands
  <1> DEFINE Stands(x) == /\ journal'[x].outcome = journal[x].outcome
                          /\ journal[x].pc = "done" => journal'[x] = journal[x]
  <1>1. ASSUME ProxyInv, [Next]_vars, NEW x \in Exchanges, Terminal(x) PROVE Stands(x)
    <2>1. CASE journal' = journal  BY <2>1
    <2>2. ASSUME NEW S, NEW outcome, Finish(S, outcome) PROVE Stands(x)
      <3>1. journal'[x] = journal[x]  BY <1>1, <2>2 DEF Finish
      <3> QED  BY <3>1
    <2>3. ASSUME NEW y \in Exchanges, Journal(y) PROVE Stands(x)
      <3>1. PICK j : /\ journal' = [journal EXCEPT ![y] = j]
                     /\ j.outcome = journal[y].outcome /\ journal[y].pc # "done"
        <4>1. journal \in [Exchanges -> Journals] /\ journal[y] \in Journals
          BY <1>1, Typed DEF ProxyTypes
        <4>2. CASE PutRequest(y)  BY <4>1, <4>2 DEF PutRequest, Journals
        <4>3. CASE PutResponse(y)  BY <4>1, <4>3 DEF PutResponse, Journals
        <4>4. CASE FinalizeExchange(y)  BY <4>1, <4>4 DEF FinalizeExchange, Journals
        <4>5. CASE EndJournal(y)
          BY <4>1, <4>5, NoJournalTyped DEF EndJournal, Journals
        <4> QED  BY <2>3, <4>2, <4>3, <4>4, <4>5 DEF Journal
      <3>2. journal \in [Exchanges -> Journals]  BY <1>1, Typed DEF ProxyTypes
      <3> QED  BY <3>1, <3>2
    <2>4. ASSUME NEW y \in Exchanges, Traffic(y) PROVE Stands(x)
      BY <2>1, <2>2, <2>4
         DEF Traffic, Begin, Refuse, RequestChunk, RequestEnd, ClientAborts, ResponseHead,
             ResponseChunk, ResponseEnd, ResponseFinish, UpstreamBreaks, UpstreamFails,
             UpstreamResets, ClientResets, Settle
    <2>5. CASE SettleSession \/ SettlementReturns \/ Close \/ GraceExpires
                 \/ ConnectionsClosed \/ FlushReturns
      BY <2>1, <2>2, <2>5
         DEF SettleSession, SettlementReturns, Close, GraceExpires, ConnectionsClosed,
             FlushReturns, Settle
    <2>6. CASE UNCHANGED vars  BY <2>1, <2>6 DEF vars
    <2> QED  BY <1>1, <2>3, <2>4, <2>5, <2>6 DEF Next
  <1>2. ProxyInv /\ [Next]_vars =>
          [\A x \in Exchanges : Terminal(x) =>
              /\ journal'[x].outcome = journal[x].outcome
              /\ journal[x].pc = "done" => journal'[x] = journal[x]]_vars
    BY <1>1
  <1> QED  BY <1>2, ProxyInvHolds, PTL DEF Spec, FirstOutcomeStands
=============================================================================
