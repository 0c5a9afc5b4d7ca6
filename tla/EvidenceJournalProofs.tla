------------------------ MODULE EvidenceJournalProofs ------------------------
(***************************************************************************)
(* Proofs about EvidenceJournal, for every set of sessions and exchanges,  *)
(* every mapping of exchanges to sessions and every normalizer output.     *)
(* First the sequences and types.                                          *)
(***************************************************************************)
EXTENDS EvidenceJournal, FiniteSetTheorems, TLAPS

\* A session has a session_sequences row exactly while it exists, and every
\* row of the session lies below its next_sequence.
SequencesCoverRows ==
    /\ \A s \in Sessions : nextSequence[s] = 0 <=> sessions[s].status = "absent"
    /\ \A e \in events : e.sequence < nextSequence[e.session]
    /\ \A x \in Exchanges : Started(x) =>
          rawExchanges[x].sequence < nextSequence[SessionOf[x]]

\* While a wrapper writes, its session is active; before it starts, the
\* session does not exist and no exchange has been routed to it.
WrappersOwnTheirSession ==
    /\ \A s \in RunSessions :
          /\ run[s].pc = "new" => sessions[s].status = "absent"
          /\ run[s].pc \in {"ready", "insert"} => sessions[s].status = "active"
    /\ \A x \in Exchanges :
          jobs[x] # "new" /\ SessionOf[x] \in RunSessions => run[SessionOf[x]].pc # "new"

\* A synchronous block of the daemon works on one exchange.
BlockHasExchange ==
    daemon.pc \in {"reserve", "begin", "normalize"} =>
        /\ daemon.exchange \in Exchanges
        /\ jobs[daemon.exchange] # "new"

IndInv ==
    /\ TypeOK
    /\ SequencesCoverRows
    /\ WrappersOwnTheirSession
    /\ BlockHasExchange
    /\ NoSequenceReuse

-----------------------------------------------------------------------------
(* Facts about the operators.                                              *)

\* next_sequence does not move when every inserted row lies below it.
LEMMA RaisedAboveBelow ==
    ASSUME NEW next, NEW rows, \A e \in rows : e.sequence < next
    PROVE  RaisedAbove(next, rows) = next
BY DEF RaisedAbove

\* A wrapper's event is one well-typed row.
LEMMA ProcessEventType ==
    ASSUME NEW s \in Sessions, NEW n \in Nat, NEW kind \in RunKinds
    PROVE  /\ ProcessEvent(s, n, kind) \in Event
           /\ ProcessEvent(s, n, kind).session = s
           /\ ProcessEvent(s, n, kind).sequence = n
BY DEF ProcessEvent, Event

\* The step formula of SequencesOnlyGrow.
NothingTakenBack ==
    \A s \in Sessions : nextSequence'[s] >= nextSequence[s] \/ sessions'[s].status = "absent"

\* What the provers need of the set of one process event.
LEMMA OneProcessEvent ==
    ASSUME NEW s \in Sessions, NEW n \in Nat, NEW kind \in RunKinds
    PROVE  /\ {ProcessEvent(s, n, kind)} \in SUBSET Event
           /\ IsFiniteSet({ProcessEvent(s, n, kind)})
           /\ \A e \in {ProcessEvent(s, n, kind)} : e.session = s /\ e.sequence = n
           /\ \A e, f \in {ProcessEvent(s, n, kind)} : e.sequence = f.sequence => e = f
<1>1. IsFiniteSet({ProcessEvent(s, n, kind)})
  BY FS_Singleton
<1> QED
  BY <1>1, ProcessEventType

\* A set of two elements is finite.
LEMMA PairIsFinite == \A a, b : IsFiniteSet({a, b})
<1> SUFFICES ASSUME NEW a, NEW b PROVE IsFiniteSet({a, b})
  OBVIOUS
<1>1. IsFiniteSet({a}) /\ IsFiniteSet({b})
  BY FS_Singleton
<1>2. {a, b} = {a} \cup {b}
  OBVIOUS
<1> QED
  BY <1>1, <1>2, FS_Union

\* The rows of a normalization are finitely many well-typed rows of the
\* exchange's session, on different sequences of the reserved block.
LEMMA NormalizedEventsType ==
    ASSUME NEW x \in Exchanges, NEW first \in Nat
    PROVE  LET rows == NormalizedEvents(x, first) IN
           /\ rows \subseteq Event
           /\ IsFiniteSet(rows)
           /\ \A e \in rows :
                 /\ e.session = SessionOf[x]
                 /\ e.sequence \in first .. first + Len(Normalized[x]) - 1
           /\ \A e, f \in rows : e.sequence = f.sequence => e = f
<1> DEFINE n == Len(Normalized[x])
           row(i) == [session |-> SessionOf[x], sequence |-> first + i - 1,
                      kind |-> Normalized[x][i], exchange |-> x, index |-> i]
<1>1. n \in Nat /\ SessionOf[x] \in Sessions
  BY SessionOfAssumption, NormalizedAssumption
<1>2. \A i \in 1 .. n : Normalized[x][i] \in NormalizedKinds
  BY NormalizedAssumption
<1>3. NormalizedEvents(x, first) = {row(i) : i \in 1 .. n}
  BY DEF NormalizedEvents
<1>4. \A i \in 1 .. n : row(i) \in Event
  BY <1>1, <1>2 DEF Event
<1>5. IsFiniteSet(1 .. n)
  BY <1>1, FS_Interval
<1>6. IsFiniteSet({row(i) : i \in 1 .. n})
  <2>1. [i \in 1 .. n |-> row(i)] \in Surjection(1 .. n, {row(i) : i \in 1 .. n})
    BY DEF Surjection
  <2> QED
    BY <1>5, <2>1, FS_Surjection
<1> QED
  BY <1>1, <1>3, <1>4, <1>6

\* What a transaction that inserts rows below `next` does to the tables.
LEMMA InsertEventsEffect ==
    ASSUME TypeOK,
           NEW s \in Sessions, NEW status \in {"active", "completed", "crashed"},
           NEW rows \in SUBSET Event, IsFiniteSet(rows), NEW next \in Nat,
           \A e \in rows : e.session = s /\ e.sequence < next,
           InsertEvents(s, rows, status, next)
    PROVE  /\ events' = events \cup rows
           /\ nextSequence' = [nextSequence EXCEPT ![s] = next]
           /\ sessions' \in [Sessions -> [status : {"absent", "active", "completed", "crashed"},
                                          events : Nat, errors : Nat]]
           /\ sessions'[s].status = status
           /\ \A t \in Sessions \ {s} : sessions'[t] = sessions[t]
           /\ \A e \in events, r \in rows : e.session = s => e.sequence # r.sequence
<1>1. RaisedAbove(next, rows) = next
  BY RaisedAboveBelow
<1>2. Cardinality(rows) \in Nat
  BY FS_CardinalityType
<1>3. Cardinality({e \in rows : IsError(e.kind)}) \in Nat
  BY FS_CardinalityType, FS_Subset, {e \in rows : IsError(e.kind)} \in SUBSET rows
<1> DEFINE nEvents == Cardinality(rows)
           nErrors == Cardinality({e \in rows : IsError(e.kind)})
<1>4. sessions' = [sessions EXCEPT ![s] =
            [status |-> status, events |-> @.events + nEvents,
             errors |-> @.errors + nErrors]]
  BY DEF InsertEvents
<1>5. nEvents \in Nat /\ nErrors \in Nat
  BY <1>2, <1>3
<1> HIDE DEF nEvents, nErrors
<1> QED
  BY <1>1, <1>4, <1>5 DEF InsertEvents, TypeOK

-----------------------------------------------------------------------------
(* The inductive invariant.                                                *)

\* A new store has no position, held or stored.
LEMMA InitIndInv == Init => IndInv
<1> USE DEF Init, NoSession, NoRow, Idle, Down
<1> SUFFICES ASSUME Init PROVE IndInv
  OBVIOUS
<1>1. TypeOK
  BY MaxRecordsAssumption DEF TypeOK, RunKinds, EarlyKinds, Event
<1>2. SequencesCoverRows /\ WrappersOwnTheirSession /\ BlockHasExchange
  BY SessionOfAssumption
     DEF SequencesCoverRows, WrappersOwnTheirSession, BlockHasExchange, Started, Sessions
<1>3. NoSequenceReuse
  BY DEF NoSequenceReuse, EventsUnique, ExchangesUnique, EventsApartFromExchanges,
         HeldAreUnused, Started
<1> QED
  BY <1>1, <1>2, <1>3 DEF IndInv

\* What processes hold are integers.
LEMMA HeldAreIntegers ==
    ASSUME TypeOK, BlockHasExchange
    PROVE  \A s \in Sessions : HeldByDaemon(s) \subseteq Int /\ HeldByRun(s) \subseteq Int
<1>1. \A x \in Exchanges : Len(Normalized[x]) \in Nat
  BY NormalizedAssumption
<1>2. \A s \in Sessions : HeldByRun(s) \subseteq Int
  BY DEF HeldByRun, TypeOK
<1>3. \A s \in Sessions : HeldByDaemon(s) \subseteq Int
  BY <1>1 DEF HeldByDaemon, TypeOK, BlockHasExchange
<1> QED
  BY <1>2, <1>3

\* Reservations stay fresh over a step that gives no process a new one and
\* uses none, in every session that exists after it.
LEMMA HeldStayUnused ==
    ASSUME HeldAreUnused,
           \A s \in Sessions : sessions'[s].status # "absent" =>
               /\ sessions[s].status # "absent"
               /\ HeldByDaemon(s)' \subseteq HeldByDaemon(s)
               /\ HeldByRun(s)' \subseteq HeldByRun(s)
               /\ \A n \in HeldByDaemon(s)' \cup HeldByRun(s)' :
                     Unused(s, n) => Unused(s, n)'
    PROVE  HeldAreUnused'
BY DEF HeldAreUnused

\* A daemon that starts marks the exchanges left recording as recovered; no position changes.
LEMMA DaemonStartStep == IndInv /\ DaemonStart => IndInv'
<1> SUFFICES ASSUME IndInv, DaemonStart PROVE IndInv'
  OBVIOUS
<1> USE DEF IndInv, DaemonStart, Idle
<1>0. \A x \in Exchanges : /\ Started(x)' <=> Started(x)
                           /\ rawExchanges'[x].sequence = rawExchanges[x].sequence
  BY DEF TypeOK, Started
<1>1. TypeOK'
  BY DEF TypeOK, Outcomes
<1>2. SequencesCoverRows'
  BY <1>0 DEF SequencesCoverRows
<1>3. WrappersOwnTheirSession'
  BY DEF WrappersOwnTheirSession
<1>4. BlockHasExchange'
  BY DEF BlockHasExchange
<1>5. EventsUnique' /\ ExchangesUnique' /\ EventsApartFromExchanges'
  BY <1>0 DEF NoSequenceReuse, EventsUnique, ExchangesUnique, EventsApartFromExchanges
<1>6. HeldAreUnused'
  <2>1. \A s \in Sessions : HeldByDaemon(s)' = {} /\ HeldByRun(s)' = HeldByRun(s)
    BY DEF HeldByDaemon, HeldByRun
  <2>2. \A s \in Sessions : \A n : Unused(s, n) => Unused(s, n)'
    BY <1>0 DEF Unused
  <2> QED
    BY <2>1, <2>2, HeldStayUnused DEF NoSequenceReuse
<1> QED
  BY <1>1, <1>2, <1>3, <1>4, <1>5, <1>6 DEF NoSequenceReuse

\* Three steps change neither the tables nor what wrappers hold, and leave the
\* daemon outside a block.
LEMMA DaemonQuietStep ==
    IndInv /\ (DaemonCrash \/ DaemonBlockFails \/ \E x \in Exchanges : PersistFails(x))
      => IndInv'
<1> SUFFICES ASSUME IndInv,
                    DaemonCrash \/ DaemonBlockFails \/ \E x \in Exchanges : PersistFails(x)
             PROVE  IndInv'
  OBVIOUS
<1> USE DEF IndInv, DaemonCrash, DaemonBlockFails, PersistFails, Idle, Down
<1>0. /\ UNCHANGED <<sessions, nextSequence, rawExchanges, events, normalizationRuns, run>>
      /\ daemon'.pc \in {"down", "idle"}
      /\ \A x \in Exchanges : jobs'[x] # "new" => jobs[x] # "new"
  BY DEF TypeOK, BlockHasExchange
<1>1. TypeOK'
  BY SMTT(40) DEF TypeOK
<1>2. SequencesCoverRows'
  BY <1>0 DEF SequencesCoverRows, Started
<1>3. WrappersOwnTheirSession'
  BY <1>0 DEF WrappersOwnTheirSession
<1>4. BlockHasExchange'
  BY <1>0 DEF BlockHasExchange
<1>5. EventsUnique' /\ ExchangesUnique' /\ EventsApartFromExchanges'
  BY <1>0 DEF NoSequenceReuse, EventsUnique, ExchangesUnique, EventsApartFromExchanges, Started
<1>6. HeldAreUnused'
  <2>1. \A s \in Sessions : HeldByDaemon(s)' = {} /\ HeldByRun(s)' = HeldByRun(s)
    BY <1>0 DEF HeldByDaemon, HeldByRun
  <2>2. \A s \in Sessions : \A n : Unused(s, n) => Unused(s, n)'
    BY <1>0 DEF Unused, Started
  <2> QED
    BY <1>0, <2>1, <2>2, HeldStayUnused DEF NoSequenceReuse
<1> QED
  BY <1>1, <1>2, <1>3, <1>4, <1>5, <1>6 DEF NoSequenceReuse

\* The session exists after the step; a new one starts with no row and nobody
\* holds a sequence of it.
LEMMA EnsureSessionStep ==
    ASSUME IndInv, NEW x \in Exchanges, EnsureSession(x) PROVE IndInv'
<1> USE DEF IndInv, EnsureSession, Idle
<1> DEFINE s == SessionOf[x]
<1>0. /\ s \in Sessions
      /\ \A t \in Sessions : sessions[t].status # "absent" => sessions'[t] = sessions[t]
      /\ \A t \in Sessions : sessions[t].status # "absent"
                                => nextSequence'[t] = nextSequence[t]
      /\ sessions'[s].status # "absent" /\ nextSequence'[s] > 0
      /\ \A t \in Sessions \ {s} : sessions'[t] = sessions[t]
                                     /\ nextSequence'[t] = nextSequence[t]
  <2>1. s \in Sessions
    BY SessionOfAssumption
  <2>2. CASE sessions[s].status = "absent"
    BY <2>1, <2>2 DEF TypeOK
  <2>3. CASE sessions[s].status # "absent"
    <3>1. nextSequence[s] \in Nat /\ nextSequence[s] # 0
      BY <2>1, <2>3 DEF TypeOK, SequencesCoverRows
    <3> QED
      BY <2>1, <2>3, <3>1
  <2> QED
    BY <2>2, <2>3
<1>1. TypeOK'
  <2>1. sessions' \in [Sessions -> [status : {"absent", "active", "completed", "crashed"},
                                    events : Nat, errors : Nat]]
        /\ nextSequence' \in [Sessions -> Nat]
    <3>1. [status |-> "active", events |-> 0, errors |-> 0]
             \in [status : {"absent", "active", "completed", "crashed"},
                  events : Nat, errors : Nat]
      OBVIOUS
    <3>2. CASE sessions[s].status = "absent"
      BY <3>1, <3>2, <1>0, SMTT(40) DEF TypeOK
    <3>3. CASE sessions[s].status # "absent"
      BY <3>3 DEF TypeOK
    <3> QED
      BY <3>2, <3>3
  <2> QED
    BY <2>1 DEF TypeOK
<1>2. SequencesCoverRows'
  <2>1. \A t \in Sessions : nextSequence'[t] = 0 <=> sessions'[t].status = "absent"
    BY <1>0 DEF SequencesCoverRows, TypeOK
  <2>2. \A e \in events : e.session \in Sessions /\ e.sequence \in Nat
    BY DEF TypeOK, Event
  <2>3. \A y \in Exchanges : SessionOf[y] \in Sessions /\ rawExchanges[y].sequence \in Nat
    BY SessionOfAssumption DEF TypeOK
  <2>4. \A t \in Sessions, m \in Nat : m < nextSequence[t] =>
           sessions[t].status # "absent" /\ nextSequence'[t] = nextSequence[t]
    BY <1>0 DEF SequencesCoverRows, TypeOK
  <2> QED
    BY <2>1, <2>2, <2>3, <2>4 DEF SequencesCoverRows, Started
<1>3. WrappersOwnTheirSession'
  BY <1>0 DEF WrappersOwnTheirSession, TypeOK, Sessions
<1>4. BlockHasExchange'
  <2>1. daemon'.exchange = x
    OBVIOUS
  <2>2. jobs'[x] = "done"
    BY DEF TypeOK
  <2> QED
    BY <2>1, <2>2 DEF BlockHasExchange
<1>5. EventsUnique' /\ ExchangesUnique' /\ EventsApartFromExchanges'
  BY DEF NoSequenceReuse, EventsUnique, ExchangesUnique, EventsApartFromExchanges, Started
<1>6. HeldAreUnused'
  <2>1. \A t \in Sessions : HeldByDaemon(t)' = {} /\ HeldByRun(t)' = HeldByRun(t)
    BY DEF HeldByDaemon, HeldByRun
  <2>2. \A t \in Sessions : sessions[t].status = "absent" => HeldByRun(t) = {}
    BY DEF HeldByRun, WrappersOwnTheirSession
  <2>3. \A t \in Sessions : \A n :
           sessions[t].status # "absent" /\ Unused(t, n) => Unused(t, n)'
    BY <1>0 DEF Unused, Started
  <2> QED
    BY <2>1, <2>2, <2>3, <1>0 DEF NoSequenceReuse, HeldAreUnused
<1> QED
  BY <1>1, <1>2, <1>3, <1>4, <1>5, <1>6 DEF NoSequenceReuse

\* The sequence read is next_sequence itself, above every row and above what
\* the wrapper holds.
LEMMA ReserveForExchangeStep == IndInv /\ ReserveForExchange => IndInv'
<1> SUFFICES ASSUME IndInv, ReserveForExchange PROVE IndInv'
  OBVIOUS
<1> USE DEF IndInv, ReserveForExchange
<1>x. PICK x \in Exchanges : x = daemon.exchange
  BY DEF BlockHasExchange
<1>s. PICK s \in Sessions : s = SessionOf[x]
  BY SessionOfAssumption
<1>n. PICK n \in Nat : n = nextSequence[s]
  BY DEF TypeOK
<1>0. /\ n # 0 /\ SessionOf[daemon.exchange] = s
      /\ nextSequence' = [nextSequence EXCEPT ![s] = n + 1]
      /\ sessions[s].status # "absent"
  BY <1>x, <1>s, <1>n DEF SequencesCoverRows
<1>c. /\ \A e \in events : e.session = s => e.sequence < n /\ e.sequence \in Nat
      /\ \A y \in Exchanges : Started(y) /\ SessionOf[y] = s =>
            rawExchanges[y].sequence < n /\ rawExchanges[y].sequence \in Nat
  BY <1>n DEF SequencesCoverRows, TypeOK, Event
<1>1. TypeOK'
  BY <1>0 DEF TypeOK
<1>2. SequencesCoverRows'
  <2>1. \A t \in Sessions : nextSequence'[t] >= nextSequence[t]
                               /\ nextSequence[t] \in Nat /\ nextSequence'[t] \in Nat
    BY <1>0 DEF TypeOK
  <2>2. \A t \in Sessions : nextSequence'[t] = 0 <=> nextSequence[t] = 0
    BY <1>0 DEF TypeOK
  <2>3. \A e \in events : e.session \in Sessions /\ e.sequence \in Nat
    BY DEF TypeOK, Event
  <2>4. \A y \in Exchanges : SessionOf[y] \in Sessions /\ rawExchanges[y].sequence \in Nat
    BY SessionOfAssumption DEF TypeOK
  <2> QED
    BY <2>1, <2>2, <2>3, <2>4 DEF SequencesCoverRows, Started
<1>3. WrappersOwnTheirSession'
  BY DEF WrappersOwnTheirSession
<1>4. BlockHasExchange'
  BY DEF BlockHasExchange
<1>5. EventsUnique' /\ ExchangesUnique' /\ EventsApartFromExchanges'
  BY DEF NoSequenceReuse, EventsUnique, ExchangesUnique, EventsApartFromExchanges, Started
<1>6. HeldAreUnused'
  <2>1. \A t \in Sessions : HeldByDaemon(t)' = (IF t = s THEN {n} ELSE {})
    <3>1. n .. n + 0 = {n}
      BY <1>0
    <3>2. /\ daemon'.pc = "begin"
          /\ SessionOf[daemon'.exchange] = s
          /\ daemon'.first = n
      BY <1>0, <1>x, <1>s, <1>n
    <3> QED
      BY <1>0, <3>1, <3>2 DEF HeldByDaemon
  <2>2. \A t \in Sessions : HeldByRun(t)' = HeldByRun(t)
    BY DEF HeldByRun
  <2>3. \A t \in Sessions, m \in Int : Unused(t, m) => Unused(t, m)' /\ (t = s => m # n)
    BY <1>0 DEF Unused, Started, TypeOK
  <2>4. Unused(s, n)'
    BY <1>0, <1>c, <1>n, <1>s DEF Unused, Started, TypeOK
  <2>5. \A t \in Sessions : HeldByDaemon(t) \subseteq Int /\ HeldByRun(t) \subseteq Int
    BY HeldAreIntegers
  <2> QED
    BY <2>1, <2>2, <2>3, <2>4, <2>5, <1>0 DEF NoSequenceReuse, HeldAreUnused
<1> QED
  BY <1>1, <1>2, <1>3, <1>4, <1>5, <1>6 DEF NoSequenceReuse

\* The held sequence moves from the daemon into the row of the exchange.
LEMMA BeginExchangeStep == IndInv /\ BeginExchange => IndInv'
<1> SUFFICES ASSUME IndInv, BeginExchange PROVE IndInv'
  OBVIOUS
<1> USE DEF IndInv, BeginExchange, Idle
<1>x. PICK x \in Exchanges : x = daemon.exchange
  BY DEF BlockHasExchange
<1>s. PICK s \in Sessions : s = SessionOf[x]
  BY SessionOfAssumption
<1>n. PICK n \in Nat : n = daemon.first
  BY DEF TypeOK
<1>0. /\ Started(x)' /\ rawExchanges'[x].sequence = n
      /\ \A y \in Exchanges \ {x} : rawExchanges'[y] = rawExchanges[y]
  <2>1. /\ rawExchanges'[x] = [state |-> "recording", sequence |-> n,
                               outcome |-> "capture-incomplete", parse |-> "pending"]
        /\ \A y \in Exchanges \ {x} : rawExchanges'[y] = rawExchanges[y]
    BY <1>x, <1>n DEF TypeOK
  <2> QED
    BY <2>1 DEF Started
<1>a. n \in HeldByDaemon(s) /\ sessions[s].status # "absent"
  BY <1>x, <1>s, <1>n DEF HeldByDaemon
<1>b. Unused(s, n) /\ n \notin HeldByRun(s)
  BY <1>a DEF NoSequenceReuse, HeldAreUnused
<1>1. TypeOK'
  BY <1>x, <1>n DEF TypeOK, Outcomes
<1>2. SequencesCoverRows'
  BY <1>0, <1>b, <1>s, SessionOfAssumption DEF SequencesCoverRows, Started, Unused
<1>3. WrappersOwnTheirSession'
  BY <1>x DEF WrappersOwnTheirSession, BlockHasExchange, TypeOK
<1>4. BlockHasExchange'
  BY DEF BlockHasExchange
<1>5. EventsUnique' /\ ExchangesUnique' /\ EventsApartFromExchanges'
  BY <1>0, <1>b, <1>s DEF NoSequenceReuse, EventsUnique, ExchangesUnique,
                    EventsApartFromExchanges, Started, Unused
<1>6. HeldAreUnused'
  <2>1. \A t \in Sessions : HeldByDaemon(t)' = {} /\ HeldByRun(t)' = HeldByRun(t)
    BY DEF HeldByDaemon, HeldByRun
  <2>2. \A t \in Sessions : \A m : Unused(t, m) /\ (t = s => m # n) => Unused(t, m)'
    BY <1>0, <1>s DEF Unused, Started
  <2> QED
    BY <2>1, <2>2, <1>b DEF NoSequenceReuse, HeldAreUnused
<1> QED
  BY <1>1, <1>2, <1>3, <1>4, <1>5, <1>6 DEF NoSequenceReuse

\* Finalizing keeps the sequence of the row.
LEMMA FinalizeExchangeStep ==
    ASSUME IndInv, NEW x \in Exchanges, FinalizeExchange(x) PROVE IndInv'
<1> USE DEF IndInv, FinalizeExchange
<1>0. /\ \A y \in Exchanges : /\ Started(y)' <=> Started(y)
                              /\ rawExchanges'[y].sequence = rawExchanges[y].sequence
      /\ \A y \in Exchanges : jobs'[y] # "new" => jobs[y] # "new"
      /\ daemon.pc = "idle"
  BY DEF TypeOK, Started
<1>1. TypeOK'
  BY DEF TypeOK, Outcomes
<1>2. SequencesCoverRows'
  BY <1>0 DEF SequencesCoverRows
<1>3. WrappersOwnTheirSession'
  BY <1>0 DEF WrappersOwnTheirSession
<1>4. BlockHasExchange'
  BY <1>0 DEF BlockHasExchange
<1>5. EventsUnique' /\ ExchangesUnique' /\ EventsApartFromExchanges'
  BY <1>0 DEF NoSequenceReuse, EventsUnique, ExchangesUnique, EventsApartFromExchanges
<1>6. HeldAreUnused'
  <2>1. \A t \in Sessions : HeldByDaemon(t)' = {} /\ HeldByRun(t)' = HeldByRun(t)
    BY <1>0 DEF HeldByDaemon, HeldByRun
  <2>2. \A t \in Sessions : \A n : Unused(t, n) => Unused(t, n)'
    BY <1>0 DEF Unused
  <2> QED
    BY <2>1, <2>2, HeldStayUnused DEF NoSequenceReuse
<1> QED
  BY <1>1, <1>2, <1>3, <1>4, <1>5, <1>6 DEF NoSequenceReuse

\* A block of sequences from next_sequence on, one per event.
LEMMA ReserveForEventsStep ==
    ASSUME IndInv, NEW x \in Exchanges, ReserveForEvents(x) PROVE IndInv'
<1> USE DEF IndInv, ReserveForEvents
<1>s. PICK s \in Sessions : s = SessionOf[x]
  BY SessionOfAssumption
<1>n. PICK n \in Nat : n = nextSequence[s]
  BY DEF TypeOK
<1>k. PICK k \in Nat : k = Len(Normalized[x])
  BY NormalizedAssumption
<1>0. /\ nextSequence' = [nextSequence EXCEPT ![s] = n + k]
      /\ sessions[s].status # "absent" /\ n # 0
      /\ daemon' = [pc |-> "normalize", exchange |-> x, first |-> n]
  BY <1>s, <1>n, <1>k DEF TypeOK, SequencesCoverRows, Started
<1>c. /\ \A e \in events : e.session = s => e.sequence < n /\ e.sequence \in Nat
      /\ \A y \in Exchanges : Started(y) /\ SessionOf[y] = s =>
            rawExchanges[y].sequence < n /\ rawExchanges[y].sequence \in Nat
  BY <1>n DEF SequencesCoverRows, TypeOK, Event
<1>1. TypeOK'
  <2>1. n + k \in Nat
    BY <1>n, <1>k
  <2>2. nextSequence' \in [Sessions -> Nat]
    BY <1>0, <2>1 DEF TypeOK
  <2> QED
    BY <1>0, <1>n, <2>2, SMTT(40) DEF TypeOK
<1>2. SequencesCoverRows'
  <2>1. \A t \in Sessions : nextSequence'[t] >= nextSequence[t]
                               /\ nextSequence[t] \in Nat /\ nextSequence'[t] \in Nat
    BY <1>0, SMTT(40) DEF TypeOK
  <2>2. \A t \in Sessions : nextSequence'[t] = 0 <=> nextSequence[t] = 0
    BY <1>0 DEF TypeOK
  <2>3. \A e \in events : e.session \in Sessions /\ e.sequence \in Nat
    BY DEF TypeOK, Event
  <2>4. \A y \in Exchanges : SessionOf[y] \in Sessions /\ rawExchanges[y].sequence \in Nat
    BY SessionOfAssumption DEF TypeOK
  <2> QED
    BY <2>1, <2>2, <2>3, <2>4 DEF SequencesCoverRows, Started
<1>3. WrappersOwnTheirSession'
  BY DEF WrappersOwnTheirSession
<1>4. BlockHasExchange'
  BY DEF BlockHasExchange
<1>5. EventsUnique' /\ ExchangesUnique' /\ EventsApartFromExchanges'
  BY DEF NoSequenceReuse, EventsUnique, ExchangesUnique, EventsApartFromExchanges, Started
<1>6. HeldAreUnused'
  <2>1. \A t \in Sessions : HeldByDaemon(t)' = (IF t = s THEN n .. n + (k - 1) ELSE {})
    BY <1>0, <1>s, <1>k DEF HeldByDaemon
  <2>2. \A t \in Sessions : HeldByRun(t)' = HeldByRun(t)
    BY DEF HeldByRun
  <2>3. \A t \in Sessions, m \in Int : Unused(t, m) =>
           Unused(t, m)' /\ (t = s => m \notin n .. n + (k - 1))
    BY <1>0, <1>n, <1>k, SMTT(40) DEF Unused, Started, TypeOK
  <2>4. \A m \in n .. n + (k - 1) : Unused(s, m)'
    <3> SUFFICES ASSUME NEW m \in n .. n + (k - 1) PROVE Unused(s, m)'
      OBVIOUS
    <3>1. m \in Int /\ n <= m /\ m < n + k
      BY <1>n, <1>k
    <3>2. nextSequence'[s] = n + k
      BY <1>0 DEF TypeOK
    <3>3. /\ \A e \in events : e.session = s => e.sequence # m
          /\ \A y \in Exchanges : Started(y) /\ SessionOf[y] = s
                                    => rawExchanges[y].sequence # m
      BY <3>1, <1>c, <1>n
    <3> QED
      BY <3>1, <3>2, <3>3 DEF Unused, Started
  <2>5. \A t \in Sessions : HeldByDaemon(t) \subseteq Int /\ HeldByRun(t) \subseteq Int
    BY HeldAreIntegers
  <2> QED
    BY <2>1, <2>2, <2>3, <2>4, <2>5, <1>0 DEF NoSequenceReuse, HeldAreUnused
<1> QED
  BY <1>1, <1>2, <1>3, <1>4, <1>5, <1>6 DEF NoSequenceReuse

\* What an insertion of rows at sequences of their own does to the invariant,
\* for whichever process inserts them: the rows are new, distinct, below the
\* next_sequence after the step, and held by nobody after it.
LEMMA InsertKeepsInvariant ==
    ASSUME IndInv, TypeOK',
           NEW s \in Sessions, NEW rows \in SUBSET Event,
           \A e \in rows : /\ e.session = s
                           /\ e.sequence < nextSequence'[s]
                           /\ \A f \in events : f.session = s => f.sequence # e.sequence
                           /\ \A x \in Exchanges : Started(x) /\ SessionOf[x] = s
                                 => rawExchanges[x].sequence # e.sequence,
           \A e, f \in rows : e.sequence = f.sequence => e = f,
           events' = events \cup rows,
           \A t \in Sessions \ {s} :
              sessions'[t] = sessions[t] /\ nextSequence'[t] = nextSequence[t],
           nextSequence'[s] >= nextSequence[s],
           nextSequence'[s] > 0, sessions'[s].status # "absent",
           \A x \in Exchanges : /\ Started(x)' <=> Started(x)
                                /\ rawExchanges'[x].sequence = rawExchanges[x].sequence,
           \A t \in Sessions :
              /\ HeldByDaemon(t)' \subseteq HeldByDaemon(t)
              /\ HeldByRun(t)' \subseteq HeldByRun(t),
           sessions[s].status = "absent" => HeldByDaemon(s)' = {} /\ HeldByRun(s)' = {},
           \A e \in rows : e.sequence \notin HeldByDaemon(s)' \cup HeldByRun(s)'
    PROVE  SequencesCoverRows' /\ NoSequenceReuse'
<1> USE DEF IndInv
<1>1. \A t \in Sessions : nextSequence'[t] \in Nat /\ nextSequence[t] \in Nat
                             /\ nextSequence'[t] >= nextSequence[t]
  BY SMTT(40) DEF TypeOK
<1>2. \A e \in events \cup rows : e.session \in Sessions /\ e.sequence \in Nat
  BY DEF TypeOK, Event
<1>3. \A x \in Exchanges : SessionOf[x] \in Sessions /\ rawExchanges[x].sequence \in Nat
  BY SessionOfAssumption DEF TypeOK
<1>4. SequencesCoverRows'
  <2>1. \A t \in Sessions : nextSequence'[t] = 0 <=> sessions'[t].status = "absent"
    BY <1>1 DEF SequencesCoverRows
  <2>2. \A e \in events \cup rows : e.sequence < nextSequence'[e.session]
    BY <1>1, <1>2 DEF SequencesCoverRows
  <2>3. \A x \in Exchanges : Started(x) =>
           rawExchanges[x].sequence < nextSequence'[SessionOf[x]]
    BY <1>1, <1>3 DEF SequencesCoverRows
  <2> QED
    BY <2>1, <2>2, <2>3 DEF SequencesCoverRows
<1>5. EventsUnique'
  BY DEF NoSequenceReuse, EventsUnique
<1>6. ExchangesUnique' /\ EventsApartFromExchanges'
  BY DEF NoSequenceReuse, ExchangesUnique, EventsApartFromExchanges
<1>7. HeldAreUnused'
  <2> SUFFICES ASSUME NEW t \in Sessions, sessions'[t].status # "absent",
                      NEW n \in HeldByDaemon(t)' \cup HeldByRun(t)'
               PROVE  /\ Unused(t, n)'
                      /\ ~(n \in HeldByDaemon(t)' /\ n \in HeldByRun(t)')
    BY DEF HeldAreUnused
  <2>1. sessions[t].status # "absent"
    OBVIOUS
  <2>2. /\ Unused(t, n)
        /\ ~(n \in HeldByDaemon(t)' /\ n \in HeldByRun(t)')
    BY <2>1 DEF NoSequenceReuse, HeldAreUnused
  <2>3. n \in Int
    BY HeldAreIntegers
  <2>4. n < nextSequence'[t]
    BY <1>1, <2>2, <2>3 DEF Unused
  <2>5. \A e \in events \cup rows : e.session = t => e.sequence # n
    BY <2>2 DEF Unused
  <2> QED
    BY <2>2, <2>4, <2>5 DEF Unused
<1> QED
  BY <1>4, <1>5, <1>6, <1>7 DEF NoSequenceReuse

\* The normalized events take the block the daemon holds.
LEMMA InsertNormalizationStep ==
    IndInv /\ InsertNormalization => IndInv' /\ NothingTakenBack
<1> SUFFICES ASSUME IndInv, InsertNormalization PROVE IndInv' /\ NothingTakenBack
  OBVIOUS
<1> USE DEF IndInv, InsertNormalization, Idle
<1>x. PICK x \in Exchanges : x = daemon.exchange
  BY DEF BlockHasExchange
<1>s. PICK s \in Sessions : s = SessionOf[x]
  BY SessionOfAssumption
<1>n. PICK n \in Nat : n = daemon.first
  BY DEF TypeOK
<1> DEFINE rows == NormalizedEvents(x, n)
           k == Len(Normalized[x])
<1>1. /\ rows \in SUBSET Event
      /\ IsFiniteSet(rows)
      /\ \A e \in rows : e.session = s /\ e.sequence \in n .. n + k - 1
      /\ \A e, f \in rows : e.sequence = f.sequence => e = f
  BY <1>s, NormalizedEventsType
<1>2. k \in Nat /\ Started(x)
  BY <1>x, NormalizedAssumption
<1>3. sessions[s].status # "absent" /\ nextSequence[s] \in Nat \ {0}
  BY <1>s, <1>2 DEF SequencesCoverRows, TypeOK
<1>4. HeldByDaemon(s) = n .. n + (k - 1)
  BY <1>x, <1>s, <1>n DEF HeldByDaemon
<1>5. \A m \in n .. n + (k - 1) : Unused(s, m) /\ m \notin HeldByRun(s)
  BY <1>3, <1>4 DEF NoSequenceReuse, HeldAreUnused
<1>6. n + k - 1 = n + (k - 1)
  BY <1>2, <1>n
<1>7. \A e \in rows : e.sequence < nextSequence[s]
  BY <1>1, <1>5, <1>6 DEF Unused
<1>8. sessions[s].status \in {"active", "completed", "crashed"}
  BY <1>3 DEF TypeOK
<1>9. InsertEvents(s, rows, sessions[s].status, nextSequence[s])
  BY <1>x, <1>s, <1>n
<1> HIDE DEF rows, k
<1>10. /\ events' = events \cup rows
       /\ nextSequence' = [nextSequence EXCEPT ![s] = nextSequence[s]]
       /\ sessions' \in [Sessions -> [status : {"absent", "active", "completed", "crashed"},
                                      events : Nat, errors : Nat]]
       /\ sessions'[s].status = sessions[s].status
       /\ \A t \in Sessions \ {s} : sessions'[t] = sessions[t]
       /\ \A e \in events, f \in rows : e.session = s => e.sequence # f.sequence
  BY <1>1, <1>3, <1>7, <1>8, <1>9, InsertEventsEffect
<1>11. nextSequence' = nextSequence
  BY <1>10 DEF TypeOK
<1>12. \A y \in Exchanges : /\ Started(y)' <=> Started(y)
                            /\ rawExchanges'[y].sequence = rawExchanges[y].sequence
  BY DEF TypeOK, Started
<1>13. TypeOK'
  <2>1. events' \subseteq Event
    BY <1>1, <1>10 DEF TypeOK
  <2>2. rawExchanges' \in [Exchanges ->
            [state : {"absent", "recording", "complete", "recovered"}, sequence : Nat,
             outcome : Outcomes \cup {"none"},
             parse : {"none", "pending", "parsed", "skipped"}]]
    <3> DEFINE Row == [state : {"absent", "recording", "complete", "recovered"},
                       sequence : Nat, outcome : Outcomes \cup {"none"},
                       parse : {"none", "pending", "parsed", "skipped"}]
    <3>1. rawExchanges \in [Exchanges -> Row]
      BY DEF TypeOK
    <3>2. [rawExchanges[x] EXCEPT !.parse = "parsed"] \in Row
      BY <3>1
    <3>3. rawExchanges' = [rawExchanges EXCEPT ![x] = [rawExchanges[x] EXCEPT !.parse = "parsed"]]
      BY <1>x
    <3> QED
      BY <3>1, <3>2, <3>3
  <2> QED
    BY <1>x, <1>10, <1>11, <2>1, <2>2 DEF TypeOK
<1>14. WrappersOwnTheirSession'
  BY <1>x, <1>10, <1>2 DEF WrappersOwnTheirSession, BlockHasExchange, Sessions, TypeOK
<1>15. BlockHasExchange'
  BY DEF BlockHasExchange
<1>16. \A t \in Sessions : HeldByDaemon(t)' = {} /\ HeldByRun(t)' = HeldByRun(t)
  BY DEF HeldByDaemon, HeldByRun
<1>17. SequencesCoverRows' /\ NoSequenceReuse'
  <2>1. \A e \in rows :
           /\ e.session = s
           /\ e.sequence < nextSequence'[s]
           /\ \A f \in events : f.session = s => f.sequence # e.sequence
           /\ \A y \in Exchanges : Started(y) /\ SessionOf[y] = s
                 => rawExchanges[y].sequence # e.sequence
           /\ e.sequence \notin HeldByDaemon(s)' \cup HeldByRun(s)'
    BY <1>1, <1>5, <1>6, <1>7, <1>10, <1>11, <1>16 DEF Unused
  <2>2. nextSequence'[s] >= nextSequence[s] /\ nextSequence'[s] > 0
    BY <1>3, <1>11
  <2>3. \A t \in Sessions : /\ HeldByDaemon(t)' \subseteq HeldByDaemon(t)
                            /\ HeldByRun(t)' \subseteq HeldByRun(t)
    BY <1>16
  <2>4. \A t \in Sessions \ {s} :
           sessions'[t] = sessions[t] /\ nextSequence'[t] = nextSequence[t]
    BY <1>10, <1>11
  <2>5. sessions'[s].status # "absent" /\ sessions[s].status # "absent"
    BY <1>3, <1>10
  <2>6. \A e \in rows : /\ e.session = s
                        /\ e.sequence < nextSequence'[s]
                        /\ \A f \in events : f.session = s => f.sequence # e.sequence
                        /\ \A y \in Exchanges : Started(y) /\ SessionOf[y] = s
                              => rawExchanges[y].sequence # e.sequence
    BY <2>1
  <2>7. \A e \in rows : e.sequence \notin HeldByDaemon(s)' \cup HeldByRun(s)'
    BY <2>1
  <2> HIDE DEF InsertNormalization, Idle, IndInv
  <2> QED
    BY <1>1, <1>10, <1>12, <1>13, <2>2, <2>3, <2>4, <2>5, <2>6, <2>7,
       InsertKeepsInvariant, Zenon
<1>18. NothingTakenBack
  BY <1>11 DEF NothingTakenBack, TypeOK
<1> QED
  BY <1>13, <1>14, <1>15, <1>17, <1>18

\* The session of a run, and its first event.
LEMMA OpenRunStep ==
    ASSUME IndInv, NEW s \in RunSessions, OpenRun(s) PROVE IndInv'
<1> USE DEF IndInv, OpenRun
<1> DEFINE row == ProcessEvent(s, 1, "session.started")
<1>1. s \in Sessions /\ sessions[s].status = "absent" /\ nextSequence[s] = 0
  BY DEF Sessions, SequencesCoverRows
<1>2. row \in Event /\ row.session = s /\ row.sequence = 1
  BY <1>1, ProcessEventType DEF RunKinds
<1>3. /\ sessions'[s].status = "active" /\ nextSequence'[s] = 2
      /\ \A t \in Sessions \ {s} :
            sessions'[t] = sessions[t] /\ nextSequence'[t] = nextSequence[t]
  BY <1>1 DEF TypeOK
<1>4. TypeOK'
  <2>1. [status |-> "active", events |-> 1, errors |-> 0]
           \in [status : {"absent", "active", "completed", "crashed"},
                events : Nat, errors : Nat]
    OBVIOUS
  <2>2. sessions' \in [Sessions -> [status : {"absent", "active", "completed", "crashed"},
                                    events : Nat, errors : Nat]]
    BY <1>1, <2>1 DEF TypeOK
  <2>3. events' \subseteq Event
    BY <1>2 DEF TypeOK
  <2> QED
    BY <1>1, <2>2, <2>3, SMTT(40) DEF TypeOK
<1>5. WrappersOwnTheirSession'
  BY <1>1, <1>3 DEF WrappersOwnTheirSession, TypeOK, Sessions
<1>6. BlockHasExchange'
  BY DEF BlockHasExchange
<1>7. \A t \in Sessions : /\ HeldByDaemon(t)' = HeldByDaemon(t)
                          /\ HeldByRun(t)' = HeldByRun(t)
  <2>1. \A t \in Sessions : HeldByDaemon(t)' = HeldByDaemon(t)
    BY DEF HeldByDaemon
  <2>2. run'[s].pc = "ready" /\ \A t \in RunSessions \ {s} : run'[t] = run[t]
    BY DEF TypeOK
  <2>3. \A t \in Sessions : HeldByRun(t)' = HeldByRun(t)
    BY <2>2 DEF HeldByRun
  <2> QED
    BY <2>1, <2>3
<1>8. HeldByDaemon(s) = {} /\ HeldByRun(s) = {}
  BY DEF HeldByDaemon, HeldByRun, BlockHasExchange, WrappersOwnTheirSession
<1>9. /\ \A f \in events : f.session # s
      /\ \A x \in Exchanges : Started(x) => SessionOf[x] # s
  BY <1>1 DEF SequencesCoverRows, TypeOK, Event
<1> HIDE DEF row
<1>10. SequencesCoverRows' /\ NoSequenceReuse'
  <2>1. /\ {row} \in SUBSET Event
        /\ events' = events \cup {row}
        /\ \A e, f \in {row} : e.sequence = f.sequence => e = f
        /\ nextSequence'[s] >= nextSequence[s] /\ nextSequence'[s] > 0
        /\ sessions'[s].status # "absent"
    BY <1>1, <1>2, <1>3 DEF row
  <2>2. \A x \in Exchanges : /\ Started(x)' <=> Started(x)
                             /\ rawExchanges'[x].sequence = rawExchanges[x].sequence
    BY DEF Started
  <2>3. \A e \in {row} :
           /\ e.session = s
           /\ e.sequence < nextSequence'[s]
           /\ \A f \in events : f.session = s => f.sequence # e.sequence
           /\ \A x \in Exchanges : Started(x) /\ SessionOf[x] = s
                 => rawExchanges[x].sequence # e.sequence
           /\ e.sequence \notin HeldByDaemon(s)' \cup HeldByRun(s)'
    BY <1>1, <1>2, <1>3, <1>7, <1>8, <1>9
  <2>4. /\ \A t \in Sessions :
              /\ HeldByDaemon(t)' \subseteq HeldByDaemon(t)
              /\ HeldByRun(t)' \subseteq HeldByRun(t)
        /\ HeldByDaemon(s)' = {} /\ HeldByRun(s)' = {}
    BY <1>1, <1>7, <1>8
  <2> DEFINE rows == {row}
  <2>5. /\ rows \in SUBSET Event
        /\ events' = events \cup rows
        /\ \A e, f \in rows : e.sequence = f.sequence => e = f
        /\ \A e \in rows :
              /\ e.session = s
              /\ e.sequence < nextSequence'[s]
              /\ \A f \in events : f.session = s => f.sequence # e.sequence
              /\ \A x \in Exchanges : Started(x) /\ SessionOf[x] = s
                    => rawExchanges[x].sequence # e.sequence
              /\ e.sequence \notin HeldByDaemon(s)' \cup HeldByRun(s)'
    BY <2>1, <2>3
  <2> HIDE DEF rows, OpenRun
  <2> QED
    BY <1>1, <1>3, <1>4, <2>1, <2>2, <2>4, <2>5, InsertKeepsInvariant, SMTT(40)
<1> QED
  BY <1>4, <1>5, <1>6, <1>10

\* The sequence read is next_sequence itself, above every row and above what
\* the daemon holds.
LEMMA ReserveForRunStep ==
    ASSUME IndInv, NEW s \in RunSessions, ReserveForRun(s) PROVE IndInv'
<1> USE DEF IndInv, ReserveForRun
<1>n. PICK n \in Nat : n = nextSequence[s]
  BY DEF TypeOK, Sessions
<1>0. /\ s \in Sessions /\ n # 0 /\ sessions[s].status # "absent"
      /\ nextSequence' = [nextSequence EXCEPT ![s] = n + 1]
  BY <1>n DEF Sessions, SequencesCoverRows, WrappersOwnTheirSession
<1>1. /\ run'[s].pc = "insert" /\ run'[s].sequence = n
      /\ \A t \in RunSessions \ {s} : run'[t] = run[t]
  BY <1>n DEF TypeOK
<1>c. /\ \A e \in events : e.session = s => e.sequence < n /\ e.sequence \in Nat
      /\ \A y \in Exchanges : Started(y) /\ SessionOf[y] = s =>
            rawExchanges[y].sequence < n /\ rawExchanges[y].sequence \in Nat
  BY <1>n DEF SequencesCoverRows, TypeOK, Event
<1>2. TypeOK'
  <2>1. nextSequence' \in [Sessions -> Nat]
    BY <1>0, <1>n DEF TypeOK
  <2>2. run' \in [RunSessions -> [pc : {"new", "ready", "insert", "ended", "lost"},
                                  spawned : BOOLEAN, kind : RunKinds, sequence : Nat,
                                  records : Nat]]
    <3> DEFINE Proc == [pc : {"new", "ready", "insert", "ended", "lost"},
                        spawned : BOOLEAN, kind : RunKinds, sequence : Nat, records : Nat]
    <3>1. PICK kind \in RunKinds :
             run' = [run EXCEPT ![s] = [pc |-> "insert",
                        spawned |-> run[s].spawned \/ kind = "process.started",
                        kind |-> kind, sequence |-> n, records |-> run[s].records + 1]]
      BY <1>n DEF RunKinds
    <3>2. (run[s].spawned \/ kind = "process.started") \in BOOLEAN
      OBVIOUS
    <3>3. run[s].records + 1 \in Nat
      BY DEF TypeOK
    <3>4. [pc |-> "insert", spawned |-> run[s].spawned \/ kind = "process.started",
           kind |-> kind, sequence |-> n, records |-> run[s].records + 1] \in Proc
      BY <3>2, <3>3, <1>n
    <3>5. run \in [RunSessions -> Proc]
      BY DEF TypeOK
    <3> QED
      BY <3>1, <3>4, <3>5
  <2> QED
    BY <2>1, <2>2 DEF TypeOK
<1>3. SequencesCoverRows'
  <2>1. \A t \in Sessions : nextSequence'[t] >= nextSequence[t]
                               /\ nextSequence[t] \in Nat /\ nextSequence'[t] \in Nat
    BY <1>0, <1>n DEF TypeOK
  <2>2. \A t \in Sessions : nextSequence'[t] = 0 <=> nextSequence[t] = 0
    BY <1>0, <1>n DEF TypeOK
  <2>3. \A e \in events : e.session \in Sessions /\ e.sequence \in Nat
    BY DEF TypeOK, Event
  <2>4. \A y \in Exchanges : SessionOf[y] \in Sessions /\ rawExchanges[y].sequence \in Nat
    BY SessionOfAssumption DEF TypeOK
  <2> QED
    BY <2>1, <2>2, <2>3, <2>4 DEF SequencesCoverRows, Started
<1>4. WrappersOwnTheirSession'
  BY <1>1, <1>0 DEF WrappersOwnTheirSession
<1>5. BlockHasExchange'
  BY DEF BlockHasExchange
<1>6. EventsUnique' /\ ExchangesUnique' /\ EventsApartFromExchanges'
  BY DEF NoSequenceReuse, EventsUnique, ExchangesUnique, EventsApartFromExchanges, Started
<1>7. HeldAreUnused'
  <2>1. \A t \in Sessions : HeldByDaemon(t)' = HeldByDaemon(t)
    BY DEF HeldByDaemon
  <2>2. \A t \in Sessions : HeldByRun(t)' = (IF t = s THEN {n} ELSE HeldByRun(t))
    BY <1>1 DEF HeldByRun
  <2>3. \A t \in Sessions, m \in Int : Unused(t, m) => Unused(t, m)' /\ (t = s => m # n)
    BY <1>0, <1>n DEF Unused, Started, TypeOK
  <2>4. Unused(s, n)'
    BY <1>0, <1>c, <1>n DEF Unused, Started, TypeOK
  <2>5. \A t \in Sessions : HeldByDaemon(t) \subseteq Int /\ HeldByRun(t) \subseteq Int
    BY HeldAreIntegers
  <2> QED
    BY <2>1, <2>2, <2>3, <2>4, <2>5, <1>0 DEF NoSequenceReuse, HeldAreUnused
<1> QED
  BY <1>2, <1>3, <1>4, <1>5, <1>6, <1>7 DEF NoSequenceReuse

\* One or two events of a wrapper that runs, inserted at sequences it holds or
\* takes in the same transaction.
LEMMA WrapperInsertStep ==
    ASSUME IndInv, NEW s \in RunSessions, run[s].pc \in {"ready", "insert"},
           NEW rows \in SUBSET Event, IsFiniteSet(rows), NEW next \in Nat,
           NEW status \in {"active", "completed", "crashed"},
           next >= nextSequence[s],
           \A e \in rows : /\ e.session = s
                           /\ e.sequence < next
                           /\ \/ e.sequence >= nextSequence[s]
                              \/ e.sequence \in HeldByRun(s),
           \A e, f \in rows : e.sequence = f.sequence => e = f,
           InsertEvents(s, rows, status, next),
           UNCHANGED <<rawExchanges, normalizationRuns, daemon, jobs>>,
           run' \in [RunSessions -> [pc : {"new", "ready", "insert", "ended", "lost"},
                                     spawned : BOOLEAN, kind : RunKinds, sequence : Nat,
                                     records : Nat]],
           run'[s].pc \in {"ready", "ended"},
           run'[s].pc = "ready" => status = "active",
           \A t \in RunSessions \ {s} : run'[t] = run[t]
    PROVE  IndInv' /\ NothingTakenBack
<1> USE DEF IndInv
<1>1. /\ s \in Sessions /\ sessions[s].status = "active"
      /\ nextSequence[s] \in Nat \ {0}
  BY DEF Sessions, TypeOK, SequencesCoverRows, WrappersOwnTheirSession
<1>2. /\ events' = events \cup rows
      /\ nextSequence' = [nextSequence EXCEPT ![s] = next]
      /\ sessions' \in [Sessions -> [status : {"absent", "active", "completed", "crashed"},
                                     events : Nat, errors : Nat]]
      /\ sessions'[s].status = status
      /\ \A t \in Sessions \ {s} : sessions'[t] = sessions[t]
      /\ \A e \in events, f \in rows : e.session = s => e.sequence # f.sequence
  BY <1>1, InsertEventsEffect
<1>3. TypeOK'
  BY <1>2 DEF TypeOK
<1>4. WrappersOwnTheirSession'
  BY <1>1, <1>2 DEF WrappersOwnTheirSession, Sessions
<1>5. BlockHasExchange'
  BY DEF BlockHasExchange
<1>6. \A t \in Sessions : /\ HeldByDaemon(t)' = HeldByDaemon(t)
                          /\ HeldByRun(t)' \subseteq HeldByRun(t)
  BY DEF HeldByDaemon, HeldByRun
<1>7. HeldByRun(s)' = {}
  BY DEF HeldByRun
<1>8. /\ nextSequence'[s] = next /\ next > 0
      /\ \A t \in Sessions \ {s} : nextSequence'[t] = nextSequence[t]
      /\ nextSequence'[s] >= nextSequence[s]
  BY <1>1, <1>2 DEF TypeOK
<1>9. \A n \in HeldByDaemon(s) : n \in Int /\ n < nextSequence[s] /\ n \notin HeldByRun(s)
  BY <1>1, HeldAreIntegers DEF NoSequenceReuse, HeldAreUnused, Unused
<1>10. \A e \in rows : e.sequence \in Nat
  BY DEF Event
<1>11. \A e \in rows : e.sequence \notin HeldByDaemon(s)' \cup HeldByRun(s)'
  BY <1>1, <1>6, <1>7, <1>9, <1>10
<1>12. \A x \in Exchanges : Started(x) /\ SessionOf[x] = s =>
          /\ rawExchanges[x].sequence \in Nat
          /\ rawExchanges[x].sequence < nextSequence[s]
          /\ rawExchanges[x].sequence \notin HeldByRun(s)
  BY <1>1 DEF TypeOK, SequencesCoverRows, NoSequenceReuse, HeldAreUnused, Unused
<1>13. \A x \in Exchanges : /\ Started(x)' <=> Started(x)
                            /\ rawExchanges'[x].sequence = rawExchanges[x].sequence
  BY DEF Started
<1>14. \A e \in rows :
          /\ e.session = s
          /\ e.sequence < nextSequence'[s]
          /\ \A f \in events : f.session = s => f.sequence # e.sequence
          /\ \A x \in Exchanges : Started(x) /\ SessionOf[x] = s
                => rawExchanges[x].sequence # e.sequence
  BY <1>1, <1>2, <1>8, <1>10, <1>12
<1>15. SequencesCoverRows' /\ NoSequenceReuse'
  <2>1. \A t \in Sessions : /\ HeldByDaemon(t)' \subseteq HeldByDaemon(t)
                            /\ HeldByRun(t)' \subseteq HeldByRun(t)
    BY <1>6
  <2>2. \A t \in Sessions \ {s} :
           sessions'[t] = sessions[t] /\ nextSequence'[t] = nextSequence[t]
    BY <1>2, <1>8
  <2>3. /\ sessions'[s].status # "absent" /\ sessions[s].status # "absent"
        /\ nextSequence'[s] > 0
    BY <1>1, <1>2, <1>8
  <2>4. \A e \in rows :
           /\ e.session = s
           /\ e.sequence < nextSequence'[s]
           /\ \A f \in events : f.session = s => f.sequence # e.sequence
           /\ \A x \in Exchanges : Started(x) /\ SessionOf[x] = s
                 => rawExchanges[x].sequence # e.sequence
           /\ e.sequence \notin HeldByDaemon(s)' \cup HeldByRun(s)'
    BY <1>11, <1>14
  <2>5. /\ events' = events \cup rows
        /\ nextSequence'[s] >= nextSequence[s]
        /\ \A e, f \in rows : e.sequence = f.sequence => e = f
    BY <1>2, <1>8
  <2>6. sessions[s].status = "absent" => HeldByDaemon(s)' = {} /\ HeldByRun(s)' = {}
    BY <2>3
  <2> HIDE DEF IndInv
  <2> QED
    BY <1>1, <1>3, <1>13, <2>1, <2>2, <2>3, <2>4, <2>5, <2>6, InsertKeepsInvariant
<1>16. NothingTakenBack
  BY <1>8 DEF NothingTakenBack, TypeOK
<1> QED
  BY <1>3, <1>4, <1>5, <1>15, <1>16

\* The three ways a wrapper writes events.
LEMMA WrapperWritesStep ==
    ASSUME IndInv, NEW s \in RunSessions,
           InsertRunEvent(s) \/ RecordWorkspace(s) \/ FinishRun(s) \/ FailRun(s)
    PROVE  IndInv' /\ NothingTakenBack
<1> USE DEF IndInv
<1> DEFINE Proc == [pc : {"new", "ready", "insert", "ended", "lost"},
                    spawned : BOOLEAN, kind : RunKinds, sequence : Nat, records : Nat]
<1>1. /\ s \in Sessions /\ run \in [RunSessions -> Proc]
      /\ run[s].sequence \in Nat /\ run[s].kind \in RunKinds /\ run[s].records \in Nat
  BY DEF Sessions, TypeOK
<1>n. PICK n \in Nat : n = nextSequence[s]
  BY <1>1 DEF TypeOK
<1>2. CASE InsertRunEvent(s)
  <2>1. PICK m \in Nat, kind \in RunKinds : m = run[s].sequence /\ kind = run[s].kind
    BY <1>1
  <2> DEFINE rows == {ProcessEvent(s, m, kind)}
  <2>2. /\ rows \in SUBSET Event /\ IsFiniteSet(rows)
        /\ \A e \in rows : e.session = s /\ e.sequence = m
        /\ \A e, f \in rows : e.sequence = f.sequence => e = f
    BY <1>1, <2>1, OneProcessEvent, SMTT(40)
  <2> USE <1>2 DEF InsertRunEvent
  <2>3. m \in HeldByRun(s) /\ sessions[s].status = "active"
    BY <2>1, <1>1 DEF HeldByRun, WrappersOwnTheirSession
  <2>4. m < n
    BY <2>3, <1>1, <1>n DEF NoSequenceReuse, HeldAreUnused, Unused
  <2>5. InsertEvents(s, rows, "active", n)
    BY <2>1, <2>3, <1>n
  <2>6. /\ run' \in [RunSessions -> Proc] /\ run'[s].pc = "ready"
        /\ \A t \in RunSessions \ {s} : run'[t] = run[t]
    BY <1>1
  <2>7. n >= nextSequence[s]
    BY <1>n
  <2>8. \A e \in rows : /\ e.session = s
                        /\ e.sequence < n
                        /\ \/ e.sequence >= nextSequence[s]
                           \/ e.sequence \in HeldByRun(s)
    BY <2>2, <2>3, <2>4
  <2> HIDE DEF rows
  <2> QED
    BY <2>2, <2>5, <2>6, <2>7, <2>8, WrapperInsertStep
<1>3. CASE RecordWorkspace(s)
  <2>1. PICK kind \in RunKinds : kind = "file.change"
    BY DEF RunKinds
  <2> DEFINE rows == {ProcessEvent(s, n, kind)}
  <2>2. /\ rows \in SUBSET Event /\ IsFiniteSet(rows)
        /\ \A e \in rows : e.session = s /\ e.sequence = n
        /\ \A e, f \in rows : e.sequence = f.sequence => e = f
    BY <1>1, <1>n, <2>1, OneProcessEvent, SMTT(40)
  <2> USE <1>3 DEF RecordWorkspace
  <2>3. sessions[s].status = "active"
    BY DEF WrappersOwnTheirSession
  <2>5. InsertEvents(s, rows, "active", n + 1)
    BY <2>1, <2>3, <1>n
  <2>6. /\ run' \in [RunSessions -> Proc] /\ run'[s].pc = "ready"
        /\ \A t \in RunSessions \ {s} : run'[t] = run[t]
    BY <1>1
  <2>7. n + 1 >= nextSequence[s] /\ n + 1 \in Nat
    BY <1>n
  <2>8. \A e \in rows : /\ e.session = s
                        /\ e.sequence < n + 1
                        /\ \/ e.sequence >= nextSequence[s]
                           \/ e.sequence \in HeldByRun(s)
    BY <2>2, <1>n
  <2> HIDE DEF rows
  <2> QED
    BY <2>2, <2>5, <2>6, <2>7, <2>8, WrapperInsertStep
<1>4. CASE FinishRun(s) \/ FailRun(s)
  <2>1. PICK last \in RunKinds, terminal \in RunKinds, status \in {"completed", "crashed"} :
           EndRun(s, last, terminal, status)
    BY <1>4 DEF FinishRun, FailRun, RunKinds, TerminalKinds
  <2> USE <2>1 DEF EndRun
  <2> DEFINE rows == {ProcessEvent(s, n, last), ProcessEvent(s, n + 1, terminal)}
  <2>2. /\ ProcessEvent(s, n, last) \in Event
        /\ ProcessEvent(s, n, last).session = s
        /\ ProcessEvent(s, n, last).sequence = n
    BY <1>1, <1>n, <2>1, ProcessEventType
  <2>3. /\ ProcessEvent(s, n + 1, terminal) \in Event
        /\ ProcessEvent(s, n + 1, terminal).session = s
        /\ ProcessEvent(s, n + 1, terminal).sequence = n + 1
    BY <1>1, <1>n, <2>1, n + 1 \in Nat, ProcessEventType
  <2>4. /\ rows \in SUBSET Event
        /\ \A e \in rows : e.session = s /\ (e.sequence = n \/ e.sequence = n + 1)
        /\ \A e, f \in rows : e.sequence = f.sequence => e = f
    <3> HIDE DEF EndRun
    <3> QED
      BY <2>2, <2>3, <1>n, n # n + 1
  <2>9. IsFiniteSet(rows)
    BY PairIsFinite
  <2>5. InsertEvents(s, rows, status, n + 2)
    BY <1>n
  <2>6. /\ run' \in [RunSessions -> Proc] /\ run'[s].pc = "ended"
        /\ \A t \in RunSessions \ {s} : run'[t] = run[t]
    BY <1>1
  <2>7. n + 2 >= nextSequence[s] /\ n + 2 \in Nat
    BY <1>n
  <2>8. \A e \in rows : /\ e.session = s
                        /\ e.sequence < n + 2
                        /\ \/ e.sequence >= nextSequence[s]
                           \/ e.sequence \in HeldByRun(s)
    BY <2>4, <1>n
  <2> HIDE DEF rows
  <2> QED
    BY <2>4, <2>9, <2>5, <2>6, <2>7, <2>8, WrapperInsertStep
<1> QED
  BY <1>2, <1>3, <1>4

\* A lost wrapper holds nothing any more.
LEMMA LoseRunStep ==
    ASSUME IndInv, NEW s \in RunSessions, LoseRun(s) PROVE IndInv'
<1> USE DEF IndInv, LoseRun
<1>0. run'[s].pc = "lost" /\ \A t \in RunSessions \ {s} : run'[t] = run[t]
  BY DEF TypeOK
<1>1. TypeOK'
  BY DEF TypeOK
<1>2. SequencesCoverRows'
  BY DEF SequencesCoverRows, Started
<1>3. WrappersOwnTheirSession'
  BY <1>0 DEF WrappersOwnTheirSession
<1>4. BlockHasExchange'
  BY DEF BlockHasExchange
<1>5. EventsUnique' /\ ExchangesUnique' /\ EventsApartFromExchanges'
  BY DEF NoSequenceReuse, EventsUnique, ExchangesUnique, EventsApartFromExchanges, Started
<1>6. HeldAreUnused'
  <2>1. \A t \in Sessions : /\ HeldByDaemon(t)' = HeldByDaemon(t)
                            /\ HeldByRun(t)' \subseteq HeldByRun(t)
    BY <1>0 DEF HeldByDaemon, HeldByRun
  <2>2. \A t \in Sessions : \A n : Unused(t, n) => Unused(t, n)'
    BY DEF Unused, Started
  <2> QED
    BY <2>1, <2>2, HeldStayUnused DEF NoSequenceReuse
<1> QED
  BY <1>1, <1>2, <1>3, <1>4, <1>5, <1>6 DEF NoSequenceReuse

\* A deleted session takes all its rows along; no wrapper writes to it.
LEMMA RemoveSessionStep ==
    ASSUME IndInv, NEW s \in Sessions, RemoveSession(s) PROVE IndInv'
<1> USE DEF IndInv, RemoveSession, NoSession, NoRow
<1>0. /\ sessions'[s].status = "absent" /\ nextSequence'[s] = 0
      /\ \A t \in Sessions \ {s} :
            sessions'[t] = sessions[t] /\ nextSequence'[t] = nextSequence[t]
      /\ \A x \in Exchanges : Started(x)' =>
            SessionOf[x] # s /\ Started(x) /\ rawExchanges'[x] = rawExchanges[x]
      /\ \A x \in Exchanges : SessionOf[x] # s => rawExchanges'[x] = rawExchanges[x]
  BY DEF TypeOK, Started
<1>1. TypeOK'
  BY DEF TypeOK
<1>2. SequencesCoverRows'
  BY <1>0, SessionOfAssumption DEF SequencesCoverRows, TypeOK, Event
<1>3. WrappersOwnTheirSession'
  BY <1>0 DEF WrappersOwnTheirSession, Sessions
<1>4. BlockHasExchange'
  BY DEF BlockHasExchange
<1>5. EventsUnique' /\ ExchangesUnique' /\ EventsApartFromExchanges'
  BY <1>0 DEF NoSequenceReuse, EventsUnique, ExchangesUnique, EventsApartFromExchanges
<1>6. HeldAreUnused'
  <2>1. \A t \in Sessions : HeldByDaemon(t)' = HeldByDaemon(t) /\ HeldByRun(t)' = HeldByRun(t)
    BY DEF HeldByDaemon, HeldByRun
  <2>2. \A t \in Sessions \ {s} : \A n : Unused(t, n) => Unused(t, n)'
    BY <1>0 DEF Unused
  <2>3. \A t \in Sessions : sessions'[t].status # "absent" =>
           t # s /\ sessions[t].status # "absent"
    BY <1>0
  <2> QED
    BY <2>1, <2>2, <2>3, HeldStayUnused DEF NoSequenceReuse
<1> QED
  BY <1>1, <1>2, <1>3, <1>4, <1>5, <1>6 DEF NoSequenceReuse

\* Every step of the journal keeps the invariant.
LEMMA StepIndInv == IndInv /\ [Next]_vars => IndInv'
<1> SUFFICES ASSUME IndInv, [Next]_vars PROVE IndInv'
  OBVIOUS
<1>1. CASE DaemonStart
  BY <1>1, DaemonStartStep
<1>2. CASE DaemonCrash
  BY <1>2, DaemonQuietStep
<1>3. CASE DaemonStep
  <2>1. ASSUME NEW x \in Exchanges,
               EnsureSession(x) \/ FinalizeExchange(x) \/ ReserveForEvents(x) \/ PersistFails(x)
        PROVE  IndInv'
    BY <2>1, EnsureSessionStep, FinalizeExchangeStep, ReserveForEventsStep, DaemonQuietStep
  <2>2. ASSUME ReserveForExchange \/ BeginExchange \/ InsertNormalization \/ DaemonBlockFails
        PROVE  IndInv'
    BY <2>2, ReserveForExchangeStep, BeginExchangeStep, InsertNormalizationStep,
       DaemonQuietStep
  <2> QED
    BY <1>3, <2>1, <2>2 DEF DaemonStep
<1>4. ASSUME NEW s \in RunSessions, RunStep(s) PROVE IndInv'
  BY <1>4, OpenRunStep, ReserveForRunStep, WrapperWritesStep, LoseRunStep DEF RunStep
<1>5. ASSUME NEW s \in Sessions, RemoveSession(s) PROVE IndInv'
  BY <1>5, RemoveSessionStep
<1>6. CASE UNCHANGED vars
  BY <1>6 DEF vars, IndInv, TypeOK, SequencesCoverRows, WrappersOwnTheirSession,
              BlockHasExchange, NoSequenceReuse, EventsUnique, ExchangesUnique,
              EventsApartFromExchanges, HeldAreUnused, HeldByDaemon, HeldByRun, Unused, Started
<1> QED
  BY <1>1, <1>2, <1>3, <1>4, <1>5, <1>6 DEF Next

\* No step takes a sequence back.
LEMMA StepTakesNothingBack == IndInv /\ Next => NothingTakenBack
<1> SUFFICES ASSUME IndInv, Next PROVE NothingTakenBack
  OBVIOUS
<1>1. nextSequence \in [Sessions -> Nat] /\ SessionOf \in [Exchanges -> Sessions]
      /\ RunSessions \subseteq Sessions
  BY SessionOfAssumption DEF IndInv, TypeOK, Sessions
<1>2. CASE UNCHANGED nextSequence
  BY <1>1, <1>2 DEF NothingTakenBack
<1>3. ASSUME NEW s \in Sessions, NEW k \in Nat,
             nextSequence' = [nextSequence EXCEPT ![s] = nextSequence[s] + k]
      PROVE  NothingTakenBack
  BY <1>1, <1>3 DEF NothingTakenBack
<1>4. ASSUME NEW x \in Exchanges, EnsureSession(x) PROVE NothingTakenBack
  <2>1. CASE sessions[SessionOf[x]].status = "absent"
    <3>1. nextSequence[SessionOf[x]] = 0
      BY <1>1, <2>1 DEF IndInv, SequencesCoverRows
    <3> QED
      BY <1>1, <1>4, <2>1, <3>1 DEF EnsureSession, NothingTakenBack
  <2> QED
    BY <1>2, <1>4, <2>1 DEF EnsureSession
<1>5. ASSUME NEW x \in Exchanges, ReserveForEvents(x) PROVE NothingTakenBack
  <2>1. Len(Normalized[x]) \in Nat
    BY NormalizedAssumption
  <2> QED
    BY <1>1, <1>3, <1>5, <2>1 DEF ReserveForEvents
<1>6. CASE ReserveForExchange
  <2>1. daemon.exchange \in Exchanges
    BY <1>6 DEF IndInv, BlockHasExchange, ReserveForExchange
  <2> QED
    BY <1>1, <1>3, <1>6, <2>1 DEF ReserveForExchange
<1>7. ASSUME NEW s \in RunSessions, OpenRun(s) PROVE NothingTakenBack
  <2>1. s \in Sessions /\ nextSequence[s] = 0
    BY <1>1, <1>7 DEF IndInv, SequencesCoverRows, OpenRun
  <2> QED
    BY <1>1, <1>7, <2>1 DEF OpenRun, NothingTakenBack
<1>8. ASSUME NEW s \in RunSessions, ReserveForRun(s) PROVE NothingTakenBack
  BY <1>1, <1>3, <1>8 DEF ReserveForRun
<1>9. ASSUME NEW s \in RunSessions, RunStep(s) PROVE NothingTakenBack
  BY <1>2, <1>7, <1>8, <1>9, WrapperWritesStep DEF RunStep, LoseRun
<1>10. ASSUME NEW s \in Sessions, RemoveSession(s) PROVE NothingTakenBack
  BY <1>1, <1>10 DEF RemoveSession, NothingTakenBack, NoSession, IndInv, TypeOK
<1>11. CASE DaemonStep
  BY <1>2, <1>4, <1>5, <1>6, <1>11, InsertNormalizationStep
     DEF DaemonStep, FinalizeExchange, PersistFails, BeginExchange, DaemonBlockFails
<1> QED
  BY <1>2, <1>9, <1>10, <1>11 DEF Next, DaemonStart, DaemonCrash

-----------------------------------------------------------------------------
(* The theorems.                                                           *)

\* The inductive invariant holds in every reachable state.
THEOREM IndInvHolds == Spec => []IndInv
<1>1. Init => IndInv
  BY InitIndInv
<1>2. IndInv /\ [Next]_vars => IndInv'
  BY StepIndInv
<1> QED
  BY <1>1, <1>2, PTL DEF Spec

\* Every table and every process variable keeps its type, whatever the
\* interleaving of daemon, wrappers, crashes and deletions.
THEOREM TypeCorrect == Spec => []TypeOK
<1>1. IndInv => TypeOK
  BY DEF IndInv
<1> QED
  BY <1>1, IndInvHolds, PTL

\* "Sequence gaps after crashes are allowed; reuse is not", for any number of
\* runs and exchanges: the allocator's single UPDATE is enough although the
\* reservation and the insertion are separate transactions of separate
\* processes and no constraint spans the two tables.
THEOREM SequencesAreNeverReused == Spec => []NoSequenceReuse
<1>1. IndInv => NoSequenceReuse
  BY DEF IndInv
<1> QED
  BY <1>1, IndInvHolds, PTL

\* next_sequence of a session never goes back while the session exists.
THEOREM SequencesGrow == Spec => SequencesOnlyGrow
<1>1. IndInv /\ [Next]_vars =>
        [\A s \in Sessions : nextSequence'[s] >= nextSequence[s]
                               \/ sessions'[s].status = "absent"]_vars
  BY StepTakesNothingBack DEF NothingTakenBack
<1> QED
  BY <1>1, IndInvHolds, PTL DEF Spec, SequencesOnlyGrow

-----------------------------------------------------------------------------
(* What its rows say about each other, the counters, the atomicity of a    *)
(* normalization, the terminal event of a run, and that the journal        *)
(* implements the abstract log EvidenceLog.                                *)

\* A daemon that is down remembers no exchange; one that is about to write the
\* row of an exchange has not written it, and one that is about to write the
\* normalization of an exchange has finalized it.  No row is half empty.
JobsMatchRows ==
    /\ daemon.pc = "down" => \A x \in Exchanges : jobs[x] \in {"new", "done"}
    /\ daemon.pc \in {"reserve", "begin"} => rawExchanges[daemon.exchange].state = "absent"
    /\ daemon.pc = "normalize" => jobs[daemon.exchange] = "finalized"
    /\ \A x \in Exchanges : rawExchanges[x].state = "absent" => rawExchanges[x] = NoRow

\* What a process holds are positions, the block of a normalization lies
\* between its exchange and next_sequence, and no wrapper holds one for a
\* terminal event.
HeldArePositions ==
    /\ daemon.pc \in {"begin", "normalize"} => daemon.first > 0
    /\ daemon.pc = "normalize" /\ Started(daemon.exchange) =>
          /\ rawExchanges[daemon.exchange].sequence < daemon.first
          /\ daemon.first <= nextSequence[SessionOf[daemon.exchange]]
    /\ \A s \in RunSessions : run[s].pc = "insert" =>
          run[s].sequence > 0 /\ run[s].kind \notin TerminalKinds

\* A terminal event is one of a wrapper that has ended.
TerminalMeansEnded ==
    \A e \in events : e.kind \in TerminalKinds =>
        e.session \in RunSessions /\ run[e.session].pc = "ended"

ContentInv ==
    /\ IndInv
    /\ OpenJobIsRecording
    /\ JobsMatchRows
    /\ HeldArePositions
    /\ TerminalMeansEnded
    /\ TerminalEventIsLast
    /\ NormalizationAtomic
    /\ IsFiniteSet(events)
    /\ CountersMatchEvents

-----------------------------------------------------------------------------
(* The rows of the exchanges.                                              *)

\* Recovery closes no exchange of a live daemon, and a block of the daemon
\* finds the exchange as it left it: nobody else writes exchange rows but to
\* delete them.
LEMMA JobsStep ==
    ASSUME TypeOK, BlockHasExchange, OpenJobIsRecording, JobsMatchRows, Next
    PROVE  OpenJobIsRecording' /\ JobsMatchRows'
<1> USE DEF OpenJobIsRecording, JobsMatchRows
<1> DEFINE ExchangeRow == [state : {"absent", "recording", "complete", "recovered"},
                           sequence : Nat, outcome : Outcomes \cup {"none"},
                           parse : {"none", "pending", "parsed", "skipped"}]
<1>0. /\ rawExchanges \in [Exchanges -> ExchangeRow]
      /\ jobs \in [Exchanges -> {"new", "open", "finalized", "done"}]
      /\ daemon.pc \in {"down", "idle", "reserve", "begin", "normalize"}
      /\ daemon.pc \in {"reserve", "begin", "normalize"} => daemon.exchange \in Exchanges
  BY DEF TypeOK, BlockHasExchange
<1> HIDE DEF ExchangeRow
<1>1. CASE DaemonStart
  <2>1. /\ daemon.pc = "down" /\ daemon'.pc = "idle" /\ UNCHANGED jobs
        /\ \A x \in Exchanges :
              \/ rawExchanges'[x] = rawExchanges[x]
              \/ /\ rawExchanges[x].state = "recording"
                 /\ rawExchanges'[x].state = "recovered"
    BY <1>0, <1>1 DEF DaemonStart, Idle
  <2> QED
    BY <1>0, <2>1
<1>2. CASE DaemonCrash
  BY <1>0, <1>2 DEF DaemonCrash, Down
<1>3. ASSUME NEW x \in Exchanges, EnsureSession(x) \/ PersistFails(x)
      PROVE  OpenJobIsRecording' /\ JobsMatchRows'
  BY <1>0, <1>3 DEF EnsureSession, PersistFails
<1>4. CASE ReserveForExchange
  BY <1>0, <1>4 DEF ReserveForExchange
<1>5. CASE BeginExchange
  BY <1>0, <1>5 DEF BeginExchange, Idle
<1>6. ASSUME NEW x \in Exchanges, FinalizeExchange(x)
      PROVE  OpenJobIsRecording' /\ JobsMatchRows'
  BY <1>0, <1>6 DEF FinalizeExchange
<1>7. ASSUME NEW x \in Exchanges, ReserveForEvents(x)
      PROVE  OpenJobIsRecording' /\ JobsMatchRows'
  BY <1>0, <1>7 DEF ReserveForEvents
<1>8. CASE InsertNormalization
  <2>1. PICK x \in Exchanges : x = daemon.exchange
    BY <1>0, <1>8 DEF InsertNormalization
  <2>2. /\ jobs' = [jobs EXCEPT ![x] = "done"] /\ daemon'.pc = "idle"
        /\ rawExchanges' = [rawExchanges EXCEPT ![x].parse = "parsed"]
        /\ rawExchanges[x].state # "absent"
    BY <1>8, <2>1 DEF InsertNormalization, Idle, Started
  <2>3. \A y \in Exchanges : /\ rawExchanges'[y].state = rawExchanges[y].state
                             /\ y # x => rawExchanges'[y] = rawExchanges[y]
    BY <1>0, <2>2 DEF ExchangeRow
  <2> QED
    BY <1>0, <2>2, <2>3
<1>9. CASE DaemonBlockFails
  BY <1>0, <1>9 DEF DaemonBlockFails, Idle
<1>10. ASSUME NEW s \in RunSessions, RunStep(s) PROVE UNCHANGED <<rawExchanges, jobs, daemon>>
  BY <1>10 DEF RunStep, OpenRun, ReserveForRun, InsertRunEvent, RecordWorkspace, FinishRun,
               FailRun, EndRun, LoseRun
<1>11. ASSUME NEW s \in Sessions, RemoveSession(s)
       PROVE  OpenJobIsRecording' /\ JobsMatchRows'
  <2>1. /\ UNCHANGED <<jobs, daemon>>
        /\ \A x \in Exchanges : rawExchanges'[x] \in {rawExchanges[x], NoRow}
    BY <1>0, <1>11 DEF RemoveSession
  <2>2. NoRow.state = "absent"
    BY DEF NoRow
  <2> QED
    BY <1>0, <2>1, <2>2
<1> QED
  BY <1>1, <1>2, <1>3, <1>4, <1>5, <1>6, <1>7, <1>8, <1>9, <1>10, <1>11 DEF Next, DaemonStep

\* While the row of an exchange exists, next_sequence of its session only grows.
LEMMA SequenceOfStartedGrows ==
    ASSUME IndInv, IndInv', Next, NEW x \in Exchanges, Started(x)'
    PROVE  nextSequence'[SessionOf[x]] >= nextSequence[SessionOf[x]]
<1>0. SessionOf[x] \in Sessions /\ nextSequence'[SessionOf[x]] \in Nat
  BY SessionOfAssumption DEF IndInv, TypeOK
<1>1. rawExchanges'[x].sequence < nextSequence'[SessionOf[x]]
      /\ rawExchanges'[x].sequence \in Nat
  BY DEF IndInv, SequencesCoverRows, TypeOK
<1>2. sessions'[SessionOf[x]].status # "absent"
  BY <1>0, <1>1 DEF IndInv, SequencesCoverRows
<1> QED
  BY <1>0, <1>2, StepTakesNothingBack DEF NothingTakenBack

\* The reservation of a process stays where it is while others write.
LEMMA HeldPositionsStep ==
    ASSUME IndInv, IndInv', HeldArePositions, Next
    PROVE  HeldArePositions'
<1> USE DEF HeldArePositions
<1>0. /\ nextSequence \in [Sessions -> Nat] /\ nextSequence' \in [Sessions -> Nat]
      /\ \A x \in Exchanges : /\ SessionOf[x] \in Sessions
                              /\ rawExchanges[x].sequence \in Nat
      /\ RunSessions \subseteq Sessions
      /\ daemon.first \in Nat
      /\ daemon.pc \in {"reserve", "begin", "normalize"} => daemon.exchange \in Exchanges
  BY SessionOfAssumption DEF IndInv, TypeOK, Sessions, BlockHasExchange
<1>1. \A x \in Exchanges : Started(x)' => nextSequence'[SessionOf[x]] >= nextSequence[SessionOf[x]]
  BY SequenceOfStartedGrows
<1>2. ASSUME UNCHANGED run, daemon'.pc \in {"down", "idle", "reserve"}
      PROVE  HeldArePositions'
  BY <1>2
<1>3. ASSUME UNCHANGED daemon,
             \A x \in Exchanges : Started(x)' => Started(x) /\ rawExchanges'[x] = rawExchanges[x],
             \A s \in RunSessions : run'[s].pc = "insert" =>
                \/ run'[s] = run[s]
                \/ run'[s].sequence > 0 /\ run'[s].kind \notin TerminalKinds
      PROVE  HeldArePositions'
  <2>1. daemon'.pc = "normalize" /\ Started(daemon.exchange)' =>
           /\ rawExchanges'[daemon'.exchange].sequence < daemon'.first
           /\ daemon'.first <= nextSequence'[SessionOf[daemon'.exchange]]
    <3>1. daemon.pc = "normalize" => daemon.exchange \in Exchanges
      BY <1>0
    <3> QED
      BY <1>0, <1>1, <1>3, <3>1
  <2> QED
    BY <1>3, <2>1
<1>4. CASE ReserveForExchange
  <2>1. nextSequence[SessionOf[daemon.exchange]] > 0
    BY <1>0, <1>4 DEF ReserveForExchange
  <2> QED
    BY <1>4, <2>1 DEF ReserveForExchange
<1>5. ASSUME NEW x \in Exchanges, ReserveForEvents(x) PROVE HeldArePositions'
  <2>1. rawExchanges[x].sequence < nextSequence[SessionOf[x]] /\ UNCHANGED rawExchanges
    BY <1>5 DEF IndInv, SequencesCoverRows, ReserveForEvents
  <2>2. Started(x)
    BY <1>5 DEF ReserveForEvents
  <2>3. nextSequence[SessionOf[x]] <= nextSequence'[SessionOf[x]]
    BY <1>0, <1>1, <2>1, <2>2 DEF Started
  <2>4. UNCHANGED run /\ daemon' = [pc |-> "normalize", exchange |-> x,
                                     first |-> nextSequence[SessionOf[x]]]
    BY <1>5 DEF ReserveForEvents
  <2> QED
    BY <1>0, <2>1, <2>3, <2>4
<1>6. CASE DaemonStep
  <2>1. ASSUME NEW x \in Exchanges, PersistFails(x) PROVE HeldArePositions'
    BY <1>2, <1>3, <2>1 DEF PersistFails, Started
  <2>2. ASSUME NEW x \in Exchanges, EnsureSession(x) \/ FinalizeExchange(x)
        PROVE  HeldArePositions'
    BY <1>2, <2>2 DEF EnsureSession, FinalizeExchange
  <2>3. CASE BeginExchange \/ InsertNormalization \/ DaemonBlockFails
    BY <1>2, <2>3 DEF BeginExchange, InsertNormalization, DaemonBlockFails, Idle
  <2> QED
    BY <1>4, <1>5, <1>6, <2>1, <2>2, <2>3 DEF DaemonStep
<1>7. ASSUME NEW s \in RunSessions, RunStep(s) PROVE HeldArePositions'
  <2>1. UNCHANGED <<rawExchanges, daemon>>
    BY <1>7 DEF RunStep, OpenRun, ReserveForRun, InsertRunEvent, RecordWorkspace, FinishRun,
                FailRun, EndRun, LoseRun
  <2>2. CASE ReserveForRun(s)
    <3>1. nextSequence[s] > 0
      BY <1>0, <2>2 DEF ReserveForRun, IndInv, WrappersOwnTheirSession, SequencesCoverRows
    <3>2. run'[s].sequence = nextSequence[s]
          /\ run'[s].kind \in EarlyKinds \cup RunningKinds
          /\ \A t \in RunSessions \ {s} : run'[t] = run[t]
      BY <2>2 DEF ReserveForRun, IndInv, TypeOK
    <3> QED
      BY <1>3, <2>1, <3>1, <3>2 DEF Started, TerminalKinds, EarlyKinds, RunningKinds
  <2>3. ASSUME OpenRun(s) \/ InsertRunEvent(s) \/ RecordWorkspace(s) \/ FinishRun(s)
                 \/ FailRun(s) \/ LoseRun(s)
        PROVE  \A t \in RunSessions : run'[t].pc = "insert" => run'[t] = run[t]
    BY <2>3 DEF IndInv, TypeOK, OpenRun, InsertRunEvent, RecordWorkspace, FinishRun,
                FailRun, EndRun, LoseRun
  <2> QED
    BY <1>3, <1>7, <2>1, <2>2, <2>3 DEF RunStep, Started
<1>8. ASSUME NEW s \in Sessions, RemoveSession(s) PROVE HeldArePositions'
  <2>1. UNCHANGED <<daemon, run>>
        /\ \A x \in Exchanges : rawExchanges'[x] = (IF SessionOf[x] = s THEN NoRow
                                                     ELSE rawExchanges[x])
    BY <1>8 DEF RemoveSession
  <2>2. \A x \in Exchanges : Started(x)' => Started(x) /\ rawExchanges'[x] = rawExchanges[x]
    BY <2>1 DEF Started, NoRow
  <2> QED
    BY <1>3, <2>1, <2>2
<1> QED
  BY <1>2, <1>6, <1>7, <1>8 DEF Next, DaemonStart, DaemonCrash, Idle, Down

-----------------------------------------------------------------------------
(* The last event of a run.                                                *)

\* What one step does to the events: rows of one exchange or of one wrapper are
\* added, or a session is removed.
LEMMA TerminalStep ==
    ASSUME IndInv, IndInv', HeldArePositions, TerminalMeansEnded, TerminalEventIsLast, Next
    PROVE  TerminalMeansEnded' /\ TerminalEventIsLast'
<1> USE DEF TerminalMeansEnded, TerminalEventIsLast
<1>0. /\ \A e \in events : e.session \in Sessions /\ e.sequence \in Nat
      /\ RunSessions \subseteq Sessions
      /\ \A s \in Sessions : nextSequence[s] \in Nat
      /\ \A e \in events : e.sequence < nextSequence[e.session]
  BY DEF IndInv, TypeOK, Event, Sessions, SequencesCoverRows
<1>1. ASSUME UNCHANGED events,
             \A s \in Sessions : sessions[s].status \in {"completed", "crashed"} =>
                sessions'[s].status = sessions[s].status,
             \A s \in RunSessions : run[s].pc = "ended" => run'[s] = run[s]
      PROVE  TerminalMeansEnded' /\ TerminalEventIsLast'
  BY <1>0, <1>1
<1>2. CASE DaemonStart \/ DaemonCrash
  BY <1>1, <1>2 DEF DaemonStart, DaemonCrash
<1>3. CASE DaemonStep
  <2>1. ASSUME NEW x \in Exchanges,
               EnsureSession(x) \/ FinalizeExchange(x) \/ ReserveForEvents(x) \/ PersistFails(x)
        PROVE  TerminalMeansEnded' /\ TerminalEventIsLast'
    <3>1. CASE EnsureSession(x)
      <4>1. \A t \in Sessions : sessions[t].status # "absent" => sessions'[t] = sessions[t]
        BY <3>1 DEF EnsureSession, IndInv, TypeOK
      <4> QED
        BY <1>1, <3>1, <4>1 DEF EnsureSession
    <3> QED
      BY <1>1, <2>1, <3>1 DEF FinalizeExchange, ReserveForEvents, PersistFails
  <2>2. CASE ReserveForExchange \/ BeginExchange \/ DaemonBlockFails
    BY <1>1, <2>2 DEF ReserveForExchange, BeginExchange, DaemonBlockFails
  <2>3. CASE InsertNormalization
    <3>x. PICK x \in Exchanges : x = daemon.exchange
      BY <2>3 DEF InsertNormalization, IndInv, BlockHasExchange
    <3> DEFINE rows == NormalizedEvents(x, daemon.first)
    <3>1. /\ events' = events \cup rows /\ UNCHANGED run
          /\ \A t \in Sessions : sessions'[t].status = sessions[t].status
      BY <2>3, <3>x DEF InsertNormalization, InsertEvents, IndInv, TypeOK
    <3>2. \A e \in rows : e.exchange # NoExchange /\ e.kind \notin TerminalKinds
      BY NoExchangeAssumption, NormalizedAssumption
         DEF NormalizedEvents, NormalizedKinds, TerminalKinds
    <3> HIDE DEF rows
    <3> QED
      BY <1>0, <3>1, <3>2
  <2> QED
    BY <1>3, <2>1, <2>2, <2>3 DEF DaemonStep
<1>4. ASSUME NEW s \in RunSessions, RunStep(s)
      PROVE  TerminalMeansEnded' /\ TerminalEventIsLast'
  <2>0. \A e \in events : e.session = s /\ run[s].pc # "ended" => e.kind \notin TerminalKinds
    OBVIOUS
  <2>1. CASE OpenRun(s)
    <3>1. \A e \in events : e.session # s
      BY <1>0, <2>1 DEF OpenRun, IndInv, SequencesCoverRows
    <3>2. /\ events' = events \cup {ProcessEvent(s, 1, "session.started")}
          /\ \A t \in Sessions \ {s} : sessions'[t] = sessions[t]
          /\ \A t \in RunSessions \ {s} : run'[t] = run[t]
      BY <2>1 DEF OpenRun, IndInv, TypeOK
    <3> QED
      BY <1>0, <3>1, <3>2 DEF ProcessEvent, TerminalKinds
  <2>2. CASE ReserveForRun(s) \/ LoseRun(s)
    BY <1>1, <2>2 DEF ReserveForRun, LoseRun, IndInv, TypeOK
  <2>3. CASE InsertRunEvent(s)
    <3>1. /\ events' = events \cup {ProcessEvent(s, run[s].sequence, run[s].kind)}
          /\ \A t \in Sessions \ {s} : sessions'[t] = sessions[t]
          /\ \A t \in RunSessions \ {s} : run'[t] = run[t]
          /\ run[s].pc = "insert" /\ run[s].kind \notin TerminalKinds
      BY <2>3 DEF InsertRunEvent, InsertEvents, IndInv, TypeOK, HeldArePositions
    <3> QED
      BY <1>0, <2>0, <3>1 DEF ProcessEvent
  <2>4. CASE RecordWorkspace(s)
    <3>1. /\ events' = events \cup {ProcessEvent(s, nextSequence[s], "file.change")}
          /\ \A t \in Sessions \ {s} : sessions'[t] = sessions[t]
          /\ \A t \in RunSessions \ {s} : run'[t] = run[t]
          /\ run[s].pc = "ready"
      BY <2>4 DEF RecordWorkspace, InsertEvents, IndInv, TypeOK
    <3> QED
      BY <1>0, <2>0, <3>1 DEF ProcessEvent, TerminalKinds
  <2>5. ASSUME NEW last \in {"process.exited", "process.error"},
               NEW terminal \in TerminalKinds, NEW status,
               status = (IF terminal = "session.ended" THEN "completed" ELSE "crashed"),
               EndRun(s, last, terminal, status)
        PROVE  TerminalMeansEnded' /\ TerminalEventIsLast'
    <3> DEFINE n == nextSequence[s]
    <3>1. /\ events' = events \cup {ProcessEvent(s, n, last), ProcessEvent(s, n + 1, terminal)}
          /\ \A t \in Sessions \ {s} : sessions'[t] = sessions[t]
          /\ sessions'[s].status = status
          /\ \A t \in RunSessions \ {s} : run'[t] = run[t]
          /\ run[s].pc = "ready" /\ run'[s].pc = "ended"
      BY <1>0, <2>5 DEF EndRun, InsertEvents, IndInv, TypeOK
    <3>2. \A e \in events : e.session = s => e.kind \notin TerminalKinds /\ e.sequence <= n + 1
      BY <1>0, <2>0, <3>1
    <3>3. n \in Nat /\ n <= n + 1 /\ n + 1 <= n + 1
      BY <1>0
    <3> HIDE DEF n
    <3>4. \A e \in events' : e.session = s =>
             e.sequence <= n + 1 /\ (e.kind \in TerminalKinds => e.sequence = n + 1
                                                                  /\ e.kind = terminal)
      BY <3>1, <3>2, <3>3 DEF ProcessEvent, TerminalKinds
    <3>5. \A e \in events' : e.session # s => e \in events
      BY <3>1 DEF ProcessEvent
    <3> QED
      BY <1>0, <2>5, <3>1, <3>4, <3>5
  <2>6. CASE FinishRun(s)
    <3>1. "session.ended" \in TerminalKinds
      BY DEF TerminalKinds
    <3> QED
      BY <2>5, <2>6, <3>1 DEF FinishRun
  <2>7. CASE FailRun(s)
    <3>1. "session.crashed" \in TerminalKinds
      BY DEF TerminalKinds
    <3> QED
      BY <2>5, <2>7, <3>1 DEF FailRun
  <2> QED
    BY <1>4, <2>1, <2>2, <2>3, <2>4, <2>6, <2>7 DEF RunStep
<1>5. ASSUME NEW s \in Sessions, RemoveSession(s)
      PROVE  TerminalMeansEnded' /\ TerminalEventIsLast'
  <2>1. /\ events' = {e \in events : e.session # s} /\ UNCHANGED run
        /\ \A t \in Sessions \ {s} : sessions'[t] = sessions[t]
    BY <1>5 DEF RemoveSession, IndInv, TypeOK
  <2> QED
    BY <1>0, <2>1
<1> QED
  BY <1>2, <1>3, <1>4, <1>5 DEF Next

-----------------------------------------------------------------------------
(* The counters.                                                           *)

\* The size of the union of two disjoint finite sets.
LEMMA DisjointUnionSize ==
    ASSUME NEW S, NEW T, IsFiniteSet(S), IsFiniteSet(T), S \cap T = {}
    PROVE  /\ Cardinality(S) \in Nat /\ Cardinality(T) \in Nat
           /\ Cardinality(S \cup T) = Cardinality(S) + Cardinality(T)
<1>1. Cardinality(S \cap T) = 0
  BY FS_EmptySet
<1>2. Cardinality(S) \in Nat /\ Cardinality(T) \in Nat
  BY FS_CardinalityType
<1>3. Cardinality(S \cup T) = Cardinality(S) + Cardinality(T) - Cardinality(S \cap T)
  BY FS_Union
<1> QED
  BY <1>1, <1>2, <1>3

\* insertRow counts each row it inserts, and its error when it is one.
LEMMA InsertKeepsCounters ==
    ASSUME TypeOK, IsFiniteSet(events), CountersMatchEvents,
           NEW s \in Sessions, NEW rows, IsFiniteSet(rows), \A e \in rows : e.session = s,
           NEW status, NEW next, InsertEvents(s, rows, status, next)
    PROVE  IsFiniteSet(events') /\ CountersMatchEvents'
<1> DEFINE stored(t) == {e \in events : e.session = t}
           errors(S) == {e \in S : IsError(e.kind)}
           after(t) == {e \in events' : e.session = t}
<1>1. /\ events' = events \cup rows
      /\ rows \cap stored(s) = {}
      /\ sessions \in [Sessions -> [status : {"absent", "active", "completed", "crashed"},
                                    events : Nat, errors : Nat]]
  BY DEF InsertEvents, TypeOK
<1>2. /\ sessions'[s].events = sessions[s].events + Cardinality(rows)
      /\ sessions'[s].errors = sessions[s].errors + Cardinality(errors(rows))
      /\ \A t \in Sessions \ {s} : sessions'[t] = sessions[t]
  BY <1>1 DEF InsertEvents
<1>3. \A t \in Sessions : IsFiniteSet(stored(t)) /\ IsFiniteSet(errors(stored(t)))
  <2> SUFFICES ASSUME NEW t \in Sessions
               PROVE  IsFiniteSet(stored(t)) /\ IsFiniteSet(errors(stored(t)))
    OBVIOUS
  <2>1. stored(t) \in SUBSET events /\ errors(stored(t)) \in SUBSET events
    OBVIOUS
  <2> QED
    BY <2>1, FS_Subset
<1>4. IsFiniteSet(errors(rows))
  <2>1. errors(rows) \in SUBSET rows
    OBVIOUS
  <2> QED
    BY <2>1, FS_Subset
<1>5. after(s) = stored(s) \cup rows /\ errors(after(s)) = errors(stored(s)) \cup errors(rows)
  BY <1>1
<1>6. \A t \in Sessions \ {s} : after(t) = stored(t)
  BY <1>1
<1>7. errors(stored(s)) \cap errors(rows) = {} /\ stored(s) \cap rows = {}
  BY <1>1
<1>8. /\ Cardinality(after(s)) = Cardinality(stored(s)) + Cardinality(rows)
      /\ Cardinality(errors(after(s))) = Cardinality(errors(stored(s))) + Cardinality(errors(rows))
  <2> HIDE DEF stored, errors, after
  <2> QED
    BY <1>3, <1>4, <1>5, <1>7, DisjointUnionSize
<1>9. \A t \in Sessions : /\ sessions[t].events = Cardinality(stored(t))
                          /\ sessions[t].errors = Cardinality(errors(stored(t)))
  BY DEF CountersMatchEvents
<1>10. IsFiniteSet(events')
  BY <1>1, FS_Union
<1>11. \A t \in Sessions : /\ sessions'[t].events = Cardinality(after(t))
                           /\ sessions'[t].errors = Cardinality(errors(after(t)))
  <2> HIDE DEF stored, errors, after
  <2>1. /\ sessions'[s].events = Cardinality(after(s))
        /\ sessions'[s].errors = Cardinality(errors(after(s)))
    BY <1>2, <1>8, <1>9
  <2>2. \A t \in Sessions \ {s} : /\ sessions'[t].events = Cardinality(after(t))
                                  /\ sessions'[t].errors = Cardinality(errors(after(t)))
    BY <1>2, <1>6, <1>9
  <2> QED
    BY <2>1, <2>2
<1> QED
  BY <1>10, <1>11 DEF CountersMatchEvents

\* Daemon and wrapper both bump the counters of a session, and they stay exact.
LEMMA CountersStep ==
    ASSUME IndInv, IsFiniteSet(events), CountersMatchEvents, Next
    PROVE  IsFiniteSet(events') /\ CountersMatchEvents'
<1> DEFINE stored(t) == {e \in events : e.session = t}
           errors(S) == {e \in S : IsError(e.kind)}
           after(t) == {e \in events' : e.session = t}
<1>0. TypeOK /\ RunSessions \subseteq Sessions
  BY DEF IndInv, Sessions
<1>1. ASSUME UNCHANGED events,
             \A t \in Sessions : /\ sessions'[t].events = sessions[t].events
                                 /\ sessions'[t].errors = sessions[t].errors
      PROVE  IsFiniteSet(events') /\ CountersMatchEvents'
  BY <1>1 DEF CountersMatchEvents
<1>2. ASSUME NEW s \in Sessions, sessions[s].status = "absent"
      PROVE  stored(s) = {} /\ sessions[s].events = 0 /\ sessions[s].errors = 0
  <2>1. stored(s) = {}
    BY <1>2 DEF IndInv, SequencesCoverRows, TypeOK, Event
  <2>2. errors(stored(s)) = {}
    BY <2>1
  <2> QED
    BY <2>1, <2>2, FS_EmptySet DEF CountersMatchEvents
<1>3. ASSUME NEW x \in Exchanges, EnsureSession(x)
      PROVE  IsFiniteSet(events') /\ CountersMatchEvents'
  <2>1. SessionOf[x] \in Sessions
    BY SessionOfAssumption
  <2>2. \A t \in Sessions : /\ sessions'[t].events = sessions[t].events
                            /\ sessions'[t].errors = sessions[t].errors
    BY <1>0, <1>2, <1>3, <2>1 DEF EnsureSession, TypeOK
  <2> QED
    BY <1>1, <1>3, <2>2 DEF EnsureSession
<1>4. CASE InsertNormalization
  <2>x. PICK x \in Exchanges : x = daemon.exchange
    BY <1>4 DEF InsertNormalization, IndInv, BlockHasExchange
  <2>1. /\ IsFiniteSet(NormalizedEvents(x, daemon.first))
        /\ \A e \in NormalizedEvents(x, daemon.first) : e.session = SessionOf[x]
        /\ SessionOf[x] \in Sessions
    BY <1>0, NormalizedEventsType, SessionOfAssumption DEF TypeOK
  <2> QED
    BY <1>0, <1>4, <2>x, <2>1, InsertKeepsCounters DEF InsertNormalization
<1>5. ASSUME NEW s \in RunSessions, RunStep(s)
      PROVE  IsFiniteSet(events') /\ CountersMatchEvents'
  <2>1. CASE OpenRun(s)
    <3> DEFINE row == ProcessEvent(s, 1, "session.started")
    <3>1. row.session = s /\ ~IsError(row.kind)
      BY DEF ProcessEvent, IsError
    <3>2. /\ events' = events \cup {row}
          /\ sessions'[s].events = 1 /\ sessions'[s].errors = 0
          /\ \A t \in Sessions \ {s} : sessions'[t] = sessions[t]
          /\ stored(s) = {}
      BY <1>0, <1>2, <2>1 DEF OpenRun, TypeOK
    <3>3. after(s) = {row} /\ errors(after(s)) = {}
      BY <3>1, <3>2
    <3>4. \A t \in Sessions \ {s} : after(t) = stored(t)
      BY <3>1, <3>2
    <3>5. IsFiniteSet(events') /\ Cardinality({row}) = 1 /\ Cardinality({}) = 0
      BY <3>2, FS_AddElement, FS_Singleton, FS_EmptySet
    <3>6. \A t \in Sessions : /\ sessions'[t].events = Cardinality(after(t))
                              /\ sessions'[t].errors = Cardinality(errors(after(t)))
      <4>1. /\ sessions'[s].events = Cardinality(after(s))
            /\ sessions'[s].errors = Cardinality(errors(after(s)))
        BY <3>2, <3>3, <3>5
      <4>2. \A t \in Sessions \ {s} : /\ sessions'[t].events = Cardinality(after(t))
                                      /\ sessions'[t].errors = Cardinality(errors(after(t)))
        BY <3>2, <3>4 DEF CountersMatchEvents
      <4> QED
        BY <4>1, <4>2
    <3> QED
      BY <3>5, <3>6 DEF CountersMatchEvents
  <2>2. CASE ReserveForRun(s) \/ LoseRun(s)
    BY <1>1, <2>2 DEF ReserveForRun, LoseRun
  <2>3. ASSUME NEW n, NEW kind
        PROVE  /\ IsFiniteSet({ProcessEvent(s, n, kind)})
               /\ \A e \in {ProcessEvent(s, n, kind)} : e.session = s
    <3>1. ProcessEvent(s, n, kind).session = s
      BY DEF ProcessEvent
    <3> QED
      BY <3>1, FS_Singleton
  <2>4. CASE InsertRunEvent(s)
    BY <1>0, <2>3, <2>4, InsertKeepsCounters DEF InsertRunEvent
  <2>5. CASE RecordWorkspace(s)
    BY <1>0, <2>3, <2>5, InsertKeepsCounters DEF RecordWorkspace
  <2>6. ASSUME NEW last, NEW terminal, NEW status, EndRun(s, last, terminal, status)
        PROVE  IsFiniteSet(events') /\ CountersMatchEvents'
    <3> DEFINE rows == {ProcessEvent(s, nextSequence[s], last),
                        ProcessEvent(s, nextSequence[s] + 1, terminal)}
    <3>1. /\ IsFiniteSet(rows)
          /\ \A e \in rows : e.session = s
      <4>1. \A e \in rows : e.session = s
        BY DEF ProcessEvent
      <4> QED
        BY <4>1, PairIsFinite
    <3>2. InsertEvents(s, rows, status, nextSequence[s] + 2)
      BY <2>6 DEF EndRun
    <3> HIDE DEF rows
    <3> QED
      BY <1>0, <3>1, <3>2, InsertKeepsCounters
  <2> QED
    BY <1>5, <2>1, <2>2, <2>4, <2>5, <2>6 DEF RunStep, FinishRun, FailRun
<1>6. ASSUME NEW s \in Sessions, RemoveSession(s)
      PROVE  IsFiniteSet(events') /\ CountersMatchEvents'
  <2>1. /\ events' = {e \in events : e.session # s}
        /\ sessions'[s].events = 0 /\ sessions'[s].errors = 0
        /\ \A t \in Sessions \ {s} : sessions'[t] = sessions[t]
    BY <1>0, <1>6 DEF RemoveSession, NoSession, TypeOK
  <2>2. after(s) = {} /\ errors(after(s)) = {}
    BY <2>1
  <2>3. \A t \in Sessions \ {s} : after(t) = stored(t)
    BY <2>1
  <2>4. IsFiniteSet(events')
    <3>1. events' \in SUBSET events
      BY <2>1
    <3> QED
      BY <3>1, FS_Subset
  <2>5. \A t \in Sessions : /\ sessions'[t].events = Cardinality(after(t))
                            /\ sessions'[t].errors = Cardinality(errors(after(t)))
    <3>1. /\ sessions'[s].events = Cardinality(after(s))
          /\ sessions'[s].errors = Cardinality(errors(after(s)))
      BY <2>1, <2>2, FS_EmptySet
    <3>2. \A t \in Sessions \ {s} : /\ sessions'[t].events = Cardinality(after(t))
                                    /\ sessions'[t].errors = Cardinality(errors(after(t)))
      BY <2>1, <2>3 DEF CountersMatchEvents
    <3> QED
      BY <3>1, <3>2
  <2> QED
    BY <2>4, <2>5 DEF CountersMatchEvents
<1>7. CASE DaemonStep
  BY <1>1, <1>3, <1>4, <1>7 DEF DaemonStep, FinalizeExchange, ReserveForEvents, PersistFails,
     ReserveForExchange, BeginExchange, DaemonBlockFails
<1> QED
  BY <1>1, <1>5, <1>6, <1>7 DEF Next, DaemonStart, DaemonCrash

-----------------------------------------------------------------------------
(* Normalizations.                                                         *)

\* What NormalizationAtomic says of one exchange.
NormalizedWhole(x) ==
    LET derived == {e \in events : e.exchange = x} IN
    /\ x \in normalizationRuns <=> rawExchanges[x].parse = "parsed"
    /\ IF x \in normalizationRuns
       THEN /\ rawExchanges[x].state = "complete"
            /\ \E first \in rawExchanges[x].sequence + 1 .. nextSequence[SessionOf[x]] :
                  derived = NormalizedEvents(x, first)
       ELSE derived = {}

\* A step keeps a normalization whole that leaves its events, its run and the
\* row of its exchange alone.
LEMMA NormalizationFrame ==
    ASSUME IndInv, IndInv', Next, NEW x \in Exchanges, NormalizedWhole(x),
           {e \in events' : e.exchange = x} = {e \in events : e.exchange = x},
           x \in normalizationRuns' <=> x \in normalizationRuns,
           rawExchanges'[x].parse = "parsed" <=> rawExchanges[x].parse = "parsed",
           x \in normalizationRuns =>
              /\ rawExchanges'[x].state = rawExchanges[x].state
              /\ rawExchanges'[x].sequence = rawExchanges[x].sequence
    PROVE  NormalizedWhole(x)'
<1>1. CASE x \in normalizationRuns
  <2>1. PICK first \in rawExchanges[x].sequence + 1 .. nextSequence[SessionOf[x]] :
           {e \in events : e.exchange = x} = NormalizedEvents(x, first)
    BY <1>1 DEF NormalizedWhole
  <2>2. rawExchanges'[x].state = "complete"
    BY <1>1 DEF NormalizedWhole
  <2>3. nextSequence'[SessionOf[x]] >= nextSequence[SessionOf[x]]
    BY <2>2, SequenceOfStartedGrows DEF Started
  <2>4. /\ nextSequence'[SessionOf[x]] \in Nat /\ nextSequence[SessionOf[x]] \in Nat
        /\ rawExchanges[x].sequence \in Nat
    BY SessionOfAssumption DEF IndInv, TypeOK
  <2>5. first \in rawExchanges'[x].sequence + 1 .. nextSequence'[SessionOf[x]]
    BY <1>1, <2>1, <2>3, <2>4
  <2> QED
    BY <1>1, <2>1, <2>2, <2>5 DEF NormalizedWhole
<1>2. CASE x \notin normalizationRuns
  BY <1>2 DEF NormalizedWhole
<1> QED
  BY <1>1, <1>2

\* Events, run and parse status appear together and disappear together.
LEMMA NormalizationStep ==
    ASSUME IndInv, IndInv', OpenJobIsRecording, JobsMatchRows, HeldArePositions,
           NormalizationAtomic, Next
    PROVE  NormalizationAtomic'
<1>0. /\ \A x \in Exchanges : SessionOf[x] \in Sessions /\ rawExchanges[x].sequence \in Nat
      /\ rawExchanges \in [Exchanges ->
             [state : {"absent", "recording", "complete", "recovered"}, sequence : Nat,
              outcome : Outcomes \cup {"none"},
              parse : {"none", "pending", "parsed", "skipped"}]]
      /\ daemon.pc \in {"reserve", "begin", "normalize"} => daemon.exchange \in Exchanges
  BY SessionOfAssumption DEF IndInv, TypeOK, BlockHasExchange
<1>1. \A x \in Exchanges : NormalizedWhole(x)
  BY DEF NormalizationAtomic, NormalizedWhole
<1>a. \A x \in normalizationRuns : x \in Exchanges => rawExchanges[x].state = "complete"
  BY <1>1 DEF NormalizedWhole
<1> SUFFICES \A x \in Exchanges : NormalizedWhole(x)'
  BY DEF NormalizationAtomic, NormalizedWhole
<1>2. CASE UNCHANGED <<events, normalizationRuns, rawExchanges>>
  BY <1>1, <1>2, NormalizationFrame
<1>3. CASE DaemonStart
  BY <1>0, <1>1, <1>a, <1>3, NormalizationFrame DEF DaemonStart, NormalizedWhole
<1>4. CASE BeginExchange
  <2>1. rawExchanges[daemon.exchange].state = "absent"
    BY <1>4 DEF JobsMatchRows, BeginExchange
  <2>2. /\ UNCHANGED <<events, normalizationRuns>>
        /\ \A x \in Exchanges : \/ rawExchanges'[x] = rawExchanges[x]
                                \/ /\ rawExchanges[x].state # "complete"
                                   /\ rawExchanges'[x].parse = "pending"
    BY <1>0, <1>4, <2>1 DEF BeginExchange
  <2> QED
    BY <1>1, <1>a, <2>2, NormalizationFrame DEF NormalizedWhole
<1>5. ASSUME NEW x \in Exchanges, FinalizeExchange(x)
      PROVE  \A y \in Exchanges : NormalizedWhole(y)'
  <2>1. /\ UNCHANGED <<events, normalizationRuns>>
        /\ \A y \in Exchanges : \/ rawExchanges'[y] = rawExchanges[y]
                                \/ /\ rawExchanges[y].state # "complete"
                                   /\ rawExchanges'[y].parse \in {"pending", "skipped"}
    BY <1>0, <1>5 DEF FinalizeExchange
  <2> QED
    BY <1>1, <1>a, <2>1, NormalizationFrame DEF NormalizedWhole
<1>6. CASE InsertNormalization
  <2>x. PICK x \in Exchanges : x = daemon.exchange
    BY <1>0, <1>6 DEF InsertNormalization
  <2> DEFINE rows == NormalizedEvents(x, daemon.first)
  <2>1. /\ events' = events \cup rows
        /\ normalizationRuns' = normalizationRuns \cup {x}
        /\ rawExchanges' = [rawExchanges EXCEPT ![x].parse = "parsed"]
        /\ x \notin normalizationRuns
        /\ Started(x)
    BY <1>6, <2>x DEF InsertNormalization, InsertEvents
  <2>2. /\ rawExchanges'[x].parse = "parsed"
        /\ rawExchanges'[x].state = rawExchanges[x].state
        /\ rawExchanges'[x].sequence = rawExchanges[x].sequence
        /\ \A y \in Exchanges \ {x} : rawExchanges'[y] = rawExchanges[y]
    BY <1>0, <2>1
  <2>3. \A e \in rows : e.exchange = x
    BY DEF NormalizedEvents
  <2>4. rawExchanges[x].state = "complete"
    BY <1>6, <2>x, <2>1 DEF InsertNormalization, JobsMatchRows, OpenJobIsRecording, Started
  <2>5. daemon.first \in rawExchanges'[x].sequence + 1 .. nextSequence'[SessionOf[x]]
    <3>1. /\ rawExchanges[x].sequence < daemon.first
          /\ daemon.first <= nextSequence[SessionOf[x]]
      BY <1>6, <2>x, <2>1 DEF InsertNormalization, HeldArePositions
    <3>2. nextSequence'[SessionOf[x]] >= nextSequence[SessionOf[x]]
      BY <2>1, <2>2, SequenceOfStartedGrows DEF Started
    <3>3. /\ nextSequence'[SessionOf[x]] \in Nat /\ nextSequence[SessionOf[x]] \in Nat
          /\ daemon.first \in Nat /\ rawExchanges[x].sequence \in Nat
      BY <1>0 DEF IndInv, TypeOK
    <3> QED
      BY <2>2, <3>1, <3>2, <3>3
  <2> HIDE DEF rows
  <2>6. {e \in events' : e.exchange = x} = rows
    BY <1>1, <2>1, <2>3 DEF NormalizedWhole
  <2>7. NormalizedWhole(x)'
    BY <2>1, <2>2, <2>4, <2>5, <2>6 DEF NormalizedWhole, rows
  <2>8. ASSUME NEW y \in Exchanges \ {x} PROVE NormalizedWhole(y)'
    <3>1. {e \in events' : e.exchange = y} = {e \in events : e.exchange = y}
      BY <2>1, <2>3
    <3> QED
      BY <1>1, <2>1, <2>2, <3>1, NormalizationFrame
  <2> QED
    BY <2>7, <2>8
<1>7. ASSUME NEW s \in RunSessions, RunStep(s) PROVE \A x \in Exchanges : NormalizedWhole(x)'
  <2>1. \A n, kind : ProcessEvent(s, n, kind).exchange \notin Exchanges
    BY NoExchangeAssumption DEF ProcessEvent
  <2>2. events \subseteq events' /\ \A e \in events' : e \in events \/ e.exchange \notin Exchanges
    <3>1. CASE ReserveForRun(s) \/ LoseRun(s)
      BY <3>1 DEF ReserveForRun, LoseRun
    <3>2. CASE OpenRun(s) \/ InsertRunEvent(s) \/ RecordWorkspace(s)
      BY <2>1, <3>2 DEF OpenRun, InsertRunEvent, RecordWorkspace, InsertEvents
    <3>3. CASE FinishRun(s) \/ FailRun(s)
      BY <2>1, <3>3 DEF FinishRun, FailRun, EndRun, InsertEvents
    <3> QED
      BY <1>7, <3>1, <3>2, <3>3 DEF RunStep
  <2>3. UNCHANGED <<rawExchanges, normalizationRuns>>
    BY <1>7 DEF RunStep, OpenRun, ReserveForRun, InsertRunEvent, RecordWorkspace, FinishRun,
                FailRun, EndRun, LoseRun
  <2>4. \A x \in Exchanges : {e \in events' : e.exchange = x} = {e \in events : e.exchange = x}
    BY <2>2
  <2> QED
    BY <1>1, <2>3, <2>4, NormalizationFrame
<1>8. ASSUME NEW s \in Sessions, RemoveSession(s) PROVE \A x \in Exchanges : NormalizedWhole(x)'
  <2>1. /\ events' = {e \in events : e.session # s}
        /\ normalizationRuns' = {x \in normalizationRuns : SessionOf[x] # s}
        /\ \A x \in Exchanges : rawExchanges'[x] = (IF SessionOf[x] = s THEN NoRow
                                                     ELSE rawExchanges[x])
    BY <1>8 DEF RemoveSession
  <2>2. \A x \in Exchanges, e \in events : e.exchange = x => e.session = SessionOf[x]
    <3>1. \A x \in Exchanges : \A first : \A e \in NormalizedEvents(x, first) :
             e.session = SessionOf[x]
      BY DEF NormalizedEvents
    <3> QED
      BY <1>1, <3>1 DEF NormalizedWhole
  <2>3. ASSUME NEW x \in Exchanges, SessionOf[x] = s PROVE NormalizedWhole(x)'
    <3>1. {e \in events' : e.exchange = x} = {}
      BY <2>1, <2>2, <2>3
    <3>2. rawExchanges'[x].parse = "none" /\ x \notin normalizationRuns'
      BY <2>1, <2>3 DEF NoRow
    <3> QED
      BY <3>1, <3>2 DEF NormalizedWhole
  <2>4. ASSUME NEW x \in Exchanges, SessionOf[x] # s PROVE NormalizedWhole(x)'
    <3>1. {e \in events' : e.exchange = x} = {e \in events : e.exchange = x}
      BY <2>1, <2>2, <2>4
    <3> QED
      BY <1>1, <2>1, <2>4, <3>1, NormalizationFrame
  <2> QED
    BY <2>3, <2>4
<1>9. CASE DaemonStep
  BY <1>2, <1>4, <1>5, <1>6, <1>9 DEF DaemonStep, EnsureSession, ReserveForEvents, PersistFails,
     ReserveForExchange, DaemonBlockFails
<1> QED
  BY <1>2, <1>3, <1>7, <1>8, <1>9 DEF Next, DaemonCrash

-----------------------------------------------------------------------------
(* The invariant.                                                          *)

\* A new store has no rows to contradict one another.
LEMMA InitContentInv == Init => ContentInv
<1> SUFFICES ASSUME Init PROVE ContentInv
  OBVIOUS
<1> USE DEF Init
<1>1. IndInv
  BY InitIndInv
<1>2. OpenJobIsRecording /\ JobsMatchRows
  BY DEF OpenJobIsRecording, JobsMatchRows, NoRow, Down
<1>3. HeldArePositions /\ TerminalMeansEnded /\ TerminalEventIsLast
  BY DEF HeldArePositions, TerminalMeansEnded, TerminalEventIsLast, Down
<1>4. NormalizationAtomic
  BY DEF NormalizationAtomic, NoRow
<1>5. IsFiniteSet(events) /\ CountersMatchEvents
  <2>1. \A s \in Sessions : {e \in events : e.session = s} = {}
    OBVIOUS
  <2>2. \A s \in Sessions : {e \in {f \in events : f.session = s} : IsError(e.kind)} = {}
    OBVIOUS
  <2>3. \A s \in Sessions : sessions[s].events = 0 /\ sessions[s].errors = 0
    BY DEF NoSession
  <2> QED
    BY <2>1, <2>2, <2>3, FS_EmptySet DEF CountersMatchEvents
<1> QED
  BY <1>1, <1>2, <1>3, <1>4, <1>5 DEF ContentInv

\* Every step of the daemon and of the wrapper keeps it.
LEMMA StepContentInv == ContentInv /\ [Next]_vars => ContentInv'
<1> SUFFICES ASSUME ContentInv, [Next]_vars PROVE ContentInv'
  OBVIOUS
<1>1. CASE Next
  <2>1. IndInv'
    BY <1>1, StepIndInv DEF ContentInv
  <2>2. OpenJobIsRecording' /\ JobsMatchRows'
    BY <1>1, JobsStep DEF ContentInv, IndInv
  <2>3. HeldArePositions'
    BY <1>1, <2>1, HeldPositionsStep DEF ContentInv
  <2>4. TerminalMeansEnded' /\ TerminalEventIsLast'
    BY <1>1, <2>1, TerminalStep DEF ContentInv
  <2>5. NormalizationAtomic'
    BY <1>1, <2>1, NormalizationStep DEF ContentInv
  <2>6. IsFiniteSet(events') /\ CountersMatchEvents'
    BY <1>1, CountersStep DEF ContentInv
  <2> QED
    BY <2>1, <2>2, <2>3, <2>4, <2>5, <2>6 DEF ContentInv
<1>2. CASE UNCHANGED vars
  <2>1. IndInv'
    BY <1>2, StepIndInv DEF ContentInv
  <2>2. OpenJobIsRecording' /\ JobsMatchRows'
    BY <1>2 DEF ContentInv, OpenJobIsRecording, JobsMatchRows, vars
  <2>3. HeldArePositions' /\ TerminalMeansEnded' /\ TerminalEventIsLast'
    BY <1>2 DEF ContentInv, HeldArePositions, TerminalMeansEnded, TerminalEventIsLast,
                Started, vars
  <2>4. NormalizationAtomic' /\ IsFiniteSet(events') /\ CountersMatchEvents'
    BY <1>2 DEF ContentInv, NormalizationAtomic, CountersMatchEvents, vars
  <2> QED
    BY <2>1, <2>2, <2>3, <2>4 DEF ContentInv
<1> QED
  BY <1>1, <1>2

\* The strengthened invariant holds in every reachable state.
THEOREM ContentInvHolds == Spec => []ContentInv
<1>1. Init => ContentInv
  BY InitContentInv
<1>2. ContentInv /\ [Next]_vars => ContentInv'
  BY StepContentInv
<1> QED
  BY <1>1, <1>2, PTL DEF Spec

\* Start-up recovery closes what a dead daemon left and nothing a live one is
\* recording; finalize finds its row, or the session has been deleted.
THEOREM RecoveryClosesNoOpenJob == Spec => []OpenJobIsRecording
<1>1. ContentInv => OpenJobIsRecording
  BY DEF ContentInv
<1> QED
  BY <1>1, ContentInvHolds, PTL

\* A normalization is stored whole or not at all, although its sequences are
\* reserved in a transaction of their own and the session may be deleted or
\* written to by its wrapper in between.
THEOREM NormalizationsAreAtomic == Spec => []NormalizationAtomic
<1>1. ContentInv => NormalizationAtomic
  BY DEF ContentInv
<1> QED
  BY <1>1, ContentInvHolds, PTL

\* The counters of a session row are the number of its events and of its
\* errors, whoever inserted them.
THEOREM CountersAreExact == Spec => []CountersMatchEvents
<1>1. ContentInv => CountersMatchEvents
  BY DEF ContentInv
<1> QED
  BY <1>1, ContentInvHolds, PTL

\* Nothing of a wrapper comes after its terminal event, and the session has the
\* status that event says.
THEOREM RunsEndOnce == Spec => []TerminalEventIsLast
<1>1. ContentInv => TerminalEventIsLast
  BY DEF ContentInv
<1> QED
  BY <1>1, ContentInvHolds, PTL

\* The step formula of EvidenceIsImmutable.
EvidenceKept ==
    /\ \A x \in Exchanges :
          rawExchanges[x].state \in {"complete", "recovered"} =>
             \/ [rawExchanges'[x] EXCEPT !.parse = rawExchanges[x].parse] = rawExchanges[x]
             \/ sessions'[SessionOf[x]].status = "absent"
    /\ \A e \in events : e \in events' \/ sessions'[e.session].status = "absent"

\* No step rewrites a closed exchange or drops an event.
LEMMA StepKeepsEvidence == ContentInv /\ [Next]_vars => [EvidenceKept]_vars
<1> SUFFICES ASSUME ContentInv, Next PROVE EvidenceKept
  BY DEF EvidenceKept
<1>0. /\ rawExchanges \in [Exchanges ->
             [state : {"absent", "recording", "complete", "recovered"}, sequence : Nat,
              outcome : Outcomes \cup {"none"},
              parse : {"none", "pending", "parsed", "skipped"}]]
      /\ daemon.pc \in {"reserve", "begin", "normalize"} => daemon.exchange \in Exchanges
      /\ \A e \in events : e.session \in Sessions
  BY DEF ContentInv, IndInv, TypeOK, BlockHasExchange, Event
<1> DEFINE kept(x) == [rawExchanges'[x] EXCEPT !.parse = rawExchanges[x].parse] = rawExchanges[x]
<1>1. ASSUME events \subseteq events',
             \A x \in Exchanges : \/ rawExchanges'[x] = rawExchanges[x]
                                  \/ rawExchanges[x].state \in {"absent", "recording"}
      PROVE  EvidenceKept
  BY <1>0, <1>1 DEF EvidenceKept
<1>2. CASE InsertNormalization
  <2>x. PICK x \in Exchanges : x = daemon.exchange
    BY <1>0, <1>2 DEF InsertNormalization
  <2>1. /\ events \subseteq events'
        /\ rawExchanges' = [rawExchanges EXCEPT ![x].parse = "parsed"]
    BY <1>2, <2>x DEF InsertNormalization, InsertEvents
  <2>2. kept(x) /\ \A y \in Exchanges \ {x} : rawExchanges'[y] = rawExchanges[y]
    BY <1>0, <2>1
  <2>3. \A y \in Exchanges : kept(y)
    BY <1>0, <2>2
  <2> QED
    BY <2>1, <2>3 DEF EvidenceKept
<1>3. CASE BeginExchange
  <2>1. rawExchanges[daemon.exchange].state = "absent"
    BY <1>3 DEF BeginExchange, ContentInv, JobsMatchRows
  <2> QED
    BY <1>0, <1>1, <1>3, <2>1 DEF BeginExchange
<1>4. ASSUME NEW x \in Exchanges, FinalizeExchange(x) PROVE EvidenceKept
  BY <1>0, <1>1, <1>4 DEF FinalizeExchange
<1>5. CASE DaemonStart
  BY <1>0, <1>1, <1>5 DEF DaemonStart
<1>6. CASE DaemonStep
  BY <1>1, <1>2, <1>3, <1>4, <1>6 DEF DaemonStep, EnsureSession, ReserveForEvents, PersistFails,
     ReserveForExchange, DaemonBlockFails
<1>7. ASSUME NEW s \in RunSessions, RunStep(s) PROVE EvidenceKept
  BY <1>1, <1>7 DEF RunStep, OpenRun, ReserveForRun, InsertRunEvent, RecordWorkspace, FinishRun,
     FailRun, EndRun, LoseRun, InsertEvents
<1>8. ASSUME NEW s \in Sessions, RemoveSession(s) PROVE EvidenceKept
  <2>1. /\ sessions'[s].status = "absent"
        /\ events' = {e \in events : e.session # s}
        /\ \A x \in Exchanges : SessionOf[x] = s \/ rawExchanges'[x] = rawExchanges[x]
    BY <1>8 DEF RemoveSession, NoSession, ContentInv, IndInv, TypeOK
  <2> QED
    BY <1>0, <2>1 DEF EvidenceKept
<1> QED
  BY <1>1, <1>5, <1>6, <1>7, <1>8 DEF Next, DaemonCrash

\* What is recorded stays as it was recorded until its session is deleted.
THEOREM EvidenceStays == Spec => EvidenceIsImmutable
<1>1. ContentInv /\ [Next]_vars =>
        [/\ \A x \in Exchanges :
              rawExchanges[x].state \in {"complete", "recovered"} =>
                 \/ [rawExchanges'[x] EXCEPT !.parse = rawExchanges[x].parse] = rawExchanges[x]
                 \/ sessions'[SessionOf[x]].status = "absent"
         /\ \A e \in events : e \in events' \/ sessions'[e.session].status = "absent"]_vars
  BY StepKeepsEvidence DEF EvidenceKept
<1> QED
  BY <1>1, ContentInvHolds, PTL DEF Spec, EvidenceIsImmutable

-----------------------------------------------------------------------------
(* The journal implements the abstract log.                                *)

\* What the refinement mapping writes for a row.
ExchangeRecord(x) ==
    [session |-> SessionOf[x], position |-> rawExchanges[x].sequence, entry |-> <<x, 0>>]
EventRecord(e) ==
    [session |-> e.session, position |-> e.sequence,
     entry |-> <<e.exchange, IF e.exchange = NoExchange THEN e.sequence ELSE e.index>>]

Closed(x) == rawExchanges[x].state \in {"complete", "recovered"}
Outcome(x) == [exchange |-> x, outcome |-> rawExchanges[x].outcome]
Sealed == {Outcome(x) : x \in {y \in Exchanges : Closed(y)}}

\* The records are those of the started exchanges and of the events.
LEMMA LogRecordsDef ==
    /\ LogRecords = {ExchangeRecord(x) : x \in {y \in Exchanges : Started(y)}}
                      \cup {EventRecord(e) : e \in events}
    /\ Sealed = {[exchange |-> x, outcome |-> rawExchanges[x].outcome]
                    : x \in {y \in Exchanges : rawExchanges[y].state \in {"complete", "recovered"}}}
BY DEF LogRecords, ExchangeRecord, EventRecord, Sealed, Closed, Outcome

\* No position holds two records, because no sequence has two rows.
LEMMA RowsAreRecords == NoSequenceReuse => Log!OneRecordPerPosition(LogRecords)
<1> SUFFICES ASSUME NoSequenceReuse, NEW r \in LogRecords, NEW t \in LogRecords,
                    r.session = t.session, r.position = t.position
             PROVE  r = t
  BY DEF Log!OneRecordPerPosition
<1>1. ASSUME NEW x \in Exchanges, NEW y \in Exchanges, Started(x), Started(y),
             ExchangeRecord(x).session = ExchangeRecord(y).session,
             ExchangeRecord(x).position = ExchangeRecord(y).position
      PROVE  x = y
  BY <1>1 DEF ExchangeRecord, NoSequenceReuse, ExchangesUnique
<1>2. ASSUME NEW e \in events, NEW f \in events,
             EventRecord(e).session = EventRecord(f).session,
             EventRecord(e).position = EventRecord(f).position
      PROVE  e = f
  BY <1>2 DEF EventRecord, NoSequenceReuse, EventsUnique
<1>3. ASSUME NEW x \in Exchanges, NEW e \in events, Started(x),
             EventRecord(e).session = ExchangeRecord(x).session
      PROVE  EventRecord(e).position # ExchangeRecord(x).position
  BY <1>3 DEF EventRecord, ExchangeRecord, NoSequenceReuse, EventsApartFromExchanges
<1>4. /\ \/ \E x \in Exchanges : Started(x) /\ r = ExchangeRecord(x)
         \/ \E e \in events : r = EventRecord(e)
      /\ \/ \E x \in Exchanges : Started(x) /\ t = ExchangeRecord(x)
         \/ \E e \in events : t = EventRecord(e)
  BY LogRecordsDef
<1> QED
  BY <1>1, <1>2, <1>3, <1>4

\* The first entry of an exchange is its own row: an event of it has an index.
LEMMA RecordOfExchange ==
    ASSUME NormalizationAtomic, NEW x \in Exchanges
    PROVE  {r \in LogRecords : r.entry = <<x, 0>>}
             = IF Started(x) THEN {ExchangeRecord(x)} ELSE {}
<1>1. \A e \in events : EventRecord(e).entry # <<x, 0>>
  <2> SUFFICES ASSUME NEW e \in events, EventRecord(e).entry = <<x, 0>> PROVE FALSE
    OBVIOUS
  <2>1. e.exchange = x /\ x # NoExchange
    BY NoExchangeAssumption DEF EventRecord
  <2>2. e.index = 0
    BY <2>1 DEF EventRecord
  <2>3. NormalizedWhole(x)
    BY DEF NormalizationAtomic, NormalizedWhole
  <2>4. PICK first : e \in NormalizedEvents(x, first)
    BY <2>1, <2>3 DEF NormalizedWhole
  <2>5. e.index \in 1 .. Len(Normalized[x])
    BY <2>4 DEF NormalizedEvents
  <2> QED
    BY <2>2, <2>5
<1>2. \A y \in Exchanges : ExchangeRecord(y).entry = <<x, 0>> <=> y = x
  BY DEF ExchangeRecord
<1> QED
  BY <1>1, <1>2, LogRecordsDef

LogIssued == [s \in Sessions |-> IF nextSequence[s] = 0 THEN 0 ELSE nextSequence[s] - 1]

\* A transaction on session s that adds records at issued positions.
LEMMA TransactionAppends ==
    ASSUME IndInv, IndInv', NEW s \in Sessions,
           nextSequence'[s] >= nextSequence[s],
           \A t \in Sessions \ {s} : nextSequence'[t] = nextSequence[t],
           \A x \in Exchanges :
              \/ /\ Started(x)' <=> Started(x)
                 /\ rawExchanges'[x].sequence = rawExchanges[x].sequence
              \/ /\ ~Started(x) /\ SessionOf[x] = s /\ rawExchanges'[x].sequence > 0,
           events \subseteq events',
           \A e \in events' \ events : e.session = s /\ e.sequence > 0,
           Sealed' = Sealed
    PROVE  Log!Append(s)
<1>0. /\ nextSequence \in [Sessions -> Nat] /\ nextSequence' \in [Sessions -> Nat]
      /\ \A e \in events' : e.sequence \in Nat /\ e.sequence < nextSequence'[e.session]
      /\ \A x \in Exchanges : /\ rawExchanges'[x].sequence \in Nat
                              /\ Started(x)' => rawExchanges'[x].sequence
                                                   < nextSequence'[SessionOf[x]]
  BY DEF IndInv, TypeOK, SequencesCoverRows, Event
<1>r. LogRecords' = {ExchangeRecord(x)' : x \in {y \in Exchanges : Started(y)'}}
                       \cup {EventRecord(e)' : e \in events'}
  BY DEF LogRecords, ExchangeRecord, EventRecord
<1>1. /\ LogIssued'[s] >= LogIssued[s]
      /\ LogIssued' = [LogIssued EXCEPT ![s] = LogIssued'[s]]
  <2>1. \A t \in Sessions : LogIssued'[t] = (IF nextSequence'[t] = 0 THEN 0
                                             ELSE nextSequence'[t] - 1)
    BY DEF LogIssued
  <2>2. \A t \in Sessions : LogIssued[t] = (IF nextSequence[t] = 0 THEN 0
                                            ELSE nextSequence[t] - 1)
    BY DEF LogIssued
  <2>3. LogIssued'[s] >= LogIssued[s]
    BY <1>0, <2>1, <2>2
  <2>4. \A t \in Sessions \ {s} : LogIssued'[t] = LogIssued[t]
    BY <1>0, <2>1, <2>2
  <2> QED
    BY <2>3, <2>4 DEF LogIssued
<1>2. LogRecords \subseteq LogRecords'
  <2>1. \A x \in Exchanges : Started(x) => Started(x)' /\ ExchangeRecord(x)' = ExchangeRecord(x)
    BY DEF ExchangeRecord
  <2>2. \A e \in events : e \in events' /\ EventRecord(e)' = EventRecord(e)
    BY DEF EventRecord
  <2> QED
    BY <1>r, <2>1, <2>2, LogRecordsDef
<1>3. \A r \in LogRecords' \ LogRecords : r.session = s /\ r.position \in 1 .. LogIssued'[s]
  <2> SUFFICES ASSUME NEW r \in LogRecords' \ LogRecords
               PROVE  r.session = s /\ r.position \in 1 .. LogIssued'[s]
    OBVIOUS
  <2>1. ASSUME NEW n \in Nat, n > 0, n < nextSequence'[s] PROVE n \in 1 .. LogIssued'[s]
    BY <1>0, <2>1 DEF LogIssued
  <2>2. ASSUME NEW x \in Exchanges, Started(x)', r = ExchangeRecord(x)'
        PROVE  r.session = s /\ r.position \in 1 .. LogIssued'[s]
    <3>1. ~Started(x)
      BY <2>2, LogRecordsDef DEF ExchangeRecord
    <3>2. SessionOf[x] = s /\ rawExchanges'[x].sequence > 0
      BY <2>2, <3>1
    <3> QED
      BY <1>0, <2>1, <2>2, <3>2 DEF ExchangeRecord
  <2>3. ASSUME NEW e \in events', r = EventRecord(e)'
        PROVE  r.session = s /\ r.position \in 1 .. LogIssued'[s]
    <3>1. e \notin events
      BY <2>3, LogRecordsDef DEF EventRecord
    <3> QED
      BY <1>0, <2>1, <2>3, <3>1 DEF EventRecord
  <2>4. \/ \E x \in Exchanges : Started(x)' /\ r = ExchangeRecord(x)'
        \/ \E e \in events' : r = EventRecord(e)'
    BY <1>r
  <2> QED
    BY <2>2, <2>3, <2>4
<1>4. Log!OneRecordPerPosition(LogRecords)'
  <2>1. NoSequenceReuse' => Log!OneRecordPerPosition(LogRecords)'
    BY RowsAreRecords, PTL
  <2> QED
    BY <2>1 DEF IndInv
<1> QED
  BY <1>1, <1>2, <1>3, <1>4 DEF Log!Append, LogIssued, Sealed, Closed, Outcome

\* Outcomes stay sealed while the closed rows keep theirs.
LEMMA SealedKept ==
    ASSUME \A x \in Exchanges : /\ Closed(x)' <=> Closed(x)
                                /\ Closed(x) => rawExchanges'[x].outcome = rawExchanges[x].outcome
    PROVE  Sealed' = Sealed
BY DEF Sealed, Outcome

\* A transaction on a session that exists is a Write of the log.
LEMMA TransactionWrites ==
    ASSUME NEW s \in Sessions, sessions[s].status \in {"active", "completed", "crashed"},
           \A t \in Sessions : sessions'[t].status = sessions[t].status,
           Log!Append(s)
    PROVE  Log!LogNext
<1>1. /\ s \in {t \in Sessions : sessions[t].status = "active"}
             \cup {t \in Sessions : sessions[t].status \in {"completed", "crashed"}}
      /\ {t \in Sessions : sessions'[t].status = "active"}
           = {t \in Sessions : sessions[t].status = "active"}
      /\ {t \in Sessions : sessions'[t].status \in {"completed", "crashed"}}
           = {t \in Sessions : sessions[t].status \in {"completed", "crashed"}}
  OBVIOUS
<1>2. Log!Write(s)
  BY <1>1 DEF Log!Write
<1> QED
  BY <1>2 DEF Log!LogNext

\* A step that closes rows and writes nothing else is a Seal of the log.
LEMMA ClosingSeals ==
    ASSUME ContentInv,
           UNCHANGED <<sessions, nextSequence, events>>,
           \A x \in Exchanges :
              /\ Started(x)' <=> Started(x)
              /\ rawExchanges'[x].sequence = rawExchanges[x].sequence
              /\ Closed(x) => Closed(x)' /\ rawExchanges'[x].outcome = rawExchanges[x].outcome
              /\ Closed(x)' /\ ~Closed(x) => rawExchanges'[x].outcome \in Outcomes
    PROVE  Log!LogNext
<1>1. LogRecords' = LogRecords
  BY DEF LogRecords
<1>2. Sealed \subseteq Sealed'
  BY DEF Sealed, Outcome
<1>3. ASSUME NEW f \in Sealed' \ Sealed
      PROVE  /\ f.exchange \in Exchanges
             /\ f.outcome \in Outcomes
             /\ {r \in LogRecords : r.entry = <<f.exchange, 0>>} # {}
             /\ \A g \in Sealed' : g.exchange = f.exchange => g = f
  <2>1. PICK x \in Exchanges : Closed(x)' /\ f = Outcome(x)'
    BY DEF Sealed
  <2>2. ~Closed(x)
    BY <2>1 DEF Sealed, Outcome
  <2>3. f.exchange = x /\ f.outcome \in Outcomes
    BY <2>1, <2>2 DEF Outcome
  <2>4. Started(x)
    BY <2>1 DEF Closed, Started
  <2>5. {r \in LogRecords : r.entry = <<x, 0>>} # {}
    BY <2>4, RecordOfExchange DEF ContentInv
  <2>6. \A g \in Sealed' : g.exchange = x => g = f
    BY <2>1 DEF Sealed, Outcome
  <2> QED
    BY <2>3, <2>5, <2>6
<1>4. Log!Seal
  <2>1. UNCHANGED <<{s \in Sessions : sessions[s].status = "active"},
                    {s \in Sessions : sessions[s].status \in {"completed", "crashed"}},
                    [s \in Sessions |-> IF nextSequence[s] = 0 THEN 0 ELSE nextSequence[s] - 1],
                    LogRecords>>
    BY <1>1
  <2> QED
    BY <1>2, <1>3, <2>1 DEF Log!Seal, Log!RecordOf, Sealed, Closed, Outcome
<1> QED
  BY <1>4 DEF Log!LogNext

\* Deleting a session is a Drop of the log.
LEMMA RemoveSessionDrops ==
    ASSUME ContentInv, NEW s \in Sessions, RemoveSession(s)
    PROVE  Log!LogNext
<1>0. /\ nextSequence \in [Sessions -> Nat]
      /\ rawExchanges \in [Exchanges ->
             [state : {"absent", "recording", "complete", "recovered"}, sequence : Nat,
              outcome : Outcomes \cup {"none"},
              parse : {"none", "pending", "parsed", "skipped"}]]
      /\ \A x \in Exchanges : SessionOf[x] \in Sessions
  BY SessionOfAssumption DEF ContentInv, IndInv, TypeOK
<1>1. /\ sessions[s].status \in {"completed", "crashed"}
      /\ sessions'[s].status = "absent" /\ nextSequence'[s] = 0
      /\ \A t \in Sessions \ {s} :
            sessions'[t] = sessions[t] /\ nextSequence'[t] = nextSequence[t]
      /\ events' = {e \in events : e.session # s}
      /\ \A x \in Exchanges : rawExchanges'[x] = (IF SessionOf[x] = s THEN NoRow
                                                  ELSE rawExchanges[x])
  BY DEF RemoveSession, NoSession, ContentInv, IndInv, TypeOK
<1>2. \A x \in Exchanges :
         /\ Started(x)' <=> Started(x) /\ SessionOf[x] # s
         /\ Closed(x)' <=> Closed(x) /\ SessionOf[x] # s
         /\ SessionOf[x] # s => /\ ExchangeRecord(x)' = ExchangeRecord(x)
                                /\ Outcome(x)' = Outcome(x)
  BY <1>1 DEF NoRow, Started, Closed, ExchangeRecord, Outcome
<1>3. LogRecords' = {r \in LogRecords : r.session # s}
  <2>1. LogRecords' = {ExchangeRecord(x)' : x \in {y \in Exchanges : Started(y)'}}
                         \cup {EventRecord(e)' : e \in events'}
    BY DEF LogRecords, ExchangeRecord, EventRecord
  <2>2. \A x \in Exchanges : ExchangeRecord(x).session = SessionOf[x]
    BY DEF ExchangeRecord
  <2>3. \A e : EventRecord(e).session = e.session /\ EventRecord(e)' = EventRecord(e)
    BY DEF EventRecord
  <2> QED
    BY <1>1, <1>2, <2>1, <2>2, <2>3, LogRecordsDef
<1>4. Sealed' = {f \in Sealed : \A r \in {q \in LogRecords : q.entry = <<f.exchange, 0>>} :
                                   r.session # s}
  <2>1. Sealed' = {Outcome(x)' : x \in {y \in Exchanges : Closed(y)'}}
    BY DEF Sealed
  <2>2. \A x \in Exchanges : Closed(x) =>
           {q \in LogRecords : q.entry = <<x, 0>>} = {ExchangeRecord(x)}
    BY RecordOfExchange DEF ContentInv, Closed, Started
  <2>3. \A x \in Exchanges : Outcome(x).exchange = x /\ ExchangeRecord(x).session = SessionOf[x]
    BY DEF Outcome, ExchangeRecord
  <2> QED
    BY <1>2, <2>1, <2>2, <2>3 DEF Sealed
<1>5. {t \in Sessions : sessions'[t].status = "active"}
        = {t \in Sessions : sessions[t].status = "active"}
  BY <1>1
<1>6. {t \in Sessions : sessions'[t].status \in {"completed", "crashed"}}
        = {t \in Sessions : sessions[t].status \in {"completed", "crashed"}} \ {s}
  BY <1>1
<1>7. LogIssued' = [LogIssued EXCEPT ![s] = 0]
  BY <1>0, <1>1 DEF LogIssued
<1>8. s \in {t \in Sessions : sessions[t].status \in {"completed", "crashed"}}
  BY <1>1
<1>9. Log!Drop(s)
  BY <1>3, <1>4, <1>5, <1>6, <1>7, <1>8
     DEF Log!Drop, Log!RecordOf, LogIssued, Sealed, Closed, Outcome
<1> QED
  BY <1>9 DEF Log!LogNext

\* A step that inserts rows of session s, and leaves the exchanges as they are,
\* appends to the log of s.
LEMMA RowsAppend ==
    ASSUME ContentInv, ContentInv', Next, NEW s \in Sessions,
           sessions'[s].status # "absent",
           \A t \in Sessions \ {s} : nextSequence'[t] = nextSequence[t],
           UNCHANGED rawExchanges,
           events \subseteq events',
           \A e \in events' \ events : e.session = s /\ e.sequence > 0
    PROVE  Log!Append(s)
<1>1. nextSequence'[s] >= nextSequence[s]
  BY StepTakesNothingBack DEF ContentInv, NothingTakenBack
<1>2. Sealed' = Sealed
  BY DEF Sealed, Closed, Outcome
<1>3. \A x \in Exchanges : /\ Started(x)' <=> Started(x)
                           /\ rawExchanges'[x].sequence = rawExchanges[x].sequence
  BY DEF Started
<1> QED
  BY <1>1, <1>2, <1>3, TransactionAppends DEF ContentInv

\* What one transaction of the daemon is in the log.
LEMMA DaemonStepIsLogged ==
    ASSUME ContentInv, ContentInv', Next, DaemonStart \/ DaemonCrash \/ DaemonStep
    PROVE  Log!LogNext \/ UNCHANGED Log!logVars
<1> DEFINE Status == {"absent", "active", "completed", "crashed"}
<1>0. /\ \A x \in Exchanges : SessionOf[x] \in Sessions
      /\ \A t \in Sessions : sessions[t].status \in Status
      /\ nextSequence \in [Sessions -> Nat]
      /\ daemon.pc \in {"reserve", "begin", "normalize"} => daemon.exchange \in Exchanges
      /\ daemon.first \in Nat
      /\ rawExchanges \in [Exchanges ->
             [state : {"absent", "recording", "complete", "recovered"}, sequence : Nat,
              outcome : Outcomes \cup {"none"},
              parse : {"none", "pending", "parsed", "skipped"}]]
      /\ \A t \in Sessions : nextSequence[t] = 0 <=> sessions[t].status = "absent"
  BY SessionOfAssumption DEF ContentInv, IndInv, TypeOK, BlockHasExchange, SequencesCoverRows
<1>1. CASE UNCHANGED <<sessions, nextSequence, rawExchanges, events>>
  BY <1>1 DEF Log!logVars, LogRecords, Started
<1>2. CASE DaemonStart
  <2>1. /\ UNCHANGED <<sessions, nextSequence, events>>
        /\ \A x \in Exchanges :
              \/ rawExchanges'[x] = rawExchanges[x]
              \/ /\ rawExchanges[x].state = "recording"
                 /\ rawExchanges'[x].state = "recovered"
                 /\ rawExchanges'[x].sequence = rawExchanges[x].sequence
                 /\ rawExchanges'[x].outcome = "capture-incomplete"
    BY <1>2 DEF DaemonStart
  <2>2. \A x \in Exchanges :
              /\ Started(x)' <=> Started(x)
              /\ rawExchanges'[x].sequence = rawExchanges[x].sequence
              /\ Closed(x) => Closed(x)' /\ rawExchanges'[x].outcome = rawExchanges[x].outcome
              /\ Closed(x)' /\ ~Closed(x) => rawExchanges'[x].outcome \in Outcomes
    BY <2>1 DEF Started, Closed, Outcomes
  <2> QED
    BY <2>1, <2>2, ClosingSeals
<1>3. ASSUME NEW x \in Exchanges, FinalizeExchange(x)
      PROVE  Log!LogNext
  <2>1. /\ UNCHANGED <<sessions, nextSequence, events>>
        /\ \A y \in Exchanges :
              \/ rawExchanges'[y] = rawExchanges[y]
              \/ /\ rawExchanges[y].state = "recording"
                 /\ rawExchanges'[y].state = "complete"
                 /\ rawExchanges'[y].sequence = rawExchanges[y].sequence
                 /\ rawExchanges'[y].outcome \in Outcomes
    BY <1>0, <1>3 DEF FinalizeExchange
  <2>2. \A y \in Exchanges :
              /\ Started(y)' <=> Started(y)
              /\ rawExchanges'[y].sequence = rawExchanges[y].sequence
              /\ Closed(y) => Closed(y)' /\ rawExchanges'[y].outcome = rawExchanges[y].outcome
              /\ Closed(y)' /\ ~Closed(y) => rawExchanges'[y].outcome \in Outcomes
    BY <2>1 DEF Started, Closed
  <2> QED
    BY <2>1, <2>2, ClosingSeals
<1>4. ASSUME NEW x \in Exchanges, EnsureSession(x), sessions[SessionOf[x]].status = "absent"
      PROVE  Log!LogNext
  <2> DEFINE s == SessionOf[x]
  <2>1. /\ sessions'[s].status = "active"
        /\ \A t \in Sessions \ {s} : sessions'[t] = sessions[t]
                                       /\ nextSequence'[t] = nextSequence[t]
        /\ UNCHANGED <<rawExchanges, events>>
    BY <1>0, <1>4 DEF EnsureSession, ContentInv, IndInv, TypeOK
  <2>2. Log!Append(s)
    BY <1>0, <2>1, RowsAppend
  <2>3. /\ s \notin {t \in Sessions : sessions[t].status = "active"}
               \cup {t \in Sessions : sessions[t].status \in {"completed", "crashed"}}
        /\ {t \in Sessions : sessions'[t].status = "active"}
             = {t \in Sessions : sessions[t].status = "active"} \cup {s}
        /\ {t \in Sessions : sessions'[t].status \in {"completed", "crashed"}}
             = {t \in Sessions : sessions[t].status \in {"completed", "crashed"}}
    BY <1>0, <1>4, <2>1
  <2>4. Log!Create(s)
    BY <2>2, <2>3 DEF Log!Create
  <2> QED
    BY <1>0, <2>4 DEF Log!LogNext
<1>5. CASE ReserveForExchange
  <2>1. PICK s \in Sessions : s = SessionOf[daemon.exchange]
    BY <1>0, <1>5 DEF ReserveForExchange
  <2>2. /\ UNCHANGED <<sessions, rawExchanges, events>>
        /\ \A t \in Sessions \ {s} : nextSequence'[t] = nextSequence[t]
        /\ sessions[s].status # "absent"
    BY <1>0, <1>5, <2>1 DEF ReserveForExchange
  <2>3. Log!Append(s)
    BY <2>2, RowsAppend
  <2> QED
    BY <1>0, <2>2, <2>3, TransactionWrites
<1>6. ASSUME NEW x \in Exchanges, ReserveForEvents(x)
      PROVE  Log!LogNext
  <2>1. PICK s \in Sessions : s = SessionOf[x]
    BY <1>0
  <2>2. /\ UNCHANGED <<sessions, rawExchanges, events>>
        /\ \A t \in Sessions \ {s} : nextSequence'[t] = nextSequence[t]
        /\ Started(x)
    BY <1>0, <1>6, <2>1 DEF ReserveForEvents
  <2>3. sessions[s].status # "absent"
    BY <1>0, <2>1, <2>2 DEF ContentInv, IndInv, SequencesCoverRows
  <2>4. Log!Append(s)
    BY <2>2, <2>3, RowsAppend
  <2> QED
    BY <1>0, <2>2, <2>3, <2>4, TransactionWrites
<1>7. CASE BeginExchange
  <2>1. PICK x \in Exchanges : x = daemon.exchange
    BY <1>0, <1>7 DEF BeginExchange
  <2>2. PICK s \in Sessions : s = SessionOf[x]
    BY <1>0
  <2>3. /\ UNCHANGED <<sessions, nextSequence, events>>
        /\ sessions[s].status # "absent"
        /\ ~Started(x)
        /\ rawExchanges'[x].state = "recording"
        /\ rawExchanges'[x].sequence = daemon.first /\ daemon.first > 0
        /\ \A y \in Exchanges \ {x} : rawExchanges'[y] = rawExchanges[y]
    BY <1>0, <1>7, <2>1, <2>2
       DEF BeginExchange, ContentInv, JobsMatchRows, HeldArePositions, Started
  <2>4. Sealed' = Sealed
    <3>1. \A y \in Exchanges :
             /\ Closed(y)' <=> Closed(y)
             /\ Closed(y) => rawExchanges'[y].outcome = rawExchanges[y].outcome
      BY <2>3 DEF Closed, Started
    <3> QED
      BY <3>1, SealedKept
  <2>5. \A y \in Exchanges :
           \/ /\ Started(y)' <=> Started(y)
              /\ rawExchanges'[y].sequence = rawExchanges[y].sequence
           \/ /\ ~Started(y) /\ SessionOf[y] = s /\ rawExchanges'[y].sequence > 0
    BY <2>2, <2>3 DEF Started
  <2>6. nextSequence'[s] >= nextSequence[s]
    BY <1>0, <2>3
  <2>7. Log!Append(s)
    BY <2>3, <2>4, <2>5, <2>6, TransactionAppends DEF ContentInv
  <2> QED
    BY <1>0, <2>3, <2>7, TransactionWrites
<1>8. CASE InsertNormalization
  <2>1. PICK x \in Exchanges : x = daemon.exchange
    BY <1>0, <1>8 DEF InsertNormalization
  <2>2. PICK s \in Sessions : s = SessionOf[x]
    BY <1>0
  <2>3. /\ events' = events \cup NormalizedEvents(x, daemon.first)
        /\ \A t \in Sessions : sessions'[t].status = sessions[t].status
        /\ \A t \in Sessions \ {s} : nextSequence'[t] = nextSequence[t]
        /\ rawExchanges' = [rawExchanges EXCEPT ![x].parse = "parsed"]
        /\ Started(x) /\ daemon.first > 0
    BY <1>8, <2>1, <2>2 DEF InsertNormalization, InsertEvents, ContentInv, IndInv, TypeOK,
       HeldArePositions
  <2>4. \A e \in NormalizedEvents(x, daemon.first) : e.session = s /\ e.sequence > 0
    <3>1. \A i \in 1 .. Len(Normalized[x]) : i \in Int /\ i > 0
      BY NormalizedAssumption
    <3> QED
      BY <1>0, <2>2, <2>3, <3>1 DEF NormalizedEvents
  <2>5. sessions[s].status # "absent"
    BY <1>0, <2>2, <2>3 DEF ContentInv, IndInv, SequencesCoverRows
  <2>6. \A y \in Exchanges : /\ rawExchanges'[y].state = rawExchanges[y].state
                             /\ rawExchanges'[y].sequence = rawExchanges[y].sequence
                             /\ rawExchanges'[y].outcome = rawExchanges[y].outcome
    BY <1>0, <2>3
  <2>7. Sealed' = Sealed
    BY <2>6, SealedKept DEF Closed
  <2>8. nextSequence'[s] >= nextSequence[s]
    BY <2>3, <2>5, StepTakesNothingBack DEF ContentInv, NothingTakenBack
  <2>9. Log!Append(s)
    BY <2>3, <2>4, <2>6, <2>7, <2>8, TransactionAppends DEF ContentInv, Started
  <2> QED
    BY <1>0, <2>3, <2>5, <2>9, TransactionWrites
<1>9. CASE DaemonStep
  BY <1>1, <1>3, <1>4, <1>5, <1>6, <1>7, <1>8, <1>9
     DEF DaemonStep, EnsureSession, PersistFails, DaemonBlockFails
<1> QED
  BY <1>1, <1>2, <1>9 DEF DaemonCrash

\* What one transaction of a wrapper is in the log.
LEMMA RunStepIsLogged ==
    ASSUME ContentInv, ContentInv', Next, NEW s \in RunSessions, RunStep(s)
    PROVE  Log!LogNext \/ UNCHANGED Log!logVars
<1> DEFINE Status == {"absent", "active", "completed", "crashed"}
<1>0. /\ s \in Sessions
      /\ \A t \in Sessions : sessions[t].status \in Status
      /\ nextSequence \in [Sessions -> Nat]
      /\ run[s].sequence \in Nat
      /\ \A t \in Sessions : nextSequence[t] = 0 <=> sessions[t].status = "absent"
      /\ run[s].pc \in {"ready", "insert"} => sessions[s].status = "active"
      /\ run[s].pc = "insert" => run[s].sequence > 0
  BY DEF ContentInv, IndInv, TypeOK, SequencesCoverRows, WrappersOwnTheirSession,
         HeldArePositions, Sessions
<1>1. \A n, kind : /\ ProcessEvent(s, n, kind).session = s
                   /\ ProcessEvent(s, n, kind).sequence = n
  BY DEF ProcessEvent
<1>2. CASE OpenRun(s)
  <2>1. /\ sessions[s].status = "absent" /\ sessions'[s].status = "active"
        /\ \A t \in Sessions \ {s} : sessions'[t] = sessions[t]
                                       /\ nextSequence'[t] = nextSequence[t]
        /\ UNCHANGED rawExchanges
        /\ events' = events \cup {ProcessEvent(s, 1, "session.started")}
    BY <1>0, <1>2 DEF OpenRun, ContentInv, IndInv, TypeOK
  <2>2. Log!Append(s)
    BY <1>0, <1>1, <2>1, RowsAppend
  <2>3. /\ s \notin {t \in Sessions : sessions[t].status = "active"}
               \cup {t \in Sessions : sessions[t].status \in {"completed", "crashed"}}
        /\ {t \in Sessions : sessions'[t].status = "active"}
             = {t \in Sessions : sessions[t].status = "active"} \cup {s}
        /\ {t \in Sessions : sessions'[t].status \in {"completed", "crashed"}}
             = {t \in Sessions : sessions[t].status \in {"completed", "crashed"}}
    BY <1>0, <2>1
  <2>4. Log!Create(s)
    BY <2>2, <2>3 DEF Log!Create
  <2> QED
    BY <1>0, <2>4 DEF Log!LogNext
<1>3. CASE ReserveForRun(s)
  <2>1. /\ UNCHANGED <<sessions, rawExchanges, events>>
        /\ \A t \in Sessions \ {s} : nextSequence'[t] = nextSequence[t]
        /\ sessions[s].status = "active"
    BY <1>0, <1>3 DEF ReserveForRun
  <2>2. Log!Append(s)
    BY <1>0, <2>1, RowsAppend
  <2> QED
    BY <1>0, <2>1, <2>2, TransactionWrites
<1>4. CASE InsertRunEvent(s) \/ RecordWorkspace(s)
  <2>1. PICK n \in Nat, kind \in RunKinds :
           n > 0 /\ events' = events \cup {ProcessEvent(s, n, kind)}
    <3>1. CASE InsertRunEvent(s)
      <4>1. run[s].kind \in RunKinds
        BY DEF ContentInv, IndInv, TypeOK
      <4> QED
        BY <1>0, <3>1, <4>1 DEF InsertRunEvent, InsertEvents
    <3>2. CASE RecordWorkspace(s)
      BY <1>0, <3>2 DEF RecordWorkspace, InsertEvents, RunKinds
    <3> QED
      BY <1>4, <3>1, <3>2
  <2>2. /\ UNCHANGED rawExchanges
        /\ \A t \in Sessions : sessions'[t].status = sessions[t].status
        /\ \A t \in Sessions \ {s} : nextSequence'[t] = nextSequence[t]
        /\ sessions[s].status = "active"
    <3>1. ASSUME NEW rows, NEW next, InsertEvents(s, rows, sessions[s].status, next)
          PROVE  /\ \A t \in Sessions : sessions'[t].status = sessions[t].status
                 /\ \A t \in Sessions \ {s} : nextSequence'[t] = nextSequence[t]
      BY <1>0, <3>1 DEF InsertEvents, ContentInv, IndInv, TypeOK
    <3> QED
      BY <1>0, <1>4, <3>1 DEF InsertRunEvent, RecordWorkspace
  <2>3. Log!Append(s)
    BY <1>0, <1>1, <2>1, <2>2, RowsAppend
  <2> QED
    BY <1>0, <2>2, <2>3, TransactionWrites
<1>5. ASSUME NEW last, NEW terminal, NEW status \in {"completed", "crashed"},
             EndRun(s, last, terminal, status)
      PROVE  Log!LogNext
  <2>1. /\ sessions[s].status = "active" /\ sessions'[s].status = status
        /\ \A t \in Sessions \ {s} : sessions'[t] = sessions[t]
                                       /\ nextSequence'[t] = nextSequence[t]
        /\ UNCHANGED rawExchanges
        /\ events' = events \cup {ProcessEvent(s, nextSequence[s], last),
                                  ProcessEvent(s, nextSequence[s] + 1, terminal)}
    BY <1>0, <1>5 DEF EndRun, InsertEvents, ContentInv, IndInv, TypeOK
  <2>2. nextSequence[s] > 0 /\ nextSequence[s] + 1 > 0
    BY <1>0, <2>1
  <2>3. Log!Append(s)
    BY <1>0, <1>1, <2>1, <2>2, RowsAppend
  <2>4. /\ s \in {t \in Sessions : sessions[t].status = "active"}
        /\ {t \in Sessions : sessions'[t].status = "active"}
             = {t \in Sessions : sessions[t].status = "active"} \ {s}
        /\ {t \in Sessions : sessions'[t].status \in {"completed", "crashed"}}
             = {t \in Sessions : sessions[t].status \in {"completed", "crashed"}} \cup {s}
    BY <1>0, <2>1
  <2>5. Log!End(s)
    BY <2>3, <2>4 DEF Log!End
  <2> QED
    BY <1>0, <2>5 DEF Log!LogNext
<1>6. CASE LoseRun(s)
  BY <1>6 DEF LoseRun, Log!logVars, LogRecords, Started
<1> QED
  BY <1>2, <1>3, <1>4, <1>5, <1>6 DEF RunStep, FinishRun, FailRun

\* The empty tables are the empty log.
LEMMA InitIsLogInit == Init => Log!LogInit
<1> SUFFICES ASSUME Init PROVE Log!LogInit
  OBVIOUS
<1>1. /\ {s \in Sessions : sessions[s].status = "active"} = {}
      /\ {s \in Sessions : sessions[s].status \in {"completed", "crashed"}} = {}
      /\ {y \in Exchanges : Started(y)} = {}
      /\ {y \in Exchanges : rawExchanges[y].state \in {"complete", "recovered"}} = {}
      /\ events = {}
      /\ [s \in Sessions |-> IF nextSequence[s] = 0 THEN 0 ELSE nextSequence[s] - 1]
            = [s \in Sessions |-> 0]
  BY DEF Init, NoSession, NoRow, Started
<1> QED
  BY <1>1 DEF Log!LogInit, LogRecords

\* Every transaction of every process is a step of the log or leaves it alone.
LEMMA StepIsLogged ==
    ContentInv /\ ContentInv' /\ [Next]_vars => [Log!LogNext]_(Log!logVars)
<1> SUFFICES ASSUME ContentInv, ContentInv', [Next]_vars
             PROVE  Log!LogNext \/ UNCHANGED Log!logVars
  OBVIOUS
<1>1. CASE UNCHANGED vars
  BY <1>1 DEF vars, Log!logVars, LogRecords, Started
<1>2. CASE Next
  <2>1. ASSUME NEW s \in Sessions, RemoveSession(s) PROVE Log!LogNext
    BY <2>1, RemoveSessionDrops
  <2> QED
    BY <1>2, <2>1, DaemonStepIsLogged, RunStepIsLogged DEF Next
<1> QED
  BY <1>1, <1>2

\* Readers of the tables see an append-only log per session, whatever daemon,
\* wrappers, crashes and deletions do: the journal implements EvidenceLog.
THEOREM JournalImplementsLog == Spec => ImplementsLog
<1>1. Init => Log!LogInit
  BY InitIsLogInit
<1>2. ContentInv /\ ContentInv' /\ [Next]_vars => [Log!LogNext]_(Log!logVars)
  BY StepIsLogged
<1> QED
  BY <1>1, <1>2, ContentInvHolds, PTL DEF Spec, ImplementsLog, Log!LogSpec
=============================================================================
