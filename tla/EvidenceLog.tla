----------------------------- MODULE EvidenceLog -----------------------------
(***************************************************************************)
(* What the evidence journal promises its readers, without processes,      *)
(* threads or tables.  A session is a log: its positions are issued in     *)
(* order and none is issued twice while the session exists, a position     *)
(* holds one record for ever or stays empty, and records appear at issued  *)
(* positions in any order.  The record of an exchange is sealed once, with *)
(* a final outcome.  Only a session that has ended can be dropped, with    *)
(* everything in it.                                                       *)
(***************************************************************************)
EXTENDS Integers

CONSTANTS
    LogSessions,
    LogExchanges,
    LogOutcomes

VARIABLES
    open,     \* the sessions that exist and have not ended
    ended,    \* the sessions that exist and have ended
    issued,   \* the positions issued in a session so far are 1 .. issued[s]
    written,  \* the records: [session, position, entry]
    sealed    \* the final outcomes: [exchange, outcome]

logVars == <<open, ended, issued, written, sealed>>

OneRecordPerPosition(records) ==
    \A r, t \in records : r.session = t.session /\ r.position = t.position => r = t

RecordOf(x) == {r \in written : r.entry = <<x, 0>>}

LogInit ==
    /\ open = {}
    /\ ended = {}
    /\ issued = [s \in LogSessions |-> 0]
    /\ written = {}
    /\ sealed = {}

\* One transaction on session s: positions are issued, or records appear at
\* issued positions that were empty, or both.
Append(s) ==
    /\ issued'[s] >= issued[s]
    /\ issued' = [issued EXCEPT ![s] = issued'[s]]
    /\ written \subseteq written'
    /\ \A r \in written' \ written : r.session = s /\ r.position \in 1 .. issued'[s]
    /\ OneRecordPerPosition(written')
    /\ sealed' = sealed

Create(s) ==
    /\ s \notin open \cup ended
    /\ open' = open \cup {s}
    /\ Append(s)
    /\ UNCHANGED ended

Write(s) ==
    /\ s \in open \cup ended
    /\ Append(s)
    /\ UNCHANGED <<open, ended>>

End(s) ==
    /\ s \in open
    /\ open' = open \ {s}
    /\ ended' = ended \cup {s}
    /\ Append(s)

Seal ==
    /\ sealed \subseteq sealed'
    /\ \A f \in sealed' \ sealed :
          /\ f.exchange \in LogExchanges
          /\ f.outcome \in LogOutcomes
          /\ RecordOf(f.exchange) # {}
          /\ \A g \in sealed' : g.exchange = f.exchange => g = f
    /\ UNCHANGED <<open, ended, issued, written>>

Drop(s) ==
    /\ s \in ended
    /\ ended' = ended \ {s}
    /\ issued' = [issued EXCEPT ![s] = 0]
    /\ written' = {r \in written : r.session # s}
    /\ sealed' = {f \in sealed : \A r \in RecordOf(f.exchange) : r.session # s}
    /\ UNCHANGED open

LogNext ==
    \/ Seal
    \/ \E s \in LogSessions : Create(s) \/ Write(s) \/ End(s) \/ Drop(s)

LogSpec == LogInit /\ [][LogNext]_logVars
=============================================================================
