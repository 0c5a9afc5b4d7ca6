-------------------------- MODULE MCEvidenceJournal --------------------------
(* EvidenceJournal for TLC, with two exchanges of the session of one wrapped *)
(* run, of which the second normalizes to no event.                         *)
EXTENDS EvidenceJournal

CONSTANTS r, x1, x2

MCSessionOf == [x \in {x1, x2} |-> r]
MCNormalized == [x \in {x1, x2} |->
                    IF x = x1 THEN <<"model.event", "model.error">> ELSE <<>>]
=============================================================================
