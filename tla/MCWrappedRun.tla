----------------------------- MODULE MCWrappedRun -----------------------------
(* A workspace of two paths and two contents, of which one path is secret.   *)
EXTENDS WrappedRun

CONSTANTS p, q, a, b

MCFirstFiles == {[x \in {p, q} |-> IF x = p THEN a ELSE Absent]}
=============================================================================
