------------------------- MODULE MCRecorderExchange -------------------------
(* RecorderExchange for TLC: the budget is smaller than two bodies and the   *)
(* manifest than the chunks of one exchange, so that every bound is met.     *)
EXTENDS RecorderExchange

CONSTANT x1
=============================================================================
