----------------------------- MODULE MCRangeGrid -----------------------------
(* Ranges in thirty-seconds: a whole step, decimal steps, a huge range whose *)
(* tolerance has to be capped, and the malformed ones a schema may hold.     *)
EXTENDS RangeGrid

R(min, max, step) == [min |-> min, max |-> max, step |-> step]
MCSchemas == {R(0, 64, 16), R(20, 60, 8), R(0, 256, 8), R(4, 68, 0), R(0, 32, -8), R(32, 0, 8)}
MCNumbers  == {-4, 0, 4, 8, 16, 17, 18, 20, 22, 24, 28, 32, 60, 64, 66, 68, 256}
==============================================================================
