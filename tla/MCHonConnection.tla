-------------------------- MODULE MCHonConnection --------------------------
(* Small instances of HonConnection for TLC. *)
EXTENDS HonConnection

CONSTANTS r1, r2, r3   \* requests, as model values
=============================================================================
