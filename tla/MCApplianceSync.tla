-------------------------- MODULE MCApplianceSync --------------------------
(* Small instances of ApplianceSync for TLC. *)
EXTENDS ApplianceSync

CONSTANTS k1, k2, off, low, high   \* parameters and values, as model values
=============================================================================
