---------------------------- MODULE MCHonClient ----------------------------
(* Small instances of HonClient for TLC. *)
EXTENDS HonClient

CONSTANTS p1, p2, unload, a1, a2   \* actors and appliances, as model values

\* What a login lists: the same appliances each time, or sometimes none.
BothAppliances == {{a1, a2}}
BothOrNone     == {{a1, a2}, {}}
=============================================================================
