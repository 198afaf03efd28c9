--------------------------- MODULE MCAvailability ---------------------------
(* Small instances of Availability for TLC. *)
EXTENDS Availability

CONSTANTS d1, d2   \* appliances, as model values
=============================================================================
