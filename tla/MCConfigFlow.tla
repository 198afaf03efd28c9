---------------------------- MODULE MCConfigFlow ----------------------------
(* The config flow on small instances.                                     *)
EXTENDS ConfigFlow

CONSTANT h1
MCCalls     == {h1}
MCPasswords == {"right", "wrong"}
MCRight     == "right"
=============================================================================
