------------------------------- MODULE Custody -------------------------------
(***************************************************************************)
(* What every object of this integration that owns connections, a loop and *)
(* threads promises about them.  NativeMqttClient holds one native client  *)
(* at a time, HonClient one session, the config flow one half-open client: *)
(* each takes a thing, keeps it in one attribute, gives it up and closes   *)
(* it.  At most one thing is kept, nothing is kept or taken up again once  *)
(* the owner has left, and a thing that is closed never comes back.        *)
(*                                                                         *)
(* The detailed modules implement this one: they instantiate it, saying    *)
(* for each thing where their state puts it.                               *)
(***************************************************************************)
CONSTANT Things
VARIABLES
  where,   \* thing -> its place
  owner    \* the owner is still there to keep one

vars == <<where, owner>>

Places == {"fresh", "made", "kept", "closing", "gone"}

TypeOK == where \in [Things -> Places] /\ owner \in BOOLEAN

Init == where = [x \in Things |-> "fresh"] /\ owner = TRUE

Move(x, from, to) ==
  /\ where[x] \in from
  /\ where' = [where EXCEPT ![x] = to]
  /\ UNCHANGED owner

NothingKept == \A x \in Things : where[x] # "kept"

\* Made by some call of the owner, which has yet to keep it.
Make(x) == Move(x, {"fresh"}, "made")

Keep(x) == owner /\ NothingKept /\ Move(x, {"fresh", "made"}, "kept")

\* The owner lets go of it: somebody is closing it from then on.
GiveUp(x) == Move(x, {"made", "kept"}, "closing")

\* It is over, possibly in the very step that gave it up.
Close(x) == Move(x, {"made", "kept", "closing"}, "gone")

\* Nothing is kept without an owner.
Leave ==
  /\ owner /\ owner' = FALSE
  /\ where' = [x \in Things |-> IF where[x] = "kept" THEN "closing" ELSE where[x]]

Next == (\E x \in Things : Make(x) \/ Keep(x) \/ GiveUp(x) \/ Close(x)) \/ Leave

Spec == Init /\ [][Next]_vars

\* What was made is kept or closed, and what was given up is closed: nothing stays
\* halfway, for a thing never goes back.
Settled == []<>(\A x \in Things : where[x] \notin {"made", "closing"})
=============================================================================
