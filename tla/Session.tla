------------------------------- MODULE Session -------------------------------
(***************************************************************************)
(* NativeHon (client/session.py): one session with the cloud.  create      *)
(* opens the connection, logs in on its first request, loads the account's *)
(* appliances one after the other and starts the realtime client; close    *)
(* takes that down again.  Any await in between may fail or be cancelled   *)
(* by the 60 second cap, any appliance may come malformed from the cloud,  *)
(* and the login may stop for a code, which is submitted later, to the     *)
(* same session.                                                           *)
(*                                                                         *)
(* HonClient runs these calls under its lock, one at a time, and closes a  *)
(* session whose create has failed once more.                              *)
(***************************************************************************)
EXTENDS Naturals, Sequences

CONSTANTS
  Entries,      \* what the cloud may list, see Entry
  MaxListed,    \* bound: entries in the list
  MaxZones,
  MaxTries      \* bound: codes submitted, and closes

\* shape: not a dict; a zone that is no number; attributes that the constructor
\* cannot flatten; no MAC address; or a proper one. data: what its loads will meet.
Entry == [shape : {"no_dict", "bad_zone", "bad", "no_mac", "ok"},
          zones : 0 .. MaxZones, data : {"good", "bad"}]

ASSUME EntriesAssumption == Entries \subseteq Entry
ASSUME SessionBoundsAssumption == MaxListed \in Nat /\ MaxZones \in Nat /\ MaxTries \in Nat

VARIABLES
  mode,        \* what it was made for, and whether the account wants a code: constant
  listed,      \* what the cloud lists for the account: constant
  at,          \* the await that create, submit or close stands at, or where it was left
  by,          \* whose setup it is: "create" | "submit"
  pos,         \* the loop of setup: the entry, and which of its zones
  conn,        \* the aiohttp session: "none" | "open" | "closed"
  api,         \* "none" | "open"
  mqtt,        \* "none" | "up" | "stopped"
  appliances,  \* the list that entities, polls and the realtime client share
  tries

vars == <<mode, listed, at, by, pos, conn, api, mqtt, appliances, tries>>

\* The config flow validates: no realtime client and no loads.
Mode == [minimal : BOOLEAN, code : BOOLEAN]
Lists == UNION {[1 .. n -> Entries] : n \in 0 .. MaxListed}

\* An appliance: its entry, which of the entry's zones, and whether its commands,
\* attributes and statistics have all been loaded.
Appliance == [entry : 1 .. MaxListed, turn : 1 .. MaxZones + 1, loaded : BOOLEAN]

TypeOK ==
  /\ mode \in Mode /\ listed \in Lists
  /\ at \in {"new", "list", "load", "mqtt", "live", "challenged", "stop", "close", "out"}
  /\ by \in {"create", "submit"}
  /\ pos \in [entry : 1 .. MaxListed + 1, turn : 1 .. MaxZones + 2]
  /\ conn \in {"none", "open", "closed"} /\ api \in {"none", "open"}
  /\ mqtt \in {"none", "up", "stopped"}
  /\ appliances \in Seq(Appliance)
  /\ tries \in 0 .. MaxTries

Init ==
  /\ mode \in Mode /\ listed \in Lists
  /\ at = "new" /\ by = "create" /\ pos = [entry |-> 1, turn |-> 1]
  /\ conn = "none" /\ api = "none" /\ mqtt = "none"
  /\ appliances = <<>> /\ tries = 0

-----------------------------------------------------------------------------
(* What an exception leads to, a cancellation included: a failed create    *)
(* closes the session; a failed submit leaves it, for another code.        *)

Raise == at' = IF by = "create" THEN "stop" ELSE "challenged"

\* HonConnection and HonApi. A connection that fails here has closed itself.
Create ==
  /\ at = "new"
  /\ \/ conn' = "open" /\ api' = "open" /\ at' = "list"
     \/ Raise /\ UNCHANGED <<conn, api>>
  /\ UNCHANGED <<mode, listed, by, pos, mqtt, appliances, tries>>

\* The first request, and with it the login. A challenge leaves everything open.
LoadList ==
  /\ at = "list"
  /\ \/ /\ mode.code => by = "submit"
        /\ at' = "load" /\ pos' = [entry |-> 1, turn |-> 1]
     \/ by = "create" /\ mode.code /\ at' = "challenged" /\ UNCHANGED pos
     \/ Raise /\ UNCHANGED pos
  /\ UNCHANGED <<mode, listed, by, conn, api, mqtt, appliances, tries>>

-----------------------------------------------------------------------------
(* The loop of setup.                                                      *)

\* Mutant: one zone too many.
Mutant_Turns(e) ==
  IF e.shape \in {"no_dict", "bad_zone"} THEN 0 ELSE IF e.zones > 1 THEN e.zones + 2 ELSE 1

\* The appliances an entry stands for: one for each zone if it has more than one,
\* and then the entry itself.
Turns(e) ==
  IF e.shape \in {"no_dict", "bad_zone"} THEN 0 ELSE IF e.zones > 1 THEN e.zones + 1 ELSE 1

\* Mutant: the fault boundary is round the whole loop, not one appliance.
Mutant_Skip(e) ==
  /\ e.shape = "bad"
  /\ pos' = [entry |-> Len(listed) + 1, turn |-> 1]
  /\ UNCHANGED <<at, appliances>>

\* _create_appliance, where nothing usable comes of it.
Skip(e) ==
  /\ e.shape \in {"bad", "no_mac"}
  /\ pos' = [pos EXCEPT !.turn = @ + 1]
  /\ UNCHANGED <<at, appliances>>

\* The others join the list when their loads are over, and also when those have met
\* malformed data. An error that is not about the data ends the setup.
Add(e) ==
  /\ e.shape = "ok"
  /\ \/ /\ \E loaded \in BOOLEAN :
             /\ mode.minimal => ~loaded
             /\ ~mode.minimal /\ e.data = "good" => loaded
             /\ appliances' = Append(appliances,
                  [entry |-> pos.entry, turn |-> pos.turn, loaded |-> loaded])
        /\ pos' = [pos EXCEPT !.turn = @ + 1] /\ UNCHANGED at
     \/ ~mode.minimal /\ Raise /\ UNCHANGED <<pos, appliances>>

LoadNext ==
  /\ at = "load" /\ pos.entry <= Len(listed)
  /\ LET e == listed[pos.entry]
     IN  \/ pos.turn <= Turns(e) /\ (Skip(e) \/ Add(e))
         \/ /\ pos.turn > Turns(e)
            /\ pos' = [entry |-> pos.entry + 1, turn |-> 1]
            /\ UNCHANGED <<at, appliances>>
  /\ UNCHANGED <<mode, listed, by, conn, api, mqtt, tries>>

EndLoads ==
  /\ at = "load" /\ pos.entry > Len(listed)
  /\ at' = IF mode.minimal THEN "live" ELSE "mqtt"
  /\ UNCHANGED <<mode, listed, by, pos, conn, api, mqtt, appliances, tries>>

\* A realtime client that does not come up has torn itself down.
StartMqtt ==
  /\ at = "mqtt"
  /\ \/ mqtt' = "up" /\ at' = "live"
     \/ Raise /\ UNCHANGED mqtt
  /\ UNCHANGED <<mode, listed, by, pos, conn, api, appliances, tries>>

\* Only the config flow submits a code: verified, it goes on with the setup.
SubmitCode ==
  /\ at = "challenged" /\ mode.minimal /\ tries < MaxTries
  /\ tries' = tries + 1
  /\ by' = "submit" /\ at' \in {"list", "challenged"}
  /\ UNCHANGED <<mode, listed, pos, conn, api, mqtt, appliances>>

-----------------------------------------------------------------------------
(* close, after a failed create and whenever the client is closed.         *)

Close ==
  /\ at \in {"live", "challenged", "out"}
  /\ at = "out" => tries < MaxTries
  /\ tries' = IF at = "out" THEN tries + 1 ELSE tries
  /\ at' = "stop"
  /\ UNCHANGED <<mode, listed, by, pos, conn, api, mqtt, appliances>>

\* Mutant: the connection goes first.
Mutant_StopMqtt ==
  /\ at = "stop"
  /\ conn' = IF api = "open" THEN "closed" ELSE conn
  /\ api' = "none"
  /\ at' = "close"
  /\ UNCHANGED <<mode, listed, by, pos, mqtt, appliances, tries>>

\* The realtime client stops whatever goes wrong in it, its cancellation included.
StopMqtt ==
  /\ at = "stop"
  /\ mqtt' = IF mqtt = "up" THEN "stopped" ELSE mqtt
  /\ at' = "close"
  /\ UNCHANGED <<mode, listed, by, pos, conn, api, appliances, tries>>

CloseApi ==
  /\ at = "close"
  /\ conn' = IF api = "open" THEN "closed" ELSE conn
  /\ api' = "none"
  /\ at' = "out"
  /\ UNCHANGED <<mode, listed, by, pos, mqtt, appliances, tries>>

-----------------------------------------------------------------------------
Next ==
  \/ Create \/ LoadList \/ LoadNext \/ EndLoads \/ StartMqtt
  \/ SubmitCode \/ Close \/ StopMqtt \/ CloseApi

Spec == Init /\ [][Next]_vars

-----------------------------------------------------------------------------
(* Properties.                                                             *)

Usable(e) == e.shape = "ok"

\* Once a session is in service every appliance of the account that is fit for use is
\* in the list, exactly once for each of its zones, however many malformed ones came
\* before it and however many codes the setup took; and what was not malformed is loaded.
EveryApplianceOnce ==
  at = "live" =>
    /\ \A i \in DOMAIN listed : \A t \in 1 .. MaxZones + 1 :
         Usable(listed[i]) /\ t <= Turns(listed[i]) <=>
           \E k \in DOMAIN appliances : appliances[k].entry = i /\ appliances[k].turn = t
    /\ \A k, l \in DOMAIN appliances :
         appliances[k].entry = appliances[l].entry /\ appliances[k].turn = appliances[l].turn
           => k = l
    /\ \A k \in DOMAIN appliances :
         ~mode.minimal /\ listed[appliances[k].entry].data = "good" => appliances[k].loaded

\* The realtime client never outlives the connection its watchdog would use, and after
\* a failed create or a close nothing of the session is left.
TornDown ==
  /\ mqtt = "up" => api = "open" /\ conn = "open"
  /\ at = "out" => api = "none" /\ conn # "open" /\ mqtt # "up"
  /\ at \in {"live", "challenged"} => conn = "open"

=============================================================================
