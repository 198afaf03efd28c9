---------------------------- MODULE Availability ----------------------------
(***************************************************************************)
(* Whether an appliance is shown as available: the two kinds of evidence   *)
(* HonAppliance weighs (client/engine/appliance.py), and the way its       *)
(* verdict takes to the entities (hon_client.py, __init__.py,              *)
(* base_entity.py).                                                        *)
(*                                                                         *)
(* Three threads: the awscrt thread handles a message and builds a         *)
(* snapshot, which call_soon_threadsafe queues for Home Assistant's loop;  *)
(* the hon_loop loads attributes for a poll; Home Assistant's loop builds  *)
(* the poll's entries one by one and publishes them, or a snapshot.        *)
(*                                                                         *)
(* The cloud's timestamps matter by their order only: an appliance's life  *)
(* is numbered, odd while it is away and even while it is connected, and   *)
(* an event carries the number of the period it belongs to.                *)
(***************************************************************************)
EXTENDS Naturals, Sequences

CONSTANTS
  Devices,
  Interval,      \* the poll's 60 s, in ticks
  PushPreempts,  \* may a message be handled inside load_attributes' region with no await?
  Chatty,        \* do the appliances send status for ever?
  MaxPeriod, MaxStatus, MaxMail, MaxFaults   \* bounds: periods of an appliance, status
                 \* messages unless Chatty, messages and snapshots queued, failures

ASSUME AvailabilityAssumption ==
  /\ Interval \in Nat \ {0} /\ PushPreempts \in BOOLEAN /\ Chatty \in BOOLEAN
  /\ MaxPeriod \in Nat \ {0, 1} /\ MaxStatus \in Nat /\ MaxMail \in Nat /\ MaxFaults \in Nat

Periods == 1 .. MaxPeriod
Unstamped == 0   \* no timestamp, or none parse_cloud_timestamp understands
Away(n) == n % 2 = 1
Message == [dev : Devices, kind : {"status", "connected", "disconnected"},
            at : Periods \cup {Unstamped}]
Shown == {"on", "off", "absent"}
Snapshot == [Devices -> Shown]

VARIABLES
  period,      \* the appliances: which period of its life each is in
  recorded,    \* the cloud: the period of lastConnEvent
  mail,        \* messages on their way over MQTT
  connection,  \* _connection
  available,   \* attributes["available"]
  realtime,    \* _last_realtime_ts
  fresh,       \* _last_realtime_local is within _REALTIME_LIVENESS_TTL
  pc,          \* the poll: "idle", "next", "reply", "write", "entry"
  todo,        \* appliances it has still to update
  cur,         \* the one it is updating
  reply,       \* the period of the lastConnEvent it was sent
  verdict,     \* what load_attributes has concluded
  entries,     \* its data
  hops,        \* snapshots queued for Home Assistant's loop
  shown,       \* coordinator.data
  success,     \* last_update_success
  quiet,       \* ticks since the coordinator last scheduled its poll
  statuses, faults

worldVars  == <<period, recorded, mail>>
engineVars == <<connection, available, realtime, fresh>>
pollVars   == <<pc, todo, cur, reply, verdict, entries>>
coordVars  == <<hops, shown, success, quiet>>
budgets    == <<statuses, faults>>
vars == <<worldVars, engineVars, pollVars, coordVars, budgets>>

Linked(d) == ~Away(period[d])
\* base_entity.available.
EntityAvailable(d) == success /\ shown[d] = "on"

TypeOK ==
  /\ period \in [Devices -> Periods] /\ recorded \in [Devices -> Periods]
  /\ mail \in Seq(Message)
  /\ connection \in [Devices -> BOOLEAN] /\ available \in [Devices -> BOOLEAN]
  /\ realtime \in [Devices -> Periods \cup {Unstamped}] /\ fresh \in [Devices -> BOOLEAN]
  /\ pc \in {"idle", "next", "reply", "write", "entry"}
  /\ todo \subseteq Devices /\ (pc = "idle" => todo = {})
  /\ cur \in Devices /\ reply \in Periods \cup {Unstamped} /\ verdict \in BOOLEAN
  /\ entries \in Snapshot /\ hops \in Seq(Snapshot) /\ shown \in Snapshot
  /\ success \in BOOLEAN /\ quiet \in 0 .. Interval
  /\ statuses \in 0 .. MaxStatus /\ faults \in 0 .. MaxFaults

OnOff(b) == IF b THEN "on" ELSE "off"
Empty == [d \in Devices |-> "absent"]

\* The first refresh has been published: it knew what the REST event said, and no
\* message has come yet.  The event may be older than the appliance's period.
Init ==
  /\ period \in [Devices -> {1, 2}] /\ recorded \in [Devices -> {1, 2}]
  /\ \A d \in Devices : recorded[d] <= period[d]
  /\ connection = [d \in Devices |-> ~Away(recorded[d])] /\ available = connection
  /\ realtime = [d \in Devices |-> Unstamped] /\ fresh = [d \in Devices |-> FALSE]
  /\ pc = "idle" /\ todo = {} /\ cur \in Devices /\ reply = Unstamped /\ verdict = FALSE
  /\ mail = <<>> /\ hops = <<>>
  /\ entries = Empty /\ shown = [d \in Devices |-> OnOff(available[d])]
  /\ success = TRUE /\ quiet = 0 /\ statuses = 0 /\ faults = 0

Fault == faults < MaxFaults /\ faults' = faults + 1

-----------------------------------------------------------------------------
(* The appliances and the cloud.                                           *)

Post(d, kind, at) == mail' = Append(mail, [dev |-> d, kind |-> kind, at |-> at])

\* It connects or goes away; the cloud may or may not announce it.
Turns(d) ==
  /\ period[d] < MaxPeriod
  /\ period' = [period EXCEPT ![d] = @ + 1]
  /\ \/ UNCHANGED mail
     \/ /\ Len(mail) < MaxMail
        /\ Post(d, IF Away(period'[d]) THEN "disconnected" ELSE "connected", period'[d])
  /\ UNCHANGED <<recorded, engineVars, pollVars, coordVars, budgets>>

Reports(d) ==
  /\ Linked(d) /\ Len(mail) < MaxMail /\ Len(hops) < MaxMail
  /\ IF Chatty THEN UNCHANGED statuses ELSE statuses < MaxStatus /\ statuses' = statuses + 1
  /\ \E at \in {period[d], Unstamped} : Post(d, "status", at)
  /\ UNCHANGED <<period, recorded, engineVars, pollVars, coordVars, faults>>

\* lastConnEvent can stay frozen for hours, so nothing says that this ever happens.
CloudRecords(d) ==
  /\ recorded[d] # period[d] /\ recorded' = [recorded EXCEPT ![d] = period[d]]
  /\ UNCHANGED <<period, mail, engineVars, pollVars, coordVars, budgets>>

MessageLost ==
  /\ mail # <<>> /\ Fault /\ mail' = Tail(mail)
  /\ UNCHANGED <<period, recorded, engineVars, pollVars, coordVars, statuses>>

\* Five minutes since the last message of d.
Silence(d) ==
  /\ fresh[d] /\ fresh' = [fresh EXCEPT ![d] = FALSE]
  /\ UNCHANGED <<worldVars, connection, available, realtime, pollVars, coordVars, budgets>>

-----------------------------------------------------------------------------
(* _on_publish_received, on the awscrt thread.                             *)

\* mark_realtime_seen: the timestamp only moves forward.
Seen(d, at) ==
  /\ connection' = [connection EXCEPT ![d] = TRUE]
  /\ available' = [available EXCEPT ![d] = TRUE]
  /\ fresh' = [fresh EXCEPT ![d] = TRUE]
  /\ realtime' = [realtime EXCEPT ![d] = IF at > @ THEN at ELSE @]

\* Mutant: an explicit disconnection keeps the marks.
Mutant_Disconnected(d) ==
  /\ connection' = [connection EXCEPT ![d] = FALSE]
  /\ available' = [available EXCEPT ![d] = FALSE]
  /\ UNCHANGED <<fresh, realtime>>

\* mark_realtime_disconnected.
Disconnected(d) ==
  /\ connection' = [connection EXCEPT ![d] = FALSE]
  /\ available' = [available EXCEPT ![d] = FALSE]
  /\ fresh' = [fresh EXCEPT ![d] = FALSE]
  /\ realtime' = [realtime EXCEPT ![d] = Unstamped]

\* The connected event sets connection and leaves available and the marks alone.
Connected(d) ==
  /\ connection' = [connection EXCEPT ![d] = TRUE]
  /\ UNCHANGED <<available, fresh, realtime>>

\* The handler ends with notify(): the snapshot of build_realtime_snapshot.
Receive ==
  /\ mail # <<>> /\ Len(hops) < MaxMail
  /\ PushPreempts \/ pc # "write"
  /\ LET msg == Head(mail) IN
       CASE msg.kind = "status"       -> Seen(msg.dev, msg.at)
         [] msg.kind = "disconnected" -> Disconnected(msg.dev)
         [] msg.kind = "connected"    -> Connected(msg.dev)
  /\ mail' = Tail(mail)
  /\ hops' = Append(hops, [d \in Devices |-> OnOff(available'[d])])
  /\ UNCHANGED <<period, recorded, pollVars, shown, success, quiet, budgets>>

\* _publish_realtime: async_set_updated_data publishes and restarts the interval.
Publish ==
  /\ hops # <<>>
  /\ shown' = Head(hops) /\ hops' = Tail(hops) /\ success' = TRUE /\ quiet' = 0
  /\ UNCHANGED <<worldVars, engineVars, pollVars, budgets>>

-----------------------------------------------------------------------------
(* The poll.                                                               *)

Tick ==
  /\ quiet < Interval /\ quiet' = quiet + 1
  /\ UNCHANGED <<worldVars, engineVars, pollVars, hops, shown, success, budgets>>

PollBegin ==
  /\ pc = "idle" /\ quiet = Interval
  /\ pc' = "next" /\ todo' = Devices
  /\ UNCHANGED <<worldVars, engineVars, cur, reply, verdict, entries, coordVars, budgets>>

PollFetch(d) ==
  /\ pc = "next" /\ d \in todo
  /\ pc' = "reply" /\ cur' = d /\ todo' = todo \ {d} /\ reply' = recorded[d]
  /\ UNCHANGED <<worldVars, engineVars, verdict, entries, coordVars, budgets>>

\* Mutants: REST alone decides; realtime is believed for ever.
Mutant_RestOnly(d) == ~Away(reply)
Mutant_NoLimit(d) == ~Away(reply) \/ realtime[d] > reply

\* load_attributes: a disconnection of the REST event yields to realtime that is
\* newer and recent.
Verdict(d) == ~Away(reply) \/ (realtime[d] > reply /\ fresh[d])

PollDecide ==
  /\ pc = "reply"
  /\ verdict' = Verdict(cur) /\ pc' = "write"
  /\ UNCHANGED <<worldVars, engineVars, todo, cur, reply, entries, coordVars, budgets>>

PollWrite ==
  /\ pc = "write" /\ pc' = "entry" /\ reply' = Unstamped /\ verdict' = FALSE
  /\ connection' = [connection EXCEPT ![cur] = verdict]
  /\ available' = [available EXCEPT ![cur] = verdict]
  /\ UNCHANGED <<worldVars, realtime, fresh, todo, cur, entries, coordVars, budgets>>

\* Home Assistant's loop resumes and reads the appliance.
PollEntry ==
  /\ pc = "entry" /\ pc' = "next"
  /\ entries' = [entries EXCEPT ![cur] = OnOff(available[cur])]
  /\ UNCHANGED <<worldVars, engineVars, todo, cur, reply, verdict, coordVars, budgets>>

\* The appliance is skipped.
PollFails ==
  /\ pc = "reply" /\ Fault /\ pc' = "next" /\ reply' = Unstamped
  /\ UNCHANGED <<worldVars, engineVars, todo, cur, verdict, entries, coordVars, statuses>>

\* Mutant: the poll publishes before it has asked for every appliance.
Mutant_PollPublish ==
  /\ pc = "next" /\ pc' = "idle" /\ entries' = Empty
  /\ shown' = entries /\ success' = TRUE
  /\ quiet' = 0
  /\ UNCHANGED <<worldVars, engineVars, todo, cur, reply, verdict, hops, budgets>>

\* The entries are published; if every appliance failed, so has the update.
PollPublish ==
  /\ pc = "next" /\ todo = {} /\ pc' = "idle" /\ entries' = Empty
  /\ IF entries = Empty
       THEN success' = FALSE /\ UNCHANGED shown
       ELSE success' = TRUE /\ shown' = entries
  /\ quiet' = 0
  /\ UNCHANGED <<worldVars, engineVars, todo, cur, reply, verdict, hops, budgets>>

PollStep == \/ PollDecide \/ PollWrite \/ PollEntry \/ PollPublish
            \/ \E d \in Devices : PollFetch(d)
Next ==
  \/ \E d \in Devices : Turns(d) \/ Reports(d) \/ CloudRecords(d) \/ Silence(d)
  \/ MessageLost \/ Receive \/ Publish \/ Tick \/ PollBegin \/ PollStep \/ PollFails

Spec == Init /\ [][Next]_vars

\* Time passes, messages are handled and Home Assistant's loop runs what it is given.
\* Neither the appliances nor the cloud owe anything.
FairSpec ==
  /\ Spec /\ WF_vars(Receive) /\ WF_vars(Publish) /\ WF_vars(Tick)
  /\ WF_vars(PollBegin) /\ WF_vars(PollStep) /\ \A d \in Devices : WF_vars(Silence(d))

-----------------------------------------------------------------------------
(* Properties.                                                             *)

\* A connected appliance whose traffic of this connection was seen, and recently, is taken
\* for connected: no stale REST disconnection puts it offline.
TrafficIsBelieved ==
  \A d \in Devices : Linked(d) /\ fresh[d] /\ realtime[d] = period[d]
    => connection[d] /\ available[d]

\* No REST disconnection brings an appliance back: an explicit disconnection over MQTT
\* stands until traffic, or a REST connection, says otherwise.
NoResurrection ==
  [][\A d \in Devices : pc = "write" /\ ~connection[d] /\ connection'[d] => ~Away(reply)]_vars

\* An appliance that is away for good, and has a disconnection on record, of whatever
\* time, ends up unavailable for good; one that is connected for good, and on record,
\* ends up available for good.
EntityFollows ==
  \A d \in Devices :
    /\ <>[](~Linked(d) /\ Away(recorded[d])) => <>[]~EntityAvailable(d)
    /\ <>[](Linked(d) /\ ~Away(recorded[d])) => <>[]EntityAvailable(d)

\* The poll remains as a safety net: it comes back whatever is pushed.
PollsGoOn == []<>(pc # "idle")

=============================================================================
