---------------------------- MODULE ApplianceSync ----------------------------
(***************************************************************************)
(* One appliance and its `settings` command: how HonAppliance              *)
(* (client/engine/appliance.py), HonAttribute, HonCommand and              *)
(* async_send_command (hon_commands.py) keep three copies of a parameter   *)
(* in step: the device's own (shadow), the attribute the entities show     *)
(* (attr) and the value the next command will carry (cmd).  A command      *)
(* transmits every parameter, whichever was asked for.                     *)
(*                                                                         *)
(* Sends and polls run on the hon_loop, one at a time: _run_on_hon_loop    *)
(* holds _lifecycle_lock for the whole job.  Pushes are handled on the     *)
(* awscrt thread, whenever they come.  A region with no await is one step  *)
(* of a job, except that a push may be handled between a send's            *)
(* assignments and its POST, and between a push's two halves.              *)
(***************************************************************************)
EXTENDS Naturals, Sequences

CONSTANTS
  Keys,         \* parameters of the command, all of them attributes too
  Values,       \* what the device may report
  Allowed,      \* what the command's setters accept
  Default,      \* the value of a freshly loaded command
  Linked,       \* the power and the mode, which one request sets together
  WindKeys,     \* parameters sanitize_wind_direction resets before a send
  PushPreempts, \* may a push run inside a region with no await, or the converse?
  SlowReports,  \* may the device, or a report, be slower than the shield?
  MaxSends, MaxChanges, MaxFaults   \* bounds: commands, changes at the device, failures

ASSUME ValuesAssumption ==
  /\ Keys # {} /\ Allowed \subseteq Values /\ Allowed # {} /\ Default \in Values /\ WindKeys \subseteq Keys
  /\ Linked \in (SUBSET Keys) \ {{}}
  /\ PushPreempts \in BOOLEAN /\ SlowReports \in BOOLEAN
ASSUME SyncBoundsAssumption == MaxSends \in Nat /\ MaxChanges \in Nat /\ MaxFaults \in Nat

Readings == [Keys -> Values]
\* A dict with some of the parameters: a request, or the content of a push.
Some(V)  == UNION {[ks -> V] : ks \in (SUBSET Keys) \ {{}}}
Nothing  == <<>>
NoPromise == [none |-> TRUE]

VARIABLES
  shadow,    \* the device
  orders,    \* commands the cloud has taken and the device has not applied yet
  pushes,    \* reports on their way over MQTT
  attr,      \* attributes["parameters"]: the values
  shield,    \* those inside the 10 s of their lock
  cmd,       \* the command's parameters
  pc,        \* the job on the hon_loop: "idle", a send ("assigned", "sending") or
             \* a poll ("fetch", "refetch", "reload")
  request,   \* the send's params
  snapshots, \* its copy of cmd
  sent,      \* the parameters it has posted
  reply,     \* the reading a poll will receive, once the cloud has taken it
  pushing,   \* a push has updated the attributes and not yet the command
  sends, changes, faults,
  \* History, read by the properties only:
  settled,   \* the last value of a parameter that was reported or accepted
  promised,  \* the value of an accepted request, until the device or a request differs
  failed     \* since the last complete reading, a send has failed, or a poll halfway

deviceVars == <<shadow, orders, pushes>>
copies     == <<attr, shield, cmd>>
jobVars    == <<pc, request, snapshots, sent, reply>>
budgets    == <<sends, changes, faults>>
history    == <<settled, promised, failed>>
vars == <<deviceVars, copies, jobVars, pushing, budgets, history>>

TypeOK ==
  /\ shadow \in Readings /\ orders \in Seq(Readings) /\ pushes \in Seq(Some(Values))
  /\ attr \in Readings /\ shield \subseteq Keys /\ cmd \in Readings
  /\ pc \in {"idle", "assigned", "sending", "fetch", "refetch", "reload"}
  /\ request \in Some(Allowed) \cup {Nothing}
  /\ snapshots \in Readings /\ sent \in Readings
  /\ reply \in Readings \cup {Nothing} /\ (reply # Nothing => pc \in {"fetch", "refetch"})
  /\ pushing \in BOOLEAN
  /\ sends \in 0 .. MaxSends /\ changes \in 0 .. MaxChanges /\ faults \in 0 .. MaxFaults
  /\ settled \in Readings /\ promised \in [Keys -> Values \cup {NoPromise}] /\ failed \in BOOLEAN

-----------------------------------------------------------------------------
(* The copies.                                                             *)

\* Mutant: the shield protects nothing.
Mutant_Update(report) ==
  [k \in Keys |-> IF k \in DOMAIN report THEN report[k] ELSE attr[k]]

\* HonAttribute.update, for every parameter of a report: a shielded one is kept.
Update(report) ==
  [k \in Keys |-> IF k \in DOMAIN report /\ k \notin shield THEN report[k] ELSE attr[k]]

\* sync_params_to_command: the command's parameters follow the attributes; a value
\* its setter refuses is skipped.
Synced(values, readings) ==
  [k \in Keys |-> IF readings[k] \in Allowed THEN readings[k] ELSE values[k]]

\* The pre_send hook of an air conditioner.
Sanitized(values) ==
  [k \in Keys |-> IF k \in WindKeys /\ values[k] \notin Allowed
                    THEN CHOOSE v \in Allowed : TRUE ELSE values[k]]

Assigned(values, params) == [k \in Keys |-> IF k \in DOMAIN params THEN params[k] ELSE values[k]]

\* The appliance has been loaded: its attributes, then its commands.
Init ==
  /\ shadow \in Readings /\ orders = <<>> /\ pushes = <<>>
  /\ attr = shadow /\ shield = {} /\ cmd = Synced([k \in Keys |-> Default], shadow)
  /\ pc = "idle" /\ request = Nothing /\ snapshots = cmd /\ sent = cmd
  /\ reply = Nothing /\ pushing = FALSE
  /\ sends = 0 /\ changes = 0 /\ faults = 0
  /\ settled = cmd /\ promised = [k \in Keys |-> NoPromise] /\ failed = FALSE

\* History: what a report settles.
Settles(report) ==
  /\ settled' = [k \in Keys |-> IF k \in DOMAIN report \ shield /\ report[k] \in Allowed
                                  THEN report[k] ELSE settled[k]]
  /\ UNCHANGED promised

Fault == faults < MaxFaults /\ faults' = faults + 1
LoopRuns == PushPreempts \/ ~pushing

\* Mutant: the send awaits between its assignments and its POST.
Mutant_PushRuns == TRUE

PushRuns == PushPreempts \/ pc # "assigned"

-----------------------------------------------------------------------------
(* async_send_command.                                                     *)

\* async_turn_on, async_set_temperature, async_set_fan_mode, async_set_swing_mode, and
\* the switches, selects and numbers: one parameter.
OneSetting == UNION {[{k} -> Allowed] : k \in Keys}

\* async_set_hvac_mode, but for off: the power and the mode.
PowerAndMode == [Linked -> Allowed]

Requests == OneSetting \cup PowerAndMode

\* Snapshot, pre_send, assignments.  A value a setter refuses raises: the snapshot
\* is restored and nothing has happened.
SendBegin(params) ==
  /\ pc = "idle" /\ LoopRuns
  /\ sends < MaxSends /\ sends' = sends + 1
  /\ pc' = "assigned"
  /\ request' = params /\ snapshots' = cmd
  /\ cmd' = Assigned(Sanitized(cmd), params)
  /\ UNCHANGED <<deviceVars, attr, shield, sent, reply, pushing, changes, faults>>
  /\ promised' = [k \in Keys |-> IF k \in DOMAIN params THEN NoPromise ELSE promised[k]]
  /\ UNCHANGED <<settled, failed>>

\* command.send(), up to the await: the parameters are collected, and
\* sync_command_to_params shows and shields all of them.
SendPost ==
  /\ pc = "assigned" /\ LoopRuns
  /\ pc' = "sending" /\ sent' = cmd
  /\ attr' = cmd /\ shield' = Keys
  /\ UNCHANGED <<deviceVars, cmd, request, snapshots, reply, pushing, budgets, history>>

\* The cloud takes the command.
SendAccepted ==
  /\ pc = "sending" /\ LoopRuns
  /\ orders' = Append(orders, sent)
  /\ pc' = "idle" /\ request' = Nothing
  /\ settled' = sent
  /\ promised' = [k \in Keys |-> IF k \in DOMAIN request THEN sent[k] ELSE promised[k]]
  /\ UNCHANGED <<shadow, pushes, copies, snapshots, sent, reply, pushing, budgets, failed>>

\* It raises, rejected by the cloud or with no telling whether it was: the snapshot
\* goes back into the command, and only there.
SendFails ==
  /\ pc = "sending" /\ LoopRuns /\ Fault
  /\ UNCHANGED orders \/ orders' = Append(orders, sent)
  /\ cmd' = snapshots
  /\ pc' = "idle" /\ request' = Nothing
  /\ failed' = TRUE
  /\ UNCHANGED <<shadow, pushes, attr, shield, snapshots, sent, reply, pushing, sends, changes,
                 settled, promised>>

\* The 60 s cap: CancelledError is no Exception, nothing is restored.
SendTimesOut ==
  /\ pc = "sending" /\ LoopRuns /\ Fault
  /\ UNCHANGED orders \/ orders' = Append(orders, sent)
  /\ pc' = "idle" /\ request' = Nothing
  /\ failed' = TRUE
  /\ UNCHANGED <<shadow, pushes, copies, snapshots, sent, reply, pushing, sends, changes,
                 settled, promised>>

-----------------------------------------------------------------------------
(* HonAppliance.update, and the fallback of _update_appliance_sync.        *)

PollBegin ==
  /\ pc = "idle" /\ LoopRuns
  /\ pc' = "fetch"
  /\ UNCHANGED <<deviceVars, copies, request, snapshots, sent, reply, pushing, budgets, history>>

\* Mutant: update() does not sync the command.
Mutant_PollReply ==
  /\ pc \in {"fetch", "refetch"} /\ reply # Nothing /\ LoopRuns
  /\ attr' = Update(reply) /\ reply' = Nothing
  /\ IF pc = "fetch"
       THEN pc' = "idle" /\ UNCHANGED cmd
       ELSE pc' = "reload" /\ UNCHANGED cmd
  /\ Settles(reply) /\ failed' = (failed /\ shield # {})
  /\ UNCHANGED <<deviceVars, shield, request, snapshots, sent, pushing, budgets>>

\* load_attributes() has its reply: update() syncs the command at once, the
\* fallback reloads it first.
PollReply ==
  /\ pc \in {"fetch", "refetch"} /\ reply # Nothing /\ LoopRuns
  /\ attr' = Update(reply) /\ reply' = Nothing
  /\ IF pc = "fetch"
       THEN pc' = "idle" /\ cmd' = Synced(cmd, attr')
       ELSE pc' = "reload" /\ UNCHANGED cmd
  /\ Settles(reply) /\ failed' = (failed /\ shield # {})
  /\ UNCHANGED <<deviceVars, shield, request, snapshots, sent, pushing, budgets>>

\* load_commands(): new parameters at their defaults, then the sync.
PollReload ==
  /\ pc = "reload" /\ LoopRuns
  /\ cmd' = Synced([k \in Keys |-> Default], attr)
  /\ pc' = "idle"
  /\ UNCHANGED <<deviceVars, attr, shield, request, snapshots, sent, reply, pushing, budgets,
                 history>>

\* Mutant: a reply that comes late is kept for the next poll.
Mutant_PollFails ==
  /\ pc \in {"fetch", "refetch", "reload"} /\ LoopRuns /\ Fault
  /\ UNCHANGED reply
  /\ pc' \in IF pc = "fetch" THEN {"refetch", "idle"} ELSE {"idle"}
  /\ failed' = (failed \/ pc = "reload")
  /\ UNCHANGED <<deviceVars, copies, request, snapshots, sent, pushing, sends, changes, settled,
                 promised>>

\* The exchange fails: update() falls back to loading everything, the fallback and
\* the 60 s cap give up.
PollFails ==
  /\ pc \in {"fetch", "refetch", "reload"} /\ LoopRuns /\ Fault
  /\ reply' = Nothing
  /\ pc' \in IF pc = "fetch" THEN {"refetch", "idle"} ELSE {"idle"}
  /\ failed' = (failed \/ pc = "reload")
  /\ UNCHANGED <<deviceVars, copies, request, snapshots, sent, pushing, sends, changes, settled,
                 promised>>

-----------------------------------------------------------------------------
(* _on_publish_received, for an appliancestatus message.                   *)

PushAttributes ==
  /\ pushes # <<>> /\ ~pushing /\ PushRuns
  /\ attr' = Update(Head(pushes)) /\ pushes' = Tail(pushes)
  /\ pushing' = TRUE
  /\ Settles(Head(pushes)) /\ UNCHANGED failed
  /\ UNCHANGED <<shadow, orders, shield, cmd, jobVars, budgets>>

PushCommand ==
  /\ pushing /\ PushRuns
  /\ cmd' = Synced(cmd, attr)
  /\ pushing' = FALSE
  /\ UNCHANGED <<deviceVars, attr, shield, jobVars, budgets, history>>

-----------------------------------------------------------------------------
(* The cloud, the device and the clock.                                    *)

\* The context the cloud answers with is read at some moment of the exchange.
CloudReads ==
  /\ pc \in {"fetch", "refetch"} /\ reply = Nothing
  /\ reply' = shadow
  /\ UNCHANGED <<deviceVars, copies, pc, request, snapshots, sent, pushing, budgets, history>>

DeviceApplies ==
  /\ orders # <<>>
  /\ shadow' = Head(orders) /\ orders' = Tail(orders)
  /\ pushes' = Append(pushes, Head(orders))
  /\ UNCHANGED <<copies, jobVars, pushing, budgets, history>>

\* Its remote control, or its own program.
DeviceChanges(k, v) ==
  /\ changes < MaxChanges /\ changes' = changes + 1
  /\ v # shadow[k] /\ shadow' = [shadow EXCEPT ![k] = v]
  /\ pushes' = Append(pushes, [key \in {k} |-> v])
  /\ promised' = [promised EXCEPT ![k] = NoPromise]
  /\ UNCHANGED <<orders, copies, jobVars, pushing, sends, faults, settled, failed>>

PushLost ==
  /\ pushes # <<>> /\ Fault
  /\ pushes' = Tail(pushes)
  /\ UNCHANGED <<shadow, orders, copies, jobVars, pushing, sends, changes, history>>

\* Ten seconds have passed.
Lapse ==
  /\ shield # {}
  /\ SlowReports \/ (orders = <<>> /\ pushes = <<>> /\ reply = Nothing /\ pc # "sending")
  /\ shield' = {}
  /\ UNCHANGED <<deviceVars, attr, cmd, jobVars, pushing, budgets, history>>

Job == PollBegin \/ PollReply \/ PollReload \/ SendPost \/ SendAccepted
Push == PushAttributes \/ PushCommand
Next ==
  \/ \E params \in Requests : SendBegin(params)
  \/ SendFails \/ SendTimesOut \/ PollFails
  \/ Job \/ Push
  \/ CloudReads \/ DeviceApplies \/ PushLost \/ Lapse
  \/ \E k \in Keys, v \in Values : DeviceChanges(k, v)

Spec == Init /\ [][Next]_vars

\* Polls come every minute and are answered, pushes are handled, commands reach
\* the device.  Between two polls a shield lapses.  Nobody has to send anything.
FairSpec ==
  /\ Spec
  /\ WF_vars(Job) /\ WF_vars(Push) /\ WF_vars(CloudReads) /\ WF_vars(DeviceApplies)
  /\ SF_vars(Lapse)

-----------------------------------------------------------------------------
(* Properties.                                                             *)

\* Once the cloud has accepted a request, the entities show it until the device says
\* otherwise: no late poll or push makes them flicker back.
NoFlicker == \A k \in Keys : promised[k] # NoPromise => attr[k] = promised[k]

Posting == pc = "assigned" /\ pc' = "sending"

\* A command carries what was asked of it, and on an air conditioner no wind direction
\* that the API would refuse, whatever a push or a poll writes meanwhile.
RequestIsSent ==
  [][Posting => /\ \A k \in DOMAIN request : sent'[k] = request[k]
                /\ \A k \in WindKeys : sent'[k] \in Allowed]_vars

\* A command reverts nothing: the parameters it was not asked to change carry the last
\* value the device reported or the cloud accepted. (After a failure, from the next
\* complete reading on: a send that fails leaves its values behind, and a fallback that
\* has shown the attributes and cannot load the commands leaves those out of date.)
Reverts(k) ==
  k \notin DOMAIN request /\ attr[k] \in Allowed /\ settled[k] \in Allowed /\ sent'[k] # settled[k]
KeepsSettings == [][Posting /\ ~failed => \A k \in Keys : ~Reverts(k)]_vars

\* What is sent is the request, and otherwise the device's own settings.
SendsAreRight == RequestIsSent /\ KeepsSettings

\* A send that fails leaves nothing behind: its values contaminate no later send.
FailureIsForgotten == [][Posting => \A k \in Keys : ~Reverts(k)]_vars

\* Once nobody changes anything, the entities and the next command agree with the device.
InStep == \A k \in Keys : attr[k] = shadow[k] /\ (shadow[k] \in Allowed => cmd[k] = shadow[k])
Converges == <>[]InStep
=============================================================================
