--------------------------- MODULE SettingsProofs ---------------------------
(***************************************************************************)
(* Proofs about the settings of an appliance, for every value of the       *)
(* constants: what the command and the attributes hold (ApplianceSync),    *)
(* and which numbers a setter takes (RangeGrid).  The two machines share   *)
(* nothing; a theorem on the first names the timing switches it depends on.*)
(***************************************************************************)
EXTENDS ApplianceSync, RangeGrid, TLAPS

USE ValuesAssumption, SyncBoundsAssumption

-----------------------------------------------------------------------------
(* Types.                                                                  *)

LEMMA UpdateTypes ==
  ASSUME TypeOK, NEW report \in Some(Values) \cup Readings
  PROVE  Update(report) \in Readings
BY DEF TypeOK, Update, Some, Readings

LEMMA SyncedTypes ==
  ASSUME NEW values \in Readings, NEW readings \in Readings
  PROVE  Synced(values, readings) \in Readings
BY DEF Synced, Readings

LEMMA SettlesTypes ==
  ASSUME TypeOK, NEW report \in Some(Values) \cup Readings, Settles(report)
  PROVE  settled' \in Readings /\ UNCHANGED promised
BY DEF TypeOK, Settles, Readings

LEMMA HeadTypes ==
  ASSUME NEW S, NEW s \in Seq(S), s # <<>>
  PROVE  Head(s) \in S /\ Tail(s) \in Seq(S)
OBVIOUS

LEMMA PartOfReadings == ASSUME NEW r \in Readings PROVE r \in Some(Values)
<1>1. Keys \in (SUBSET Keys) \ {{}} /\ r \in [Keys -> Values]
  BY DEF Readings
<1> QED
  BY <1>1 DEF Some

LEMMA InitTypes == Init => TypeOK
<1> SUFFICES ASSUME Init PROVE TypeOK
  OBVIOUS
<1>1. [k \in Keys |-> Default] \in Readings /\ shadow \in Readings
  BY DEF Init, Readings
<1>4. cmd \in Readings /\ snapshots \in Readings /\ sent \in Readings /\ settled \in Readings
  BY <1>1, SyncedTypes DEF Init
<1>5. orders \in Seq(Readings) /\ pushes \in Seq(Some(Values))
  BY DEF Init
<1>2. promised \in [Keys -> Values \cup {NoPromise}]
  BY DEF Init
<1>3. 0 \in 0 .. MaxSends /\ 0 \in 0 .. MaxChanges /\ 0 \in 0 .. MaxFaults
  OBVIOUS
<1> QED
  BY <1>1, <1>2, <1>3, <1>4, <1>5 DEF Init, TypeOK

LEMMA AssignedTypes ==
  ASSUME NEW values \in Readings, NEW params \in Some(Allowed)
  PROVE  Assigned(Sanitized(values), params) \in Readings
<1>1. Sanitized(values) \in Readings
  <2>1. (CHOOSE v \in Allowed : TRUE) \in Values
    OBVIOUS
  <2> QED
    BY <2>1 DEF Sanitized, Readings
<1>2. \A k \in DOMAIN params : params[k] \in Values
  BY DEF Some
<1> QED
  BY <1>1, <1>2 DEF Assigned, Readings

\* What the entities ask for is a dict of parameters and values.
LEMMA RequestTypes == ASSUME NEW params \in Requests PROVE params \in Some(Allowed)
<1>1. ASSUME NEW k \in Keys, params \in [{k} -> Allowed] PROVE params \in Some(Allowed)
  <2>1. {k} \in (SUBSET Keys) \ {{}}
    OBVIOUS
  <2> QED
    BY <1>1, <2>1 DEF Some
<1>2. CASE params \in [Linked -> Allowed]
  BY <1>2 DEF Some
<1> QED
  BY <1>1, <1>2 DEF Requests, OneSetting, PowerAndMode

\* Every step keeps the types.
LEMMA StepTypes == TypeOK /\ [Next]_vars => TypeOK'
<1> SUFFICES ASSUME TypeOK, [Next]_vars PROVE TypeOK'
  OBVIOUS
<1>0. /\ \A r \in Some(Values) \cup Readings : Update(r) \in Readings
      /\ \A r \in Some(Values) \cup Readings : Settles(r) =>
           settled' \in Readings /\ UNCHANGED promised
  BY UpdateTypes, SettlesTypes
<1>1. ASSUME NEW params \in Some(Allowed), SendBegin(params) PROVE TypeOK'
  <2>1. cmd' \in Readings
    BY <1>1, AssignedTypes DEF SendBegin, TypeOK
  <2>2. promised' \in [Keys -> Values \cup {NoPromise}]
    BY <1>1 DEF SendBegin, TypeOK
  <2> QED
    BY <1>1, <2>1, <2>2 DEF SendBegin, TypeOK, deviceVars
<1>2. CASE SendFails
  BY <1>2 DEF SendFails, Fault, TypeOK
<1>3. CASE SendTimesOut
  BY <1>3 DEF SendTimesOut, Fault, TypeOK, copies
<1>4. CASE PollFails
  BY <1>4 DEF PollFails, Fault, TypeOK, deviceVars, copies, history
<1>5. CASE PollBegin
  BY <1>5 DEF PollBegin, TypeOK, deviceVars, copies, budgets, history
<1>6. CASE PollReply
  <2>1. reply \in Readings
    BY <1>6 DEF PollReply, TypeOK
  <2>2. attr' \in Readings /\ settled' \in Readings /\ UNCHANGED promised
    BY <1>0, <1>6, <2>1 DEF PollReply
  <2>3. cmd' \in Readings
    BY <1>6, <2>2, SyncedTypes DEF PollReply, TypeOK
  <2> QED
    BY <1>6, <2>2, <2>3 DEF PollReply, TypeOK, deviceVars, budgets
<1>7. CASE PollReload
  <2>1. [k \in Keys |-> Default] \in Readings
    BY DEF Readings
  <2>2. cmd' \in Readings
    BY <1>7, <2>1, SyncedTypes DEF PollReload, TypeOK
  <2> QED
    BY <1>7, <2>2 DEF PollReload, TypeOK, deviceVars, budgets, history
<1>8. CASE SendPost
  BY <1>8 DEF SendPost, TypeOK, deviceVars, budgets, history
<1>9. CASE SendAccepted
  <2>1. promised' \in [Keys -> Values \cup {NoPromise}]
    BY <1>9 DEF SendAccepted, TypeOK, Readings
  <2>2. orders' \in Seq(Readings)
    BY <1>9 DEF SendAccepted, TypeOK
  <2> QED
    BY <1>9, <2>1, <2>2 DEF SendAccepted, TypeOK, copies, budgets
<1>10. CASE PushAttributes
  <2>1. Head(pushes) \in Some(Values) /\ Tail(pushes) \in Seq(Some(Values))
    BY <1>10, HeadTypes DEF PushAttributes, TypeOK
  <2>2. attr' \in Readings /\ settled' \in Readings /\ UNCHANGED promised
    BY <1>0, <1>10, <2>1 DEF PushAttributes
  <2> QED
    BY <1>10, <2>1, <2>2 DEF PushAttributes, TypeOK, jobVars, budgets
<1>11. CASE PushCommand
  <2>1. cmd' \in Readings
    BY <1>11, SyncedTypes DEF PushCommand, TypeOK
  <2> QED
    BY <1>11, <2>1 DEF PushCommand, TypeOK, deviceVars, jobVars, budgets, history
<1>12. CASE CloudReads
  BY <1>12 DEF CloudReads, TypeOK, deviceVars, copies, budgets, history
<1>13. CASE DeviceApplies
  <2>1. Head(orders) \in Readings /\ Tail(orders) \in Seq(Readings)
    BY <1>13, HeadTypes DEF DeviceApplies, TypeOK
  <2>2. pushes' \in Seq(Some(Values))
    BY <1>13, <2>1, PartOfReadings DEF DeviceApplies, TypeOK
  <2> QED
    BY <1>13, <2>1, <2>2 DEF DeviceApplies, TypeOK, copies, jobVars, budgets, history
<1>14. CASE PushLost
  <2>1. pushes' \in Seq(Some(Values))
    BY <1>14, HeadTypes DEF PushLost, TypeOK
  <2> QED
    BY <1>14, <2>1 DEF PushLost, Fault, TypeOK, copies, jobVars, history
<1>15. CASE Lapse
  BY <1>15 DEF Lapse, TypeOK, deviceVars, jobVars, budgets, history
<1>16. ASSUME NEW k \in Keys, NEW v \in Values, DeviceChanges(k, v) PROVE TypeOK'
  <2>1. [key \in {k} |-> v] \in Some(Values)
    <3>1. {k} \in (SUBSET Keys) \ {{}} /\ [key \in {k} |-> v] \in [{k} -> Values]
      OBVIOUS
    <3> QED
      BY <3>1 DEF Some
  <2>2. pushes' \in Seq(Some(Values))
    BY <1>16, <2>1 DEF DeviceChanges, TypeOK
  <2>3. shadow' \in Readings /\ promised' \in [Keys -> Values \cup {NoPromise}]
    BY <1>16 DEF DeviceChanges, TypeOK, Readings
  <2> QED
    BY <1>16, <2>2, <2>3 DEF DeviceChanges, TypeOK, copies, jobVars
<1>17. CASE UNCHANGED vars
  BY <1>17 DEF TypeOK, vars, deviceVars, copies, jobVars, budgets, history
<1> QED
  BY <1>1, <1>2, <1>3, <1>4, <1>5, <1>6, <1>7, <1>8, <1>9, <1>10, <1>11, <1>12, <1>13, <1>14,
     <1>15, <1>16, <1>17, RequestTypes DEF Next, Job, Push

\* The types hold in every reachable state: no failure or cancellation leaves a reply of
\* an exchange that is over, which a later poll would apply.
THEOREM TypeCorrect == Spec => []TypeOK
BY InitTypes, StepTypes, PTL DEF Spec

-----------------------------------------------------------------------------
(* The inductive invariant of NoFlicker.                                   *)

\* A send has room for what it was asked, and what it posts is what is shown.
RequestInv ==
  /\ pc \in {"assigned", "sending"} => request \in Some(Allowed)
  /\ pc = "assigned" => \A k \in DOMAIN request : cmd[k] \in Allowed
  /\ pc = "sending" => /\ shield = Keys /\ attr = sent /\ cmd = sent
                       /\ \A k \in DOMAIN request : sent[k] \in Allowed

\* What the device will hold once it has applied every order.
Pending(k) == IF orders = <<>> THEN shadow[k] ELSE orders[Len(orders)][k]

\* Every copy of k holds p, and so does everything that can still reach one: what is
\* on its way is free to differ only while the shield is up.
Kept(k, p) ==
  /\ p \in Allowed /\ attr[k] = p /\ cmd[k] = p /\ Pending(k) = p
  /\ pc \in {"assigned", "sending"} => snapshots[k] = p
  /\ pc = "sending" => sent[k] = p

Arriving(k, p) ==
  /\ shadow[k] = p
  /\ reply # Nothing => reply[k] = p
  /\ \A i \in 1 .. Len(orders) : orders[i][k] = p
  /\ \A i \in 1 .. Len(pushes) : k \in DOMAIN pushes[i] => pushes[i][k] = p

PromiseInv ==
  \A k \in Keys : promised[k] # NoPromise =>
    Kept(k, promised[k]) /\ (k \notin shield => Arriving(k, promised[k]))

IInv == TypeOK /\ RequestInv /\ PromiseInv

\* While every parameter is shielded, a report changes nothing that is shown.
LEMMA ShieldHolds ==
  ASSUME TypeOK, shield = Keys, NEW report PROVE Update(report) = attr
BY DEF TypeOK, Update, Readings

LEMMA SyncedSame == ASSUME NEW values \in Readings PROVE Synced(values, values) = values
BY DEF Synced, Readings

LEMMA SomeDomain == ASSUME NEW V, NEW f \in Some(V)
                    PROVE  DOMAIN f \subseteq Keys /\ \A k \in DOMAIN f : f[k] \in V
BY DEF Some

\* What a send was asked for stays in the command until the cloud has answered.
LEMMA RequestStep ==
  ASSUME SlowReports = FALSE, TypeOK, RequestInv, [Next]_vars PROVE RequestInv'
<1>1. ASSUME NEW params \in Some(Allowed), SendBegin(params) PROVE RequestInv'
  <2>1. \A k \in DOMAIN params : k \in Keys /\ params[k] \in Allowed
    BY SomeDomain
  <2> QED
    BY <1>1, <2>1 DEF SendBegin, Assigned, RequestInv
<1>2. CASE SendPost
  BY <1>2 DEF SendPost, RequestInv
<1>3. CASE PushAttributes
  <2>1. pc = "sending" => attr' = attr
    BY <1>3, ShieldHolds DEF PushAttributes, RequestInv
  <2> QED
    BY <1>3, <2>1 DEF PushAttributes, RequestInv, jobVars
<1>4. CASE PushCommand
  <2>1. pc = "sending" => cmd' = cmd
    BY <1>4, SyncedSame DEF PushCommand, RequestInv, TypeOK
  <2>2. ASSUME pc = "assigned", NEW k \in DOMAIN request PROVE cmd'[k] \in Allowed
    <3>1. k \in Keys /\ cmd[k] \in Allowed
      BY <2>2, SomeDomain DEF RequestInv
    <3> QED
      BY <1>4, <3>1 DEF PushCommand, Synced
  <2> QED
    BY <1>4, <2>1, <2>2 DEF PushCommand, RequestInv, jobVars
<1>5. CASE Lapse
  BY <1>5 DEF Lapse, RequestInv, jobVars
<1>6. CASE SendFails \/ SendTimesOut \/ SendAccepted \/ PollFails \/ PollBegin \/ PollReply \/ PollReload
  BY <1>6 DEF SendFails, SendTimesOut, SendAccepted, PollFails, PollBegin, PollReply, PollReload,
              RequestInv
<1>7. CASE CloudReads \/ DeviceApplies \/ PushLost \/ UNCHANGED vars
  BY <1>7 DEF CloudReads, DeviceApplies, PushLost, RequestInv, vars, copies, jobVars
<1>8. ASSUME NEW k \in Keys, NEW v \in Values, DeviceChanges(k, v) PROVE RequestInv'
  BY <1>8 DEF DeviceChanges, RequestInv, copies, jobVars
<1> QED
  BY <1>1, <1>2, <1>3, <1>4, <1>5, <1>6, <1>7, <1>8, RequestTypes DEF Next, Job, Push

-----------------------------------------------------------------------------
(* Promises, one parameter at a time.                                      *)

Promise(k) ==
  promised[k] # NoPromise =>
    Kept(k, promised[k]) /\ (k \notin shield => Arriving(k, promised[k]))

\* A report applied while the parameter is open agrees with the promise.
LEMMA UpdateKeeps ==
  ASSUME TypeOK, NEW k \in Keys, NEW p, attr[k] = p, NEW report,
         k \notin shield /\ k \in DOMAIN report => report[k] = p
  PROVE  Update(report)[k] = p
BY DEF Update

\* A command synced with attributes that hold the promise holds it too.
LEMMA SyncedKeeps ==
  ASSUME NEW k \in Keys, NEW values, NEW readings, NEW p \in Allowed, readings[k] = p
  PROVE  Synced(values, readings)[k] = p
BY DEF Synced

\* An order that keeps the promise is the last one.
LEMMA PendingAppend ==
  ASSUME TypeOK, NEW order \in Readings, orders' = Append(orders, order), NEW k
  PROVE  Pending(k)' = order[k]
BY DEF Pending, TypeOK

LEMMA PendingSame == ASSUME UNCHANGED <<shadow, orders>>, NEW k PROVE Pending(k)' = Pending(k)
BY DEF Pending

\* The steps of a send.
LEMMA SendKeeps ==
  ASSUME SlowReports = FALSE, IInv, TypeOK', NEW k \in Keys, Promise(k),
         (\E params \in Some(Allowed) : SendBegin(params))
           \/ SendPost \/ SendAccepted \/ SendFails \/ SendTimesOut
  PROVE  Promise(k)'
<1> USE DEF IInv
<1> SUFFICES ASSUME promised'[k] # NoPromise
             PROVE  /\ Kept(k, promised[k])'
                    /\ (k \notin shield => Arriving(k, promised[k]))'
  BY DEF Promise
<1>1. ASSUME NEW params \in Some(Allowed), SendBegin(params)
      PROVE  Kept(k, promised[k])' /\ (k \notin shield => Arriving(k, promised[k]))'
  <2>1. k \notin DOMAIN params /\ promised'[k] = promised[k] /\ promised[k] # NoPromise
    BY <1>1 DEF SendBegin
  <2>2. cmd'[k] = promised[k]
    BY <1>1, <2>1 DEF SendBegin, Assigned, Sanitized, Promise, Kept
  <2>3. Pending(k)' = Pending(k)
    BY <1>1, PendingSame DEF SendBegin, deviceVars
  <2> QED
    BY <1>1, <2>1, <2>2, <2>3 DEF SendBegin, Promise, Kept, Arriving, deviceVars
<1>2. CASE SendPost
  <2>1. Pending(k)' = Pending(k)
    BY <1>2, PendingSame DEF SendPost, deviceVars
  <2> QED
    BY <1>2, <2>1 DEF SendPost, Promise, Kept, deviceVars, history
<1>3. CASE SendAccepted
  <2>1. k \in shield'
    BY <1>3 DEF SendAccepted, RequestInv, copies
  <2>2. Pending(k)' = sent[k]
    BY <1>3, PendingAppend DEF SendAccepted, TypeOK
  <2>3. promised'[k] = sent[k] /\ sent[k] \in Allowed
    BY <1>3 DEF SendAccepted, RequestInv, Promise, Kept
  <2> QED
    BY <1>3, <2>1, <2>2, <2>3 DEF SendAccepted, RequestInv, Kept, copies
<1>4. CASE SendFails \/ SendTimesOut
  <2>1. k \in shield' /\ promised' = promised /\ pc' = "idle" /\ attr' = attr
    BY <1>4 DEF SendFails, SendTimesOut, RequestInv, copies
  <2>2. cmd'[k] = promised[k]
    BY <1>4, <2>1 DEF SendFails, SendTimesOut, Promise, Kept, copies
  <2>3. Pending(k)' = promised[k]
    <3>1. CASE UNCHANGED orders
      BY <1>4, <2>1, <3>1, PendingSame DEF SendFails, SendTimesOut, Promise, Kept
    <3>2. CASE orders' = Append(orders, sent)
      BY <1>4, <2>1, <3>2, PendingAppend DEF SendFails, SendTimesOut, Promise, Kept, TypeOK
    <3> QED
      BY <1>4, <3>1, <3>2 DEF SendFails, SendTimesOut
  <2> QED
    BY <2>1, <2>2, <2>3 DEF Promise, Kept
<1> QED
  BY <1>1, <1>2, <1>3, <1>4

\* The steps of a poll and of a push.
LEMMA ReportKeeps ==
  ASSUME IInv, NEW k \in Keys, Promise(k),
         PollBegin \/ PollReply \/ PollReload \/ PollFails \/ PushAttributes \/ PushCommand
  PROVE  Promise(k)'
<1> USE DEF IInv
<1>0. promised' = promised /\ shield' = shield /\ Pending(k)' = Pending(k)
  BY PendingSame DEF PollBegin, PollReply, PollReload, PollFails, PushAttributes, PushCommand,
     deviceVars, copies, history, Settles
<1> SUFFICES ASSUME promised[k] # NoPromise
             PROVE  /\ Kept(k, promised[k])'
                    /\ (k \notin shield => Arriving(k, promised[k]))'
  BY <1>0 DEF Promise
<1>1. Kept(k, promised[k]) /\ (k \notin shield => Arriving(k, promised[k]))
  BY DEF Promise
<1>2. CASE PollBegin \/ PollFails
  BY <1>0, <1>1, <1>2 DEF PollBegin, PollFails, Kept, Arriving, deviceVars, copies
<1>3. CASE PollReply
  <2>1. attr'[k] = promised[k]
    BY <1>1, <1>3, UpdateKeeps DEF PollReply, Kept, Arriving
  <2>2. cmd'[k] = promised[k]
    BY <1>1, <1>3, <2>1, SyncedKeeps DEF PollReply, Kept
  <2> QED
    BY <1>0, <1>1, <1>3, <2>1, <2>2 DEF PollReply, Kept, Arriving, deviceVars
<1>4. CASE PollReload
  <2>1. cmd'[k] = promised[k]
    BY <1>1, <1>4, SyncedKeeps DEF PollReload, Kept
  <2> QED
    BY <1>0, <1>1, <1>4, <2>1 DEF PollReload, Kept, Arriving, deviceVars
<1>5. CASE PushAttributes
  <2>1. pushes \in Seq(Some(Values)) /\ pushes # <<>>
    BY <1>5 DEF PushAttributes, TypeOK
  <2>2. Len(pushes) >= 1 /\ Head(pushes) = pushes[1]
    BY <2>1
  <2>3. attr'[k] = promised[k]
    BY <1>1, <1>5, <2>2, UpdateKeeps DEF PushAttributes, Kept, Arriving
  <2>4. \A i \in 1 .. Len(pushes') : i + 1 \in 1 .. Len(pushes) /\ pushes'[i] = pushes[i + 1]
    BY <1>5, <2>1 DEF PushAttributes
  <2> QED
    BY <1>0, <1>1, <1>5, <2>3, <2>4 DEF PushAttributes, Kept, Arriving, jobVars
<1>6. CASE PushCommand
  <2>1. cmd'[k] = promised[k]
    BY <1>1, <1>6, SyncedKeeps DEF PushCommand, Kept
  <2> QED
    BY <1>0, <1>1, <1>6, <2>1 DEF PushCommand, Kept, Arriving, deviceVars, jobVars
<1> QED
  BY <1>2, <1>3, <1>4, <1>5, <1>6

\* The steps of the cloud, the device and the clock.
LEMMA WorldKeeps ==
  ASSUME SlowReports = FALSE, IInv, TypeOK', NEW k \in Keys, Promise(k),
         CloudReads \/ DeviceApplies \/ PushLost \/ Lapse
           \/ (\E j \in Keys, v \in Values : DeviceChanges(j, v)) \/ UNCHANGED vars
  PROVE  Promise(k)'
<1> USE DEF IInv
<1> SUFFICES ASSUME promised'[k] # NoPromise
             PROVE  /\ Kept(k, promised[k])'
                    /\ (k \notin shield => Arriving(k, promised[k]))'
  BY DEF Promise
<1>0. promised'[k] = promised[k] /\ UNCHANGED <<attr, cmd, pc, snapshots, sent>>
  BY DEF CloudReads, DeviceApplies, PushLost, Lapse, DeviceChanges, TypeOK, vars, copies,
     jobVars, history
<1>1. Kept(k, promised[k]) /\ (k \notin shield => Arriving(k, promised[k]))
  BY <1>0 DEF Promise
<1>2. CASE CloudReads
  <2>1. Pending(k)' = Pending(k)
    BY <1>2, PendingSame DEF CloudReads, deviceVars
  <2> QED
    BY <1>0, <1>1, <1>2, <2>1 DEF CloudReads, Kept, Arriving, deviceVars, copies
<1>3. CASE DeviceApplies
  <2>1. orders \in Seq(Readings) /\ orders # <<>> /\ pushes \in Seq(Some(Values))
    BY <1>3 DEF DeviceApplies, TypeOK
  <2>2. Len(orders) >= 1 /\ Head(orders) = orders[1] /\ orders' = Tail(orders)
    BY <1>3, <2>1 DEF DeviceApplies
  <2>3. \A i \in 1 .. Len(orders') : i + 1 \in 1 .. Len(orders) /\ orders'[i] = orders[i + 1]
    BY <2>1, <2>2
  <2>4. Pending(k)' = Pending(k)
    <3>1. CASE Len(orders) = 1
      BY <1>3, <2>1, <2>2, <3>1 DEF Pending, DeviceApplies
    <3>2. CASE Len(orders) # 1
      <4>1. Len(orders') = Len(orders) - 1 /\ Len(orders') \in Nat \ {0}
        BY <2>1, <2>2, <3>2
      <4>2. orders' # <<>>
        BY <4>1
      <4> QED
        BY <2>1, <2>2, <2>3, <4>1, <4>2 DEF Pending
    <3> QED
      BY <3>1, <3>2
  <2>5. ASSUME k \notin shield
        PROVE  \A i \in 1 .. Len(pushes') : k \in DOMAIN pushes'[i] => pushes'[i][k] = promised[k]
    BY <1>1, <1>3, <2>1, <2>2, <2>5 DEF DeviceApplies, Arriving
  <2>6. k \notin shield => Arriving(k, promised[k])'
    BY <1>0, <1>1, <1>3, <2>2, <2>3, <2>5 DEF DeviceApplies, Arriving, jobVars
  <2> QED
    BY <1>0, <1>1, <1>3, <2>4, <2>6 DEF DeviceApplies, Kept, copies
<1>4. CASE PushLost
  <2>1. pushes \in Seq(Some(Values)) /\ pushes # <<>>
    BY <1>4 DEF PushLost, TypeOK
  <2>2. \A i \in 1 .. Len(pushes') : i + 1 \in 1 .. Len(pushes) /\ pushes'[i] = pushes[i + 1]
    BY <1>4, <2>1 DEF PushLost
  <2>3. Pending(k)' = Pending(k)
    BY <1>4, PendingSame DEF PushLost
  <2> QED
    BY <1>0, <1>1, <1>4, <2>2, <2>3 DEF PushLost, Kept, Arriving, copies, jobVars
<1>5. CASE Lapse
  <2>1. orders = <<>> /\ pushes = <<>> /\ reply = Nothing
    BY <1>5 DEF Lapse
  <2>2. Pending(k)' = Pending(k) /\ shadow[k] = promised[k]
    BY <1>1, <1>5, <2>1, PendingSame DEF Lapse, deviceVars, Kept, Pending
  <2> QED
    BY <1>0, <1>1, <1>5, <2>1, <2>2 DEF Lapse, Kept, Arriving, deviceVars, jobVars
<1>6. ASSUME NEW j \in Keys, NEW v \in Values, DeviceChanges(j, v)
      PROVE  Kept(k, promised[k])' /\ (k \notin shield => Arriving(k, promised[k]))'
  <2>1. k # j /\ shadow'[k] = shadow[k]
    BY <1>6 DEF DeviceChanges, TypeOK, Readings
  <2>2. Pending(k)' = Pending(k)
    BY <1>6, <2>1 DEF DeviceChanges, Pending
  <2>3. ASSUME k \notin shield
        PROVE  \A i \in 1 .. Len(pushes') : k \in DOMAIN pushes'[i] => pushes'[i][k] = promised[k]
    <3>1. pushes \in Seq(Some(Values)) /\ k \notin DOMAIN [key \in {j} |-> v]
      BY <2>1 DEF TypeOK
    <3> QED
      BY <1>1, <1>6, <2>3, <3>1 DEF DeviceChanges, Arriving
  <2>4. k \notin shield => Arriving(k, promised[k])'
    BY <1>0, <1>1, <1>6, <2>1, <2>3 DEF DeviceChanges, Arriving, jobVars
  <2> QED
    BY <1>0, <1>1, <1>6, <2>2, <2>4 DEF DeviceChanges, Kept, copies
<1>7. CASE UNCHANGED vars
  <2>1. Pending(k)' = Pending(k)
    BY <1>7, PendingSame DEF vars, deviceVars
  <2> QED
    BY <1>0, <1>1, <1>7, <2>1 DEF vars, deviceVars, copies, jobVars, Kept, Arriving
<1> QED
  BY <1>2, <1>3, <1>4, <1>5, <1>6, <1>7

LEMMA PromiseInvDef == PromiseInv <=> \A k \in Keys : Promise(k)
BY DEF PromiseInv, Promise

LEMMA InitInv == Init => IInv
<1> SUFFICES ASSUME Init PROVE IInv
  OBVIOUS
<1>1. RequestInv /\ PromiseInv
  BY DEF Init, RequestInv, PromiseInv
<1> QED
  BY <1>1, InitTypes DEF IInv

LEMMA StepInv == ASSUME SlowReports = FALSE PROVE IInv /\ [Next]_vars => IInv'
<1> SUFFICES ASSUME IInv, [Next]_vars PROVE IInv'
  OBVIOUS
<1>1. TypeOK' /\ RequestInv'
  BY StepTypes, RequestStep DEF IInv
<1>2. ASSUME NEW k \in Keys PROVE Promise(k)'
  <2>1. Promise(k)
    BY PromiseInvDef DEF IInv
  <2> QED
    BY <1>1, <2>1, SendKeeps, ReportKeeps, WorldKeeps, RequestTypes DEF Next, Job, Push
<1>3. PromiseInv'
  BY <1>2 DEF PromiseInv, Promise
<1> QED
  BY <1>1, <1>3 DEF IInv

\* As long as no order, report or reply outlives the shield, an accepted setting is
\* shown until the device or another request says otherwise, whatever the interleaving
\* of sends, polls and pushes and whatever fails in between.
THEOREM PromisesKept == ASSUME SlowReports = FALSE PROVE Spec => []NoFlicker
<1>1. Init => IInv
  BY InitInv
<1>2. IInv /\ [Next]_vars => IInv'
  BY StepInv
<1>3. IInv => NoFlicker
  BY DEF IInv, PromiseInv, Kept, NoFlicker
<1> QED
  BY <1>1, <1>2, <1>3, PTL DEF Spec

-----------------------------------------------------------------------------
(* What a command carries, when neither a push nor a job runs inside the   *)
(* other's regions.                                                        *)

\* Between its assignments and its POST a send is alone with the command.
AssignedInv ==
  pc = "assigned" =>
    /\ ~pushing
    /\ request \in Some(Allowed) /\ \A k \in DOMAIN request : cmd[k] = request[k]
    /\ \A k \in WindKeys : cmd[k] \in Allowed

\* What a send leaves in the command.
LEMMA Assigns ==
  ASSUME NEW values \in Readings, NEW params \in Some(Allowed)
  PROVE  LET new == Assigned(Sanitized(values), params)
         IN  /\ \A k \in DOMAIN params : new[k] = params[k]
             /\ \A k \in WindKeys : new[k] \in Allowed
             /\ \A k \in Keys \ DOMAIN params : values[k] \in Allowed => new[k] = values[k]
<1>1. (CHOOSE v \in Allowed : TRUE) \in Allowed
  OBVIOUS
<1>2. DOMAIN params \subseteq Keys /\ \A k \in DOMAIN params : params[k] \in Allowed
  BY SomeDomain
<1> QED
  BY <1>1, <1>2 DEF Assigned, Sanitized

LEMMA AssignedStep ==
  ASSUME PushPreempts = FALSE, TypeOK, AssignedInv, [Next]_vars  PROVE AssignedInv'
<1>1. ASSUME NEW params \in Requests, SendBegin(params)  PROVE AssignedInv'
  <2>1. params \in Some(Allowed)
    BY RequestTypes
  <2>2. cmd' = Assigned(Sanitized(cmd), params) /\ request' = params /\ ~pushing /\ ~pushing'
    BY <1>1 DEF SendBegin, LoopRuns
  <2>3. /\ \A k \in DOMAIN params : cmd'[k] = params[k]
        /\ \A k \in WindKeys : cmd'[k] \in Allowed
    BY <2>1, <2>2, Assigns DEF TypeOK
  <2> QED
    BY <2>1, <2>2, <2>3 DEF AssignedInv
<1>2. CASE SendPost \/ SendAccepted \/ SendFails \/ SendTimesOut \/ PollBegin \/ PollReply
             \/ PollReload \/ PollFails
  <2>1. pc' # "assigned"
    BY <1>2 DEF SendPost, SendAccepted, SendFails, SendTimesOut, PollBegin, PollReply,
       PollReload, PollFails
  <2> QED
    BY <2>1 DEF AssignedInv
<1>3. CASE PushAttributes \/ PushCommand
  <2>1. pc # "assigned" /\ pc' = pc
    BY <1>3 DEF PushAttributes, PushCommand, PushRuns, jobVars
  <2> QED
    BY <2>1 DEF AssignedInv
<1>4. CASE CloudReads \/ DeviceApplies \/ PushLost \/ Lapse \/ UNCHANGED vars
           \/ \E k \in Keys, v \in Values : DeviceChanges(k, v)
  <2>1. UNCHANGED <<pc, pushing, request, cmd>>
    BY <1>4 DEF CloudReads, DeviceApplies, PushLost, Lapse, DeviceChanges, vars, copies, jobVars
  <2> QED
    BY <2>1 DEF AssignedInv
<1> QED
  BY <1>1, <1>2, <1>3, <1>4 DEF Next, Job, Push

\* Outside a send, and with nothing failed since the last complete reading: a value the
\* command can carry is the last one settled, and the command has it but in the middle
\* of a push or of a reload.
Synchronous(k) == pc # "reload" /\ ~pushing /\ (pc = "assigned" => k \notin DOMAIN request)
Agrees(k) ==
  ~failed /\ pc # "sending" /\ attr[k] \in Allowed =>
    /\ settled[k] \in Allowed => attr[k] = settled[k]
    /\ Synchronous(k) => cmd[k] = attr[k]
AgreeInv == \A k \in Keys : Agrees(k)

\* A report changes what is shown and what is settled alike.
LEMMA ReportSettles ==
  ASSUME TypeOK, NEW report, NEW k \in Keys, Settles(report), attr' = Update(report)
  PROVE  /\ (attr[k] \in Allowed /\ settled[k] \in Allowed => attr[k] = settled[k])
           => (attr'[k] \in Allowed /\ settled'[k] \in Allowed => attr'[k] = settled'[k])
         /\ k \in DOMAIN report \ shield /\ attr'[k] \in Allowed => settled'[k] = attr'[k]
BY DEF Settles, Update

LEMMA AgreeStep ==
  ASSUME PushPreempts = FALSE, SlowReports = FALSE,
         TypeOK, RequestInv, AssignedInv, AgreeInv, [Next]_vars
  PROVE  AgreeInv'
<1> SUFFICES ASSUME NEW k \in Keys, ~failed', pc' # "sending", attr'[k] \in Allowed
             PROVE  /\ settled'[k] \in Allowed => attr'[k] = settled'[k]
                    /\ Synchronous(k)' => cmd'[k] = attr'[k]
  BY DEF AgreeInv, Agrees
<1> DEFINE Goal == /\ settled'[k] \in Allowed => attr'[k] = settled'[k]
                   /\ Synchronous(k)' => cmd'[k] = attr'[k]
<1>0. Agrees(k)
  BY DEF AgreeInv
<1>1. ASSUME NEW params \in Requests, SendBegin(params)  PROVE Goal
  <2>1. params \in Some(Allowed)
    BY RequestTypes
  <2>2. /\ pc = "idle" /\ ~pushing /\ UNCHANGED <<attr, settled, failed>>
        /\ cmd' = Assigned(Sanitized(cmd), params) /\ request' = params /\ pc' = "assigned"
    BY <1>1 DEF SendBegin, LoopRuns
  <2>3. /\ settled[k] \in Allowed => attr[k] = settled[k]
        /\ cmd[k] = attr[k]
    BY <1>0, <2>2 DEF Agrees, Synchronous
  <2>4. k \notin DOMAIN params => cmd'[k] = cmd[k]
    BY <2>1, <2>2, <2>3, Assigns DEF TypeOK
  <2> QED
    BY <2>2, <2>3, <2>4 DEF Synchronous
<1>2. CASE SendPost \/ SendFails \/ SendTimesOut
  BY <1>2 DEF SendPost, SendFails, SendTimesOut
<1>3. CASE SendAccepted
  BY <1>3 DEF SendAccepted, RequestInv, copies
<1>4. CASE PollBegin
  BY <1>0, <1>4 DEF PollBegin, Agrees, Synchronous, copies, history
<1>5. CASE PollReply
  <2>1. /\ pc \in {"fetch", "refetch"} /\ reply # Nothing /\ attr' = Update(reply)
        /\ Settles(reply) /\ failed' = (failed /\ shield # {})
        /\ pc = "fetch" => pc' = "idle" /\ cmd' = Synced(cmd, attr')
        /\ pc = "refetch" => pc' = "reload"
    BY <1>5 DEF PollReply
  <2>2. reply \in Readings /\ DOMAIN reply = Keys
    BY <2>1 DEF TypeOK, Readings
  <2>3. settled'[k] \in Allowed => attr'[k] = settled'[k]
    <3>1. CASE failed
      <4>1. k \in DOMAIN reply \ shield
        BY <2>1, <2>2, <3>1
      <4> QED
        BY <2>1, <4>1, ReportSettles
    <3>2. CASE ~failed
      <4>1. attr[k] \in Allowed /\ settled[k] \in Allowed => attr[k] = settled[k]
        BY <1>0, <2>1, <3>2 DEF Agrees
      <4> QED
        BY <2>1, <4>1, ReportSettles
    <3> QED
      BY <3>1, <3>2
  <2>4. pc = "fetch" => cmd'[k] = attr'[k]
    BY <2>1 DEF Synced
  <2> QED
    BY <2>1, <2>3, <2>4 DEF Synchronous
<1>6. CASE PollReload
  <2>1. cmd'[k] = attr[k] /\ UNCHANGED <<attr, settled, failed>> /\ pc = "reload"
    BY <1>6 DEF PollReload, Synced, history
  <2> QED
    BY <1>0, <2>1 DEF Agrees
<1>7. CASE PollFails
  <2>1. /\ pc \in {"fetch", "refetch"} /\ pc' \in {"refetch", "idle"} /\ ~failed
        /\ UNCHANGED <<attr, cmd, settled, pushing>>
    BY <1>7 DEF PollFails, copies
  <2> QED
    BY <1>0, <2>1 DEF Agrees, Synchronous
<1>8. CASE PushAttributes
  <2>1. /\ attr' = Update(Head(pushes)) /\ Settles(Head(pushes)) /\ pushing' = TRUE
        /\ UNCHANGED <<pc, failed>>
    BY <1>8 DEF PushAttributes, jobVars
  <2>2. attr[k] \in Allowed /\ settled[k] \in Allowed => attr[k] = settled[k]
    BY <1>0, <2>1 DEF Agrees
  <2> QED
    BY <2>1, <2>2, ReportSettles DEF Synchronous
<1>9. CASE PushCommand
  <2>1. UNCHANGED <<pc, attr, settled, failed>> /\ cmd' = Synced(cmd, attr)
    BY <1>9 DEF PushCommand, jobVars, history
  <2> QED
    BY <1>0, <2>1 DEF Agrees, Synced
<1>10. CASE CloudReads \/ DeviceApplies \/ PushLost \/ Lapse \/ UNCHANGED vars
            \/ \E j \in Keys, v \in Values : DeviceChanges(j, v)
  <2>1. UNCHANGED <<pc, pushing, request, cmd, attr, settled, failed>>
    BY <1>10 DEF CloudReads, DeviceApplies, PushLost, Lapse, DeviceChanges, vars, copies, jobVars,
       history
  <2> QED
    BY <1>0, <2>1 DEF Agrees, Synchronous
<1> QED
  BY <1>1, <1>2, <1>3, <1>4, <1>5, <1>6, <1>7, <1>8, <1>9, <1>10 DEF Next, Job, Push

\* A command carries what was asked of it, and no wind direction that would be refused,
\* for any parameters and requests and however slow the device is, as long as no push
\* is handled between a send's assignments and its POST.
THEOREM CarriesTheRequest == ASSUME PushPreempts = FALSE  PROVE Spec => RequestIsSent
<1>1. Init => AssignedInv
  BY DEF Init, AssignedInv
<1>2. TypeOK /\ AssignedInv /\ [Next]_vars => AssignedInv'
  BY PushPreempts = FALSE, AssignedStep
<1>3. AssignedInv /\ [Next]_vars =>
        (Posting => /\ \A k \in DOMAIN request : sent'[k] = request[k]
                    /\ \A k \in WindKeys : sent'[k] \in Allowed)
  <2> SUFFICES ASSUME AssignedInv, [Next]_vars, Posting
               PROVE  sent' = cmd
    BY DEF AssignedInv, Posting
  <2>1. SendPost
    BY DEF Next, Job, Push, Posting, SendBegin, SendFails, SendTimesOut, PollFails, PollBegin,
           PollReply, PollReload, SendAccepted, PushAttributes, PushCommand, CloudReads,
           DeviceApplies, PushLost, Lapse, DeviceChanges, vars, jobVars
  <2> QED
    BY <2>1 DEF SendPost
<1> QED
  BY <1>1, <1>2, <1>3, TypeCorrect, PTL DEF Spec, RequestIsSent

\* Under the same assumption, and as long as no order, report or reply outlives the
\* shield, a command also reverts nothing: what it was not asked to change is the last
\* value the device reported or the cloud accepted, whatever has failed before the last
\* complete reading.
THEOREM SendsRight ==
  ASSUME PushPreempts = FALSE, SlowReports = FALSE  PROVE Spec => SendsAreRight
<1>1. Init => RequestInv /\ AssignedInv /\ AgreeInv
  <2> SUFFICES ASSUME Init  PROVE RequestInv /\ AssignedInv /\ AgreeInv
    OBVIOUS
  <2>1. RequestInv /\ AssignedInv
    BY DEF Init, RequestInv, AssignedInv
  <2>2. \A k \in Keys : attr[k] \in Allowed => cmd[k] = attr[k] /\ settled[k] = cmd[k]
    BY DEF Init, Synced
  <2>3. AgreeInv
    BY <2>2 DEF AgreeInv, Agrees
  <2> QED
    BY <2>1, <2>3
<1>2. TypeOK /\ RequestInv /\ AssignedInv /\ AgreeInv /\ [Next]_vars
        => RequestInv' /\ AssignedInv' /\ AgreeInv'
  BY PushPreempts = FALSE, SlowReports = FALSE, RequestStep, AssignedStep, AgreeStep
<1>3. AssignedInv /\ AgreeInv /\ [Next]_vars =>
        (Posting /\ ~failed => \A k \in Keys : ~Reverts(k))
  <2> SUFFICES ASSUME AssignedInv, AgreeInv, [Next]_vars, Posting, ~failed, NEW k \in Keys,
                      Reverts(k)
               PROVE  FALSE
    OBVIOUS
  <2>1. SendPost
    BY DEF Next, Job, Push, Posting, SendBegin, SendFails, SendTimesOut, PollFails, PollBegin,
           PollReply, PollReload, SendAccepted, PushAttributes, PushCommand, CloudReads,
           DeviceApplies, PushLost, Lapse, DeviceChanges, vars, jobVars
  <2>2. sent' = cmd /\ pc = "assigned" /\ ~pushing
    BY <2>1 DEF SendPost, AssignedInv
  <2>3. k \notin DOMAIN request /\ attr[k] \in Allowed /\ settled[k] \in Allowed
        /\ sent'[k] # settled[k]
    BY DEF Reverts
  <2>4. Agrees(k)
    BY DEF AgreeInv
  <2> QED
    BY <2>2, <2>3, <2>4 DEF Agrees, Synchronous
<1>4. Spec => KeepsSettings
  BY <1>1, <1>2, <1>3, TypeCorrect, PTL DEF Spec, KeepsSettings
<1> QED
  BY <1>4, CarriesTheRequest, PushPreempts = FALSE DEF SendsAreRight

-----------------------------------------------------------------------------
(* Agreement with the device, once it is reached.                          *)

\* No order, report or command is on its way, and a reply tells what the device has.
Quiet ==
  /\ orders = <<>> /\ pushes = <<>> /\ ~pushing
  /\ pc \in {"idle", "fetch", "refetch", "reload"} /\ reply \in {Nothing, shadow}

\* A poll that is answered while no value is shielded shows what the device has and
\* leaves the command with it.
PollRepairs ==
  [][pc = "fetch" /\ pc' = "idle" /\ faults' = faults /\ reply = shadow /\ shield = {} => InStep']_vars

\* Once in step, with nothing on its way, only a request or a change at the device ends
\* the agreement: no poll, failure, fallback or reload does, and no lapse of the shield.
AgreementLasts ==
  [][InStep /\ Quiet => (InStep /\ Quiet)' \/ sends' # sends \/ changes' # changes]_vars

LEMMA QuietStep ==
  ASSUME TypeOK, InStep, Quiet, [Next]_vars
  PROVE  (InStep /\ Quiet)' \/ sends' # sends \/ changes' # changes
<1>1. /\ attr = shadow /\ shadow \in Readings /\ cmd \in Readings
      /\ \A k \in Keys : shadow[k] \in Allowed => cmd[k] = shadow[k]
  <2>1. \A k \in Keys : attr[k] = shadow[k]
    BY DEF InStep
  <2> QED
    BY <2>1 DEF TypeOK, Readings, InStep
<1> DEFINE Goal == (InStep /\ Quiet)'
<1> DEFINE Same == UNCHANGED <<shadow, attr, cmd, orders, pushes, pushing>>
<1>2. ASSUME Same, reply' \in {Nothing, shadow}, pc' \in {"idle", "fetch", "refetch", "reload"}
      PROVE  Goal
  BY <1>2 DEF InStep, Quiet
<1>3. ASSUME NEW params \in Requests, SendBegin(params)  PROVE sends' # sends
  BY <1>3 DEF SendBegin, TypeOK
<1>4. ~(SendPost \/ SendAccepted \/ SendFails \/ SendTimesOut \/ Push \/ DeviceApplies \/ PushLost)
  BY DEF Quiet, SendPost, SendAccepted, SendFails, SendTimesOut, Push, PushAttributes, PushCommand,
         DeviceApplies, PushLost
<1>5. CASE PollBegin
  BY <1>2, <1>5 DEF PollBegin, deviceVars, copies, Quiet
<1>6. CASE PollReply
  <2>1. reply = shadow /\ attr' = Update(reply) /\ reply' = Nothing
    BY <1>6 DEF PollReply, Quiet
  <2>2. attr' = shadow
    BY <1>1, <2>1 DEF Update, Readings
  <2>3. cmd' \in {cmd, Synced(cmd, attr')}
    BY <1>6 DEF PollReply
  <2>4. \A k \in Keys : shadow[k] \in Allowed => cmd'[k] = shadow[k]
    BY <1>1, <2>2, <2>3 DEF Synced
  <2>5. UNCHANGED <<shadow, orders, pushes, pushing>> /\ pc' \in {"idle", "reload"}
    BY <1>6 DEF PollReply, deviceVars
  <2> QED
    BY <2>1, <2>2, <2>4, <2>5 DEF InStep, Quiet
<1>7. CASE PollReload
  <2>1. cmd' = Synced([k \in Keys |-> Default], attr) /\ pc' = "idle"
        /\ UNCHANGED <<shadow, orders, pushes, pushing, attr, reply>>
    BY <1>7 DEF PollReload, deviceVars
  <2>2. \A k \in Keys : shadow[k] \in Allowed => cmd'[k] = shadow[k]
    BY <1>1, <2>1 DEF Synced
  <2> QED
    BY <1>1, <2>1, <2>2 DEF InStep, Quiet
<1>8. CASE PollFails
  BY <1>2, <1>8 DEF PollFails, deviceVars, copies
<1>9. CASE CloudReads
  BY <1>2, <1>9 DEF CloudReads, deviceVars, copies, Quiet
<1>10. ASSUME NEW k \in Keys, NEW v \in Values, DeviceChanges(k, v)  PROVE changes' # changes
  BY <1>10 DEF DeviceChanges, TypeOK
<1>11. CASE Lapse
  BY <1>2, <1>11 DEF Lapse, deviceVars, jobVars, Quiet
<1>12. CASE UNCHANGED vars
  BY <1>2, <1>12 DEF vars, deviceVars, copies, jobVars, Quiet
<1> QED
  BY <1>3, <1>4, <1>5, <1>6, <1>7, <1>8, <1>9, <1>10, <1>11, <1>12 DEF Next, Job

\* The two halves of Converges that need no fairness, whatever the bounds and with
\* pushes that cut into a send: the next poll that is answered in full brings the entry
\* and the command back in step with the device, and there they stay.
THEOREM PollsBringInStep == Spec => PollRepairs /\ AgreementLasts
<1>1. ASSUME TypeOK, [Next]_vars, pc = "fetch", pc' = "idle", faults' = faults, reply = shadow, shield = {}
      PROVE  InStep'
  <2>1. CASE PollReply
    <3>1. attr' = Update(shadow) /\ cmd' = Synced(cmd, attr') /\ shadow' = shadow
      BY <1>1, <2>1 DEF PollReply, deviceVars
    <3>2. \A k \in Keys : attr'[k] = shadow[k]
      BY <1>1, <3>1 DEF Update, TypeOK, Readings
    <3> QED
      BY <3>1, <3>2 DEF InStep, Synced
  <2>2. ~PollFails
    BY <1>1 DEF PollFails, Fault, TypeOK
  <2>3. PollReply
    BY <1>1, <2>2 DEF Next, Job, Push, vars, jobVars, SendBegin, SendPost, SendAccepted, SendFails,
          SendTimesOut, PollBegin, PollReload, PushAttributes, PushCommand, CloudReads, DeviceApplies,
          PushLost, Lapse, DeviceChanges
  <2> QED
    BY <2>1, <2>3
<1>2. TypeOK /\ [Next]_vars => (InStep /\ Quiet => (InStep /\ Quiet)' \/ sends' # sends \/ changes' # changes)
  BY QuietStep
<1>3. TypeOK /\ [Next]_vars =>
        (pc = "fetch" /\ pc' = "idle" /\ faults' = faults /\ reply = shadow /\ shield = {} => InStep')
  BY <1>1
<1> QED
  BY <1>2, <1>3, TypeCorrect, PTL DEF Spec, PollRepairs, AgreementLasts

-----------------------------------------------------------------------------
(* RangeGrid.  Arithmetic first: what quotients, remainders and multiples are. *)

USE UnitsAssumption, SchemasAssumption, NumbersAssumption

LEMMA Division ==
  ASSUME NEW a \in Int, NEW d \in Int, d > 0
  PROVE  /\ a \div d \in Int /\ a % d \in 0 .. d - 1
         /\ a = (a \div d) * d + (a % d)
OBVIOUS

LEMMA Exactly ==
  ASSUME NEW q \in Int, NEW d \in Int, d > 0
  PROVE  (q * d) % d = 0 /\ (q * d) \div d = q
OBVIOUS

\* What is closer to 0 than the last decimal, and has no other, is 0.
LEMMA Negligible ==
  ASSUME NEW a \in Int, Multiple(a), a < Resolution, -a < Resolution
  PROVE  a = 0
BY Division DEF Multiple, UnitsAssumption

LEMMA MultiplesAdd ==
  ASSUME NEW a \in Int, NEW b \in Int, Multiple(a), Multiple(b)
  PROVE  Multiple(a + b) /\ Multiple(a - b)
<1> DEFINE p == a \div Resolution
           q == b \div Resolution
<1>1. p \in Int /\ q \in Int /\ a = p * Resolution /\ b = q * Resolution
  BY Division DEF Multiple, UnitsAssumption
<1> HIDE DEF p, q
<1>2. a + b = (p + q) * Resolution /\ a - b = (p - q) * Resolution
  BY <1>1 DEF UnitsAssumption
<1> QED
  BY <1>1, <1>2, Exactly, p + q \in Int, p - q \in Int DEF Multiple, UnitsAssumption

LEMMA MultiplesScale ==
  ASSUME NEW a \in Int, NEW i \in Int, Multiple(a)
  PROVE  Multiple(i * a)
<1> DEFINE p == a \div Resolution
<1>1. p \in Int /\ a = p * Resolution
  BY Division DEF Multiple, UnitsAssumption
<1> HIDE DEF p
<1>2. i * a = (i * p) * Resolution /\ i * p \in Int
  BY <1>1 DEF UnitsAssumption
<1> QED
  BY <1>2, Exactly DEF Multiple, UnitsAssumption

-----------------------------------------------------------------------------
(* The grid of a range.                                                    *)

LEMMA StepType ==
  ASSUME NEW r \in Range
  PROVE  Step(r) \in Int
BY DEF Step, Range, UnitsAssumption

LEMMA EpsType ==
  ASSUME NEW r \in Range, Step(r) > 0
  PROVE  Eps(r) \in Int /\ 4 * Eps(r) <= Step(r)
<1>1. Magnitude(r) \in Int
  BY StepType DEF Magnitude, Larger, Abs, Range, UnitsAssumption
<1>2. Magnitude(r) \div One \in Int /\ Step(r) \div 4 \in Int
  BY <1>1, StepType, Division DEF UnitsAssumption
<1>3. 4 * (Step(r) \div 4) <= Step(r)
  BY StepType
<1> QED
  BY <1>2, <1>3, StepType DEF Eps, Smaller

LEMMA PointType ==
  ASSUME NEW r \in Range, NEW i \in Int
  PROVE  Point(r, i) \in Int
BY StepType DEF Point, Range

LEMMA PointIsMultiple ==
  ASSUME NEW r \in Range, WellFormed(r), NEW i \in Int
  PROVE  Multiple(Point(r, i))
<1>1. Multiple(r.min) /\ r.min \in Int /\ Multiple(i * Step(r)) /\ i * Step(r) \in Int
  BY StepType, MultiplesScale DEF WellFormed, Range
<1> QED
  BY <1>1, MultiplesAdd DEF Point

LEMMA NearestType ==
  ASSUME NEW r \in Range, Step(r) > 0, NEW v \in Int
  PROVE  Nearest(r, v) \in Int
<1>1. (v - r.min) \div Step(r) \in Int
  BY StepType, Division DEF Range
<1> QED
  BY <1>1 DEF Nearest

\* The point at the index of v itself, when v is on the grid.
LEMMA OnItsPoint ==
  ASSUME NEW r \in Range, Step(r) > 0, NEW v \in Int, (v - r.min) % Step(r) = 0
  PROVE  Point(r, (v - r.min) \div Step(r)) = v /\ Nearest(r, v) = (v - r.min) \div Step(r)
<1> DEFINE i == (v - r.min) \div Step(r)
           s == Step(r)
<1>1. i \in Int /\ s \in Int /\ r.min \in Int
  BY StepType, Division DEF Range
<1>2. v - r.min = i * s
  <2> DEFINE a == v - r.min
  <2>1. a \in Int /\ s > 0 /\ a % s = 0
    BY <1>1
  <2> HIDE DEF a, s
  <2>2. a = (a \div s) * s + (a % s) /\ a \div s \in Int
    BY <1>1, <2>1, Division
  <2>3. a = (a \div s) * s
    <3> DEFINE x == (a \div s) * s
    <3>1. x \in Int /\ a = x + 0
      BY <1>1, <2>1, <2>2 DEF s
    <3> HIDE DEF x
    <3>2. a = x
      BY <3>1
    <3> QED
      BY <3>2 DEF x
  <2> QED
    BY <2>3 DEF a, s
<1>3. Point(r, i) = v
  BY <1>1, <1>2 DEF Point
<1>4. 2 * (v - Point(r, i)) <= s
  <2> HIDE DEF i, s
  <2>1. v - Point(r, i) = 0 /\ s > 0
    BY <1>3 DEF s
  <2> QED
    BY <1>1, <2>1
<1> QED
  BY <1>3, <1>4 DEF Nearest

LEMMA PointIsOnGrid ==
  ASSUME NEW r \in Range, Step(r) > 0, NEW i \in Int
  PROVE  (Point(r, i) - r.min) % Step(r) = 0 /\ (Point(r, i) - r.min) \div Step(r) = i
<1> DEFINE s == Step(r)
           x == i * s
<1>1. s \in Int /\ r.min \in Int /\ x \in Int /\ s > 0
  BY StepType DEF Range
<1>2. Point(r, i) - r.min = x
  <2> HIDE DEF x
  <2>1. Point(r, i) = r.min + x
    BY DEF Point, x
  <2> QED
    BY <1>1, <2>1
<1>3. x % s = 0 /\ x \div s = i
  BY <1>1, Exactly
<1> QED
  BY <1>2, <1>3

\* A point that the tolerance cannot tell from what somebody wrote is that number.
LEMMA Indistinct ==
  ASSUME NEW r \in Range, WellFormed(r), Step(r) > 0, NEW i \in Int,
         NEW v \in Int, Multiple(v),
         Point(r, i) - v <= Eps(r) + Noise, v - Point(r, i) <= Eps(r) + Noise
  PROVE  Point(r, i) = v
<1> DEFINE p == Point(r, i)
<1>1. p \in Int /\ Eps(r) \in Int /\ Noise \in Int /\ Resolution \in Int
  BY PointType, EpsType DEF UnitsAssumption
<1>2. Multiple(p - v)
  BY <1>1, PointIsMultiple, MultiplesAdd
<1>3. Eps(r) + Noise < Resolution
  BY DEF WellFormed
<1> HIDE DEF p
<1>4. p - v < Resolution /\ -(p - v) < Resolution
  BY <1>1, <1>3 DEF p
<1>5. p - v = 0
  BY <1>1, <1>2, <1>4, Negligible
<1>6. p = v
  BY <1>1, <1>5
<1> QED
  BY <1>6 DEF p

LEMMA AbsBound ==
  ASSUME NEW a \in Int, NEW b \in Int, Abs(a) <= b
  PROVE  a <= b /\ -a <= b
BY DEF Abs

\* The setter takes a number that anybody writes if and only if it is on the grid,
\* however the point it compares with was rounded.
LEMMA SetterAgrees ==
  ASSUME NEW r \in Range, WellFormed(r), NEW v \in Int, Multiple(v), NEW e \in Errors
  PROVE  OnGrid(r, v, e) <=> OnExactGrid(r, v)
<1>1. CASE ~(Step(r) > 0)
  BY <1>1 DEF OnGrid, OnExactGrid
<1>2. CASE Step(r) > 0
  <2> DEFINE i == Nearest(r, v)
             p == Point(r, i)
  <2>1. i \in Int /\ p \in Int /\ Eps(r) \in Int /\ Noise \in Int /\ e \in Int /\ e <= Noise /\ -e <= Noise
    BY <1>2, NearestType, PointType, EpsType DEF UnitsAssumption, Errors
  <2>2. ASSUME Abs(p + e - v) <= Eps(r)  PROVE (v - r.min) % Step(r) = 0
    <3>1. p + e - v <= Eps(r) /\ -(p + e - v) <= Eps(r)
      <4> HIDE DEF p
      <4> QED
        BY <2>1, <2>2, AbsBound
    <3>2. p - v <= Eps(r) + Noise /\ v - p <= Eps(r) + Noise
      <4> HIDE DEF p
      <4> QED
        BY <2>1, <3>1
    <3>3. p = v
      <4> HIDE DEF i
      <4> QED
        BY <1>2, <2>1, <3>2, Indistinct
    <3> QED
      BY <1>2, <2>1, <3>3, PointIsOnGrid
  <2>3. ASSUME (v - r.min) % Step(r) = 0  PROVE Abs(p + e - v) <= Eps(r)
    <3>1. p = v
      BY <1>2, <2>3, OnItsPoint
    <3>2. Noise <= Eps(r)
      BY <1>2 DEF WellFormed
    <3> HIDE DEF p
    <3> QED
      BY <2>1, <3>1, <3>2 DEF Abs
  <2> QED
    BY <1>2, <2>2, <2>3 DEF OnGrid, OnExactGrid
<1> QED
  BY <1>1, <1>2

\* The option entity, whose tolerance is a part of the step, agrees with it while that
\* part is no more than the last decimal written.
LEMMA EntityAgrees ==
  ASSUME NEW r \in Range, WellFormed(r), Step(r) > 0, Step(r) <= Resolution * Whole,
         NEW v \in Int, Multiple(v)
  PROVE  EntityTakes(r, v) <=> OnExactGrid(r, v)
<1> DEFINE i == Nearest(r, v)
           p == Point(r, i)
<1>1. i \in Int /\ p \in Int /\ Step(r) \in Int /\ Resolution \in Int /\ Whole \in Nat \ {0}
  BY NearestType, PointType, StepType DEF UnitsAssumption
<1>2. ASSUME Abs(p - v) * Whole < Step(r)  PROVE (v - r.min) % Step(r) = 0
  <2>1. Multiple(p - v)
    BY <1>1, PointIsMultiple, MultiplesAdd
  <2> HIDE DEF p
  <2>2. Abs(p - v) \in Nat
    BY <1>1 DEF Abs
  <2>3. Abs(p - v) * Whole < Resolution * Whole
    BY <1>1, <1>2, <2>2
  <2>4. Abs(p - v) < Resolution
    BY <1>1, <2>2, <2>3
  <2>5. p - v < Resolution /\ -(p - v) < Resolution
    BY <1>1, <2>4 DEF Abs
  <2>6. p - v = 0
    BY <1>1, <2>1, <2>5, Negligible
  <2>7. p = v
    BY <1>1, <2>6
  <2> QED
    BY <1>1, <2>7, PointIsOnGrid DEF p
<1>3. ASSUME (v - r.min) % Step(r) = 0  PROVE Abs(p - v) * Whole < Step(r)
  <2>1. p = v
    BY <1>3, OnItsPoint
  <2> HIDE DEF p
  <2>2. Abs(p - v) = 0
    BY <1>1, <2>1 DEF Abs
  <2> QED
    BY <1>1, <2>2
<1> QED
  BY <1>2, <1>3 DEF EntityTakes, OnExactGrid

\* Whatever the setter takes is nearer to its own point than to any other.
LEMMA SetterIsNear ==
  ASSUME NEW r \in Range, WellFormed(r), Step(r) > 0, NEW v \in Int, NEW e \in Errors,
         OnGrid(r, v, e)
  PROVE  2 * Abs(Point(r, Nearest(r, v)) - v) < Step(r)
<1> DEFINE p == Point(r, Nearest(r, v))
<1>1. p \in Int /\ Eps(r) \in Int /\ Noise \in Int /\ e \in Int /\ e <= Noise /\ -e <= Noise /\ Step(r) \in Int
  BY NearestType, PointType, EpsType, StepType DEF UnitsAssumption, Errors
<1>2. Abs(p + e - v) <= Eps(r)
  BY DEF OnGrid
<1>3. 4 * Eps(r) <= Step(r) /\ 4 * Noise < Step(r)
  BY EpsType DEF WellFormed
<1> HIDE DEF p
<1>4. p + e - v <= Eps(r) /\ -(p + e - v) <= Eps(r)
  BY <1>1, <1>2, AbsBound
<1>5. 2 * (p - v) < Step(r) /\ 2 * (v - p) < Step(r)
  BY <1>1, <1>3, <1>4
<1>6. 2 * Abs(p - v) < Step(r)
  BY <1>1, <1>5 DEF Abs
<1> QED
  BY <1>6 DEF p

-----------------------------------------------------------------------------
(* The invariant.                                                          *)

\* k points of the grid, from its first, are within the range, and no more.
Covers(r, k) ==
  /\ k > 0 => Point(r, k - 1) <= r.max
  /\ Point(r, k) > r.max

GridInv ==
  /\ GridTypeOK
  /\ WellFormed(range)
  /\ at # "idle" => Step(range) > 0 /\ listed = NotListed
  /\ at = "up" /\ n > 0 => Point(range, n - 1) <= range.max
  /\ listed \notin {NotListed, MaxValues} /\ Step(range) > 0 => listed >= 0 /\ Covers(range, listed)

LEMMA PointsAscend ==
  ASSUME NEW r \in Range, Step(r) > 0, NEW i \in Int, NEW j \in Int, i <= j
  PROVE  Point(r, i) <= Point(r, j)
<1> DEFINE s == Step(r)
           x == i * s
           y == j * s
           z == (j - i) * s
<1>1. s \in Int /\ r.min \in Int /\ s > 0
  BY StepType DEF Range
<1>2. x \in Int /\ y \in Int /\ z \in Int /\ y = x + z
  BY <1>1
<1>3. z >= 0
  BY <1>1
<1>4. Point(r, i) = r.min + x /\ Point(r, j) = r.min + y
  BY DEF Point
<1> HIDE DEF x, y, z
<1> QED
  BY <1>1, <1>2, <1>3, <1>4

\* What is listed is what is on the grid.
LEMMA ListIsGrid ==
  ASSUME NEW r \in Range, Step(r) > 0, NEW k \in Nat, Covers(r, k), NEW v \in Int
  PROVE  OnExactGrid(r, v) <=>
           v >= r.min /\ (v - r.min) % Step(r) = 0 /\ (v - r.min) \div Step(r) < k
<1> DEFINE i == (v - r.min) \div Step(r)
<1>1. i \in Int /\ r.min \in Int /\ r.max \in Int /\ k - 1 \in Int
  BY StepType, Division DEF Range
<1> SUFFICES ASSUME v >= r.min, (v - r.min) % Step(r) = 0
             PROVE  v <= r.max <=> i < k
  BY <1>1 DEF OnExactGrid
<1>2. Point(r, i) = v
  BY OnItsPoint
<1>3. i >= 0
  BY <1>1, StepType, Division DEF Range
<1> HIDE DEF i
<1>4. ASSUME i < k  PROVE v <= r.max
  <2>1. Point(r, i) <= Point(r, k - 1)
    BY <1>1, <1>4, PointsAscend
  <2>2. Point(r, k - 1) <= r.max
    BY <1>1, <1>3, <1>4 DEF Covers
  <2> QED
    BY <1>1, <1>2, <2>1, <2>2, PointType
<1>5. ASSUME ~(i < k)  PROVE ~(v <= r.max)
  <2>1. Point(r, k) <= Point(r, i)
    BY <1>1, <1>5, PointsAscend
  <2>2. Point(r, k) > r.max
    BY DEF Covers
  <2> QED
    BY <1>1, <1>2, <2>1, <2>2, PointType
<1> QED
  BY <1>4, <1>5

\* However a point was rounded, the limit of the enumeration admits it if and only if
\* it is within the range.
LEMMA LimitAgrees ==
  ASSUME NEW r \in Range, WellFormed(r), Step(r) > 0, NEW i \in Int, NEW e \in Errors
  PROVE  Point(r, i) + e <= Limit(r) <=> Point(r, i) <= r.max
<1> DEFINE p == Point(r, i)
<1>1. p \in Int /\ r.max \in Int /\ Eps(r) \in Int /\ Noise \in Int /\ e \in Int /\ e <= Noise /\ -e <= Noise
  BY PointType, EpsType DEF Errors, Range, UnitsAssumption
<1>2. Noise <= Eps(r) /\ Eps(r) + Noise < Resolution /\ Resolution \in Int
  BY DEF WellFormed, UnitsAssumption
<1>3. Multiple(p - r.max)
  BY <1>1, PointIsMultiple, MultiplesAdd DEF WellFormed
<1> HIDE DEF p
<1>4. ASSUME p + e <= r.max + Eps(r), ~(p <= r.max)  PROVE FALSE
  <2>1. p - r.max < Resolution /\ -(p - r.max) < Resolution
    BY <1>1, <1>2, <1>4
  <2>2. p - r.max = 0
    BY <1>1, <1>3, <2>1, Negligible
  <2> QED
    BY <1>1, <1>4, <2>2
<1>5. p <= r.max => p + e <= r.max + Eps(r)
  BY <1>1, <1>2
<1>6. p + e <= r.max + Eps(r) <=> p <= r.max
  BY <1>4, <1>5
<1> QED
  BY <1>6 DEF p, Limit

\* The invariant is what the property needs: SetterAgrees for the numbers that are
\* written, SetterIsNear for the others, ListIsGrid for the list.
LEMMA GridInvHonours ==
  ASSUME GridInv  PROVE GridIsHonoured
<1>1. range \in Range /\ WellFormed(range)
  BY DEF GridInv, GridTypeOK
<1>2. ASSUME NEW v \in Numbers, NEW e \in Errors, Multiple(v)
      PROVE  OnGrid(range, v, e) <=> OnExactGrid(range, v)
  BY <1>1, <1>2, SetterAgrees
<1>3. ASSUME NEW v \in Numbers, NEW e \in Errors, Multiple(v), IsRange(range),
             Step(range) <= Resolution * Whole
      PROVE  EntityTakes(range, v) <=> OnGrid(range, v, e)
  BY <1>1, <1>2, <1>3, EntityAgrees, NumbersAssumption DEF IsRange
<1>4. ASSUME NEW v \in Numbers, NEW e \in Errors, OnGrid(range, v, e), Step(range) > 0
      PROVE  2 * Abs(Point(range, Nearest(range, v)) - v) < Step(range)
  BY <1>1, <1>4, SetterIsNear
<1>5. ASSUME listed \notin {NotListed, MaxValues}, Step(range) > 0, NEW v \in Written
      PROVE  OnExactGrid(range, v) <=>
               v >= range.min /\ (v - range.min) % Step(range) = 0
                 /\ (v - range.min) \div Step(range) < listed
  <2>1. v \in Int
    BY DEF Written
  <2>2. listed \in Nat /\ Covers(range, listed)
    BY <1>5 DEF GridInv, GridTypeOK
  <2> QED
    BY <1>1, <1>5, <2>1, <2>2, ListIsGrid
<1> QED
  BY <1>2, <1>3, <1>4, <1>5 DEF GridIsHonoured

LEMMA GridInvInit ==
  ASSUME GridInit  PROVE GridInv
<1>1. range \in Range /\ WellFormed(range) /\ value \in Int
  BY DEF GridInit, Written
<1> QED
  BY <1>1 DEF GridInit, GridInv, GridTypeOK, NotListed

LEMMA GridInvStep ==
  ASSUME GridInv, [GridNext]_gridVars  PROVE GridInv'
<1> USE DEF GridInv
<1>1. range \in Range /\ WellFormed(range) /\ n \in Nat /\ Step(range) \in Int
  BY StepType DEF GridTypeOK
<1>2. CASE Reload
  <2>1. range' \in Range /\ WellFormed(range') /\ value' \in Int
    BY <1>2 DEF Reload, Written
  <2> QED
    BY <1>2, <2>1 DEF Reload, GridTypeOK, NotListed
<1>3. ASSUME NEW v \in Numbers, Set(v)  PROVE GridInv'
  <2>1. value' \in Int
    BY <1>3 DEF Set, GridTypeOK
  <2> QED
    BY <1>3, <2>1 DEF Set, GridTypeOK, NotListed
<1>4. ASSUME NEW v \in Numbers, Fix(v)  PROVE GridInv'
  <2>1. range' \in Range
    BY <1>1, <1>4 DEF Fix, Range, Larger
  <2>2. WellFormed(range') /\ value' \in Int /\ UNCHANGED <<at, n>> /\ at = "idle" /\ listed' = NotListed
    BY <1>4 DEF Fix, GridTypeOK
  <2> QED
    BY <2>1, <2>2 DEF GridTypeOK, NotListed
<1>5. CASE StartCount
  <2>1. CASE Step(range) <= 0
    BY <1>1, <1>5, <2>1 DEF StartCount, GridTypeOK, NotListed, Smaller
  <2>2. CASE ~(Step(range) <= 0)
    <3>1. Step(range) > 0
      BY <1>1, <2>2
    <3>2. (Limit(range) - range.min) \div Step(range) \in Int
      BY <1>1, <3>1, EpsType, Division DEF Limit, Range
    <3>3. n' \in Nat
      BY <1>5, <2>2, <3>2 DEF StartCount, Larger
    <3> QED
      BY <1>5, <2>2, <3>1, <3>3 DEF StartCount, GridTypeOK, NotListed
  <2> QED
    BY <2>1, <2>2
<1>6. CASE Down
  <2>1. Step(range) > 0 /\ listed = NotListed
    BY <1>6 DEF Down
  <2>2. PICK e \in Errors :
          IF n > 0 /\ Point(range, n - 1) + e > Limit(range)
            THEN n' = n - 1 /\ UNCHANGED at
            ELSE at' = "up" /\ UNCHANGED n
    BY <1>6 DEF Down
  <2>3. n' \in Nat /\ at' \in {"down", "up"} /\ UNCHANGED <<range, value, listed>>
    BY <1>1, <1>6, <2>2 DEF Down
  <2>4. ASSUME at' = "up", n' > 0  PROVE Point(range, n' - 1) <= range.max
    <3>1. n' = n /\ ~(Point(range, n - 1) + e > Limit(range)) /\ n - 1 \in Int
      BY <1>1, <1>6, <2>2, <2>4 DEF Down
    <3>2. Point(range, n - 1) + e \in Int /\ Limit(range) \in Int
      BY <1>1, <2>1, <3>1, PointType, EpsType DEF Errors, Limit, Range, UnitsAssumption
    <3>3. Point(range, n - 1) + e <= Limit(range)
      BY <3>1, <3>2
    <3> QED
      BY <1>1, <2>1, <3>1, <3>3, LimitAgrees
  <2> QED
    BY <2>1, <2>3, <2>4 DEF GridTypeOK, NotListed
<1>7. CASE Up
  <2>1. Step(range) > 0 /\ listed = NotListed
    BY <1>7 DEF Up
  <2>2. PICK e \in Errors :
          IF Point(range, n) + e <= Limit(range)
            THEN n' = n + 1 /\ UNCHANGED <<at, listed>>
            ELSE at' = "idle" /\ listed' = Smaller(n, MaxValues) /\ n' = 0
    BY <1>7 DEF Up
  <2>3. n \in Int /\ n + 1 - 1 = n /\ at = "up"
    BY <1>1, <1>7 DEF Up
  <2>4. CASE Point(range, n) + e <= Limit(range)
    <3>1. n' = n + 1 /\ UNCHANGED <<range, value, at, listed>>
      BY <1>7, <2>2, <2>4 DEF Up
    <3>2. Point(range, n) <= range.max
      BY <1>1, <2>1, <2>3, <2>4, LimitAgrees
    <3>3. n' \in Nat /\ n' - 1 = n
      BY <1>1, <3>1
    <3> QED
      BY <2>1, <3>1, <3>2, <3>3 DEF GridTypeOK, NotListed
  <2>5. CASE ~(Point(range, n) + e <= Limit(range))
    <3>1. at' = "idle" /\ listed' = Smaller(n, MaxValues) /\ n' = 0 /\ UNCHANGED <<range, value>>
      BY <1>7, <2>2, <2>5 DEF Up
    <3>2. ~(Point(range, n) <= range.max)
      BY <1>1, <2>1, <2>3, <2>5, LimitAgrees
    <3>3. Point(range, n) > range.max
      BY <1>1, <2>3, <3>2, PointType DEF Range
    <3>4. Covers(range, n)
      BY <1>7, <3>3 DEF Covers, Up
    <3>5. listed' \in -1 .. MaxValues /\ (listed' # MaxValues => listed' = n)
      BY <1>1, <3>1 DEF Smaller, UnitsAssumption
    <3> QED
      BY <1>1, <3>1, <3>4, <3>5 DEF GridTypeOK
  <2> QED
    BY <2>4, <2>5
<1>8. CASE UNCHANGED gridVars
  BY <1>8 DEF gridVars, GridTypeOK, NotListed
<1> QED
  BY <1>2, <1>3, <1>4, <1>5, <1>6, <1>7, <1>8 DEF GridNext

\* Whatever the schema declares and rules stretch a range to, its state is well typed:
\* the loops of _grid_count keep their counter natural, and what is listed is never
\* longer than _MAX_RANGE_VALUES.
THEOREM GridTypeCorrect == GridSpec => []GridTypeOK
<1>1. GridInv => GridTypeOK
  BY DEF GridInv
<1> QED
  BY <1>1, GridInvInit, GridInvStep, PTL DEF GridSpec

\* The setter and the list of values of a range agree, on every range and for every
\* number, however far below the tolerance the rounding of floating point is: _on_grid
\* takes exactly the written numbers that are on the grid, never one that is half a step
\* away, and _grid_count counts exactly those. The option entity takes the same written
\* numbers as the setter as long as a millionth of the step is at most the last decimal.
THEOREM GridCorrect == GridSpec => []GridIsHonoured
  BY GridInvInit, GridInvStep, GridInvHonours, PTL DEF GridSpec
=============================================================================
