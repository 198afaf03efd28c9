------------------------- MODULE AvailabilityProofs -------------------------
(***************************************************************************)
(* Proofs about Availability, for any appliances, interval and bounds, and *)
(* whether or not the appliances chat for ever.  What is settled is shown, *)
(* and stays so.                                                           *)
(***************************************************************************)
EXTENDS Availability, TLAPS

USE AvailabilityAssumption

-----------------------------------------------------------------------------
(* Types.                                                                  *)

LEMMA HeadTypes ==
  ASSUME NEW S, NEW s \in Seq(S), s # <<>>
  PROVE  Head(s) \in S /\ Tail(s) \in Seq(S)
OBVIOUS

LEMMA OnOffTypes == ASSUME NEW b PROVE OnOff(b) \in Shown
BY DEF OnOff, Shown

LEMMA ReceiveTypes == TypeOK /\ Receive => TypeOK'
<1> SUFFICES ASSUME TypeOK, Receive PROVE TypeOK'
  OBVIOUS
<1> DEFINE msg == Head(mail)
<1>1. msg \in Message /\ mail' \in Seq(Message)
  BY HeadTypes DEF Receive, TypeOK
<1>2. /\ msg.dev \in Devices /\ msg.at \in Periods \cup {Unstamped}
      /\ Seen(msg.dev, msg.at) \/ Disconnected(msg.dev) \/ Connected(msg.dev)
  BY <1>1 DEF Receive, Message
<1>3. /\ connection' \in [Devices -> BOOLEAN] /\ available' \in [Devices -> BOOLEAN]
      /\ realtime' \in [Devices -> Periods \cup {Unstamped}] /\ fresh' \in [Devices -> BOOLEAN]
  BY <1>2 DEF Seen, Disconnected, Connected, TypeOK
<1>4. hops' \in Seq(Snapshot)
  <2>1. [d \in Devices |-> OnOff(available'[d])] \in Snapshot
    BY OnOffTypes DEF Snapshot
  <2> QED
    BY <2>1 DEF Receive, TypeOK
<1> QED
  BY <1>1, <1>3, <1>4 DEF Receive, TypeOK, pollVars, budgets

LEMMA InitTypes == Init => TypeOK
<1> SUFFICES ASSUME Init PROVE TypeOK
  OBVIOUS
<1>1. {1, 2} \subseteq Periods
  BY DEF Periods
<1>2. shown \in Snapshot /\ entries \in Snapshot
  BY OnOffTypes DEF Init, Snapshot, Empty, Shown
<1>3. mail \in Seq(Message) /\ hops \in Seq(Snapshot)
  BY DEF Init
<1>4. connection \in [Devices -> BOOLEAN] /\ available \in [Devices -> BOOLEAN]
  BY DEF Init, Away
<1>5. period \in [Devices -> Periods] /\ recorded \in [Devices -> Periods]
  BY <1>1 DEF Init
<1>6. /\ realtime \in [Devices -> Periods \cup {Unstamped}] /\ fresh \in [Devices -> BOOLEAN]
      /\ quiet \in 0 .. Interval /\ statuses \in 0 .. MaxStatus /\ faults \in 0 .. MaxFaults
  BY DEF Init
<1>7. todo \subseteq Devices /\ (pc = "idle" => todo = {}) /\ cur \in Devices
      /\ reply \in Periods \cup {Unstamped} /\ verdict \in BOOLEAN /\ success \in BOOLEAN
      /\ pc \in {"idle", "next", "reply", "write", "entry"}
  BY DEF Init
<1> QED
  BY <1>2, <1>3, <1>4, <1>5, <1>6, <1>7 DEF TypeOK

\* Every step keeps the types.
LEMMA StepTypes == TypeOK /\ [Next]_vars => TypeOK'
<1> SUFFICES ASSUME TypeOK, [Next]_vars PROVE TypeOK'
  OBVIOUS
<1>1. ASSUME NEW d \in Devices, Turns(d) PROVE TypeOK'
  <2>1. period' \in [Devices -> Periods] /\ period'[d] \in Periods
    BY <1>1 DEF Turns, TypeOK, Periods
  <2>3. [dev |-> d, kind |-> IF Away(period'[d]) THEN "disconnected" ELSE "connected",
         at |-> period'[d]] \in Message
    BY <2>1 DEF Message
  <2>2. mail' \in Seq(Message)
    <3>1. CASE UNCHANGED mail
      BY <3>1 DEF TypeOK
    <3>2. CASE mail' = Append(mail, [dev |-> d, kind |-> IF Away(period'[d]) THEN "disconnected"
                                                                          ELSE "connected",
                                     at |-> period'[d]])
      BY <2>3, <3>2 DEF TypeOK
    <3> QED
      BY <1>1, <3>1, <3>2 DEF Turns, Post
  <2> QED
    BY <1>1, <2>1, <2>2 DEF Turns, TypeOK, engineVars, pollVars, coordVars, budgets
<1>2. ASSUME NEW d \in Devices, Reports(d) PROVE TypeOK'
  <2>1. mail' \in Seq(Message)
    BY <1>2 DEF Reports, Post, TypeOK, Message
  <2>2. statuses' \in 0 .. MaxStatus
    BY <1>2 DEF Reports, TypeOK
  <2> QED
    BY <1>2, <2>1, <2>2 DEF Reports, TypeOK, engineVars, pollVars, coordVars
<1>3. ASSUME NEW d \in Devices, CloudRecords(d) PROVE TypeOK'
  BY <1>3 DEF CloudRecords, TypeOK, engineVars, pollVars, coordVars, budgets
<1>4. ASSUME NEW d \in Devices, Silence(d) PROVE TypeOK'
  BY <1>4 DEF Silence, TypeOK, worldVars, pollVars, coordVars, budgets
<1>5. CASE MessageLost
  <2>1. mail' \in Seq(Message)
    BY <1>5, HeadTypes DEF MessageLost, TypeOK
  <2> QED
    BY <1>5, <2>1 DEF MessageLost, Fault, TypeOK, engineVars, pollVars, coordVars
<1>6. CASE Receive
  BY <1>6, ReceiveTypes
<1>7. CASE Publish
  <2>1. shown' \in Snapshot /\ hops' \in Seq(Snapshot)
    BY <1>7, HeadTypes DEF Publish, TypeOK
  <2> QED
    BY <1>7, <2>1 DEF Publish, TypeOK, worldVars, engineVars, pollVars, budgets
<1>8. CASE Tick
  BY <1>8 DEF Tick, TypeOK, worldVars, engineVars, pollVars, budgets
<1>9. CASE PollBegin
  BY <1>9 DEF PollBegin, TypeOK, worldVars, engineVars, coordVars, budgets
<1>10. ASSUME NEW d \in Devices, PollFetch(d) PROVE TypeOK'
  BY <1>10 DEF PollFetch, TypeOK, worldVars, engineVars, coordVars, budgets
<1>11. CASE PollDecide
  BY <1>11 DEF PollDecide, Verdict, Away, TypeOK, worldVars, engineVars, coordVars, budgets
<1>12. CASE PollWrite
  BY <1>12 DEF PollWrite, TypeOK, worldVars, coordVars, budgets
<1>13. CASE PollEntry
  <2>1. entries' \in Snapshot
    BY <1>13, OnOffTypes DEF PollEntry, TypeOK, Snapshot
  <2> QED
    BY <1>13, <2>1 DEF PollEntry, TypeOK, worldVars, engineVars, coordVars, budgets
<1>14. CASE PollPublish
  <2>1. entries' \in Snapshot
    BY <1>14 DEF PollPublish, Snapshot, Empty, Shown
  <2>2. shown' \in Snapshot /\ success' \in BOOLEAN /\ quiet' \in 0 .. Interval
    <3>1. (shown' = shown \/ shown' = entries) /\ success' \in BOOLEAN /\ quiet' = 0
      BY <1>14 DEF PollPublish
    <3> QED
      BY <3>1 DEF TypeOK
  <2>3. UNCHANGED <<worldVars, engineVars, cur, reply, verdict, hops, budgets>> /\ todo' = {}
    BY <1>14 DEF PollPublish
  <2> QED
    BY <1>14, <2>1, <2>2, <2>3 DEF PollPublish, TypeOK, worldVars, engineVars, budgets
<1>15. CASE PollFails
  BY <1>15 DEF PollFails, Fault, TypeOK, worldVars, engineVars, coordVars
<1>16. CASE UNCHANGED vars
  BY <1>16 DEF vars, TypeOK, worldVars, engineVars, pollVars, coordVars, budgets
<1> QED
  BY <1>1, <1>2, <1>3, <1>4, <1>5, <1>6, <1>7, <1>8, <1>9, <1>10, <1>11, <1>12, <1>13, <1>14,
     <1>15, <1>16 DEF Next, PollStep

\* The types hold in every reachable state: no poll ends with an appliance left to ask for.
THEOREM TypeCorrect == Spec => []TypeOK
BY InitTypes, StepTypes, PTL DEF Spec

-----------------------------------------------------------------------------
(* The inductive invariant.                                                *)

\* Nothing is recorded, reported or remembered before it happens, and realtime marks
\* come from connected periods.
Traffic(n) == n # Unstamped => ~Away(n)
Happened(m, p) == m.at <= p[m.dev] /\ (m.kind = "status" => Traffic(m.at))
Ordered ==
  /\ \A d \in Devices : recorded[d] <= period[d] /\ realtime[d] <= period[d] /\ Traffic(realtime[d])
  /\ \A i \in 1 .. Len(mail) : Happened(mail[i], period)
  /\ pc \in {"reply", "write"} => reply \in Periods /\ reply <= recorded[cur]

\* An appliance taken for disconnected has no recent mark that a disconnection of period
\* n would yield to.
Settled(d, n) == connection[d] \/ ~fresh[d] \/ realtime[d] = Unstamped \/ realtime[d] < n
Judged ==
  /\ \A d \in Devices : Settled(d, recorded[d])
  /\ pc = "reply" => Settled(cur, reply)
  /\ pc = "write" /\ verdict /\ Away(reply) => connection[cur]
  /\ pc = "write" /\ ~verdict => Away(reply) /\ ~(fresh[cur] /\ realtime[cur] > reply)

IInv == TypeOK /\ Ordered /\ Judged /\ TrafficIsBelieved

LEMMA InitInv == Init => IInv
<1> SUFFICES ASSUME Init PROVE IInv
  OBVIOUS
<1>1. TypeOK
  BY InitTypes
<1>2. Ordered
  BY <1>1 DEF Init, Ordered, TypeOK, Traffic, Periods, Unstamped
<1>3. Judged /\ TrafficIsBelieved
  BY <1>1 DEF Init, Judged, Settled, TrafficIsBelieved
<1> QED
  BY <1>1, <1>2, <1>3 DEF IInv

LEMMA TailIs ==
  ASSUME NEW S, NEW s \in Seq(S), s # <<>>
  PROVE  /\ 1 \in 1 .. Len(s) /\ Head(s) = s[1]
         /\ \A i \in 1 .. Len(Tail(s)) : i + 1 \in 1 .. Len(s) /\ Tail(s)[i] = s[i + 1]
OBVIOUS

LEMMA AppendIs ==
  ASSUME NEW S, NEW s \in Seq(S), NEW e \in S
  PROVE  \A i \in 1 .. Len(Append(s, e)) : \/ i \in 1 .. Len(s) /\ Append(s, e)[i] = s[i]
                                           \/ Append(s, e)[i] = e
OBVIOUS

LEMMA Numbers ==
  ASSUME TypeOK
  PROVE  /\ \A d \in Devices : period[d] \in Nat /\ recorded[d] \in Nat /\ realtime[d] \in Nat
         /\ \A i \in 1 .. Len(mail) : mail[i].dev \in Devices /\ mail[i].at \in Nat
<1>1. \A d \in Devices : period[d] \in Periods /\ recorded[d] \in Periods
                         /\ realtime[d] \in Periods \cup {Unstamped}
  BY DEF TypeOK
<1>2. \A i \in 1 .. Len(mail) : mail[i] \in Message
  BY DEF TypeOK
<1>3. Periods \subseteq Nat /\ Unstamped \in Nat
  BY DEF Periods, Unstamped
<1> QED
  BY <1>1, <1>2, <1>3 DEF Message

\* The appliances, the cloud and the clock.
LEMMA TurnsStep ==
  ASSUME TypeOK, Ordered, Judged, TrafficIsBelieved, NEW d \in Devices, Turns(d)
  PROVE  Ordered' /\ Judged' /\ TrafficIsBelieved'
<1>1. UNCHANGED <<recorded, connection, available, realtime, fresh, pc, cur, reply, verdict>>
  BY DEF Turns, engineVars, pollVars
<1>2. period' = [period EXCEPT ![d] = @ + 1]
  BY DEF Turns
<1>3. \A e \in Devices : /\ period[e] \in Nat /\ recorded[e] \in Nat /\ realtime[e] \in Nat
                         /\ recorded[e] <= period[e] /\ realtime[e] <= period[e]
                         /\ Traffic(realtime[e])
  BY Numbers DEF Ordered
<1>4. /\ \A e \in Devices : e # d => period'[e] = period[e]
      /\ period'[d] = period[d] + 1
  BY <1>2 DEF TypeOK
<1>5. \A e \in Devices : period'[e] \in Nat /\ period[e] <= period'[e]
  BY <1>3, <1>4
<1>6. \A i \in 1 .. Len(mail') : Happened(mail'[i], period')
  <2>1. \A i \in 1 .. Len(mail) : Happened(mail[i], period')
    <3> SUFFICES ASSUME NEW i \in 1 .. Len(mail) PROVE Happened(mail[i], period')
      OBVIOUS
    <3>1. mail[i].dev \in Devices /\ mail[i].at \in Nat
      BY Numbers
    <3>2. mail[i].at <= period[mail[i].dev] /\ (mail[i].kind = "status" => Traffic(mail[i].at))
      BY DEF Ordered, Happened
    <3>3. period[mail[i].dev] \in Nat /\ period'[mail[i].dev] \in Nat
          /\ period[mail[i].dev] <= period'[mail[i].dev]
      BY <1>3, <1>5, <3>1
    <3> QED
      BY <3>1, <3>2, <3>3 DEF Happened
  <2>2. CASE UNCHANGED mail
    BY <2>1, <2>2
  <2>3. ASSUME NEW k \in {"disconnected", "connected"},
               mail' = Append(mail, [dev |-> d, kind |-> k, at |-> period'[d]])
        PROVE  \A i \in 1 .. Len(mail') : Happened(mail'[i], period')
    <3> DEFINE new == [dev |-> d, kind |-> k, at |-> period'[d]]
    <3>1. mail \in Seq(Message) /\ new \in Message /\ mail' = Append(mail, new)
      BY <1>2, <2>3 DEF TypeOK, Message, Periods, Turns
    <3>2. Happened(new, period')
      BY <1>5, <2>3 DEF Happened
    <3> HIDE DEF new
    <3> QED
      BY <2>1, <3>1, <3>2, AppendIs
  <2> QED
    BY <2>2, <2>3 DEF Turns, Post
<1>7. Ordered'
  BY <1>1, <1>3, <1>5, <1>6 DEF Ordered
<1>8. Judged'
  BY <1>1 DEF Judged, Settled
<1>9. TrafficIsBelieved'
  <2>1. realtime[d] # period'[d]
    BY <1>3, <1>4
  <2> QED
    BY <1>1, <1>4, <2>1 DEF TrafficIsBelieved, Linked
<1> QED
  BY <1>7, <1>8, <1>9

LEMMA WorldStep ==
  ASSUME TypeOK, Ordered, Judged, TrafficIsBelieved,
         \/ \E d \in Devices : Reports(d) \/ CloudRecords(d) \/ Silence(d)
         \/ MessageLost
  PROVE  Ordered' /\ Judged' /\ TrafficIsBelieved'
<1>1. ASSUME NEW d \in Devices, Reports(d) PROVE Ordered' /\ Judged' /\ TrafficIsBelieved'
  <2>1. UNCHANGED <<period, recorded, connection, available, realtime, fresh, pc, cur, reply, verdict>>
    BY <1>1 DEF Reports, engineVars, pollVars
  <2>2. PICK at \in {period[d], Unstamped} :
          mail' = Append(mail, [dev |-> d, kind |-> "status", at |-> at])
    BY <1>1 DEF Reports, Post
  <2>3. at \in Nat /\ at <= period[d] /\ Traffic(at)
    BY <1>1, <2>2, Numbers DEF Reports, Linked, Traffic, Unstamped
  <2> DEFINE new == [dev |-> d, kind |-> "status", at |-> at]
  <2>4. mail \in Seq(Message) /\ new \in Message
    BY <2>2 DEF TypeOK, Message
  <2>5. Happened(new, period)
    BY <2>3 DEF Happened
  <2>6. \A i \in 1 .. Len(mail') : Happened(mail'[i], period)
    <3> HIDE DEF new
    <3>1. mail' = Append(mail, new)
      BY <2>2 DEF new
    <3> QED
      BY <2>4, <2>5, <3>1, AppendIs DEF Ordered
  <2> QED
    BY <2>1, <2>6 DEF Ordered, Judged, Settled, TrafficIsBelieved, Linked
<1>2. ASSUME NEW d \in Devices, CloudRecords(d) PROVE Ordered' /\ Judged' /\ TrafficIsBelieved'
  <2>1. /\ UNCHANGED <<period, mail, connection, available, realtime, fresh, pc, cur, reply, verdict>>
        /\ recorded' = [recorded EXCEPT ![d] = period[d]]
    BY <1>2 DEF CloudRecords, engineVars, pollVars
  <2>2. \A e \in Devices : /\ recorded[e] \in Nat /\ period[e] \in Nat /\ realtime[e] \in Nat
                           /\ recorded[e] <= period[e]
    BY Numbers DEF Ordered
  <2>3. \A e \in Devices : recorded'[e] = recorded[e] \/ recorded'[e] = period[e]
    BY <2>1 DEF TypeOK
  <2>4. \A e \in Devices : recorded'[e] \in Nat /\ recorded[e] <= recorded'[e]
                           /\ recorded'[e] <= period[e]
    BY <2>2, <2>3
  <2>5. pc \in {"reply", "write"} => reply \in Periods /\ reply \in Nat /\ reply <= recorded'[cur]
    BY <2>2, <2>4 DEF Ordered, TypeOK, Periods
  <2>6. Ordered'
    BY <2>1, <2>4, <2>5 DEF Ordered
  <2>7. \A e \in Devices : Settled(e, recorded[e])'
    BY <2>1, <2>2, <2>4 DEF Judged, Settled
  <2> QED
    BY <2>1, <2>6, <2>7 DEF Judged, Settled, TrafficIsBelieved, Linked
<1>3. ASSUME NEW d \in Devices, Silence(d) PROVE Ordered' /\ Judged' /\ TrafficIsBelieved'
  <2>1. /\ UNCHANGED <<period, recorded, mail, connection, available, realtime, pc, cur, reply, verdict>>
        /\ \A e \in Devices : fresh'[e] => fresh[e]
    BY <1>3 DEF Silence, worldVars, pollVars, TypeOK
  <2>2. Judged'
    BY <2>1 DEF Judged, Settled, TypeOK
  <2> QED
    BY <2>1, <2>2 DEF Ordered, TrafficIsBelieved, Linked
<1>4. CASE MessageLost
  <2>1. UNCHANGED <<period, recorded, connection, available, realtime, fresh, pc, cur, reply, verdict>>
    BY <1>4 DEF MessageLost, engineVars, pollVars
  <2>2. \A i \in 1 .. Len(mail') : i + 1 \in 1 .. Len(mail) /\ mail'[i] = mail[i + 1]
    BY <1>4, TailIs DEF MessageLost, TypeOK
  <2>3. \A i \in 1 .. Len(mail') : Happened(mail'[i], period)
    BY <2>2 DEF Ordered
  <2> QED
    BY <2>1, <2>3 DEF Ordered, Judged, Settled, TrafficIsBelieved, Linked
<1> QED
  BY <1>1, <1>2, <1>3, <1>4

\* A message: it comes between two steps of a poll, never while one writes its verdict.
LEMMA ReceiveStep ==
  ASSUME PushPreempts = FALSE, TypeOK, Ordered, Judged, TrafficIsBelieved, Receive
  PROVE  Ordered' /\ Judged' /\ TrafficIsBelieved'
<1> DEFINE msg == Head(mail)
<1>1. msg \in Message /\ msg = mail[1] /\ 1 \in 1 .. Len(mail)
  BY HeadTypes, TailIs DEF Receive, TypeOK
<1>2. msg.dev \in Devices /\ msg.at \in Nat /\ Happened(msg, period)
  BY <1>1, Numbers DEF Ordered
<1>3. \/ msg.kind = "status" /\ Seen(msg.dev, msg.at)
      \/ Disconnected(msg.dev) \/ Connected(msg.dev)
  BY <1>1 DEF Receive, Message
<1>4. \A i \in 1 .. Len(mail') : Happened(mail'[i], period)
  <2>1. \A i \in 1 .. Len(mail') : i + 1 \in 1 .. Len(mail) /\ mail'[i] = mail[i + 1]
    BY TailIs DEF Receive, TypeOK
  <2> QED
    BY <2>1 DEF Ordered
<1>5. pc # "write" /\ UNCHANGED <<period, recorded, pc, cur, reply, verdict>>
  BY DEF Receive, pollVars
<1> HIDE DEF msg
\* The three handlers, appliance by appliance.
<1>6. \A d \in Devices :
         \/ UNCHANGED <<connection[d], available[d], fresh[d], realtime[d]>>
         \/ /\ connection'[d] /\ available'[d]
            /\ realtime'[d] = realtime[d] \/ (realtime'[d] = msg.at /\ msg.kind = "status" /\ d = msg.dev)
         \/ ~fresh'[d] /\ realtime'[d] = Unstamped
         \/ connection'[d] /\ UNCHANGED <<available[d], fresh[d], realtime[d]>>
  BY <1>2, <1>3 DEF Seen, Disconnected, Connected, TypeOK
<1>7. \A d \in Devices : realtime'[d] <= period[d] /\ Traffic(realtime'[d])
  BY <1>2, <1>6, Numbers DEF Ordered, Happened, Traffic, Unstamped
<1>8. Ordered'
  BY <1>4, <1>5, <1>7 DEF Ordered
<1>9. Judged'
  <2>1. \A d \in Devices : Settled(d, recorded[d]) => Settled(d, recorded[d])'
    BY <1>5, <1>6 DEF Settled
  <2>2. cur \in Devices /\ (Settled(cur, reply) => Settled(cur, reply)')
    BY <1>5, <1>6 DEF Settled, TypeOK
  <2> QED
    BY <1>5, <2>1, <2>2 DEF Judged
<1>10. TrafficIsBelieved'
  BY <1>5, <1>6 DEF TrafficIsBelieved, Linked
<1> QED
  BY <1>8, <1>9, <1>10

\* The poll, and the coordinator.
LEMMA PollStepKeeps ==
  ASSUME TypeOK, Ordered, Judged, TrafficIsBelieved,
         \/ PollStep \/ PollFails \/ PollBegin \/ Publish \/ Tick \/ UNCHANGED vars
  PROVE  Ordered' /\ Judged' /\ TrafficIsBelieved'
<1>1. ASSUME NEW d \in Devices, PollFetch(d) PROVE Ordered' /\ Judged' /\ TrafficIsBelieved'
  <2>1. /\ UNCHANGED <<period, recorded, mail, connection, available, realtime, fresh, verdict>>
        /\ pc' = "reply" /\ cur' = d /\ reply' = recorded[d]
    BY <1>1 DEF PollFetch, worldVars, engineVars
  <2>2. recorded[d] \in Periods /\ recorded[d] \in Nat
    BY Numbers DEF TypeOK
  <2> QED
    BY <2>1, <2>2 DEF Ordered, Judged, Settled, TrafficIsBelieved, Linked
<1>2. CASE PollDecide
  <2>1. /\ UNCHANGED <<period, recorded, mail, connection, available, realtime, fresh, cur, reply>>
        /\ pc = "reply" /\ pc' = "write" /\ verdict' = Verdict(cur)
    BY <1>2 DEF PollDecide, worldVars, engineVars
  <2>2. /\ reply \in Periods /\ reply \in Nat /\ reply # Unstamped /\ reply <= recorded[cur]
        /\ cur \in Devices /\ realtime[cur] \in Nat
    BY <2>1, Numbers DEF Ordered, TypeOK, Periods, Unstamped
  <2>3. Verdict(cur) /\ Away(reply) => connection[cur]
    BY <2>1, <2>2 DEF Verdict, Judged, Settled, Unstamped
  <2>4. ~Verdict(cur) => Away(reply) /\ ~(fresh[cur] /\ realtime[cur] > reply)
    BY DEF Verdict
  <2> QED
    BY <2>1, <2>2, <2>3, <2>4 DEF Ordered, Judged, Settled, TrafficIsBelieved, Linked
<1>3. CASE PollWrite
  <2>1. /\ UNCHANGED <<period, recorded, mail, realtime, fresh, cur>>
        /\ pc = "write" /\ pc' = "entry"
        /\ connection' = [connection EXCEPT ![cur] = verdict]
        /\ available' = [available EXCEPT ![cur] = verdict]
    BY <1>3 DEF PollWrite, worldVars
  <2>2. \A d \in Devices : IF d = cur THEN connection'[d] = verdict /\ available'[d] = verdict
                           ELSE UNCHANGED <<connection[d], available[d]>>
    BY <2>1 DEF TypeOK
  <2>3. /\ cur \in Devices /\ reply \in Nat /\ reply <= recorded[cur]
        /\ recorded[cur] \in Nat /\ realtime[cur] \in Nat /\ period[cur] \in Nat
        /\ recorded[cur] <= period[cur] /\ (realtime[cur] # Unstamped => ~Away(realtime[cur]))
    BY <2>1, Numbers DEF Ordered, TypeOK, Periods, Traffic
  \* A mark that did not win is strictly older than what REST said.
  <2>4. ~verdict => ~fresh[cur] \/ realtime[cur] = Unstamped \/ realtime[cur] < reply
    <3>1. ~verdict => Away(reply) /\ ~(fresh[cur] /\ realtime[cur] > reply)
      BY <2>1 DEF Judged
    <3>2. Away(reply) => realtime[cur] = Unstamped \/ realtime[cur] # reply
      BY <2>3
    <3> QED
      BY <2>3, <3>1, <3>2
  <2>5. Judged'
    <3>1. \A d \in Devices : Settled(d, recorded[d])'
      BY <2>1, <2>2, <2>3, <2>4 DEF Judged, Settled
    <3> QED
      BY <2>1, <3>1 DEF Judged
  <2>6. TrafficIsBelieved'
    <3>1. ~verdict => ~(fresh[cur] /\ Linked(cur) /\ realtime[cur] = period[cur])
      <4>1. period[cur] # Unstamped
        BY <2>3 DEF TypeOK, Periods, Unstamped
      <4> QED
        BY <2>3, <2>4, <4>1
    <3> QED
      BY <2>1, <2>2, <2>3, <3>1 DEF TrafficIsBelieved, Linked, TypeOK
  <2> QED
    BY <2>1, <2>5, <2>6 DEF Ordered
<1>4. CASE PollEntry \/ PollPublish \/ PollFails \/ PollBegin
  <2>1. /\ UNCHANGED <<period, recorded, mail, connection, available, realtime, fresh>>
        /\ pc' \notin {"reply", "write"}
    BY <1>4 DEF PollEntry, PollPublish, PollFails, PollBegin, worldVars, engineVars
  <2> QED
    BY <2>1 DEF Ordered, Judged, Settled, TrafficIsBelieved, Linked
<1>5. CASE Publish \/ Tick \/ UNCHANGED vars
  <2>1. UNCHANGED <<period, recorded, mail, connection, available, realtime, fresh,
                    pc, cur, reply, verdict>>
    BY <1>5 DEF Publish, Tick, vars, worldVars, engineVars, pollVars
  <2> QED
    BY <2>1 DEF Ordered, Judged, Settled, TrafficIsBelieved, Linked
<1> QED
  BY <1>1, <1>2, <1>3, <1>4, <1>5 DEF PollStep

\* Every step keeps the invariant, as long as no message is handled while load_attributes
\* writes its verdict.
LEMMA StepInv == ASSUME PushPreempts = FALSE PROVE IInv /\ [Next]_vars => IInv'
<1> SUFFICES ASSUME IInv, [Next]_vars PROVE IInv'
  OBVIOUS
<1>1. TypeOK /\ Ordered /\ Judged /\ TrafficIsBelieved
  BY DEF IInv
<1>2. TypeOK'
  BY <1>1, StepTypes
<1>3. Ordered' /\ Judged' /\ TrafficIsBelieved'
  BY <1>1, TurnsStep, WorldStep, ReceiveStep, PollStepKeeps DEF Next
<1> QED
  BY <1>2, <1>3 DEF IInv

\* Recent traffic of the connection an appliance is in keeps it connected and available,
\* whatever stale disconnection the cloud's REST event reports.
THEOREM FreshTrafficWins == ASSUME PushPreempts = FALSE PROVE Spec => []TrafficIsBelieved
<1>1. Init => IInv
  BY InitInv
<1>2. IInv /\ [Next]_vars => IInv'
  BY StepInv
<1>3. IInv => TrafficIsBelieved
  BY DEF IInv
<1> QED
  BY <1>1, <1>2, <1>3, PTL DEF Spec

\* The poll's verdict never turns a disconnection into a connection on the strength of a
\* realtime mark: what mark_realtime_disconnected decided stands.
THEOREM DisconnectionStands == ASSUME PushPreempts = FALSE PROVE Spec => NoResurrection
<1>1. Init => IInv
  BY InitInv
<1>2. IInv /\ [Next]_vars => IInv'
  BY StepInv
<1>3. IInv /\ [Next]_vars =>
        [\A d \in Devices : pc = "write" /\ ~connection[d] /\ connection'[d] => ~Away(reply)]_vars
  <2> SUFFICES ASSUME IInv, [Next]_vars, NEW d \in Devices, pc = "write",
                      ~connection[d], connection'[d]
               PROVE  ~Away(reply)
    OBVIOUS
  <2>1. TypeOK /\ (verdict /\ Away(reply) => connection[cur])
    BY DEF IInv, Judged
  <2>2. CASE PollWrite
    BY <2>1, <2>2 DEF PollWrite, TypeOK
  <2>3. ASSUME ~PollWrite PROVE FALSE
    <3>1. connection' = connection
      BY <2>3 DEF Next, vars, PollStep, Turns, Reports, CloudRecords, Silence, MessageLost, Receive,
         Publish, Tick, PollBegin, PollFetch, PollDecide, PollEntry, PollPublish, PollFails, engineVars
    <3> QED
      BY <3>1
  <2> QED
    BY <2>2, <2>3
<1> QED
  BY <1>1, <1>2, <1>3, PTL DEF Spec, NoResurrection

-----------------------------------------------------------------------------
(* What EntityFollows needs beside fairness.                               *)

NoneOf(kind, d, box) == \A i \in 1 .. Len(box) : ~(box[i].dev = d /\ box[i].kind = kind)
ShowAll(d, S, box) == \A i \in 1 .. Len(box) : box[i][d] \in S
Updating(d) == pc \in {"reply", "write", "entry"} /\ cur = d

\* An appliance that is away, and on record as such, is settled when no traffic of it is
\* recent or on its way, no poll has been told anything else, and no snapshot, published
\* or not, shows it as available.
SettledAway(d) ==
  /\ ~Linked(d) /\ Away(recorded[d])
  /\ ~available[d] /\ ~fresh[d] /\ NoneOf("status", d, mail)
  /\ pc = "reply" /\ cur = d => Away(reply)
  /\ pc = "write" /\ cur = d => ~verdict
  /\ entries[d] # "on" /\ shown[d] # "on" /\ ShowAll(d, {"off", "absent"}, hops)

\* And one that is connected, when no disconnection is on its way, no poll has been told of
\* one or has failed to read it, and every snapshot shows it as available.
SettledHere(d) ==
  /\ Linked(d) /\ ~Away(recorded[d])
  /\ available[d] /\ NoneOf("disconnected", d, mail)
  /\ pc = "reply" /\ cur = d => ~Away(reply)
  /\ pc = "write" /\ cur = d => verdict
  /\ pc # "idle" /\ d \notin todo /\ ~Updating(d) => entries[d] = "on"
  /\ success /\ shown[d] = "on" /\ ShowAll(d, {"on"}, hops)

\* Messages and snapshots are added at the end of their queues and taken from the head.
LEMMA MailOf ==
  ASSUME NEW k, NEW d, NEW s \in Seq(Message), NoneOf(k, d, s)
  PROVE  /\ s # <<>> => NoneOf(k, d, Tail(s)) /\ ~(Head(s).dev = d /\ Head(s).kind = k)
         /\ \A m \in Message : ~(m.dev = d /\ m.kind = k) => NoneOf(k, d, Append(s, m))
<1>1. s # <<>> => NoneOf(k, d, Tail(s)) /\ ~(Head(s).dev = d /\ Head(s).kind = k)
  BY TailIs DEF NoneOf
<1>2. ASSUME NEW m \in Message, ~(m.dev = d /\ m.kind = k)
      PROVE  NoneOf(k, d, Append(s, m))
  BY <1>2, AppendIs DEF NoneOf
<1> QED
  BY <1>1, <1>2

LEMMA HopsOf ==
  ASSUME NEW d, NEW S, NEW s \in Seq(Snapshot), ShowAll(d, S, s)
  PROVE  /\ s # <<>> => ShowAll(d, S, Tail(s)) /\ Head(s)[d] \in S
         /\ \A n \in Snapshot : n[d] \in S => ShowAll(d, S, Append(s, n))
<1>1. s # <<>> => ShowAll(d, S, Tail(s)) /\ Head(s)[d] \in S
  BY TailIs DEF ShowAll
<1>2. ASSUME NEW n \in Snapshot, n[d] \in S  PROVE ShowAll(d, S, Append(s, n))
  BY <1>2, AppendIs DEF ShowAll
<1> QED
  BY <1>1, <1>2

\* What the appliances, the cloud and the clock do to the mail, and to nothing else that
\* concerns d.
LEMMA WorldSays ==
  ASSUME TypeOK, NEW d \in Devices,
         \/ \E e \in Devices : (Turns(e) /\ e # d) \/ Reports(e) \/ CloudRecords(e) \/ Silence(e)
         \/ MessageLost
  PROVE  /\ period'[d] = period[d] /\ recorded'[d] \in {recorded[d], period[d]}
         /\ UNCHANGED <<connection, available, realtime, pollVars, coordVars>>
         /\ fresh'[d] => fresh[d]
         /\ \A k : NoneOf(k, d, mail) /\ (Linked(d) => k # "status") => NoneOf(k, d, mail')
<1>1. ASSUME NEW e \in Devices, Turns(e), e # d
      PROVE  /\ period'[d] = period[d] /\ UNCHANGED <<recorded, engineVars, pollVars, coordVars>>
             /\ \A k : NoneOf(k, d, mail) => NoneOf(k, d, mail')
  <2>1. period'[d] = period[d] /\ UNCHANGED <<recorded, engineVars, pollVars, coordVars>>
    BY <1>1 DEF Turns, TypeOK
  <2>2. ASSUME NEW w \in {"disconnected", "connected"}, Post(e, w, period'[e])
        PROVE  \A k : NoneOf(k, d, mail) => NoneOf(k, d, mail')
    <3> DEFINE m == [dev |-> e, kind |-> w, at |-> period'[e]]
    <3>1. m \in Message /\ m.dev # d /\ mail' = Append(mail, m) /\ mail \in Seq(Message)
      BY <1>1, <2>2 DEF Message, Post, Turns, TypeOK, Periods
    <3> HIDE DEF m
    <3> QED
      BY <3>1, MailOf
  <2>3. \/ UNCHANGED mail
        \/ \E w \in {"disconnected", "connected"} : Post(e, w, period'[e])
    BY <1>1 DEF Turns
  <2> QED
    BY <2>1, <2>2, <2>3
<1>2. ASSUME NEW e \in Devices, Reports(e)
      PROVE  /\ UNCHANGED <<period, recorded, engineVars, pollVars, coordVars>>
             /\ \A k : NoneOf(k, d, mail) /\ (Linked(d) => k # "status") => NoneOf(k, d, mail')
  <2>1. UNCHANGED <<period, recorded, engineVars, pollVars, coordVars>> /\ Linked(e)
    BY <1>2 DEF Reports
  <2>2. PICK at \in {period[e], Unstamped} : Post(e, "status", at)
    BY <1>2 DEF Reports
  <2> DEFINE m == [dev |-> e, kind |-> "status", at |-> at]
  <2>3. /\ m \in Message /\ m.dev = e /\ m.kind = "status" /\ mail' = Append(mail, m)
        /\ mail \in Seq(Message)
    BY <2>2 DEF Message, Post, TypeOK
  <2> HIDE DEF m
  <2> QED
    BY <2>1, <2>3, MailOf
<1>3. ASSUME NEW e \in Devices, CloudRecords(e)
      PROVE  /\ UNCHANGED <<period, mail, engineVars, pollVars, coordVars>>
             /\ recorded'[d] \in {recorded[d], period[d]}
  BY <1>3 DEF CloudRecords, TypeOK
<1>4. ASSUME NEW e \in Devices, Silence(e)
      PROVE  /\ UNCHANGED <<worldVars, connection, available, realtime, pollVars, coordVars>>
             /\ fresh'[d] => fresh[d]
  BY <1>4 DEF Silence, TypeOK
<1>5. CASE MessageLost
  BY <1>5, MailOf DEF MessageLost, TypeOK, engineVars
<1> QED
  BY <1>1, <1>2, <1>3, <1>4, <1>5 DEF worldVars, engineVars

\* What a message does to d, and that its snapshot shows d as it is then.
LEMMA MessageSays ==
  ASSUME TypeOK, Receive, NEW d \in Devices
  PROVE  /\ UNCHANGED <<period, recorded, pollVars, shown, success>>
         /\ \A k : NoneOf(k, d, mail) => NoneOf(k, d, mail')
         /\ NoneOf("status", d, mail) => /\ available'[d] => available[d]
                                         /\ fresh'[d] => fresh[d]
         /\ NoneOf("disconnected", d, mail) /\ available[d] => available'[d]
         /\ \A S : OnOff(available'[d]) \in S /\ ShowAll(d, S, hops) => ShowAll(d, S, hops')
<1> DEFINE msg == Head(mail)
<1>1. msg \in Message /\ mail \in Seq(Message) /\ mail # <<>> /\ mail' = Tail(mail)
  BY HeadTypes DEF Receive, TypeOK
<1>2. \/ msg.kind = "status" /\ Seen(msg.dev, msg.at)
      \/ msg.kind = "disconnected" /\ Disconnected(msg.dev)
      \/ msg.kind = "connected" /\ Connected(msg.dev)
  BY <1>1 DEF Receive, Message
<1>3. \A k : NoneOf(k, d, mail) => NoneOf(k, d, mail') /\ ~(msg.dev = d /\ msg.kind = k)
  BY <1>1, MailOf
<1>4. msg.dev \in Devices
  BY <1>1 DEF Message
<1>5. \A S : OnOff(available'[d]) \in S /\ ShowAll(d, S, hops) => ShowAll(d, S, hops')
  <2> DEFINE n == [e \in Devices |-> OnOff(available'[e])]
  <2>1. n \in Snapshot /\ n[d] = OnOff(available'[d]) /\ hops' = Append(hops, n)
        /\ hops \in Seq(Snapshot)
    BY OnOffTypes DEF Snapshot, Receive, TypeOK
  <2> HIDE DEF n
  <2> QED
    BY <2>1, HopsOf
<1>6. UNCHANGED <<period, recorded, pollVars, shown, success>>
  BY DEF Receive
<1> HIDE DEF msg
<1>7. NoneOf("status", d, mail) => (available'[d] => available[d]) /\ (fresh'[d] => fresh[d])
  BY <1>2, <1>3, <1>4 DEF Seen, Disconnected, Connected, TypeOK
<1>8. NoneOf("disconnected", d, mail) /\ available[d] => available'[d]
  BY <1>2, <1>3, <1>4 DEF Seen, Disconnected, Connected, TypeOK
<1> QED
  BY <1>3, <1>5, <1>6, <1>7, <1>8

\* A snapshot that is published.
LEMMA PublishSays ==
  ASSUME TypeOK, Publish, NEW d \in Devices
  PROVE  /\ UNCHANGED <<worldVars, engineVars, pollVars>> /\ success'
         /\ \A S : ShowAll(d, S, hops) => shown'[d] \in S /\ ShowAll(d, S, hops')
BY HopsOf DEF Publish, TypeOK

\* A poll of an appliance that is settled as away is told so, concludes so and shows it.
LEMMA AwayStays ==
  ASSUME TypeOK, [Next]_vars, NEW d \in Devices, SettledAway(d), ~Turns(d)
  PROVE  SettledAway(d)'
<1> USE DEF SettledAway, Linked
<1>1. CASE \/ \E e \in Devices : (Turns(e) /\ e # d) \/ Reports(e) \/ CloudRecords(e) \/ Silence(e)
           \/ MessageLost
  BY <1>1, WorldSays DEF pollVars, coordVars
<1>2. CASE Receive
  <2>1. OnOff(available'[d]) \in {"off", "absent"}
    BY <1>2, MessageSays DEF OnOff
  <2> QED
    BY <1>2, <2>1, MessageSays DEF pollVars
<1>3. CASE Publish
  BY <1>3, PublishSays DEF worldVars, engineVars, pollVars
<1>4. CASE Tick \/ PollBegin \/ PollFails
  BY <1>4 DEF Tick, PollBegin, PollFails, worldVars, engineVars, pollVars, coordVars
<1>5. ASSUME NEW e \in Devices, PollFetch(e)  PROVE SettledAway(d)'
  BY <1>5 DEF PollFetch, worldVars, engineVars, coordVars
<1>6. CASE PollDecide
  BY <1>6 DEF PollDecide, Verdict, worldVars, engineVars, coordVars
<1>7. CASE PollWrite
  BY <1>7 DEF PollWrite, TypeOK, worldVars, coordVars
<1>8. CASE PollEntry
  BY <1>8 DEF PollEntry, OnOff, TypeOK, Snapshot, worldVars, engineVars, coordVars
<1>9. CASE PollPublish
  BY <1>9 DEF PollPublish, Empty, worldVars, engineVars
<1>10. CASE UNCHANGED vars
  BY <1>10 DEF vars, worldVars, engineVars, pollVars, coordVars
<1> QED
  BY <1>1, <1>2, <1>3, <1>4, <1>5, <1>6, <1>7, <1>8, <1>9, <1>10 DEF Next, PollStep

\* And one of an appliance that is settled as connected, unless it fails.
LEMMA HereStays ==
  ASSUME TypeOK, [Next]_vars, NEW d \in Devices, SettledHere(d), ~Turns(d),
         ~(PollFails /\ cur = d)
  PROVE  SettledHere(d)'
<1> USE DEF SettledHere, Linked
<1>1. CASE \/ \E e \in Devices : (Turns(e) /\ e # d) \/ Reports(e) \/ CloudRecords(e) \/ Silence(e)
           \/ MessageLost
  BY <1>1, WorldSays DEF pollVars, coordVars, Updating
<1>2. CASE Receive
  <2>1. OnOff(available'[d]) \in {"on"}
    BY <1>2, MessageSays DEF OnOff
  <2> QED
    BY <1>2, <2>1, MessageSays DEF pollVars, Updating
<1>3. CASE Publish
  BY <1>3, PublishSays DEF worldVars, engineVars, pollVars, Updating
<1>4. CASE Tick
  BY <1>4 DEF Tick, worldVars, engineVars, pollVars, Updating
<1>5. CASE PollBegin
  BY <1>5 DEF PollBegin, worldVars, engineVars, coordVars
<1>6. CASE PollFails
  BY <1>6 DEF PollFails, worldVars, engineVars, coordVars, Updating
<1>7. ASSUME NEW e \in Devices, PollFetch(e)  PROVE SettledHere(d)'
  BY <1>7 DEF PollFetch, worldVars, engineVars, coordVars, Updating
<1>8. CASE PollDecide
  BY <1>8 DEF PollDecide, Verdict, worldVars, engineVars, coordVars, Updating
<1>9. CASE PollWrite
  BY <1>9 DEF PollWrite, TypeOK, worldVars, coordVars, Updating
<1>10. CASE PollEntry
  BY <1>10 DEF PollEntry, OnOff, TypeOK, Snapshot, worldVars, engineVars, coordVars, Updating
<1>11. CASE PollPublish
  <2>1. entries[d] = "on" /\ entries # Empty
    BY <1>11 DEF PollPublish, Updating, Empty
  <2> QED
    BY <1>11, <2>1 DEF PollPublish, worldVars, engineVars
<1>12. CASE UNCHANGED vars
  BY <1>12 DEF vars, worldVars, engineVars, pollVars, coordVars, Updating
<1> QED
  BY <1>1, <1>2, <1>3, <1>4, <1>5, <1>6, <1>7, <1>8, <1>9, <1>10, <1>11, <1>12 DEF Next, PollStep

\* What is settled is shown, and stays so whatever polls, messages on their way, a cloud
\* that records late and other appliances do: only the appliance itself ends it, or, when
\* it is connected, a poll that fails to read it.
SettledIsShown ==
  \A d \in Devices :
    /\ SettledAway(d) => ~EntityAvailable(d)
    /\ SettledHere(d) => EntityAvailable(d)
SettledStays ==
  /\ []SettledIsShown
  /\ [][\A d \in Devices :
          /\ SettledAway(d) => SettledAway(d)' \/ Turns(d)
          /\ SettledHere(d) => SettledHere(d)' \/ Turns(d) \/ (PollFails /\ cur = d)]_vars

\* The half of EntityFollows that needs no fairness, for any appliances and bounds, and
\* for messages that are handled while load_attributes writes as well.
THEOREM EntitiesSettle == Spec => SettledStays
<1>1. SettledIsShown
  BY DEF SettledIsShown, SettledAway, SettledHere, EntityAvailable
<1>2. TypeOK /\ [Next]_vars =>
        \A d \in Devices :
          /\ SettledAway(d) => SettledAway(d)' \/ Turns(d)
          /\ SettledHere(d) => SettledHere(d)' \/ Turns(d) \/ (PollFails /\ cur = d)
  BY AwayStays, HereStays
<1> QED
  BY <1>1, <1>2, TypeCorrect, PTL DEF Spec, SettledStays

=============================================================================
