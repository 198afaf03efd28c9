--------------------------- MODULE SessionProofs ---------------------------
(***************************************************************************)
(* Proofs about Session, for any list of the cloud, any zones and however  *)
(* many codes and closes: the state of a session is torn down in order,    *)
(* and its setup loses or doubles no appliance.                            *)
(***************************************************************************)
EXTENDS Session, TLAPS

USE EntriesAssumption, SessionBoundsAssumption

-----------------------------------------------------------------------------
(* Types.                                                                  *)

LEMMA ListTypes ==
  ASSUME NEW l \in Lists
  PROVE  /\ Len(l) \in 0 .. MaxListed /\ DOMAIN l = 1 .. Len(l)
         /\ \A i \in 1 .. Len(l) : l[i] \in Entry
<1>1. PICK n \in 0 .. MaxListed : l \in [1 .. n -> Entries]
  BY DEF Lists
<1>2. l \in Seq(Entries) /\ Len(l) = n
  BY <1>1
<1> QED
  BY <1>1, <1>2

LEMMA TurnTypes ==
  ASSUME NEW e \in Entry
  PROVE  Turns(e) \in 0 .. MaxZones + 1
BY DEF Turns, Entry

LEMMA ListTurns ==
  ASSUME TypeOK
  PROVE  /\ DOMAIN listed = 1 .. Len(listed) /\ Len(listed) \in Nat
         /\ \A i \in DOMAIN listed : Turns(listed[i]) \in Nat
         /\ DOMAIN appliances = 1 .. Len(appliances) /\ Len(appliances) \in Nat
         /\ \A k \in DOMAIN appliances : appliances[k] \in Appliance
BY ListTypes, TurnTypes DEF TypeOK

LEMMA Appended ==
  ASSUME NEW S, NEW s \in Seq(S), NEW x \in S
  PROVE  /\ DOMAIN Append(s, x) = 1 .. Len(s) + 1 /\ Append(s, x)[Len(s) + 1] = x
         /\ \A k \in 1 .. Len(s) : Append(s, x)[k] = s[k]
OBVIOUS

LEMMA LoadTypes == TypeOK /\ LoadNext => TypeOK'
<1> SUFFICES ASSUME TypeOK, LoadNext PROVE TypeOK'
  OBVIOUS
<1> DEFINE e == listed[pos.entry]
<1>1. /\ pos.entry \in 1 .. MaxListed /\ pos.turn \in 1 .. MaxZones + 2
      /\ e \in Entry /\ Turns(e) \in 0 .. MaxZones + 1
  BY ListTypes, TurnTypes DEF LoadNext, TypeOK
<1>2. ASSUME pos.turn <= Turns(e), Skip(e)  PROVE TypeOK'
  <2>1. pos' = [pos EXCEPT !.turn = pos.turn + 1] /\ pos.turn + 1 \in 1 .. MaxZones + 2
    BY <1>1, <1>2 DEF Skip, TypeOK
  <2>2. pos' \in [entry : 1 .. MaxListed + 1, turn : 1 .. MaxZones + 2]
    BY <2>1 DEF TypeOK
  <2> QED
    BY <1>2, <2>2 DEF LoadNext, Skip, TypeOK
<1>3. ASSUME pos.turn <= Turns(e), Add(e)  PROVE TypeOK'
  <2>1. pos.entry \in 1 .. MaxListed /\ pos.turn \in 1 .. MaxZones + 1
    BY <1>1, <1>3
  <2>2. \A b \in BOOLEAN :
          Append(appliances, [entry |-> pos.entry, turn |-> pos.turn, loaded |-> b])
            \in Seq(Appliance)
    BY <2>1 DEF TypeOK, Appliance
  <2>3. appliances' \in Seq(Appliance)
    BY <1>3, <2>2 DEF Add, TypeOK
  <2>4. /\ pos' \in [entry : 1 .. MaxListed + 1, turn : 1 .. MaxZones + 2]
        /\ at' \in {"load", "stop", "challenged"}
    BY <1>3, <2>1 DEF Add, Raise, TypeOK, LoadNext
  <2> QED
    BY <2>3, <2>4 DEF LoadNext, TypeOK
<1>4. CASE pos.turn > Turns(e)
  BY <1>1, <1>4 DEF LoadNext, TypeOK
<1> QED
  BY <1>2, <1>3, <1>4 DEF LoadNext

\* Every reachable state is well typed: the loop of setup never leaves the list, nor an
\* entry's zones.
THEOREM TypeCorrect == Spec => []TypeOK
<1>1. Init => TypeOK
  BY DEF Init, TypeOK
<1>2. TypeOK /\ [Next]_vars => TypeOK'
  <2> SUFFICES ASSUME TypeOK, [Next]_vars PROVE TypeOK'
    OBVIOUS
  <2>1. CASE Create
    BY <2>1 DEF Create, Raise, TypeOK
  <2>2. CASE LoadList
    BY <2>2 DEF LoadList, Raise, TypeOK
  <2>3. CASE LoadNext
    BY <2>3, LoadTypes
  <2>4. CASE EndLoads \/ StartMqtt
    BY <2>4 DEF EndLoads, StartMqtt, Raise, TypeOK
  <2>5. CASE SubmitCode \/ Close
    BY <2>5 DEF SubmitCode, Close, TypeOK
  <2>6. CASE StopMqtt \/ CloseApi
    BY <2>6 DEF StopMqtt, CloseApi, TypeOK
  <2>7. CASE UNCHANGED vars
    BY <2>7 DEF vars, TypeOK
  <2> QED
    BY <2>1, <2>2, <2>3, <2>4, <2>5, <2>6, <2>7 DEF Next
<1> QED
  BY <1>1, <1>2, PTL DEF Spec

-----------------------------------------------------------------------------
(* What is open where.                                                     *)

\* A session that has come past its create, or has to be closed, owns its connection;
\* the realtime client is up only in service or about to be stopped, the first of the
\* steps of close.
OpenInv ==
  /\ conn = "open" <=> api = "open"
  /\ at = "new" => api = "none" /\ by = "create"
  /\ at \in {"list", "load", "mqtt", "live", "challenged"} => api = "open"
  /\ mqtt = "up" => at \in {"live", "stop"} /\ api = "open"
  /\ at = "out" => api = "none"
  /\ at = "mqtt" => ~mode.minimal
  /\ by = "submit" => mode.minimal

LEMMA OpenStep == TypeOK /\ OpenInv /\ [Next]_vars => OpenInv'
<1> SUFFICES ASSUME TypeOK, OpenInv, [Next]_vars PROVE OpenInv'
  OBVIOUS
<1>1. CASE Create
  BY <1>1 DEF Create, Raise, TypeOK, OpenInv
<1>2. CASE LoadList
  BY <1>2 DEF LoadList, Raise, TypeOK, OpenInv
<1>3. CASE LoadNext
  BY <1>3 DEF LoadNext, Skip, Add, Raise, TypeOK, OpenInv
<1>4. CASE EndLoads \/ StartMqtt
  BY <1>4 DEF EndLoads, StartMqtt, Raise, TypeOK, OpenInv
<1>5. CASE SubmitCode \/ Close
  BY <1>5 DEF SubmitCode, Close, TypeOK, OpenInv
<1>6. CASE StopMqtt \/ CloseApi
  BY <1>6 DEF StopMqtt, CloseApi, TypeOK, OpenInv
<1>7. CASE UNCHANGED vars
  BY <1>7 DEF vars, OpenInv
<1> QED
  BY <1>1, <1>2, <1>3, <1>4, <1>5, <1>6, <1>7 DEF Next

\* close takes a session down in order, whatever failed before it and however often it
\* is called: the realtime client never outlives the connection, and nothing is left.
THEOREM ClosesInOrder == Spec => []TornDown
<1>1. Init => OpenInv
  BY DEF Init, OpenInv
<1>2. OpenInv => TornDown
  BY DEF OpenInv, TornDown
<1> QED
  BY <1>1, <1>2, OpenStep, TypeCorrect, PTL DEF Spec

-----------------------------------------------------------------------------
(* Every appliance once.                                                   *)

\* The loop has passed this zone of this entry.
Before(i, t) == i < pos.entry \/ (i = pos.entry /\ t < pos.turn)

\* What is in the list belongs there, and has been loaded if it could be ...
Sound ==
  \A k \in DOMAIN appliances :
    /\ appliances[k].entry \in DOMAIN listed /\ Usable(listed[appliances[k].entry])
    /\ appliances[k].turn <= Turns(listed[appliances[k].entry])
    /\ Before(appliances[k].entry, appliances[k].turn)
    /\ ~mode.minimal /\ listed[appliances[k].entry].data = "good" => appliances[k].loaded
\* ... what the loop has passed is in it ...
Complete ==
  \A i \in DOMAIN listed : \A t \in 1 .. Turns(listed[i]) :
    Usable(listed[i]) /\ Before(i, t) =>
      \E k \in DOMAIN appliances : appliances[k].entry = i /\ appliances[k].turn = t
\* ... and once only.
Once ==
  \A k, l \in DOMAIN appliances :
    appliances[k].entry = appliances[l].entry /\ appliances[k].turn = appliances[l].turn => k = l

\* A setup starts with an empty list, also one that follows a code: the setups that
\* fail behind the login are not repeated, and a flow's client loads nothing that fails.
LoadInv ==
  /\ at \in {"new", "list", "challenged"} => appliances = <<>>
  /\ at \in {"load", "mqtt", "live"} => Sound /\ Complete /\ Once
  /\ at \in {"mqtt", "live"} => pos.entry > Len(listed)

\* The loop skips a zone.
LEMMA SkipStep ==
  ASSUME TypeOK, LoadInv, LoadNext, NEW e, e = listed[pos.entry], pos.turn <= Turns(e), Skip(e)
  PROVE  LoadInv'
<1>1. /\ pos.entry \in 1 .. MaxListed /\ pos.turn \in 1 .. MaxZones + 2
      /\ pos'.entry = pos.entry /\ pos'.turn = pos.turn + 1
      /\ appliances' = appliances /\ at' = "load" /\ at = "load"
      /\ listed' = listed /\ mode' = mode /\ ~Usable(e)
  BY ListTypes, SMTT(30) DEF Skip, LoadNext, TypeOK, Usable
<1>2. \A i \in DOMAIN listed : DOMAIN listed = 1 .. Len(listed) /\ Turns(listed[i]) \in Nat
  BY ListTypes, TurnTypes DEF TypeOK
<1>3. \A k \in DOMAIN appliances : appliances[k] \in Appliance
  BY DEF TypeOK
<1>4. \A i, t \in Nat : Before(i, t)' <=> Before(i, t) \/ (i = pos.entry /\ t = pos.turn)
  BY <1>1 DEF Before
<1>5. Sound'
  BY <1>1, <1>3, <1>4 DEF LoadInv, Sound, Appliance
<1>6. Complete'
  BY <1>1, <1>2, <1>4 DEF LoadInv, Complete
<1>7. Once'
  BY <1>1 DEF LoadInv, Once
<1> QED
  BY <1>1, <1>5, <1>6, <1>7 DEF LoadInv

\* It adds one.
LEMMA AddStep ==
  ASSUME TypeOK, LoadInv, LoadNext, NEW e, e = listed[pos.entry], pos.turn <= Turns(e),
         Usable(e), NEW x \in Appliance, x.entry = pos.entry, x.turn = pos.turn,
         ~mode.minimal /\ e.data = "good" => x.loaded,
         NEW n \in Nat, n = Len(appliances) + 1,
         DOMAIN appliances' = 1 .. n, appliances'[n] = x,
         \A k \in 1 .. Len(appliances) : appliances'[k] = appliances[k],
         pos' = [pos EXCEPT !.turn = @ + 1], at' = at
  PROVE  LoadInv'
<1>1. /\ pos.entry \in DOMAIN listed /\ pos.entry \in Nat /\ pos.turn \in Nat
      /\ pos'.entry = pos.entry /\ pos'.turn = pos.turn + 1
      /\ at' = "load" /\ at = "load" /\ listed' = listed /\ mode' = mode
  BY ListTurns, SMTT(30) DEF LoadNext, TypeOK
<1>2. DOMAIN appliances = 1 .. Len(appliances) /\ Len(appliances) \in Nat
  BY ListTurns
<1>3. \A i, t \in Nat : Before(i, t)' <=> Before(i, t) \/ (i = pos.entry /\ t = pos.turn)
  BY <1>1 DEF Before
<1>4. \A k \in 1 .. n : k = n \/ k \in 1 .. Len(appliances)
  BY <1>2
<1>5. \A k \in 1 .. Len(appliances) :
        /\ appliances[k].entry \in Nat /\ appliances[k].turn \in Nat
        /\ appliances[k].entry \in DOMAIN listed /\ Usable(listed[appliances[k].entry])
        /\ appliances[k].turn <= Turns(listed[appliances[k].entry])
        /\ Before(appliances[k].entry, appliances[k].turn)
        /\ ~mode.minimal /\ listed[appliances[k].entry].data = "good" => appliances[k].loaded
  <2>1. Sound
    BY <1>1 DEF LoadInv
  <2>2. \A k \in 1 .. Len(appliances) : appliances[k].entry \in Nat /\ appliances[k].turn \in Nat
    BY ListTurns DEF Appliance
  <2> QED
    BY <1>2, <2>1, <2>2 DEF Sound
<1>6. Sound'
  <2> SUFFICES ASSUME NEW k \in 1 .. n
               PROVE  /\ appliances'[k].entry \in DOMAIN listed
                      /\ Usable(listed[appliances'[k].entry])
                      /\ appliances'[k].turn <= Turns(listed[appliances'[k].entry])
                      /\ Before(appliances[k].entry, appliances[k].turn)'
                      /\ ~mode.minimal /\ listed[appliances'[k].entry].data = "good"
                           => appliances'[k].loaded
    BY <1>1 DEF Sound
  <2>1. CASE k = n
    BY <1>1, <2>1 DEF Before
  <2>2. CASE k \in 1 .. Len(appliances)
    BY <1>2, <1>3, <1>5, <2>2
  <2> QED
    BY <1>4, <2>1, <2>2
<1>7. Complete'
  <2> SUFFICES ASSUME NEW i \in DOMAIN listed, NEW t \in 1 .. Turns(listed[i]),
                      Usable(listed[i]), Before(i, t)'
               PROVE  \E k \in 1 .. n : appliances'[k].entry = i /\ appliances'[k].turn = t
    BY <1>1 DEF Complete
  <2>1. CASE Before(i, t)
    <3>1. PICK k \in DOMAIN appliances : appliances[k].entry = i /\ appliances[k].turn = t
      BY <1>1, <2>1 DEF LoadInv, Complete
    <3> QED
      BY <1>2, <1>4, <3>1
  <2>2. CASE i = pos.entry /\ t = pos.turn
    BY <1>2, <2>2
  <2>3. i \in Nat /\ t \in Nat
    BY ListTurns
  <2> QED
    BY <1>3, <2>1, <2>2, <2>3
<1>8. Once'
  <2>1. \A k \in 1 .. Len(appliances) :
          ~(appliances[k].entry = pos.entry /\ appliances[k].turn = pos.turn)
    <3>1. pos.entry \in Nat /\ pos.turn \in Nat
      BY <1>1
    <3>2. ASSUME NEW k \in 1 .. Len(appliances), appliances[k].entry = pos.entry,
                 appliances[k].turn = pos.turn
          PROVE  FALSE
      <4>1. Before(pos.entry, pos.turn)
        BY <1>5, <3>2
      <4> QED
        BY <3>1, <4>1 DEF Before
    <3> QED
      BY <3>2
  <2>2. \A k, l \in 1 .. Len(appliances) :
          appliances[k].entry = appliances[l].entry /\ appliances[k].turn = appliances[l].turn
            => k = l
    BY <1>1, <1>2 DEF LoadInv, Once
  <2> SUFFICES ASSUME NEW k \in 1 .. n, NEW l \in 1 .. n,
                      appliances'[k].entry = appliances'[l].entry,
                      appliances'[k].turn = appliances'[l].turn
               PROVE  k = l
    BY <1>2 DEF Once
  <2>3. CASE k = n /\ l = n
    BY <2>3
  <2>4. CASE k = n /\ l # n
    BY <1>2, <1>4, <2>1, <2>4
  <2>5. CASE k # n /\ l = n
    BY <1>2, <1>4, <2>1, <2>5
  <2>6. CASE k # n /\ l # n
    BY <1>2, <1>4, <2>2, <2>6
  <2> QED
    BY <2>3, <2>4, <2>5, <2>6
<1> QED
  BY <1>1, <1>6, <1>7, <1>8 DEF LoadInv

\* It goes on to the next entry.
LEMMA NextEntryStep ==
  ASSUME TypeOK, LoadInv, LoadNext, pos.turn > Turns(listed[pos.entry]),
         pos' = [entry |-> pos.entry + 1, turn |-> 1], at' = at, appliances' = appliances
  PROVE  LoadInv'
<1>1. /\ pos.entry \in 1 .. Len(listed) /\ pos.turn \in 1 .. MaxZones + 2
      /\ pos'.entry = pos.entry + 1 /\ pos'.turn = 1
      /\ at' = "load" /\ at = "load" /\ listed' = listed /\ mode' = mode
  BY ListTypes DEF LoadNext, TypeOK
<1>2. \A i \in DOMAIN listed : DOMAIN listed = 1 .. Len(listed) /\ Turns(listed[i]) \in Nat
  BY ListTypes, TurnTypes DEF TypeOK
<1>3. \A k \in DOMAIN appliances : appliances[k] \in Appliance
  BY DEF TypeOK
<1>4. \A i \in Nat : \A t \in Nat \ {0} : Before(i, t)' <=> i <= pos.entry
  BY <1>1 DEF Before
<1>5. Sound'
  BY <1>1, <1>3, <1>4 DEF LoadInv, Sound, Appliance, Before
<1>6. Complete'
  BY <1>1, <1>2, <1>4 DEF LoadInv, Complete, Before
<1>7. Once'
  BY <1>1 DEF LoadInv, Once
<1> QED
  BY <1>1, <1>5, <1>6, <1>7 DEF LoadInv

LEMMA LoadNextStep == TypeOK /\ OpenInv /\ LoadInv /\ LoadNext => LoadInv'
<1> SUFFICES ASSUME TypeOK, OpenInv, LoadInv, LoadNext PROVE LoadInv'
  OBVIOUS
<1>1. ASSUME pos.turn <= Turns(listed[pos.entry]), Skip(listed[pos.entry])  PROVE LoadInv'
  BY <1>1, SkipStep
<1>2. ASSUME pos.turn <= Turns(listed[pos.entry]), Add(listed[pos.entry])  PROVE LoadInv'
  <2>1. ASSUME NEW b \in BOOLEAN, mode.minimal => ~b,
               ~mode.minimal /\ listed[pos.entry].data = "good" => b,
               appliances' = Append(appliances,
                 [entry |-> pos.entry, turn |-> pos.turn, loaded |-> b]),
               pos' = [pos EXCEPT !.turn = @ + 1], at' = at
        PROVE  LoadInv'
    <3> DEFINE x == [entry |-> pos.entry, turn |-> pos.turn, loaded |-> b]
               n == Len(appliances) + 1
    <3>1. Usable(listed[pos.entry])
      BY <1>2 DEF Add, Usable
    <3>2. x \in Appliance
      BY <1>2, ListTypes, TurnTypes DEF Appliance, TypeOK, LoadNext
    <3>3. /\ n \in Nat /\ DOMAIN appliances' = 1 .. n /\ appliances'[n] = x
          /\ \A k \in 1 .. Len(appliances) : appliances'[k] = appliances[k]
      BY <2>1, <3>2, Appended DEF TypeOK
    <3>4. x.entry = pos.entry /\ x.turn = pos.turn /\ x.loaded = b /\ n = Len(appliances) + 1
      OBVIOUS
    <3> HIDE DEF x, n
    <3> QED
      BY <1>2, <2>1, <3>1, <3>2, <3>3, <3>4, AddStep
  <2>2. CASE ~mode.minimal /\ Raise
    BY <2>2 DEF Raise, OpenInv, TypeOK, LoadInv
  <2> QED
    BY <1>2, <2>1, <2>2 DEF Add
<1>3. ASSUME pos.turn > Turns(listed[pos.entry]),
             pos' = [entry |-> pos.entry + 1, turn |-> 1], UNCHANGED <<at, appliances>>
      PROVE  LoadInv'
  BY <1>3, NextEntryStep
<1> QED
  BY <1>1, <1>2, <1>3 DEF LoadNext

LEMMA LoadStep == TypeOK /\ OpenInv /\ LoadInv /\ [Next]_vars => LoadInv'
<1> SUFFICES ASSUME TypeOK, OpenInv, LoadInv, [Next]_vars PROVE LoadInv'
  OBVIOUS
<1>1. CASE Create
  BY <1>1 DEF Create, Raise, OpenInv, LoadInv, TypeOK
<1>2. CASE LoadList
  <2>1. CASE at' = "load"
    <3>1. appliances' = <<>> /\ pos' = [entry |-> 1, turn |-> 1] /\ listed' = listed
      BY <1>2, <2>1 DEF LoadList, Raise, LoadInv, TypeOK
    <3>2. \A i \in DOMAIN listed' : \A t \in 1 .. Turns(listed'[i]) : ~Before(i, t)'
      BY <3>1, ListTypes DEF Before, TypeOK
    <3> QED
      BY <2>1, <3>1, <3>2 DEF LoadInv, Sound, Complete, Once
  <2>2. CASE at' # "load"
    BY <1>2, <2>2 DEF LoadList, Raise, LoadInv, TypeOK
  <2> QED
    BY <2>1, <2>2
<1>3. CASE LoadNext
  BY <1>3, LoadNextStep
<1>4. CASE EndLoads \/ StartMqtt
  BY <1>4, SMTT(30) DEF EndLoads, StartMqtt, Raise, OpenInv, LoadInv, Sound, Complete, Once, Before, TypeOK
<1>5. CASE SubmitCode \/ Close
  BY <1>5 DEF SubmitCode, Close, LoadInv, TypeOK
<1>6. CASE StopMqtt \/ CloseApi
  BY <1>6 DEF StopMqtt, CloseApi, LoadInv, TypeOK
<1>7. CASE UNCHANGED vars
  BY <1>7 DEF vars, LoadInv, Sound, Complete, Once, Before
<1> QED
  BY <1>1, <1>2, <1>3, <1>4, <1>5, <1>6, <1>7 DEF Next

LEMMA LoadIsEnough == TypeOK /\ LoadInv => EveryApplianceOnce
<1> SUFFICES ASSUME TypeOK, LoadInv, at = "live" PROVE EveryApplianceOnce
  BY DEF EveryApplianceOnce
<1>1. DOMAIN listed = 1 .. Len(listed)
  BY ListTypes DEF TypeOK
<1>2. \A i \in DOMAIN listed : Turns(listed[i]) \in Nat
  BY ListTypes, TurnTypes DEF TypeOK
<1>3. \A i \in DOMAIN listed : \A t \in Nat : Before(i, t)
  BY <1>1, ListTypes DEF LoadInv, Before, TypeOK
<1>4. \A k \in DOMAIN appliances : appliances[k] \in Appliance
  BY DEF TypeOK
<1>5. ASSUME NEW i \in DOMAIN listed, NEW t \in 1 .. MaxZones + 1
      PROVE  Usable(listed[i]) /\ t <= Turns(listed[i]) <=>
               \E k \in DOMAIN appliances : appliances[k].entry = i /\ appliances[k].turn = t
  <2>1. ASSUME Usable(listed[i]), t <= Turns(listed[i])
        PROVE  \E k \in DOMAIN appliances : appliances[k].entry = i /\ appliances[k].turn = t
    BY <1>2, <1>3, <2>1 DEF LoadInv, Complete
  <2>2. ASSUME NEW k \in DOMAIN appliances, appliances[k].entry = i, appliances[k].turn = t
        PROVE  Usable(listed[i]) /\ t <= Turns(listed[i])
    BY <2>2 DEF LoadInv, Sound
  <2> QED
    BY <2>1, <2>2
<1>6. Once /\ \A k \in DOMAIN appliances :
         ~mode.minimal /\ listed[appliances[k].entry].data = "good" => appliances[k].loaded
  BY DEF LoadInv, Sound
<1> QED
  BY <1>5, <1>6 DEF EveryApplianceOnce, Once

\* A session in service has every appliance of the account that is fit for use, once
\* for each of its zones, whatever came malformed, raised or was cancelled before.
THEOREM NothingLostNothingTwice == Spec => []EveryApplianceOnce
<1>1. Init => OpenInv /\ LoadInv
  BY DEF Init, OpenInv, LoadInv
<1> QED
  BY <1>1, OpenStep, LoadStep, LoadIsEnough, TypeCorrect, PTL DEF Spec

=============================================================================
