-------------------------- MODULE MqttClientProofs --------------------------
(***************************************************************************)
(* Proofs about MqttClient, for every set of topics and every limit.  Each *)
(* theorem that does not hold for every setting of the two timing switches *)
(* says which one it needs.                                                *)
(***************************************************************************)
EXTENDS MqttClient, TLAPS

\* What the coroutine's position says of the client and of the counters.
Located ==
  /\ pc = "new" =>
       client = NoClient /\ running = {} /\ generation = 0 /\ caller = "create"
  /\ pc \in {"new", "token", "subscribe", "ack"} /\ caller = "create" => ~watchdog
  /\ pc = "token" => caller # "resubscribe"
  /\ pc = "ack" => want \in Topics
  /\ pc = "token" => client = NoClient /\ generation \in Gens /\ subscribed = {}
  /\ pc \in {"new", "token", "subscribe", "ack"} => stop = "no"
  /\ pc = "sleep" => watchdog /\ stop = "no"
  /\ pc = "done" => stop # "no" /\ ~watchdog
  /\ pc \in {"token", "subscribe", "ack"} /\ caller # "create" => watchdog
  /\ stop = "done" => running = {}

\* The blackout counter is below its limit while an in-place pass runs, and at
\* zero until the watchdog starts.
Counted ==
  /\ pc \in {"new", "token", "subscribe", "ack"} /\ caller = "create"
       => resubscribeFailures = 0
  /\ pc \in {"subscribe", "ack"} /\ caller = "resubscribe"
       => resubscribeFailures < MaxResubscribeFailures
  /\ BlackoutOnly

IInv == TypeOK /\ NoOrphan /\ Located /\ Counted

USE TopicsAssumption, LimitsAssumption, SwitchesAssumption DEF Gens, NoClient

LEMMA InitIInv == Init => IInv
<1> SUFFICES ASSUME Init PROVE IInv
  OBVIOUS
<1>1. TypeOK
  <2>1. link \in [Gens -> {"absent", "offline", "up", "gone"}]
        /\ cb \in [Gens -> {"idle", "success", "down", "set_up", "set_down", "clear"}]
    BY DEF Init
  <2>2. broker \in [Gens -> SUBSET Topics] /\ inflight \in [Gens -> SUBSET Topics]
    BY DEF Init
  <2>3. 0 \in 0 .. MaxGen /\ 0 \in 0 .. MaxFaults /\ 0 \in 0 .. BackoffCap
        /\ 0 \in 0 .. ReconnectAfterFailedTicks /\ 0 \in 0 .. MaxResubscribeFailures
    OBVIOUS
  <2> QED
    BY <2>1, <2>2, <2>3 DEF Init, TypeOK
<1>2. NoOrphan /\ Located /\ Counted
  BY DEF Init, NoOrphan, Located, Counted, BlackoutOnly
<1> QED
  BY <1>1, <1>2 DEF IInv

\* What the part of _start() before its await leaves behind.
LEMMA StartPrefixResets ==
  ASSUME TypeOK, NoOrphan, StartPrefix
  PROVE  /\ running' = {} /\ client' = NoClient /\ subscribed' = {}
         /\ connection' = FALSE /\ pc' = "token"
         /\ generation' \in Gens /\ generation' \in 0 .. MaxGen
<1>1. running' = {}
  BY DEF StartPrefix, NoOrphan
<1>2. generation \in Nat /\ generation < MaxGen /\ MaxGen \in Nat
  BY DEF TypeOK, StartPrefix
<1>3. generation' \in Gens /\ generation' \in 0 .. MaxGen
  BY <1>2 DEF StartPrefix
<1> QED
  BY <1>1, <1>3 DEF StartPrefix

\* One step per action: TypeOK, then the rest of the invariant.
LEMMA NextIInv == IInv /\ [Next]_vars => IInv'
<1> SUFFICES ASSUME IInv, [Next]_vars PROVE IInv'
  OBVIOUS
<1> USE DEF IInv, loopVars, counters, sharedVars, netVars
<1>1. CASE Create
  <2>0. StartPrefix
    BY <1>1 DEF Create
  <2>1. TypeOK'
    BY <1>1, <2>0, StartPrefixResets DEF TypeOK, Create
  <2>2. NoOrphan' /\ Located'
    BY <1>1, <2>0, StartPrefixResets DEF TypeOK, NoOrphan, Located, Create
  <2>3. Counted'
    BY <1>1, <2>0, StartPrefixResets DEF Located, Counted, BlackoutOnly, Create
  <2> QED  BY <2>1, <2>2, <2>3
<1>2. CASE StartClient
  <2>1. TypeOK'
    BY <1>2 DEF TypeOK, Located, Counted, StartClient
  <2>2. NoOrphan' /\ Located'
    <3>1. running = {}
      BY <1>2 DEF TypeOK, NoOrphan, Located, StartClient
    <3> QED
      BY <1>2, <3>1 DEF TypeOK, NoOrphan, Located, StartClient
  <2>3. Counted'
    BY <1>2 DEF TypeOK, Located, Counted, BlackoutOnly, StartClient
  <2> QED  BY <2>1, <2>2, <2>3
<1>3. CASE StartFails
  <2>1. TypeOK'
    <3>1. backoff' \in 0 .. BackoffCap
      BY <1>3 DEF TypeOK, StartFails, Backoff
    <3> QED
      BY <1>3, <3>1 DEF TypeOK, StartFails, Fault
  <2>2. NoOrphan' /\ Located'
    <3>1. CASE caller = "create"
      BY <1>3, <3>1 DEF TypeOK, NoOrphan, Located, StartFails
    <3>2. CASE caller # "create"
      BY <1>3, <3>2 DEF TypeOK, NoOrphan, Located, StartFails
    <3> QED
      BY <3>1, <3>2
  <2>3. Counted'
    BY <1>3 DEF TypeOK, Located, Counted, BlackoutOnly, StartFails, Fault, Backoff
  <2> QED  BY <2>1, <2>2, <2>3
<1>4. ASSUME NEW t \in Topics, SkipTopic(t) PROVE IInv'
  <2>1. TypeOK'
    BY <1>4 DEF TypeOK, Located, Counted, SkipTopic
  <2>2. NoOrphan' /\ Located'
    BY <1>4 DEF TypeOK, NoOrphan, Located, SkipTopic
  <2>3. Counted'
    BY <1>4 DEF TypeOK, Located, Counted, BlackoutOnly, SkipTopic
  <2> QED  BY <2>1, <2>2, <2>3
<1>5. ASSUME NEW t \in Topics, SendSubscribe(t) PROVE IInv'
  <2>1. TypeOK'
    BY <1>5 DEF TypeOK, Located, Counted, SendSubscribe
  <2>2. NoOrphan' /\ Located'
    BY <1>5 DEF TypeOK, NoOrphan, Located, SendSubscribe
  <2>3. Counted'
    BY <1>5 DEF TypeOK, Located, Counted, BlackoutOnly, SendSubscribe
  <2> QED  BY <2>1, <2>2, <2>3
<1>6. CASE SubscribeDone
  <2>1. TypeOK'
    <3>1. subscribed' \subseteq Topics /\ want' \in Topics \cup {NoTopic}
      BY <1>6 DEF TypeOK, Located, SubscribeDone
    <3> QED
      BY <1>6, <3>1 DEF TypeOK, SubscribeDone
  <2>2. NoOrphan' /\ Located'
    BY <1>6 DEF TypeOK, NoOrphan, Located, SubscribeDone
  <2>3. Counted'
    BY <1>6 DEF TypeOK, Located, Counted, BlackoutOnly, SubscribeDone
  <2> QED  BY <2>1, <2>2, <2>3
<1>7. CASE SubscribeFails
  <2>1. TypeOK'
    BY <1>7 DEF TypeOK, Located, Counted, SubscribeFails, Fault
  <2>2. NoOrphan' /\ Located'
    BY <1>7 DEF TypeOK, NoOrphan, Located, SubscribeFails, Fault
  <2>3. Counted'
    BY <1>7 DEF TypeOK, Located, Counted, BlackoutOnly, SubscribeFails, Fault
  <2> QED  BY <2>1, <2>2, <2>3
<1>8. CASE FinishCreate
  <2>1. TypeOK'
    BY <1>8 DEF TypeOK, Located, Counted, FinishCreate, SubscribedAfterPass, Pass
  <2>2. NoOrphan' /\ Located'
    BY <1>8 DEF TypeOK, NoOrphan, Located, FinishCreate, SubscribedAfterPass, Pass
  <2>3. Counted'
    BY <1>8 DEF TypeOK, Located, Counted, BlackoutOnly, FinishCreate, SubscribedAfterPass, Pass
  <2> QED  BY <2>1, <2>2, <2>3
<1>9. CASE FinishResubscribe
  <2>1. TypeOK'
    BY <1>9 DEF TypeOK, Located, Counted, FinishResubscribe, SubscribedAfterPass, Pass, Backoff
  <2>2. NoOrphan' /\ Located'
    BY <1>9 DEF TypeOK, NoOrphan, Located, FinishResubscribe, SubscribedAfterPass, Pass, Backoff
  <2>3. Counted'
    BY <1>9 DEF TypeOK, Located, Counted, BlackoutOnly, FinishResubscribe, SubscribedAfterPass, Pass, Backoff
  <2> QED  BY <2>1, <2>2, <2>3
<1>10. CASE FinishRebuild
  <2>1. TypeOK'
    BY <1>10 DEF TypeOK, Located, Counted, FinishRebuild, SubscribedAfterPass, Pass
  <2>2. NoOrphan' /\ Located'
    BY <1>10 DEF TypeOK, NoOrphan, Located, FinishRebuild, SubscribedAfterPass, Pass
  <2>3. Counted'
    BY <1>10 DEF TypeOK, Located, Counted, BlackoutOnly, FinishRebuild, SubscribedAfterPass, Pass
  <2> QED  BY <2>1, <2>2, <2>3
<1>11. CASE TickHealthy
  <2>1. TypeOK'
    BY <1>11 DEF TypeOK, Located, Counted, TickHealthy, MissingTopics
  <2>2. NoOrphan' /\ Located'
    BY <1>11 DEF TypeOK, NoOrphan, Located, TickHealthy, MissingTopics
  <2>3. Counted'
    BY <1>11 DEF TypeOK, Located, Counted, BlackoutOnly, TickHealthy, MissingTopics
  <2> QED  BY <2>1, <2>2, <2>3
<1>12. CASE TickResubscribe
  <2>1. TypeOK'
    BY <1>12 DEF TypeOK, Located, Counted, TickResubscribe, MissingTopics
  <2>2. NoOrphan' /\ Located'
    BY <1>12 DEF TypeOK, NoOrphan, Located, TickResubscribe, MissingTopics
  <2>3. Counted'
    BY <1>12 DEF TypeOK, Located, Counted, BlackoutOnly, TickResubscribe, MissingTopics
  <2> QED  BY <2>1, <2>2, <2>3
<1>13. CASE TickDown
  <2>1. TypeOK'
    BY <1>13 DEF TypeOK, Located, Counted, TickDown, Downtime, Fault
  <2>2. NoOrphan' /\ Located'
    BY <1>13 DEF TypeOK, NoOrphan, Located, TickDown, Downtime, Fault
  <2>3. Counted'
    BY <1>13 DEF TypeOK, Located, Counted, BlackoutOnly, TickDown, Downtime, Fault
  <2> QED  BY <2>1, <2>2, <2>3
<1>14. CASE TickRebuild
  <2>0. StartPrefix
    BY <1>14 DEF TickRebuild
  <2>1. TypeOK'
    <3>1. faults' \in 0 .. MaxFaults
      BY <1>14 DEF TickRebuild, Downtime, Fault, TypeOK
    <3>2. failedTicks' \in 0 .. ReconnectAfterFailedTicks /\ caller' = "rebuild"
      BY <1>14 DEF TickRebuild
    <3> QED
      BY <1>14, <2>0, <3>1, <3>2, StartPrefixResets DEF TypeOK, TickRebuild
  <2>2. NoOrphan' /\ Located'
    BY <1>14, <2>0, StartPrefixResets DEF TypeOK, NoOrphan, Located, TickRebuild
  <2>3. Counted'
    BY <1>14, <2>0, StartPrefixResets DEF Located, Counted, BlackoutOnly, TickRebuild
  <2> QED  BY <2>1, <2>2, <2>3
<1>15. CASE StopWatchdog
  <2>1. TypeOK'
    BY <1>15 DEF TypeOK, Located, Counted, StopWatchdog
  <2>2. NoOrphan' /\ Located'
    BY <1>15 DEF TypeOK, NoOrphan, Located, StopWatchdog
  <2>3. Counted'
    BY <1>15 DEF TypeOK, Located, Counted, BlackoutOnly, StopWatchdog
  <2> QED  BY <2>1, <2>2, <2>3
<1>16. CASE CancelCreate
  <2>1. TypeOK'
    BY <1>16 DEF TypeOK, Located, Counted, CancelCreate
  <2>2. NoOrphan' /\ Located'
    BY <1>16 DEF TypeOK, NoOrphan, Located, CancelCreate
  <2>3. Counted'
    BY <1>16 DEF TypeOK, Located, Counted, BlackoutOnly, CancelCreate
  <2> QED  BY <2>1, <2>2, <2>3
<1>17. CASE StopClient
  <2>1. TypeOK'
    BY <1>17 DEF TypeOK, Located, Counted, StopClient
  <2>2. NoOrphan' /\ Located'
    BY <1>17 DEF TypeOK, NoOrphan, Located, StopClient
  <2>3. Counted'
    BY <1>17 DEF TypeOK, Located, Counted, BlackoutOnly, StopClient
  <2> QED  BY <2>1, <2>2, <2>3
<1>18. ASSUME NEW g \in Gens, Connect(g) PROVE IInv'
  <2>1. TypeOK'
    BY <1>18 DEF TypeOK, Located, Counted, Connect
  <2>2. NoOrphan' /\ Located'
    BY <1>18 DEF TypeOK, NoOrphan, Located, Connect
  <2>3. Counted'
    BY <1>18 DEF TypeOK, Located, Counted, BlackoutOnly, Connect
  <2> QED  BY <2>1, <2>2, <2>3
<1>19. ASSUME NEW g \in Gens, ConnectFails(g) PROVE IInv'
  <2>1. TypeOK'
    BY <1>19 DEF TypeOK, Located, Counted, ConnectFails, Fault
  <2>2. NoOrphan' /\ Located'
    BY <1>19 DEF TypeOK, NoOrphan, Located, ConnectFails, Fault
  <2>3. Counted'
    BY <1>19 DEF TypeOK, Located, Counted, BlackoutOnly, ConnectFails, Fault
  <2> QED  BY <2>1, <2>2, <2>3
<1>20. ASSUME NEW g \in Gens, Drop(g) PROVE IInv'
  <2>1. TypeOK'
    BY <1>20 DEF TypeOK, Located, Counted, Drop, Fault
  <2>2. NoOrphan' /\ Located'
    BY <1>20 DEF TypeOK, NoOrphan, Located, Drop, Fault
  <2>3. Counted'
    BY <1>20 DEF TypeOK, Located, Counted, BlackoutOnly, Drop, Fault
  <2> QED  BY <2>1, <2>2, <2>3
<1>21. ASSUME NEW g \in Gens, Stopped(g) PROVE IInv'
  <2>1. TypeOK'
    BY <1>21 DEF TypeOK, Located, Counted, Stopped
  <2>2. NoOrphan' /\ Located'
    BY <1>21 DEF TypeOK, NoOrphan, Located, Stopped
  <2>3. Counted'
    BY <1>21 DEF TypeOK, Located, Counted, BlackoutOnly, Stopped
  <2> QED  BY <2>1, <2>2, <2>3
<1>22. ASSUME NEW g \in Gens, CheckGeneration(g) PROVE IInv'
  <2>1. TypeOK'
    BY <1>22 DEF TypeOK, Located, Counted, CheckGeneration, IsStaleGeneration
  <2>2. NoOrphan' /\ Located'
    BY <1>22 DEF TypeOK, NoOrphan, Located, CheckGeneration, IsStaleGeneration
  <2>3. Counted'
    BY <1>22 DEF TypeOK, Located, Counted, BlackoutOnly, CheckGeneration, IsStaleGeneration
  <2> QED  BY <2>1, <2>2, <2>3
<1>23. ASSUME NEW g \in Gens, OnConnectionSuccess(g) PROVE IInv'
  <2>1. TypeOK'
    BY <1>23 DEF TypeOK, Located, Counted, OnConnectionSuccess
  <2>2. NoOrphan' /\ Located'
    BY <1>23 DEF TypeOK, NoOrphan, Located, OnConnectionSuccess
  <2>3. Counted'
    BY <1>23 DEF TypeOK, Located, Counted, BlackoutOnly, OnConnectionSuccess
  <2> QED  BY <2>1, <2>2, <2>3
<1>24. ASSUME NEW g \in Gens, OnConnectionLost(g) PROVE IInv'
  <2>1. TypeOK'
    <3>1. cb' \in [Gens -> {"idle", "success", "down", "set_up", "set_down", "clear"}]
      BY <1>24 DEF TypeOK, OnConnectionLost
    <3>2. connection' \in BOOLEAN
      BY <1>24 DEF OnConnectionLost
    <3>3. UNCHANGED <<pc, stop, caller, todo, want, acked, gen, watchdog, setupPhase,
                      failedTicks, resubscribeFailures, backoff, client, subscribed,
                      generation, running, link, broker, inflight, faults>>
      BY <1>24 DEF OnConnectionLost
    <3> QED
      BY <3>1, <3>2, <3>3 DEF TypeOK
  <2>2. NoOrphan' /\ Located'
    BY <1>24 DEF TypeOK, NoOrphan, Located, OnConnectionLost
  <2>3. Counted'
    BY <1>24 DEF TypeOK, Located, Counted, BlackoutOnly, OnConnectionLost
  <2> QED  BY <2>1, <2>2, <2>3
<1>25. ASSUME NEW g \in Gens, ClearSubscribed(g) PROVE IInv'
  <2>1. TypeOK'
    BY <1>25 DEF TypeOK, Located, Counted, ClearSubscribed
  <2>2. NoOrphan' /\ Located'
    BY <1>25 DEF TypeOK, NoOrphan, Located, ClearSubscribed
  <2>3. Counted'
    BY <1>25 DEF TypeOK, Located, Counted, BlackoutOnly, ClearSubscribed
  <2> QED  BY <2>1, <2>2, <2>3
<1>26. ASSUME NEW g \in Gens, NEW t \in Topics, Suback(g, t) PROVE IInv'
  <2>1. TypeOK'
    <3>1. inflight' \in [Gens -> SUBSET Topics] /\ broker' \in [Gens -> SUBSET Topics]
      BY <1>26 DEF TypeOK, Suback
    <3>2. acked' \in BOOLEAN
      BY <1>26 DEF TypeOK, Suback
    <3>3. UNCHANGED <<stop, pc, caller, todo, want, gen, watchdog, setupPhase, failedTicks,
                      resubscribeFailures, backoff, sharedVars, running, link, cb, faults>>
      BY <1>26 DEF Suback
    <3> QED
      BY <3>1, <3>2, <3>3 DEF TypeOK
  <2>2. NoOrphan' /\ Located'
    BY <1>26 DEF TypeOK, NoOrphan, Located, Suback
  <2>3. Counted'
    BY <1>26 DEF TypeOK, Located, Counted, BlackoutOnly, Suback
  <2> QED  BY <2>1, <2>2, <2>3
<1>27. CASE UNCHANGED vars
  BY <1>27 DEF vars, TypeOK, NoOrphan, Located, Counted, BlackoutOnly
<1> QED
  BY <1>1, <1>2, <1>3, <1>4, <1>5, <1>6, <1>7, <1>8, <1>9, <1>10, <1>11, <1>12, <1>13, <1>14, <1>15, <1>16, <1>17, <1>18, <1>19, <1>20, <1>21, <1>22, <1>23, <1>24, <1>25, <1>26, <1>27 DEF Next, Proceed, Callback

-----------------------------------------------------------------------------
\* The inductive invariant holds in every behaviour of the client.
LEMMA Invariance == Spec => []IInv
<1> QED
  BY InitIInv, NextIInv, PTL DEF Spec

\* The client's state keeps its types: no counter passes its limit, whatever
\* the watchdog goes through.
THEOREM TypeCorrect == Spec => []TypeOK
<1>1. IInv => TypeOK
  BY DEF IInv
<1> QED
  BY <1>1, Invariance, PTL

\* No native client is ever leaked, for any number of rebuilds and however the
\* callbacks of old clients interleave with them.
THEOREM NeverAnOrphan == Spec => []NoOrphan
<1>1. IInv => NoOrphan
  BY DEF IInv
<1> QED
  BY <1>1, Invariance, PTL

\* After stop() nothing runs and nothing starts again, wherever the watchdog
\* stood when it was cancelled.
THEOREM StopStops == Spec => []StopIsFinal
<1>1. IInv => StopIsFinal
  BY DEF IInv, Located, StopIsFinal, TypeOK
<1> QED
  BY <1>1, Invariance, PTL

\* The escalation counter stands for total blackouts alone.
THEOREM OnlyBlackoutsCount == Spec => []BlackoutOnly
<1>1. IInv => BlackoutOnly
  BY DEF IInv, Counted
<1> QED
  BY <1>1, Invariance, PTL

\* The watchdog tears a connected client down only after total blackouts, so it
\* never drops a subscription it holds for live.
THEOREM RebuildsAreDark == Spec => RebuildOnlyWhenDark
<1>1. IInv /\ [Next]_vars =>
        [pc = "sleep" /\ pc' = "token" => (connection => subscribed = {})]_vars
  <2> SUFFICES ASSUME IInv, Next, pc = "sleep", pc' = "token", connection
               PROVE  subscribed = {}
    OBVIOUS
  <2>1. TickRebuild
    BY DEF Next, Proceed, Callback, Create, StartClient, StartFails, SkipTopic,
           SendSubscribe, SubscribeDone, SubscribeFails, FinishCreate,
           FinishResubscribe, FinishRebuild, TickHealthy, TickResubscribe, TickDown,
           StopWatchdog, CancelCreate, StopClient, CheckGeneration,
           OnConnectionSuccess, OnConnectionLost, ClearSubscribed, Connect,
           ConnectFails, Drop, Stopped, Suback, loopVars
  <2>2. resubscribeFailures >= MaxResubscribeFailures
    BY <2>1 DEF TickRebuild, Escalated
  <2>3. resubscribeFailures > 0
    BY <2>2 DEF IInv, TypeOK
  <2> QED
    BY <2>3 DEF IInv, Counted, BlackoutOnly
<1> QED
  BY <1>1, Invariance, PTL DEF Spec, RebuildOnlyWhenDark

-----------------------------------------------------------------------------
(* The reset of _start().                                                  *)

\* A generation that no client has been started for is silent; while the token is
\* awaited this is so of the newest, and no callback is past its check.
Silent(g) == link[g] = "absent" /\ cb[g] = "idle"
Unborn ==
  /\ \A g \in Gens : g > generation => Silent(g)
  /\ pc = "token" => ~connection /\ Silent(generation) /\ \A g \in Gens : cb[g] # "set_up"

\* No client of the new generation exists while the token is awaited, and the
\* callbacks of older ones are stale.
LEMMA UnbornStep ==
  ASSUME CallbackPreempted = FALSE, IInv, Unborn, [Next]_vars
  PROVE  Unborn'
<1> USE DEF IInv, Unborn, Silent, TypeOK, Located
<1>1. CASE Create \/ TickRebuild
  BY <1>1 DEF Create, TickRebuild, StartPrefix
<1>2. CASE StartClient
  BY <1>2 DEF StartClient, counters
<1>3. CASE StartFails \/ SubscribeFails \/ StopWatchdog \/ CancelCreate \/ StopClient
  BY <1>3 DEF StartFails, SubscribeFails, StopWatchdog, CancelCreate, StopClient,
              sharedVars, netVars, counters
<1>4. CASE \E t \in Topics : SkipTopic(t) \/ SendSubscribe(t)
  BY <1>4 DEF SkipTopic, SendSubscribe, sharedVars, netVars
<1>5. CASE SubscribeDone \/ FinishCreate \/ FinishResubscribe \/ FinishRebuild
  BY <1>5 DEF SubscribeDone, FinishCreate, FinishResubscribe, FinishRebuild, netVars
<1>6. CASE TickHealthy \/ TickResubscribe \/ TickDown
  BY <1>6 DEF TickHealthy, TickResubscribe, TickDown, loopVars, sharedVars, netVars
<1>7. ASSUME NEW g \in Gens, Callback(g) PROVE Unborn'
  BY <1>7 DEF Callback, CheckGeneration, IsStaleGeneration, OnConnectionSuccess,
              OnConnectionLost, ClearSubscribed, loopVars, sharedVars
<1>8. ASSUME NEW g \in Gens, Connect(g) \/ ConnectFails(g) \/ Drop(g) \/ Stopped(g)
      PROVE  Unborn'
  BY <1>8 DEF Connect, ConnectFails, Drop, Stopped, loopVars, sharedVars
<1>9. ASSUME NEW g \in Gens, NEW t \in Topics, Suback(g, t) PROVE Unborn'
  BY <1>9 DEF Suback, sharedVars
<1>10. CASE UNCHANGED vars
  BY <1>10 DEF vars, loopVars, sharedVars, netVars
<1> QED
  BY <1>1, <1>2, <1>3, <1>4, <1>5, <1>6, <1>7, <1>8, <1>9, <1>10 DEF Next, Proceed

\* As long as no callback is cut in two by _start(), its reset of _connection stands
\* until the new client reports, whatever the clients it has stopped still send.
THEOREM ResetHolds == ASSUME CallbackPreempted = FALSE PROVE Spec => []ResetStands
<1>1. Init => Unborn
  BY DEF Init, Unborn, Silent
<1>2. IInv /\ Unborn /\ [Next]_vars => Unborn'
  BY UnbornStep
<1>3. Unborn => ResetStands
  BY DEF Unborn, ResetStands
<1> HIDE DEF Unborn
<1> QED
  BY <1>1, <1>2, <1>3, Invariance, PTL DEF Spec

-----------------------------------------------------------------------------
(* The client implements Custody.                                          *)

\* A client that is running has been started; those of the generations to come, and
\* of the one whose token is awaited, have not.
Started ==
  /\ \A g \in running : link[g] \in {"offline", "up"}
  /\ \A g \in Gens : g > generation => link[g] = "absent"
  /\ pc = "token" => link[generation] = "absent"

LEMMA StartedStep == IInv /\ Started /\ [Next]_vars => Started'
<1> SUFFICES ASSUME IInv, Started, [Next]_vars PROVE Started'
  OBVIOUS
<1> USE DEF IInv, Started, TypeOK, NoOrphan, Located
<1>1. CASE Create \/ TickRebuild
  <2>1. StartPrefix /\ link' = link
    BY <1>1 DEF Create, TickRebuild
  <2>2. running' = {} /\ generation' = generation + 1 /\ generation' \in Gens
    BY <2>1, StartPrefixResets DEF StartPrefix
  <2>3. generation \in Nat
    OBVIOUS
  <2> QED
    BY <2>1, <2>2, <2>3
<1>2. CASE StartClient
  BY <1>2 DEF StartClient, counters
<1>3. CASE StartFails \/ SubscribeFails \/ StopWatchdog \/ CancelCreate \/ StopClient
  BY <1>3 DEF StartFails, SubscribeFails, StopWatchdog, CancelCreate, StopClient,
              sharedVars, netVars
<1>4. ASSUME NEW t \in Topics, SkipTopic(t) \/ SendSubscribe(t) PROVE Started'
  <2>1. UNCHANGED <<running, link, generation>> /\ pc' # "token"
    BY <1>4 DEF SkipTopic, SendSubscribe, sharedVars, netVars
  <2> QED
    BY <2>1
<1>5. CASE SubscribeDone \/ FinishCreate \/ FinishResubscribe \/ FinishRebuild
  BY <1>5 DEF SubscribeDone, FinishCreate, FinishResubscribe, FinishRebuild, netVars
<1>6. CASE TickHealthy \/ TickResubscribe \/ TickDown
  BY <1>6 DEF TickHealthy, TickResubscribe, TickDown, loopVars, sharedVars, netVars
<1>7. ASSUME NEW g \in Gens, Callback(g) PROVE Started'
  BY <1>7 DEF Callback, CheckGeneration, OnConnectionSuccess, OnConnectionLost,
              ClearSubscribed, loopVars, sharedVars
<1>8. ASSUME NEW g \in Gens, Connect(g) \/ ConnectFails(g) \/ Drop(g) \/ Stopped(g)
      PROVE  Started'
  <2>1. UNCHANGED <<running, generation, pc>>
        /\ \A h \in Gens : h # g => link'[h] = link[h]
    BY <1>8 DEF Connect, ConnectFails, Drop, Stopped, loopVars, sharedVars
  <2>2. CASE Stopped(g)
    <3>1. g \notin running /\ link[g] # "absent" /\ generation \in Nat
      BY <2>2 DEF Stopped
    <3> QED
      BY <2>1, <3>1
  <2>3. CASE Connect(g) \/ ConnectFails(g) \/ Drop(g)
    <3>1. \/ link' = link
          \/ link[g] \in {"offline", "up"} /\ link'[g] \in {"offline", "up"}
      BY <2>3 DEF Connect, ConnectFails, Drop
    <3> QED
      BY <2>1, <3>1
  <2> QED
    BY <1>8, <2>2, <2>3
<1>9. ASSUME NEW g \in Gens, NEW t \in Topics, Suback(g, t) PROVE Started'
  BY <1>9 DEF Suback, sharedVars
<1>10. CASE UNCHANGED vars
  BY <1>10 DEF vars, loopVars, sharedVars, netVars
<1> QED
  BY <1>1, <1>2, <1>3, <1>4, <1>5, <1>6, <1>7, <1>8, <1>9, <1>10 DEF Next, Proceed

\* A step that starts, stops or loses no client is a stutter of the abstract owner.
LEMMA KeptCustody ==
  ASSUME UNCHANGED <<running, link>>, (stop # "done") = (stop # "done")'
  PROVE  UNCHANGED Custodian!vars
BY DEF Custodian!vars, Where

LEMMA CustodyStep ==
  ASSUME IInv, Started, [Next]_vars
  PROVE  [Custodian!Next]_(Custodian!vars)
<1> USE DEF IInv, TypeOK, NoOrphan, Located
<1>1. CASE Create \/ TickRebuild
  <2>1. StartPrefix /\ stop' = stop /\ link' = link
    BY <1>1 DEF Create, TickRebuild
  <2>2. CASE running = {}
    BY <2>1, <2>2, KeptCustody DEF StartPrefix
  <2>3. CASE running # {}
    <3>0. running \subseteq Gens /\ running \subseteq {client}
      OBVIOUS
    <3>a. PICK g : g \in running
      BY <2>3
    <3>b. client = g /\ g \in Gens
      BY <3>0, <3>a
    <3>c. running = {client}
      BY <3>0, <3>a, <3>b
    <3>1. client \in Gens /\ running = {client} /\ running' = {}
      BY <2>1, <3>b, <3>c DEF StartPrefix
    <3>2. Where' = [Where EXCEPT ![client] = "closing"] /\ Where[client] = "kept"
      BY <2>1, <3>1 DEF Where, Started
    <3>3. Custodian!GiveUp(client)
      BY <2>1, <3>1, <3>2 DEF Custodian!GiveUp, Custodian!Move
    <3> QED
      BY <3>1, <3>3 DEF Custodian!Next
  <2> QED
    BY <2>2, <2>3
<1>2. CASE StartClient
  <2>1. generation \in Gens /\ running = {} /\ stop = "no" /\ link[generation] = "absent"
    BY <1>2 DEF StartClient, Started
  <2>2. Where' = [Where EXCEPT ![generation] = "kept"] /\ Where[generation] = "fresh"
    BY <1>2, <2>1 DEF StartClient, Where
  <2>3. Custodian!NothingKept
    BY <2>1 DEF Custodian!NothingKept, Where
  <2>4. Custodian!Keep(generation)
    BY <1>2, <2>1, <2>2, <2>3 DEF StartClient, Custodian!Keep, Custodian!Move
  <2> QED
    BY <2>1, <2>4 DEF Custodian!Next
<1>3. CASE StopClient
  <2>1. stop = "client" /\ stop' = "done" /\ link' = link /\ running' = {}
    BY <1>3 DEF StopClient
  <2>2. Where' = [g \in Gens |-> IF Where[g] = "kept" THEN "closing" ELSE Where[g]]
    BY <2>1 DEF Where
  <2>3. Custodian!Leave
    BY <2>1, <2>2 DEF Custodian!Leave
  <2> QED
    BY <2>3 DEF Custodian!Next
<1>4. ASSUME NEW g \in Gens, Stopped(g) PROVE Custodian!Next
  <2>1. Where' = [Where EXCEPT ![g] = "gone"] /\ Where[g] = "closing"
    BY <1>4 DEF Stopped, Where
  <2>2. Custodian!Close(g)
    BY <1>4, <2>1 DEF Stopped, loopVars, Custodian!Close, Custodian!Move
  <2> QED
    BY <2>2 DEF Custodian!Next
<1>5. ASSUME NEW g \in Gens, Connect(g) \/ Drop(g) PROVE UNCHANGED Custodian!vars
  <2>1. link[g] \in {"offline", "up"} /\ stop' = stop /\ running' = running
    BY <1>5 DEF Connect, Drop, loopVars
  <2>2. Where' = Where
    BY <1>5, <2>1 DEF Connect, Drop, Where
  <2> QED
    BY <2>1, <2>2 DEF Custodian!vars
<1>6. CASE StartFails \/ SubscribeFails \/ StopWatchdog \/ CancelCreate
  BY <1>6, KeptCustody DEF StartFails, SubscribeFails, StopWatchdog, CancelCreate, netVars
<1>7. CASE \/ \E t \in Topics : SkipTopic(t) \/ SendSubscribe(t)
           \/ SubscribeDone \/ FinishCreate \/ FinishResubscribe \/ FinishRebuild
           \/ TickHealthy \/ TickResubscribe \/ TickDown
  BY <1>7, KeptCustody DEF SkipTopic, SendSubscribe, SubscribeDone, FinishCreate,
     FinishResubscribe, FinishRebuild, TickHealthy, TickResubscribe, TickDown, netVars, loopVars
<1>8. ASSUME NEW g \in Gens, \/ Callback(g) \/ ConnectFails(g)
                             \/ \E t \in Topics : Suback(g, t)
      PROVE  UNCHANGED Custodian!vars
  BY <1>8, KeptCustody DEF Callback, CheckGeneration, OnConnectionSuccess,
     OnConnectionLost, ClearSubscribed, ConnectFails, Suback, loopVars
<1>9. CASE UNCHANGED vars
  BY <1>9, KeptCustody DEF vars, loopVars, netVars
<1> QED
  BY <1>1, <1>2, <1>3, <1>4, <1>5, <1>6, <1>7, <1>8, <1>9 DEF Next, Proceed

\* The realtime client is an owner as Custody says: whatever its watchdog, its callbacks
\* and stop() do to one another, it leaves one native client running at most, and none
\* once stop() has returned; and a client that was stopped never comes back.
THEOREM MqttInCustody == Spec => ClientInCustody
<1>1. Init => Custodian!Init
  <2> SUFFICES ASSUME Init PROVE Custodian!Init
    OBVIOUS
  <2>1. Where = [g \in Gens |-> "fresh"]
    BY DEF Init, Where
  <2> QED
    BY <2>1 DEF Init, Custodian!Init
<1>2. Init => Started
  BY DEF Init, Started
<1>3. IInv /\ Started /\ [Next]_vars => Started'
  BY StartedStep
<1>4. IInv /\ Started /\ [Next]_vars => [Custodian!Next]_(Custodian!vars)
  BY CustodyStep
<1> QED
  BY <1>1, <1>2, <1>3, <1>4, Invariance, PTL DEF Spec, ClientInCustody, Custodian!Spec

\* The watchdog keeps what is live: the three of them together, as the runs check them.
THEOREM NothingLiveIsDropped ==
  ASSUME CallbackPreempted = FALSE PROVE Spec => KeepsWhatIsLive
BY ResetHolds, OnlyBlackoutsCount, RebuildsAreDark, PTL DEF KeepsWhatIsLive
-----------------------------------------------------------------------------
(* The view of the watchdog.                                               *)

Losing == {"down", "set_down", "clear"}     \* a callback that will clear the set

\* The client held is the newest, runs, and has acknowledged every topic counted as
\* subscribed unless its callback is about to clear the set; a SUBACK its awaiter has
\* not seen yet stands for the session that is up.
ViewInv ==
  /\ client # NoClient => client = generation /\ client \in running
  /\ pc = "ack" => client # NoClient
  /\ client = NoClient /\ stop = "no" => subscribed = {}
  /\ client # NoClient /\ cb[client] \notin Losing => subscribed \subseteq broker[client]
  /\ pc = "ack" /\ acked => want \in broker[client] /\ cb[client] = "idle" /\ link[client] = "up"
  /\ stop = "client" => pc = "done"

LEMMA ViewStep ==
  ASSUME DropBeforeWakeup = FALSE, IInv, ViewInv, [Next]_vars
  PROVE  ViewInv'
<1> USE DEF IInv, ViewInv, TypeOK, Located, Losing
<1>1. CASE Create \/ TickRebuild
  <2>1. StartPrefix /\ stop' = stop
    BY <1>1 DEF Create, TickRebuild
  <2>2. stop = "no"
    BY <1>1 DEF Create, TickRebuild
  <2> QED
    BY <2>1, <2>2 DEF StartPrefix
<1>2. CASE StartClient
  BY <1>2 DEF StartClient, counters
<1>3. CASE StartFails \/ SubscribeFails \/ StopWatchdog \/ CancelCreate
  BY <1>3 DEF StartFails, SubscribeFails, StopWatchdog, CancelCreate, sharedVars, netVars
<1>4. CASE StopClient
  BY <1>4 DEF StopClient
<1>5. ASSUME NEW t \in Topics, SkipTopic(t) PROVE ViewInv'
  BY <1>5 DEF SkipTopic, sharedVars, netVars
<1>6. ASSUME NEW t \in Topics, SendSubscribe(t) PROVE ViewInv'
  BY <1>6 DEF SendSubscribe, sharedVars
<1>7. CASE SubscribeDone
  BY <1>7 DEF SubscribeDone, netVars
<1>8. CASE FinishCreate \/ FinishResubscribe \/ FinishRebuild
  <2>1. /\ subscribed' \subseteq subscribed
        /\ UNCHANGED <<client, generation, running, broker, cb, link, stop, acked, want>>
        /\ pc' = "sleep" /\ pc = "subscribe"
    BY <1>8 DEF FinishCreate, FinishResubscribe, FinishRebuild, SubscribedAfterPass, netVars
  <2>2. stop = "no"
    BY <2>1
  <2> QED
    BY <2>1, <2>2
<1>9. CASE TickHealthy \/ TickResubscribe \/ TickDown
  <2>1. /\ UNCHANGED <<client, subscribed, generation, running, broker, cb, link, stop, acked, want>>
        /\ pc' = pc \/ pc' = "subscribe"
    BY <1>9 DEF TickHealthy, TickResubscribe, TickDown, loopVars, sharedVars, netVars
  <2>2. stop = "no"
    BY <1>9 DEF TickHealthy, TickResubscribe, TickDown
  <2> QED
    BY <2>1, <2>2
<1>10. ASSUME NEW g \in Gens, CheckGeneration(g) PROVE ViewInv'
  BY <1>10 DEF CheckGeneration, IsStaleGeneration, loopVars, sharedVars
<1>11. ASSUME NEW g \in Gens, OnConnectionSuccess(g) \/ OnConnectionLost(g) PROVE ViewInv'
  BY <1>11 DEF OnConnectionSuccess, OnConnectionLost, loopVars
<1>12. ASSUME NEW g \in Gens, ClearSubscribed(g) PROVE ViewInv'
  BY <1>12 DEF ClearSubscribed, loopVars
<1>13. ASSUME NEW g \in Gens, Connect(g) \/ ConnectFails(g) PROVE ViewInv'
  BY <1>13 DEF Connect, ConnectFails, loopVars, sharedVars
<1>14. ASSUME NEW g \in Gens, Drop(g) PROVE ViewInv'
  BY <1>14 DEF Drop, loopVars, sharedVars
<1>15. ASSUME NEW g \in Gens, Stopped(g) PROVE ViewInv'
  BY <1>15 DEF Stopped, loopVars, sharedVars
<1>16. ASSUME NEW g \in Gens, NEW t \in Topics, Suback(g, t) PROVE ViewInv'
  BY <1>16 DEF Suback, sharedVars
<1>17. CASE UNCHANGED vars
  BY <1>17 DEF vars, loopVars, sharedVars, netVars
<1> QED
  BY <1>1, <1>2, <1>3, <1>4, <1>5, <1>6, <1>7, <1>8, <1>9, <1>10, <1>11, <1>12, <1>13,
     <1>14, <1>15, <1>16, <1>17 DEF Next, Proceed, Callback

\* As long as no drop lands between a SUBACK and the resumption of its awaiter, what
\* the watchdog counts as subscribed between ticks is held by AWS IoT, however the
\* callbacks of all the clients ever started interleave with it, and whether or not
\* _start() cuts one of them in two.
THEOREM ViewIsSound == ASSUME DropBeforeWakeup = FALSE PROVE Spec => []ViewSound
<1>1. Init => ViewInv
  BY DEF Init, ViewInv
<1>2. IInv /\ ViewInv /\ [Next]_vars => ViewInv'
  BY ViewStep
<1>3. IInv /\ ViewInv => ViewSound
  BY DEF IInv, ViewInv, Located, TypeOK, Losing, ViewSound, HeldByBroker
<1> HIDE DEF ViewInv
<1> QED
  BY <1>1, <1>2, <1>3, Invariance, PTL DEF Spec
-----------------------------------------------------------------------------
(* What is live stays live.                                                *)

\* The client held is the newest and runs, the pass under way was started for it, and
\* only its callbacks are past their check.
Current ==
  /\ client # NoClient => client = generation /\ client \in running
  /\ pc \in {"subscribe", "ack"} => gen = generation
  /\ \A g \in Gens : cb[g] \in {"set_up", "set_down", "clear"} => g = generation

LEMMA CurrentStep ==
  ASSUME CallbackPreempted = FALSE, IInv, Current, [Next]_vars
  PROVE  Current'
<1> USE DEF IInv, Current, TypeOK, Located
<1>1. CASE Create \/ TickRebuild
  BY <1>1 DEF Create, TickRebuild, StartPrefix
<1>2. CASE StartClient
  BY <1>2 DEF StartClient, counters
<1>3. CASE StartFails \/ SubscribeFails \/ StopWatchdog \/ CancelCreate \/ StopClient
  BY <1>3 DEF StartFails, SubscribeFails, StopWatchdog, CancelCreate, StopClient,
              sharedVars, netVars, counters
<1>4. CASE \E t \in Topics : SkipTopic(t) \/ SendSubscribe(t)
  BY <1>4 DEF SkipTopic, SendSubscribe, sharedVars, netVars
<1>5. CASE SubscribeDone \/ FinishCreate \/ FinishResubscribe \/ FinishRebuild
  BY <1>5 DEF SubscribeDone, FinishCreate, FinishResubscribe, FinishRebuild, netVars
<1>6. CASE TickHealthy \/ TickResubscribe \/ TickDown
  BY <1>6 DEF TickHealthy, TickResubscribe, TickDown, loopVars, sharedVars, netVars
<1>7. ASSUME NEW g \in Gens, Callback(g) PROVE Current'
  BY <1>7 DEF Callback, CheckGeneration, IsStaleGeneration, OnConnectionSuccess,
              OnConnectionLost, ClearSubscribed, loopVars, sharedVars
<1>8. ASSUME NEW g \in Gens, Connect(g) \/ ConnectFails(g) \/ Drop(g) \/ Stopped(g)
      PROVE  Current'
  BY <1>8 DEF Connect, ConnectFails, Drop, Stopped, loopVars, sharedVars
<1>9. ASSUME NEW g \in Gens, NEW t \in Topics, Suback(g, t) PROVE Current'
  BY <1>9 DEF Suback, sharedVars
<1>10. CASE UNCHANGED vars
  BY <1>10 DEF vars, loopVars, sharedVars, netVars
<1> QED
  BY <1>1, <1>2, <1>3, <1>4, <1>5, <1>6, <1>7, <1>8, <1>9, <1>10 DEF Next, Proceed

\* A topic that is pushed: the client is connected, knows it, counts the topic as
\* subscribed, and AWS IoT holds it for the session that is up.
Pushed(t) ==
  /\ stop = "no" /\ client # NoClient /\ connection
  /\ link[client] = "up" /\ cb[client] = "idle"
  /\ t \in subscribed /\ t \in broker[client]

\* What takes a topic from a connected client: AWS IoT or the network drops the
\* session, or somebody stops it.
TakenAway == Drop(client) \/ StopWatchdog \/ CancelCreate

LEMMA PushedStep ==
  ASSUME IInv, Current, [Next]_vars, NEW t \in Topics, Pushed(t)
  PROVE  Pushed(t)' \/ TakenAway
<1> USE DEF IInv, Current, Pushed, TypeOK, Located
<1>0. pc \in {"subscribe", "ack", "sleep"}
  OBVIOUS
<1>1. CASE Create \/ StartClient \/ StartFails \/ StopClient \/ TickDown
  BY <1>0, <1>1 DEF Create, StartClient, StartFails, StopClient, TickDown
<1>2. CASE TickRebuild
  <2>1. resubscribeFailures = 0
    BY <1>2 DEF TickRebuild, Counted, BlackoutOnly
  <2>2. ~Escalated
    BY <2>1 DEF Escalated
  <2> QED
    BY <1>2, <2>2 DEF TickRebuild
<1>3. CASE SubscribeFails
  BY <1>3 DEF SubscribeFails, sharedVars, netVars
<1>4. CASE \E u \in Topics : SkipTopic(u) \/ SendSubscribe(u)
  BY <1>4 DEF SkipTopic, SendSubscribe, sharedVars, netVars
<1>5. CASE SubscribeDone
  BY <1>5 DEF SubscribeDone, netVars
<1>6. CASE FinishCreate \/ FinishResubscribe \/ FinishRebuild
  <2>1. Pass
    BY <1>6 DEF FinishCreate, FinishResubscribe, FinishRebuild, Pass
  <2> QED
    BY <1>6, <2>1 DEF FinishCreate, FinishResubscribe, FinishRebuild, SubscribedAfterPass,
                      netVars
<1>7. CASE TickHealthy \/ TickResubscribe
  BY <1>7 DEF TickHealthy, TickResubscribe, loopVars, sharedVars, netVars
<1>8. CASE StopWatchdog \/ CancelCreate
  BY <1>8 DEF TakenAway
<1>9. ASSUME NEW g \in Gens, Callback(g) PROVE Pushed(t)'
  BY <1>9 DEF Callback, CheckGeneration, IsStaleGeneration, OnConnectionSuccess,
              OnConnectionLost, ClearSubscribed, loopVars, sharedVars
<1>10. ASSUME NEW g \in Gens, Connect(g) \/ ConnectFails(g) \/ Stopped(g) PROVE Pushed(t)'
  <2>1. g # client /\ client \in Gens
    BY <1>10 DEF Connect, ConnectFails, Stopped
  <2>2. UNCHANGED <<loopVars, sharedVars>>
    BY <1>10 DEF Connect, ConnectFails, Stopped
  <2>3. link'[client] = link[client] /\ cb'[client] = cb[client] /\ broker'[client] = broker[client]
    BY <1>10, <2>1 DEF Connect, ConnectFails, Stopped
  <2> QED
    BY <2>2, <2>3 DEF loopVars, sharedVars
<1>11. ASSUME NEW g \in Gens, Drop(g) PROVE Pushed(t)' \/ TakenAway
  <2>1. CASE g = client
    BY <1>11, <2>1 DEF TakenAway
  <2>2. CASE g # client
    BY <1>11, <2>2 DEF Drop, loopVars, sharedVars
  <2> QED
    BY <2>1, <2>2
<1>12. ASSUME NEW g \in Gens, NEW u \in Topics, Suback(g, u) PROVE Pushed(t)'
  BY <1>12 DEF Suback, sharedVars
<1>13. CASE UNCHANGED vars
  BY <1>13 DEF vars, loopVars, sharedVars, netVars
<1> QED
  BY <1>1, <1>2, <1>3, <1>4, <1>5, <1>6, <1>7, <1>8, <1>9, <1>10, <1>11, <1>12, <1>13
     DEF Next, Proceed

PushedStays == [][\A t \in Topics : Pushed(t) => Pushed(t)' \/ TakenAway]_vars

\* The half of RealtimeRecovers that needs no fairness, topic by topic and for the
\* unreliable ones too: as long as no callback is cut in two by _start(), neither the
\* watchdog's ticks, in-place passes and rebuilds nor the late callbacks and SUBACKs of
\* the clients it has stopped ever end a subscription that works.
THEOREM WhatIsPushedStays == ASSUME CallbackPreempted = FALSE PROVE Spec => PushedStays
<1>1. Init => Current
  BY DEF Init, Current
<1>2. IInv /\ Current /\ [Next]_vars => Current'
  BY CurrentStep
<1>3. IInv /\ Current /\ [Next]_vars => \A t \in Topics : Pushed(t) => Pushed(t)' \/ TakenAway
  BY PushedStep
<1> HIDE DEF Current
<1> QED
  BY <1>1, <1>2, <1>3, Invariance, PTL DEF Spec, PushedStays
=============================================================================
