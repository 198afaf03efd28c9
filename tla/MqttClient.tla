----------------------------- MODULE MqttClient -----------------------------
(***************************************************************************)
(* NativeMqttClient (client/transport/mqtt.py): the realtime push channel. *)
(*                                                                         *)
(* Two actors share _connection, _subscribed_topics_set and _generation    *)
(* without a lock:                                                         *)
(*   - one coroutine of the hon_loop, which runs create() and then the     *)
(*     watchdog task (pc is where it stands);                              *)
(*   - the awscrt thread of every native client ever started, which runs   *)
(*     the lifecycle callbacks (cb[g] is where client g's callback stands).*)
(* A code region with no await is one step of the coroutine; a callback is *)
(* one step per shared read or write, for it can be preempted anywhere.    *)
(* link, broker and inflight are the outside world: the native clients and *)
(* what AWS IoT really holds for them.                                     *)
(***************************************************************************)
EXTENDS Naturals, FiniteSets

CONSTANTS
  Topics,                     \* _all_topics(): subscribe topics of all appliances
  BadTopics,                  \* topics whose SUBACK may never come
  NoTopic,                    \* no topic awaited
  ReconnectAfterFailedTicks,  \* _RECONNECT_AFTER_FAILED_TICKS
  MaxResubscribeFailures,     \* _MAX_RESUBSCRIBE_FAILURES
  BackoffCap,                 \* _RECONNECT_BACKOFF_CAP / _WATCHDOG_INTERVAL
  MaxGen,                     \* bound: native clients built in one behaviour
  MaxFaults,                  \* bound: adverse events in one behaviour
  DropBeforeWakeup,           \* may a drop land between a SUBACK and the resumption of its awaiter?
  CallbackPreempted           \* may _start() run between a callback's stale check and its writes?

ASSUME TopicsAssumption == BadTopics \subseteq Topics /\ NoTopic \notin Topics
ASSUME LimitsAssumption ==
  /\ ReconnectAfterFailedTicks \in Nat \ {0}
  /\ MaxResubscribeFailures \in Nat \ {0}
  /\ BackoffCap \in Nat
  /\ MaxGen \in Nat \ {0}
  /\ MaxFaults \in Nat
ASSUME SwitchesAssumption ==
  /\ DropBeforeWakeup \in BOOLEAN
  /\ CallbackPreempted \in BOOLEAN

Gens == 1 .. MaxGen
NoClient == 0

VARIABLES
  pc,            \* "new" | "token" | "subscribe" | "ack" | "sleep" | "done"
  stop,          \* stop(): "no" | "client" (watchdog dealt with) | "done"
  caller,        \* whose _start/_subscribe_missing is running: "create" | "resubscribe" | "rebuild"
  todo,          \* topics _subscribe_missing has still to visit
  want,          \* topic whose SUBACK is awaited
  acked,         \* that SUBACK has resolved the awaited future
  gen,           \* the caller's local gen
  client,        \* _client: the generation of the native client held, or NoClient
  connection,    \* _connection
  subscribed,    \* _subscribed_topics_set
  generation,    \* _generation
  watchdog,      \* _watchdog_task is set and not done
  failedTicks, resubscribeFailures, backoff,   \* locals of _watchdog
  setupPhase,    \* hon._setup_phase as create() leaves it
  running,       \* native clients started and never told to stop
  link,          \* native client -> "absent" | "offline" | "up" | "gone"
  broker,        \* native client -> topics AWS IoT holds for its session
  inflight,      \* native client -> SUBSCRIBEs queued or sent, no SUBACK yet
  cb,            \* native client -> where its lifecycle callback stands
  faults         \* adverse events so far

loopVars   == <<pc, stop, caller, todo, want, acked, gen, watchdog, setupPhase>>
counters   == <<failedTicks, resubscribeFailures, backoff>>
sharedVars == <<client, connection, subscribed, generation>>
netVars    == <<running, link, broker, inflight, cb>>
vars       == <<loopVars, counters, sharedVars, netVars, faults>>

-----------------------------------------------------------------------------
TypeOK ==
  /\ pc \in {"new", "token", "subscribe", "ack", "sleep", "done"}
  /\ stop \in {"no", "client", "done"}
  /\ caller \in {"create", "resubscribe", "rebuild"}
  /\ todo \subseteq Topics
  /\ want \in Topics \cup {NoTopic}
  /\ acked \in BOOLEAN
  /\ gen \in 0 .. MaxGen
  /\ client \in Gens \cup {NoClient}
  /\ connection \in BOOLEAN
  /\ subscribed \subseteq Topics
  /\ generation \in 0 .. MaxGen
  /\ watchdog \in BOOLEAN
  /\ failedTicks \in 0 .. ReconnectAfterFailedTicks
  /\ resubscribeFailures \in 0 .. MaxResubscribeFailures
  /\ backoff \in 0 .. BackoffCap
  /\ setupPhase \in {"none", "mqtt_connect", "mqtt_subscribe"}
  /\ running \subseteq Gens
  /\ link \in [Gens -> {"absent", "offline", "up", "gone"}]
  /\ broker \in [Gens -> SUBSET Topics]
  /\ inflight \in [Gens -> SUBSET Topics]
  /\ cb \in [Gens -> {"idle", "success", "down", "set_up", "set_down", "clear"}]
  /\ faults \in 0 .. MaxFaults

Init ==
  /\ pc = "new" /\ stop = "no" /\ caller = "create" /\ todo = {} /\ want = NoTopic
  /\ acked = FALSE /\ gen = 0 /\ watchdog = FALSE /\ setupPhase = "none"
  /\ failedTicks = 0 /\ resubscribeFailures = 0 /\ backoff = 0
  /\ client = NoClient /\ connection = FALSE /\ subscribed = {} /\ generation = 0
  /\ running = {}
  /\ link = [g \in Gens |-> "absent"]
  /\ broker = [g \in Gens |-> {}]
  /\ inflight = [g \in Gens |-> {}]
  /\ cb = [g \in Gens |-> "idle"]
  /\ faults = 0

Fault == faults < MaxFaults /\ faults' = faults + 1

\* Mutant: a connected transport counts as healthy, whatever is subscribed.
Mutant_MissingTopics == {}

MissingTopics == Topics \ subscribed
Backoff == IF backoff < BackoffCap THEN backoff + 1 ELSE BackoffCap

-----------------------------------------------------------------------------
(* _start(), split at its only await, load_aws_token().                    *)

\* Mutant: _client is overwritten without being told to stop.
Mutant_StartPrefix ==
  /\ generation < MaxGen
  /\ CallbackPreempted \/ \A g \in Gens : cb[g] \notin {"set_up", "set_down", "clear"}
  /\ client' = NoClient /\ UNCHANGED running
  /\ subscribed' = {} /\ connection' = FALSE
  /\ generation' = generation + 1
  /\ pc' = "token"

\* Everything before the await: the client held is told to stop, the shared
\* state is reset and a new generation opens.
StartPrefix ==
  /\ generation < MaxGen
  /\ CallbackPreempted \/ \A g \in Gens : cb[g] \notin {"set_up", "set_down", "clear"}
  /\ running' = running \ {client}
  /\ client' = NoClient
  /\ subscribed' = {}
  /\ connection' = FALSE
  /\ generation' = generation + 1
  /\ pc' = "token"

\* Everything after it: the new client is built and started, and the caller
\* goes on to _subscribe_missing().
StartClient ==
  /\ pc = "token"
  /\ client' = generation
  /\ running' = running \cup {generation}
  /\ link' = [link EXCEPT ![generation] = "offline"]
  /\ gen' = generation
  /\ todo' = Topics
  /\ pc' = "subscribe"
  /\ setupPhase' = IF caller = "create" THEN "mqtt_subscribe" ELSE setupPhase
  /\ UNCHANGED <<stop, caller, want, acked, watchdog, counters, connection, subscribed,
                 generation, broker, inflight, cb, faults>>

\* load_aws_token() or the builder raises. create() stops and re-raises; the
\* watchdog backs off and keeps looping.
StartFails ==
  /\ pc = "token"
  /\ Fault
  /\ IF caller = "create"
       THEN pc' = "done" /\ stop' = "client" /\ UNCHANGED backoff
       ELSE pc' = "sleep" /\ backoff' = Backoff /\ UNCHANGED stop
  /\ UNCHANGED <<caller, todo, want, acked, gen, watchdog, setupPhase, failedTicks,
                 resubscribeFailures, sharedVars, netVars>>

-----------------------------------------------------------------------------
(* _subscribe_missing() and _subscribe_topic().                            *)

\* A topic already in the set is skipped; without a client the property raises
\* AttributeError, which the loop swallows like any per-topic failure.
SkipTopic(t) ==
  /\ pc = "subscribe" /\ t \in todo
  /\ t \in subscribed \/ client = NoClient
  /\ todo' = todo \ {t}
  /\ UNCHANGED <<stop, pc, caller, want, acked, gen, watchdog, setupPhase, counters,
                 sharedVars, netVars, faults>>

\* The SUBSCRIBE is handed to the client, which queues it while offline.
SendSubscribe(t) ==
  /\ pc = "subscribe" /\ t \in todo \ subscribed /\ client # NoClient
  /\ todo' = todo \ {t}
  /\ want' = t
  /\ acked' = FALSE
  /\ inflight' = [inflight EXCEPT ![client] = @ \cup {t}]
  /\ pc' = "ack"
  /\ UNCHANGED <<stop, caller, gen, watchdog, setupPhase, counters, sharedVars,
                 running, link, broker, cb, faults>>

\* The awaiter resumes with the SUBACK and records the topic.
SubscribeDone ==
  /\ pc = "ack" /\ acked
  /\ subscribed' = subscribed \cup {want}
  /\ pc' = "subscribe"
  /\ want' = NoTopic /\ acked' = FALSE
  /\ UNCHANGED <<stop, caller, todo, gen, watchdog, setupPhase, counters, client, connection,
                 generation, netVars, faults>>

\* _SUBSCRIBE_TIMEOUT, or the future fails: logged, and on to the next topic.
\* For a topic that AWS IoT would have acknowledged this is an adverse event.
SubscribeFails ==
  /\ pc = "ack" /\ ~acked
  /\ IF want \in BadTopics THEN UNCHANGED faults ELSE Fault
  /\ pc' = "subscribe"
  /\ want' = NoTopic
  /\ UNCHANGED <<stop, caller, todo, acked, gen, watchdog, setupPhase, counters,
                 sharedVars, netVars>>

-----------------------------------------------------------------------------
(* create(), the watchdog and stop().                                      *)

Create ==
  /\ pc = "new"
  /\ caller' = "create"
  /\ setupPhase' = "mqtt_connect"
  /\ StartPrefix
  /\ UNCHANGED <<stop, todo, want, acked, gen, watchdog, counters, link, broker, inflight,
                 cb, faults>>

Pass == connection /\ gen = generation    \* the re-check after the await

SubscribedAfterPass == IF Pass THEN subscribed ELSE {}

\* create() commits the set and starts the watchdog, whose locals start at 0.
FinishCreate ==
  /\ pc = "subscribe" /\ todo = {} /\ caller = "create"
  /\ subscribed' = SubscribedAfterPass
  /\ watchdog' = TRUE
  /\ pc' = "sleep"
  /\ UNCHANGED <<stop, caller, todo, want, acked, gen, setupPhase, counters, client,
                 connection, generation, netVars, faults>>

\* Mutant: one missing topic counts as a failure of the whole pass.
Mutant_FinishResubscribe ==
  /\ pc = "subscribe" /\ todo = {} /\ caller = "resubscribe"
  /\ subscribed' = SubscribedAfterPass
  /\ \/ ~Pass /\ UNCHANGED counters
     \/ /\ Pass /\ MissingTopics = {}
        /\ failedTicks' = 0 /\ resubscribeFailures' = 0 /\ backoff' = 0
     \/ /\ Pass /\ MissingTopics # {}
        /\ resubscribeFailures' = resubscribeFailures + 1
        /\ backoff' = Backoff /\ UNCHANGED failedTicks
  /\ pc' = "sleep"
  /\ UNCHANGED <<stop, caller, todo, want, acked, gen, watchdog, setupPhase, client,
                 connection, generation, netVars, faults>>

\* End of the in-place pass: dropped meanwhile, some progress, or a blackout.
FinishResubscribe ==
  /\ pc = "subscribe" /\ todo = {} /\ caller = "resubscribe"
  /\ subscribed' = SubscribedAfterPass
  /\ \/ ~Pass /\ UNCHANGED counters
     \/ /\ Pass /\ subscribed # {}
        /\ failedTicks' = 0 /\ resubscribeFailures' = 0 /\ backoff' = 0
     \/ /\ Pass /\ subscribed = {}
        /\ resubscribeFailures' = resubscribeFailures + 1
        /\ backoff' = Backoff
        /\ UNCHANGED failedTicks
  /\ pc' = "sleep"
  /\ UNCHANGED <<stop, caller, todo, want, acked, gen, watchdog, setupPhase, client,
                 connection, generation, netVars, faults>>

FinishRebuild ==
  /\ pc = "subscribe" /\ todo = {} /\ caller = "rebuild"
  /\ subscribed' = SubscribedAfterPass
  /\ resubscribeFailures' = 0 /\ backoff' = 0
  /\ pc' = "sleep"
  /\ UNCHANGED <<stop, caller, todo, want, acked, gen, watchdog, setupPhase, failedTicks,
                 client, connection, generation, netVars, faults>>

TickHealthy ==
  /\ pc = "sleep"
  /\ connection /\ MissingTopics = {}
  /\ failedTicks' = 0 /\ resubscribeFailures' = 0 /\ backoff' = 0
  /\ UNCHANGED <<loopVars, sharedVars, netVars, faults>>

TickResubscribe ==
  /\ pc = "sleep"
  /\ connection /\ MissingTopics # {}
  /\ resubscribeFailures < MaxResubscribeFailures
  /\ caller' = "resubscribe"
  /\ gen' = generation
  /\ todo' = Topics
  /\ pc' = "subscribe"
  /\ UNCHANGED <<stop, want, acked, watchdog, setupPhase, counters, sharedVars, netVars, faults>>

Escalated ==
  /\ connection /\ MissingTopics # {}
  /\ resubscribeFailures >= MaxResubscribeFailures

\* A tick that finds the client held still connecting, or its callback still
\* running, is five seconds of downtime: an adverse event.
Downtime ==
  IF client # NoClient /\ (link[client] # "up" \/ cb[client] # "idle")
  THEN Fault ELSE UNCHANGED faults

\* Mutant: the grace period never ends.
Mutant_TickDown ==
  /\ pc = "sleep" /\ ~connection
  /\ failedTicks' = failedTicks + 1
  /\ Downtime
  /\ UNCHANGED <<loopVars, resubscribeFailures, backoff, sharedVars, netVars>>

\* Not connected, and the grace period for awscrt's own reconnect is not over.
TickDown ==
  /\ pc = "sleep"
  /\ ~connection
  /\ failedTicks + 1 < ReconnectAfterFailedTicks
  /\ failedTicks' = failedTicks + 1
  /\ Downtime
  /\ UNCHANGED <<loopVars, resubscribeFailures, backoff, sharedVars, netVars>>

TickRebuild ==
  /\ pc = "sleep"
  /\ \/ Escalated /\ UNCHANGED faults
     \/ ~connection /\ failedTicks + 1 >= ReconnectAfterFailedTicks /\ Downtime
  /\ failedTicks' = 0
  /\ caller' = "rebuild"
  /\ StartPrefix
  /\ UNCHANGED <<stop, todo, want, acked, gen, watchdog, setupPhase, resubscribeFailures,
                 backoff, link, broker, inflight, cb>>

\* stop() cancels the watchdog at whichever await it stands and awaits its end.
StopWatchdog ==
  /\ watchdog /\ stop = "no"
  /\ pc \in {"sleep", "token", "ack"}
  /\ pc' = "done" /\ watchdog' = FALSE
  /\ stop' = "client"
  /\ UNCHANGED <<caller, todo, want, acked, gen, setupPhase, counters, sharedVars,
                 netVars, faults>>

\* The dedicated loop's 60 s cap cancels create() at an await: it calls stop().
CancelCreate ==
  /\ caller = "create" /\ ~watchdog
  /\ pc \in {"token", "ack"}
  /\ pc' = "done"
  /\ stop' = "client"
  /\ UNCHANGED <<caller, todo, want, acked, gen, watchdog, setupPhase, counters,
                 sharedVars, netVars, faults>>

\* The rest of stop(): the client is told to stop and dropped.
StopClient ==
  /\ stop = "client"
  /\ running' = running \ {client}
  /\ client' = NoClient
  /\ stop' = "done"
  /\ UNCHANGED <<pc, caller, todo, want, acked, gen, watchdog, setupPhase, counters,
                 connection, subscribed, generation, link, broker, inflight, cb, faults>>

-----------------------------------------------------------------------------
(* The native clients. A client runs its callbacks one at a time on its    *)
(* own thread, so its connection does not move while one is running.       *)

\* CONNACK, first or after awscrt's own reconnect: a clean session. awscrt
\* waits at least a second before it reconnects: a resumption already queued
\* (acked) and the coroutine's way to its next await are over by then.
Connect(g) ==
  /\ link[g] = "offline" /\ cb[g] = "idle"
  /\ ~acked /\ pc # "subscribe"
  /\ link' = [link EXCEPT ![g] = "up"]
  /\ cb' = [cb EXCEPT ![g] = "success"]
  /\ UNCHANGED <<loopVars, counters, sharedVars, running, broker, inflight, faults>>

ConnectFails(g) ==
  /\ link[g] = "offline" /\ cb[g] = "idle"
  /\ Fault
  /\ cb' = [cb EXCEPT ![g] = "down"]
  /\ UNCHANGED <<loopVars, counters, sharedVars, running, link, broker, inflight>>

Drop(g) ==
  /\ link[g] = "up" /\ cb[g] = "idle"
  /\ DropBeforeWakeup \/ ~acked
  /\ Fault
  /\ link' = [link EXCEPT ![g] = "offline"]
  /\ broker' = [broker EXCEPT ![g] = {}]
  /\ cb' = [cb EXCEPT ![g] = "down"]
  /\ UNCHANGED <<loopVars, counters, sharedVars, running, inflight>>

\* stop() is asynchronous: a client told to stop goes on until it gets to it,
\* and then reports a disconnection if it was connected.
Stopped(g) ==
  /\ g \notin running /\ link[g] \in {"offline", "up"} /\ cb[g] = "idle"
  /\ link' = [link EXCEPT ![g] = "gone"]
  /\ broker' = [broker EXCEPT ![g] = {}]
  /\ inflight' = [inflight EXCEPT ![g] = {}]
  /\ cb' = [cb EXCEPT ![g] = IF link[g] = "up" THEN "down" ELSE "idle"]
  /\ UNCHANGED <<loopVars, counters, sharedVars, running, faults>>

\* AWS IoT acknowledges, perhaps after the awaiter gave up; nothing says that it ever
\* acknowledges a topic of BadTopics.
Suback(g, t) ==
  /\ link[g] = "up" /\ cb[g] = "idle"
  /\ t \in inflight[g]
  /\ inflight' = [inflight EXCEPT ![g] = @ \ {t}]
  /\ broker' = [broker EXCEPT ![g] = @ \cup {t}]
  /\ acked' = IF pc = "ack" /\ want = t /\ client = g THEN TRUE ELSE acked
  /\ UNCHANGED <<stop, pc, caller, todo, want, gen, watchdog, setupPhase, counters, sharedVars,
                 running, link, cb, faults>>

-----------------------------------------------------------------------------
(* The lifecycle callbacks, bound to the generation of their client.       *)

IsStaleGeneration(g) == g # generation

CheckGeneration(g) ==
  /\ cb[g] \in {"success", "down"}
  /\ cb' = [cb EXCEPT ![g] = IF IsStaleGeneration(g) THEN "idle"
                             ELSE IF @ = "success" THEN "set_up" ELSE "set_down"]
  /\ UNCHANGED <<loopVars, counters, sharedVars, running, link, broker, inflight, faults>>

OnConnectionSuccess(g) ==
  /\ cb[g] = "set_up"
  /\ connection' = TRUE
  /\ cb' = [cb EXCEPT ![g] = "idle"]
  /\ UNCHANGED <<loopVars, counters, client, subscribed, generation, running, link,
                 broker, inflight, faults>>

\* _on_lifecycle_connection_failure and _on_lifecycle_disconnection: two writes.
OnConnectionLost(g) ==
  /\ cb[g] = "set_down"
  /\ connection' = FALSE
  /\ cb' = [cb EXCEPT ![g] = "clear"]
  /\ UNCHANGED <<loopVars, counters, client, subscribed, generation, running, link,
                 broker, inflight, faults>>

\* Mutant: a lost connection keeps its subscriptions.
Mutant_ClearSubscribed(g) ==
  /\ cb[g] = "clear"
  /\ cb' = [cb EXCEPT ![g] = "idle"]
  /\ UNCHANGED <<loopVars, counters, sharedVars, running, link, broker, inflight, faults>>

ClearSubscribed(g) ==
  /\ cb[g] = "clear"
  /\ subscribed' = {}
  /\ cb' = [cb EXCEPT ![g] = "idle"]
  /\ UNCHANGED <<loopVars, counters, client, connection, generation, running, link,
                 broker, inflight, faults>>

-----------------------------------------------------------------------------
\* Steps the coroutine takes by itself.
Proceed ==
  \/ Create \/ StartClient
  \/ \E t \in Topics : SkipTopic(t) \/ SendSubscribe(t)
  \/ SubscribeDone
  \/ FinishCreate \/ FinishResubscribe \/ FinishRebuild
  \/ TickHealthy \/ TickResubscribe \/ TickDown \/ TickRebuild
  \/ StopClient

Callback(g) ==
  CheckGeneration(g) \/ OnConnectionSuccess(g) \/ OnConnectionLost(g) \/ ClearSubscribed(g)

Next ==
  \/ Proceed
  \/ StartFails \/ SubscribeFails
  \/ StopWatchdog \/ CancelCreate
  \/ \E g \in Gens :
       \/ Callback(g)
       \/ Connect(g) \/ ConnectFails(g) \/ Drop(g) \/ Stopped(g)
       \/ \E t \in Topics : Suback(g, t)

Spec == Init /\ [][Next]_vars

\* The event loop runs what is ready and a timer fires (the wait on a topic
\* that may never be acknowledged ends); awscrt keeps reconnecting and runs its
\* callbacks; AWS IoT acknowledges. Nothing makes stop() or a fault happen.
Fairness ==
  /\ WF_vars(Proceed)
  /\ WF_vars(want \in BadTopics /\ SubscribeFails)
  /\ \A g \in Gens :
       /\ WF_vars(Callback(g)) /\ WF_vars(Connect(g)) /\ WF_vars(Stopped(g))
       /\ \A t \in Topics \ BadTopics : WF_vars(Suback(g, t))

FairSpec == Spec /\ Fairness

-----------------------------------------------------------------------------
(* Properties.                                                             *)

\* The only native client that has not been told to stop is the one the object
\* holds: no rebuild, failed setup or stop leaves an orphan with its socket and
\* threads (the leak _start() and create() guard against).
NoOrphan == running \subseteq {client}

\* Once stop() has returned no native client is left running and none will be
\* started: the watchdog was cancelled and awaited first, so a rebuild that was
\* under way cannot finish after it.
StopIsFinal == stop = "done" => running = {} /\ ~watchdog

\* Where each native client is, seen from outside: started and not told to stop,
\* told to stop and still there, or over.
Where == [g \in Gens |-> CASE link[g] = "absent" -> "fresh"
                           [] link[g] = "gone" -> "gone"
                           [] link[g] \in {"offline", "up"} ->
                                IF g \in running THEN "kept" ELSE "closing"]

Custodian == INSTANCE Custody WITH Things <- Gens, where <- Where, owner <- stop # "done"

\* The native clients are in custody: one at a time is left running, whatever
\* rebuild, failed setup or stop() comes in between, and once stop() has returned
\* none runs and none is ever started.
ClientInCustody == Custodian!Spec

\* Between ticks, once the callbacks have run, a topic counted as subscribed is
\* one AWS IoT really holds for the current session: the watchdog never takes a
\* dropped session for a healthy one.
HeldByBroker == IF client = NoClient THEN {} ELSE broker[client]
ViewSound ==
  pc = "sleep" /\ connection /\ (\A g \in Gens : cb[g] = "idle")
    => subscribed \subseteq HeldByBroker

\* The blackout counter counts only total blackouts: while it is above zero no
\* topic is held as subscribed between ticks. So one broken appliance topic
\* never drives the escalation.
BlackoutOnly == pc = "sleep" /\ resubscribeFailures > 0 => subscribed = {}

\* The watchdog rebuilds only when the transport is down or nothing at all is
\* subscribed: a rebuild never drops subscriptions it believes to be live.
RebuildOnlyWhenDark ==
  [][pc = "sleep" /\ pc' = "token" => (connection => subscribed = {})]_vars

\* The reset of _connection in _start() stands until the new client reports:
\* while the token is awaited there is no client, and no connection.
ResetStands == pc = "token" => ~connection

\* The watchdog keeps what is live: it rebuilds in the dark only, counts blackouts
\* only, and a rebuild that is under way is not taken for a connection.
KeepsWhatIsLive == [](BlackoutOnly /\ ResetStands) /\ RebuildOnlyWhenDark

\* Unless it is stopped, the client ends up with every topic that AWS IoT reliably
\* acknowledges subscribed for good, whatever finite series of drops, failed
\* connects, failed token loads and stalled SUBACKs came before, and although
\* the other topics never get theirs.
RealtimeRecovers ==
  <>[](stop # "no" \/ Topics \ BadTopics \subseteq HeldByBroker)
=============================================================================
