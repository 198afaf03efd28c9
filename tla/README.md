# Verification of the Haier hOn integration

This project models `custom_components/addhon`, a Home Assistant integration for
Haier hOn appliances, in TLA+. TLC checks the models on small instances and TLAPS
proves their main invariants for every value of the constants. Source paths below
are relative to `src/custom_components/addhon/` unless they start with `src/`.

## 1. The system

One config entry is one hOn account. Three threads and a pool meet in it:

- **Home Assistant's loop** runs entities, the polling coordinator and setup/unload.
- **executor threads** carry blocking calls (`setup_sync`, `_close_sync`, commands)
  and hold `HonClient._lifecycle_lock`, an `RLock`, for the length of a call.
- **the hon_loop**, a loop on a thread of its own, runs every coroutine of the
  client: HTTP, MQTT watchdog, appliance updates.
- **the awscrt thread** delivers MQTT messages and lifecycle callbacks whenever
  they come, without a lock.

| Component | State it keeps | Operations | Talks to |
|---|---|---|---|
| MQTT client, `client/transport/mqtt.py` | `_client`, `_connection`, `_subscribed_topics_set`, `_generation`, watchdog task and its counters | `create`, `_start`, `_subscribe_missing`, `_watchdog`, `stop`, the awscrt callbacks | awscrt and AWS IoT; writes appliances; notifies the coordinator |
| HTTP connection, `client/transport/connection.py`, `auth.py` | `_auth` (tokens, expiry), `_refresh_token`, `_refresh_gen`, `_refresh_lock` | `_check_headers`, `_intercept`, `_refresh_after_rejection`, `create`; `HonAuth.refresh`, `authenticate` | identity provider, hOn API |
| Account client, `hon_client.py`, `__init__.py` | `_hon_instance`, `_api`, the loop, the token seed, the notify callback, coordinator data, the token on disk | `setup_sync`, `_close_sync`, `async_get_appliances_data`, `_async_reauth`, setup, first refresh, unload | session, coordinator, config entry |
| Session and factory, `client/session.py`, `factory.py` | connection, API, MQTT client, the list of appliances | `create`, `setup` one record at a time, `submit_mfa_code`, `close` | connection, MQTT client |
| Settings and sync, `client/engine/appliance.py`, `attributes.py`, `commands.py`, `hon_commands.py`, `ac_command.py` | the attribute shown and its lock, the command's parameters | poll, push, `async_send_command`, rollback, `sync_params_to_command` | API, MQTT messages |
| Availability, `appliance.py`, `hon_client.py`, `base_entity.py` | `_connection`, `available`, `_last_realtime_ts`, `_last_realtime_local`, the coordinator's data and timer | connection events, `load_attributes`, `_publish_realtime`, scheduled refresh, `available` | MQTT messages, REST, entities |
| Commands, rules, parameters, `client/engine/command_loader.py`, `rules.py`, `parameter/` | programs of a command, the value and range of each parameter, triggers | load, favourites, recovery from history, assignment and its cascade | API data, entities |
| Program start, `select.py`, `number.py`, `switch.py`, `button.py`, `program_options.py` | `PROGRAM_PENDING_STORE`, `PROGRAM_PENDING_OPTIONS`, the active program | choose a program or an option, press Start, pick on a fridge | commands, account client |
| Config flow and 2FA, `config_flow.py` | `_mfa_client` with its challenge and form data, the form shown | user, reauth and 2FA steps, `async_remove` | throw-away account clients, config entry |
| Error codes, `error_codes.py`, predicates of `hon_client.py` | none | `classify`, `phase_timeout_code`, `_requires_reauth` | config flow, account client |
| Climate, `climate.py` | none of its own | services that ask for sets of parameters | settings |
| Login pages, diagnostics, type layers, sensor platforms | none, or what they show | pure functions and presentation | the rest |

### What is hard here, and what makes it correct

- *MQTT client*: callbacks of a client that was told to stop arrive after its
  successor's; the set of subscribed topics is written by one thread and cleared by
  another; a broken topic must neither hide behind the others nor starve them; every
  rebuild risks a leaked native client. Correct means: the healthy view is true,
  nothing is leaked, `stop()` is final, and realtime comes back by itself.
- *HTTP connection*: the provider rotates refresh tokens, so two exchanges at once,
  or one with a stale copy, cost the user a password login with its 2FA prompt;
  `create()` swaps the object that siblings are using. Correct means: one exchange
  at a time, one per burst, no spent token, the login as a last resort, no deadlock.
- *Account client*: jobs outlive the coroutines that submitted them, and a re-login
  is two jobs with a gap. Correct means: one owner per session, none after unload, at
  most one login per poll, no snapshot of two sessions or of none, the live token on
  disk, and the push wired to the session in use.
- *Settings*: three copies of a parameter (device, attribute, next command), late
  polls and pushes, and a command that transmits all parameters whichever was asked
  for. Correct means: no flicker, no revert, convergence, no trace of a failure.
- *Availability*: two contradicting sources, both of them stale at times. Correct
  means: recent traffic beats a stale disconnection, an explicit disconnection stands,
  and the entity agrees with the appliance in the end.
- *Programs*: choices are buffered on one loop and consumed on another, and rules
  rewrite what was chosen. Correct means: a start carries what was chosen, a choice
  is lost only when it was sent, options stay with the program they were chosen for.
- *Config flow*: a half-open client outlives the step that made it, between a form and
  the next, and the flow may be removed at any await. Correct means: one client held,
  closed before another takes its place, none left behind; only the token of a login
  that went through to its end is saved, with the password it was made with; the form
  blames the password only when the password is wrong.
- *Session setup*: any record may be malformed, any await may fail, a challenge stops
  it half way. Correct means: every usable appliance once for each of its zones, and
  nothing left running, the watchdog stopped before the connection it uses.
- *Decimal ranges*: rounding errors on a grid that rules move. Correct means: the
  setter and the enumeration mean the same grid, and so do the option entities for numbers
  not written too finely.

`PROJECT.json` lists every hazard with its line, and what covers it.

## 2. Modules

| Module | Models | Composition |
|---|---|---|
| `Custody` | what an owner of connections promises: one thing kept at a time, none after it has left, none taken up again | abstract; `MqttClient`, `HonClient` and `ConfigFlow` each instantiate it with a refinement mapping |
| `MqttClient` | the coroutine that runs `create` and the watchdog, the callbacks, stop | its environment (awscrt, AWS IoT) is part of it |
| `HonConnection` | `_intercept` and the part of `HonAuth` it drives, for several requests | its environment (provider, API) is part of it |
| `HonClient` | the account client under one entry | a session is a record with the state `HonConnection` and `MqttClient` detail |
| `ApplianceSync` | one appliance and its `settings` command | pushes stand for what `MqttClient` delivers |
| `Availability` | both kinds of evidence and the way of a verdict to an entity | same |
| `FailureCodes` | the classification of exceptions as pure operators | no state of its own |
| `ConfigFlow` | the steps of the flow and the clients they make | EXTENDS `FailureCodes` |
| `Session` | one session from `create` to `close` | details the `building` sessions of `HonClient` and `ConfigFlow` |
| `RangeGrid` | a decimal range, its setter, its enumeration, the rules that stretch it | the ranges that `Commands` takes as sets |
| `Commands` | programs, parameters and rules as pure operators | no state of its own |
| `ProgramStart` | choosing and starting a program | EXTENDS `Commands` |
| `MC*` | model values and small data for TLC | EXTENDS the module named |
| `*Proofs` | theorems and proofs | EXTENDS the module named and `TLAPS` |

**Grain of atomicity.** Coroutines of a loop switch only at an await, so a region
with no await is one action. The awscrt thread can run anywhere: its callbacks are
split at every shared read and write where that matters, and switches say where the
models let it cut into a region of the loop. An executor job and the coroutine that
waits for it are separate actors, for the job survives a cancellation.

### Custody
A thing is fresh, made, kept, closing or gone. `Move` says which places follow which;
`Keep` wants an owner and nothing kept, `Leave` gives up what is kept. The three
mappings (`Where` in each module) read the place of a thing off the concrete state: a
native client is kept while `_client` names it and gone when awscrt has stopped it; a
session is kept while `_hon_instance` names it; a client of the flow is kept while
`_mfa_client` names it and made while a step still owes it a close or a hand-over.
`Settled`, that nothing stays halfway, is part of the liveness property of `HonClient`
and `ConfigFlow`: the fairness is theirs.

### MqttClient
`pc` is where the coroutine stands (`new`, `token` = the await of
`load_aws_token`, `subscribe`, `ack` = the await of a SUBACK, `sleep`, `done`),
`caller` whose `_start`/`_subscribe_missing` it runs. `cb[g]` is the callback of
native client `g`: generation check, write of `_connection`, clearing of the set are
three steps. `link`, `broker` and `inflight` are what awscrt and AWS IoT really hold;
the code never reads them, the properties do. The backoff counts watchdog intervals
instead of seconds. `DropBeforeWakeup` lets a connection drop between a SUBACK and the
resumption of its awaiter; `CallbackPreempted` lets `_start()` run between a
callback's check and its write.

### HonConnection
`pc[r]` is where request `r` stands, `queue` is the FIFO `asyncio.Lock` (its head
holds it). `auths` are the `HonAuth` objects, `cur` the one `_auth` points at, and
`obj[r]` the one a request keeps through an await. A grant number stands for the
tokens minted together; `age` 0/1/2 for the marks at 7 h and 8 h. `liveRefresh`,
`spent` and `accepted` are the provider's and the API's view.

### HonClient
Actors are the polls and the entry. `poll[p]` is a coroutine with its locals,
`job[a]` its executor thread (`wait`, `run` = it holds the RLock). A session is
`building`, `live`, `mfa` or `closed`; `live` is the token the provider honours,
`seed` the one a new session starts from, `stored` the one on disk. The entry goes
setup, first refresh, loaded, closing, detaching, gone; `PollCancelled` is a
cancellation that leaves the job running. Polls overlap: the scheduled one runs under the
coordinator's lock, the one after a command does not (`base_entity.py:335-344` calls
`async_refresh`). Any request through a live session may find its token old and rotate it
(`RequestRotates`: an update, a command, the token of MQTT), and nobody is told; only
`Return`, a poll that succeeds, and the first setup write it to disk, an unload does not.
`crossed` and `orphaned` are history: whose setup waited for the lock while another's began,
and the open sessions whose reference was overwritten that way.

### ConfigFlow and FailureCodes
`call[h]` is a step of the flow: `at` is the await it stands at (`setup` and `discard`
in `validate_input`, `replace` in `_mfa_begin`, `send` and `submit` in `async_step_2fa`,
`finish` in `_async_finish_2fa`), `on` the client its job is for, `job` whether that is
done, and `mine` the `err.client` that waits while an older one is closed. A job holds
the client's lock from beginning to end, so `RunJob` is one step; what follows the await
is another (`Resume`), and anything may come between them. `removal` is the close that
`async_remove` started. `cl` has the clients: the code sent or spent, the tokens, and
`proved`, history that a login went through to its end. `setting` is the kind of flow and
of account. A failure is the set of marks that the code's substring tests tell apart,
a job's end the place that raises it with the status it reports; `Classify` and
`RequiresReauth` then decide the form's key.

### Session
`at` is the await that `create`, `submit_mfa_code` or `close` stands at (or where the
session was left), `by` whose setup it is, `pos` the entry of the list and its zone.
`HonClient` runs these calls one at a time under its lock, and only the config flow, whose
sessions are `minimal`, submits codes. The list is any sequence of malformed and sound
records. Steps of `close` are guarded one by one, so each goes on to the next; a
connection whose `close` raises counts as closed.

### RangeGrid
Numbers are integers in a unit small enough for rounding errors to show: what people write
is a multiple of `Resolution`, a computed grid point may be `Noise` off, and `Eps` is the
code's tolerance with its cap of a quarter of a step. `StartCount`, `Down` and `Up` are
`_grid_count` with an error at each comparison. `WellFormed` is a bound, not a guard of
the code: it keeps to schemas on which the tolerance dominates the noise and is below the
last decimal written, and the noise below a quarter of a step (they are some 1e-16 and
1e-9 of the numbers). `EntityTakes` is the test of `number.py:533`: the quotient may be
1e-6 (1 / `Whole`) off, so its tolerance grows with the step. The enumeration is compared
where it is not cut off at `_MAX_RANGE_VALUES`.

### ApplianceSync
`shadow`, `attr`, `cmd` are the three copies. `pc` is the job on the hon_loop: sends
and polls exclude each other by `_lifecycle_lock`. A push has two halves (attributes,
then the command). The ten seconds of `HonAttribute.lock` lapse for all keys at once,
when nothing is under way in the world. A refused assignment rolls back completely
and a throttled poll does nothing: neither is a step. `settled`, `promised` and
`failed` are history. Values outside `Allowed` are "off" codes the sync skips. What is
asked for in one command (`Requests`) is what the services of the climate entity ask for:
one parameter, all of a mode, or the wind parameters that may be absent.

### Availability
Only the order of the cloud's timestamps matters: the periods of an appliance's life
are numbered, odd while it is away, and an event carries the number of its period (0
when unstamped). A poll asks for an appliance (`PollFetch`), weighs the reply
(`PollDecide`), writes the verdict (`PollWrite`), builds the entry (`PollEntry`) and at
last publishes them all (`PollPublish`); a push is handled by `Receive` and reaches the
entities by `Publish`.
With one appliance the gap between building the poll's entry and publishing it stays.

### Commands and ProgramStart
A program is a function from its parameters to their value and choice. `Outcome` fires
the triggers depth first, as `HonRuleSet` and `check_trigger` do, and stops where an
assignment is refused, with what was done so far: `Onwards` is one assignment (`After`)
followed by what it triggers, `Refused` the ValueError of the setter. `Loaded` keeps
that a condition on a range parameter never fires while loading (a number is compared
with a string there).
`WithFavourites` makes the shallow copy, which shares parameters with its program;
`Recovered` writes the recovered values into the first program.
A press goes idle, queued, sending, accepted/failed. `Turn` is the RLock, which is not
first come first served. `Run` is lookup, swap, overlay of the options and POST with no
await between them. `Returns` clears, key by key, the options that were sent, and pops
the program. A reload gives the same appliance new commands, or a new appliance. Programs
and options can be chosen at any time: `overtaken` are the presses in flight while another
program was chosen, `hurried` that this ever happened (history). Picking "off" on a fridge,
which sends `stopProgram`, is not modelled. An option that the program sent does not have,
or that one of its rules has the last word on, counts as sent (`Sends`): `button.py:273-278`
drops it with the others.

## 3. What the runs check

| Run | Instance and bounds | What it shows |
|---|---|---|
| `mqtt_recovery` | one good and one bad topic, the code's thresholds (`mqtt.py:51`, 55, 65: 3, 12 intervals, 3), 5 faults, stop at any time | `ClientInCustody`: the client implements `Custody`, no leak and a final stop; `ViewSound`: the healthy view is true; `KeepsWhatIsLive`: one bad topic costs no rebuild, the counter counts blackouts only, a reset stands; `RealtimeRecovers` |
| `conn_recovery` | 3 requests, 4 auth objects, 9 grants, 1 upset, 1 fault | `OneTokenCall`, `TokensAreNotWasted` (no spent token, one exchange per burst), `LoginIsLastResort`, `RequestsAreServed` (each ends, with an error only if something failed) |
| `client_reauth` | two polls and the entry, 2 appliances of which a login lists both or none, 2 attempts, 3 sessions, 1 rotation, 1 fault (a login that fails, an appliance skipped, a re-login for a rejection) | `SessionInCustody`: the client implements `Custody` but where two re-logins cross; `PushFollowsTheEntry`, `OneLoginPerPoll`; `TokensReachTheDisk`: a token rotated by any request is on disk after the next good poll; `SnapshotsAreWhole`: complete at first, of one session, never blank; `EveryCallEnds` |
| `client_unload` (violation) | one poll, both appliances, 4 sessions, no rotation, 1 fault | a session opened after the unload |
| `sync_settings` | 2 parameters, 3 values, 2 commands, 1 change at the device, 1 failure | `NoFlicker`; `SendsAreRight`: what was asked is sent, allowed, and nothing else reverted; `Converges` |
| `sync_failure` (violation) | the same kind of instance | a failed value travels with a later command |
| `availability_settles` | 1 appliance, 4 periods, 2 status messages, 2 in transit, 1 failure | `TrafficIsBelieved`, `NoResurrection`, `EntityFollows` |
| `program_choice` | 2 presses at a time, 3 choices, a favourite, 2 rules, 1 failure, 1 reload; washer and fridge | `ChoiceIsHonoured`: a start carries the choice and only what was sent is dropped, but for a program chosen during the press; `OptionsStayWithTheirProgram`, `RulesAreObeyed`, `FridgeFollowsTheCloud` |
| `flow_2fa` | user flow or reauth, with or without second factor, 2 clients, 3 codes, 1 fault, one step at a time | `FlowInCustody`: the flow implements `Custody`; `EntryIsVerified`, `HonestPrompt`, `StepsEnd` |
| `flow_abandoned` (violation) | the same, 2 codes, removed during a validation too | a client that a removed flow holds for ever |
| `session_setup` | any list of up to 3 of 7 kinds of record, 2 zones, 2 codes or extra closes | `EveryApplianceOnce`, `TornDown` |
| `range_grid` | 6 schemas in 32nds, 17 values on and off the grid, rounding errors of one unit | `GridIsHonoured`: setter and enumeration agree with the exact grid, and the option entity too while its tolerance is at most the last decimal of the number |

**Why the bounds are enough.** Each hazard names the number of actors and events it needs.
A stale callback needs two native clients and one fault; two rebuilds and the escalation
are reached with the five faults of `mqtt_recovery`, and `MaxGen` 4 is never reached with
them. A burst needs two requests and a third that arrives during the recovery; 9 grants
and 4 auth objects are never exhausted with one upset and one fault, and with two upsets
`LoginIsLastResort` is already violated (section 5). The retry of a poll needs two
appliances, one that answers and one that is rejected. Two polls are the least that can
cross; a first login and one of each are three sessions, and one appliance rejected sends
both to log in, since the second then finds no session. In `sync_settings` one parameter
is asked for and another must survive; a second command meets the remains of the first.
Four periods of an appliance give it two disconnections and two connections, the least in
which an old and a new disconnection differ. Two presses are the least that can cross;
three choices are a program and two options. A client that is replaced needs a second one;
a wrong code, a second code and the right one are three. A malformed record before a sound
one, after it and both are among lists of three, and a zone of its own needs two. The six
ranges are a whole step, two decimal ones with and without a grid from zero, a huge one
whose tolerance has to be capped, an undeclared, a negative step and a range upside down.
All quantities that only grow (grants, sessions, periods, edits) are bounded by a guard
with a constant named for it.

The passing runs are complete searches, of 134 000 (`mqtt_recovery`), 138 000
(`conn_recovery`), 153 000 (`client_reauth`), 645 000 (`sync_settings`), 295 000
(`availability_settles`), 1 290 000 (`program_choice`), 76 000 (`flow_2fa`), 77 000
(`session_setup`) and 5 700 (`range_grid`) distinct states.

**Deadlock.** The checks of deadlock are off in every run: each of these systems
may really stop (after `stop()`, after unload, when all requests have ended, or when
the user and the world have used up their bounds). That nobody waits for ever is
checked as liveness instead: `EveryRequestEnds`, `EveryCallEnds`, `RealtimeRecovers`,
`Converges`, `EntityFollows`, `StepsEnd`.

**Fairness.** Weak fairness of the steps that a loop or a thread owes to what is ready:
`Proceed`, callbacks, `JobStep`, `PollStep`, `Advance(r)`, `Job`, `Push`. awscrt
reconnects and AWS IoT acknowledges good topics, and an await on a bad one times out
(`asyncio.wait_for`). Each request advances: HTTP calls have a timeout. Polls come every
minute and answers arrive. `Lapse` needs strong fairness, for each accepted command takes
the shield up again: between two polls ten seconds do pass. Nothing makes a user, an
appliance, a fault, an unload or a stop happen. Each poll gets its turn with its executor
job (`PollStep(p) \/ JobStep(p)`), and so does the entry with its own: the lock is held by
a job that is itself due to go on. In `ConfigFlow` each job, each close and each resumed
step is weakly fair: jobs have their 60 seconds and their loop runs. `ProgramStart`,
`Session` and `RangeGrid` have safety properties only.

## 4. What is proved

Each theorem holds for every set of nodes, topics, requests, keys, values, programs and
presses, and for every bound, also for more faults than the runs allow. What a theorem
assumes beyond that, it says.

| Module | Theorems |
|---|---|
| `MqttClientProofs` | `TypeCorrect`, `MqttInCustody`, `NothingLiveIsDropped`, `ViewIsSound`, `WhatIsPushedStays` |
| `HonConnectionProofs` | `TypeCorrect`, `TokenCallsExclude`, `TokensAreSpentOnce`, `LoginWithoutCreateIsLast`, `OneUpsetFailsNobody`, `RequestsGetOn`, `LockGoesRound` |
| `HonClientProofs` | `TypeCorrect`, `OneLogin`, `NothingOrphaned`, `ClientInCustody`, `FirstSnapshot`, `DevicesStay`, `SnapshotsHold`, `PushStaysWired`, `PushFollows`, `TokensGetToDisk`, `CallsGetOn`, `UnloadLeavesNothing` |
| `ConfigFlowProofs` | `TypeCorrect`, `OnlyVerifiedIsSaved`, `ClientsInCustody`, `FormIsHonest`, `StepsGetOn`, `NothingIsLeftOpen` |
| `SessionProofs` | `TypeCorrect`, `ClosesInOrder`, `NothingLostNothingTwice` |
| `SettingsProofs` (`ApplianceSync`, `RangeGrid`) | `TypeCorrect`, `PromisesKept`, `CarriesTheRequest`, `SendsRight`, `PollsBringInStep`; `GridTypeCorrect`, `GridCorrect` |
| `AvailabilityProofs` | `TypeCorrect`, `FreshTrafficWins`, `DisconnectionStands`, `EntitiesSettle` |
| `ProgramStartProofs` | `TypeCorrect`, `RefusedLeavesNoTrace`, `NoOptionIsLost`, `NoProgramIsLost`, `OptionsTravelWithTheirProgram`, `AcyclicRulesTerminate`, `StartSendsTheChoice`, `ChoicesEndInACommand`, `ConsistentRulesAreObeyed` |

### The inductive invariants

- *MQTT client.* `IInv` adds to the types where the coroutine can be when a client is
  held (`Located`) and what a positive counter says of the set (`Counted`).
  `NeverAnOrphan` and `StopStops` follow, and with `Started` (a client that runs is not
  unborn) each step maps to a step of `Custody`. `NothingLiveIsDropped` puts together
  `OnlyBlackoutsCount`, `RebuildsAreDark` and `ResetHolds`; the last adds that nothing is
  heard of a generation before its client is built (`Unborn`). `ViewInv` says why the
  recorded topics are true: the client held is the newest and runs, and each topic of the
  set is acknowledged unless a callback that clears the set is on its way; an
  acknowledgement nobody has read yet stands for the session that is up. `Current` says
  that only callbacks of the newest client are past their check and that the pass under
  way was started for it: so nothing but a drop or a stop ends a subscription that works
  (`WhatIsPushedStays`), and the ticks need `IInv` for it, for a rebuild of a connected
  client follows blackouts only.
- *HTTP connection.* `LockInv`: the queue has no duplicates, holds exactly the requests
  waiting or inside a call, and only its head is inside one. Exclusion alone says nothing
  of those who wait, nor of a request that queues again in the recursion of `_intercept`.
  On top of it `ObjectInv` says what each `HonAuth` holds, in particular that an object
  swapped in by `create()` under an exchange stays blank until that ends; `ReplayInv` that
  the token the next exchange presents is not spent except between a rotation and its
  copy; `RejectionInv` what an unchanged `_refresh_gen` lets a request that was turned
  away conclude; `CustodyInv` that what the provider honours is in the process's hands.
  `UpsetInv` follows a single upset to its end: the token it leaves dead, the requests
  turned away for it, and the one refresh that cures it. `Left` counts the steps a request
  has at most before it ends: its attempts, how often it may still queue for the lock, and
  its way through the exchange. `AttemptInv` ties the attempt to the place, and says that a
  request back from the login has none left.
- *Account client.* `CallInv` ties a coroutine to the job it waits for, `LockInv` lets one
  job run and has a close run with the reference already taken away, `LoginInv` counts
  logins by the place in the poll, `VacantInv` says that a setup that waits finds the place
  empty unless another's has begun meanwhile: the only way to lose a session, which
  `NoOrphan` and `OrphansCross` state together. `ReadInv` adds what every interleaving keeps:
  what is held is open (`Alive`), a login that runs is that of the session held
  (`SetUpInv`), what a poll reads has been set up (`LookInv`), and until the entry is loaded
  only its first refresh polls (`FirstInv`). `TokenInv` says where the token that is
  honoured is: in the session held, whichever request rotated it, as long as no other
  session was lost that could rotate it too. With it, what a good poll copies to the seed
  and to disk is that token. `LeftInv` knows which jobs are left when the entry is gone.
  No theorem about the client assumes anything of the polls, which may overlap.
  `Phase` orders the twelve places of a
  call, of which a re-login is passed once, and `Nearer` adds the appliances still to be
  read and the attempts still to be made; a job that outlives its coroutine counts too.
- *Config flow.* `HeldInv`: a held client waits for its code or has been verified, and its
  challenge is its own; `CallInv`: what the client of each await has gone through;
  `DataInv`: the data of a `finish` are a proved login's; `OwnerInv`: an unfinished login
  belongs to a flow that is still there. For the form, the lemmas `MarksAre` to
  `KeysAreHonest` work out what `Classify` and `RequiresReauth` make of each way a job
  can end, and `AskInv` says that a form that asks for a code has a challenged client.
  `AnswerInv` names who answers for each open client: the flow, its removal, the login, the
  step that closes it, or the one that keeps it once its predecessor is closed. At rest
  only the first is left (`NothingIsLeftOpen`).
- *Session.* What is open at each await; and that the list is, between two records,
  exactly the usable zones of the records before `pos`, each once.
- *Settings.* `RequestInv` says what an assigned command carries; `PromiseInv` that while
  a promise stands the key is shielded, or every report on its way, and the device after
  the orders on their way, agrees. `AssignedInv`: between its assignments and its POST a
  send is alone with the command. `AgreeInv`: outside of the halves of a push or of a
  reload, a key that is not shielded has the same value in the attribute, the command and
  the last report or acceptance. The proof showed that this needs the half-failed poll in
  `failed`: `update()` fails, the fallback shows the attributes and cannot load the
  commands (`hon_client.py:701-716`), and the command keeps values that the next send puts
  back. That takes two failures; the run allows one.
- *Ranges.* `GridInv`: a range stays well formed, and the points that the loops of
  `_grid_count` have counted are within it (`Covers`). The lemmas do the work: a multiple
  of the last decimal that is smaller than it is 0 (`Negligible`), so neither the setter
  (`SetterAgrees`) nor the limit of the list (`LimitAgrees`) can mistake a number that
  somebody wrote for another, however its grid point was rounded, nor the option entity
  (`EntityAgrees`) while its tolerance is at most that decimal. The proof showed that
  `WellFormed` has to bound the noise against the step: with a step of one last decimal
  and noise and tolerance a quarter of it each, a number half way is taken.
- *Availability.* `Ordered`: no mark, record, message or reply is ahead of the appliance's
  period; `Judged`: a pending verdict is the one a fresh look would give or has been
  overtaken. `SettledAway` and `SettledHere` say what has to be true of the messages, the
  poll and every snapshot under way for what is shown to be final.
- *Programs.* `FridgeInv`: what a fridge has active is the cloud's program, or that of the
  command on its way, which remembers the cloud's. `WishInv`: a press in flight wants the
  program that is pending, or another press has consumed it, or another program was chosen
  since. `BufferInv`: the options in the buffer, and in the copies of a press, were chosen
  for the program beside them, whatever is chosen in flight. `TravelInv`: until a program is
  chosen during a press, what a press wants is pending or already active, and options belong
  to the one or the other; it has to follow the buffer, the copies of each press and the
  active program together.
  `KeptElements` (by induction on the list) says what the filters `Left`, `Overlay` and
  `Triggered` keep.
- *Rules.* `OutcomeIs` shows that the recursive definition of `Outcome` has the value its
  equation says, by induction on the rank that `RulesTerminate` supposes: for each rank
  one function agrees with the equation on the work below it. `WorkInduction` is the
  principle that follows, and `Untouched` and `Honoured` are its uses: a parameter that no
  request is for and no rule targets keeps its value, and one that a single request is for
  has the value requested at the end, unless something was refused on the way.
  `AcyclicRulesTerminate` weighs an assignment by the depth of its option, so that it
  outweighs all that it sets off. `TypeInv` then follows the parameters through loading,
  favourites, recovery and sends; `CarriesInv` says that the command on its way holds what
  its press has to send.
- *Rules that agree.* `InOrder` says of a list of assignments half done why the rules will
  be obeyed: a rule whose conditions hold has fixed its enum or is still in the list
  (`Promised`), and what set off a rule in the list has not changed since (`Founded`).
  The second needs the depths of `RulesAreAcyclic`: what comes before that rule in the
  list is what rules do to options less deep than the one that set it off (`Nested`), so a
  request that is refused (`range.py`, `enum.py` raise) comes after all that rules had to
  do. `StaysFixed` is where consistency is used: a rule that could undo another has a
  condition that contradicts the other's. `RulesAreTaken` says that what a rule does is
  never refused. `RestoredIn` and `FavouredIn` carry that over to favourites and to the
  recovery, which suppress refusals, and `ObeysInv` over the state: every category obeys
  its rules, and what is sent is the values of one that does.

### What they assume

| Assumption | Theorems | Why |
|---|---|---|
| `CallbackPreempted = FALSE` | `NothingLiveIsDropped`, `WhatIsPushedStays` | a late success otherwise undoes the reset of `_start()`: TLC finds it (section 5) |
| `DropBeforeWakeup = FALSE` | `ViewIsSound` | the SUBACK race of section 5 |
| `NoCreateUnderCall` (along the whole behaviour); `MaxUpsets <= 1` | `LoginWithoutCreateIsLast`; `OneUpsetFailsNobody` | two upsets make `create()` swap the tokens under a sibling's refresh (section 5), so nothing is claimed of a behaviour where it does. The run's single upset never comes to it: there `LoginIsLastResort` says that a burst of rejections recovers without the password |
| `WellFormed` (in `SchemasAssumption` and the guard of `Fix`) | `GridTypeCorrect`, `GridCorrect` | rounding is some 1e-16 of a number and the tolerance 1e-9: on other schemas no tolerance could tell the numbers apart |
| no exchange has failed (`Undisturbed`, in the properties) | the token theorems | a rotated token whose answer is lost cannot be presented |
| `SingleCall` | all of `ConfigFlowProofs` but `TypeCorrect` and `StepsGetOn` | the dialog sends one form at a time |
| `AbandonedInValidation = FALSE` | `ClientsInCustody`, `NothingIsLeftOpen` | `flow_abandoned` shows what happens without it |
| no re-login from the entry's close on (`NoReloginAside`, along the whole behaviour) | `UnloadLeavesNothing` | `client_unload` shows what happens with one |
| `SlowReports = FALSE` | `PromisesKept`, `SendsRight` | nothing in flight outlives the ten seconds of the shield |
| `PushPreempts = FALSE` (`ApplianceSync`) | `CarriesTheRequest`, `SendsRight` | a push handled on the awscrt thread between two assignments of a send mixes their values |
| `PushPreempts = FALSE` (`Availability`) | `FreshTrafficWins`, `DisconnectionStands` | with `TRUE`, TLC finds a violation of either |
| `RulesTerminate` | `TypeCorrect` (of `ProgramStart`), `StartSendsTheChoice`, `ChoicesEndInACommand` | the rules come from the cloud and nothing in the code keeps them from firing each other until Python's recursion limit. It holds of all rules without a cycle (`RulesAreAcyclic`, which TLC evaluates on the run's schema: `AcyclicRulesTerminate`) |
| `RulesAreAcyclic`, `RulesAreConsistent` | `ConsistentRulesAreObeyed` | two rules that fix one enum to different values under the same conditions cannot both be obeyed, whatever the code does, and a cycle may undo what set it off. A rule with no condition but on ranges is not noticed when a command is loaded (`base.py`, `add_trigger` compares a number with a string). TLC evaluates both on the run's schema |
| `SchemaAssumption` | all of `ProgramStartProofs` | what the parsers make of the cloud's JSON: finitely many programs and favourites, rules and values over the options listed |

Checked with TLC only:

- liveness (`RealtimeRecovers`, `RequestsAreServed`, `EveryRequestEnds`, `EveryCallEnds`,
  `Converges`, `EntityFollows`, `StepsEnd`): the prover has no reasoning under fairness,
  nor under `ENABLED`. What of these needs no fairness is proved. Of `RealtimeRecovers`:
  what is pushed stays (`WhatIsPushedStays`), though not that it comes to that. Of
  `EveryRequestEnds`: each step of a request brings it nearer its end and nothing sets it
  back (`RequestsGetOn`), and whoever waits for the lock finds a live request at its head
  and is not overtaken (`LockGoesRound`). Of `EveryCallEnds`: `CallsGetOn`. Of `StepsEnd`:
  `StepsGetOn` and `NothingIsLeftOpen`. Of `EntityFollows`: what is settled stays
  (`EntitiesSettle`). Of `Converges`: a full answer brings the copies in step, and with
  nothing on its way they stay so (`PollsBringInStep`).

## 5. Where the code and its comments differ

Three violations have a run (`client_unload`, `sync_failure`, `flow_abandoned`;
`findings` in `PROJECT.json`). These are reached by a switch or a bound of a passing
run; change it in the cfg and TLC shows the steps:

- `mqtt.py:490` against 144-149: a SUBACK resumes its awaiter after a disconnection has
  cleared the set, and the topic is recorded for a session that no longer has it
  (`MqttRecovery.cfg`, `DropBeforeWakeup = TRUE`, two good topics: `ViewSound`).
- `connection.py:173` against 141-143: `create()` under a sibling's refresh loses the
  rotated token and logs in (`ConnRecovery.cfg`, two requests, `MaxUpsets = 2`:
  `LoginIsLastResort`).
- `__init__.py:498` against 492-494: each push restarts the poll's timer, so an appliance
  that never falls silent postpones the poll for ever (`AvailabilitySettles.cfg`,
  `Chatty = TRUE`, property `PollsGoOn`).

Two races are in the passing runs, and the properties except just them, by a history
variable; drop the exception and TLC shows the steps:

- `hon_client.py:733` and 531, between the close and the setup of a re-authentication: two
  polls that both re-authenticate close one after the other, then log in one after the
  other, and the second overwrites the open session of the first, which nobody closes
  (`SessionInCustody` without `Overwrites`; `orphaned`). Such a session keeps its MQTT and
  may rotate the token for itself, and nothing silences it.
- `button.py:260` against `select.py:538-541`: a program chosen while a start is in flight
  is dropped when that start succeeds, and its options stay and travel with the program
  started next (`NoChoiceIsDropped` without `overtaken`, `OptionsStayWithTheirProgram`
  without `hurried`).

These were met while reading and modelling:

- `mqtt.py:208` against the comment at 409-412: with `CallbackPreempted` a late success
  writes `_connection` after `_start()` has reset it.
- `connection.py:125` against 61-62: `_refresh_gen` moves although `refresh()` returned
  False. `connection.py:150` against 141-143: a rotated token is lost when `_api_auth`
  fails or is cancelled.
- `hon_client.py:982-983`: "The restart path is already covered by entry.data
  persistence", but a token that a command, the token of MQTT or a poll that fails has
  rotated is on disk only after the next good poll (`TokensReachTheDisk`), and nothing is
  persisted at unload: a restart before that logs in, with its 2FA prompt. For the same
  reason a re-login in the poll that saw a rotation starts from the spent token, although
  980-982 says it would not. A poll that overlaps another's re-login may publish
  appliances of the session that was closed; the next poll replaces them.
- `hon_client.py:738`: a network failure in a re-login asks the user for a password.
  `hon_client.py:411`: a coroutine that ignores its cancellation for ten seconds keeps
  running.
- `hon_client.py:890`: a poll's entry built before a disconnection was pushed is published
  after it; `appliance.py:219-221` promises the sensor at once. `appliance.py:290`: a
  message handled between the decision and the write of `load_attributes` is overwritten
  (`PushPreempts`).
- `client/engine/command_loader.py:157-183`: the recovered category is lost and its values
  go to the first program (its docstring, line 5, says otherwise); line 188 copies a
  favourite shallowly.
- `button.py:226-228`: only `settings` is synced from the attributes, not every command.
  `button.py:271-272`: a retry is refused after a rule narrowed an enum.
  `program_options.py`: a fixed parameter accepts any option; `async_send_program`'s
  rollback misses `CancelledError`. `number.py:491-494`: a number's range follows the
  active program, not the pending one. `hon_client.py:358`: the RLock may let Stop
  overtake Start.
- `config_flow.py:282-284`: two submissions of the first form at once overwrite a held
  client, or save a half-done verification; the dialog does not send two, and the theorems
  say `SingleCall`. `hon_client.py:220-231`: of the 5xx statuses only 500, 502, 503 and 504
  are known as such, so a 501 or a 52x in a login reads as a wrong password, and the error
  of `_api_auth` carries no status at all.
- `number.py:531-533`: a value off the grid is to be rejected up front because the setter
  would raise "only at Start program", but the quotient may be 1e-6 off: of 0 to 1410 by 30,
  30.00001 is buffered, and refused at Start (the setter's tolerance is 1.41e-6). So would
  be the 18 of `RangeGrid.cfg` on 0 to 256 by 8, but for the `Multiple` in `GridIsHonoured`.
- `range.py:140-141`: acceptance and enumeration disagree above `_MAX_RANGE_VALUES`; and a
  `max` that lies just below a grid point, within the tolerance, lists a value the setter
  refuses.

## 6. Not modelled

Login pages and OAuth parsing, the wording of errors, appliance type layers, sensor
descriptions, what the climate entity shows, diagnostics: no state, or none that another
part reads. Of the modelled parts: a cancellation of `async_setup_entry`, stop and pause
of a program, statistics and maintenance records, the options listener and its log levels,
device registry clean-up, `$installationType` rules, the snap of an enum to its step
(`_enum_step`), the fallback of a range with a negative step in the entities, a `KeyError`
of `sync_params_to_command` when a key vanishes, and a hon_loop thread that does not stop
within ten seconds. `PROJECT.json` says so per component, and under "hazards" gives, with
the reason, those that no property covers. Four need a switch or a bound that the passing
runs have off, because a property is then violated (sections 4 and 5): a SUBACK read after
a drop (`mqtt.py:490`), a push within the assignments of a send (`mqtt.py:346`), the
`create()` swap under a sibling's refresh (`connection.py:173`), the endless postponement
of the poll (`__init__.py:498`). The others are a rotated token lost with a failed
exchange (`auth.py:461`), of which the properties make an exception; a request repeated
after a 200, for no document says what a repeated command may do; and the category lost in
`command_loader.py`, which is one assignment.

## 7. Plan

Done, in this order: `MqttClient`, `HonConnection`, `HonClient`, `ApplianceSync`,
`Availability`, each with its proofs; `Commands`, then `ProgramStart` on top of it;
`FailureCodes` and `ConfigFlow`; `Session`; `RangeGrid`; `Custody` and its three
refinements; the proofs of `Session`, `ConfigFlow` and the refinements; the proofs about
tokens, snapshots, pushes, forms, sends, agreement and presses; what `Outcome` computes,
for rules that end, and with it what a start sends; that rules which agree are obeyed;
that requests, refreshes and steps get on, that what the entities show settles, and that
two leaks of section 5 need the race that their runs show.

What would come next:

1. An abstract token cell, which has one honoured token and never gives out a spent one,
   that `HonConnection` refines.
2. `Session` as the detail of a `building` session of `HonClient`, by refinement instead
   of by the correspondence of their ends.

## 8. Running it

`tlc -config MqttRecovery.cfg MCMqttClient.tla` and likewise for each run of
`PROJECT.json` (`module`, `cfg`); every one ends within five minutes with two workers.
`tlapm MqttClientProofs.tla` and likewise for each `*Proofs` module. Operators named
`Mutant_*` are faulty variants of the definition that follows them; nothing uses them,
and each makes the run of its property in `PROJECT.json` fail when put in its place.
