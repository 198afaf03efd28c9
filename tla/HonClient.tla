----------------------------- MODULE HonClient -----------------------------
(***************************************************************************)
(* HonClient (hon_client.py) under one config entry (__init__.py): who may *)
(* open, use and close the hOn session.                                    *)
(*                                                                         *)
(* Three kinds of thread meet here.  Polls are coroutines of Home          *)
(* Assistant's loop (async_get_appliances_data); the entry is its setup    *)
(* and unload.  Both hand blocking work to executor threads (job), which   *)
(* hold _lifecycle_lock from beginning to end and run coroutines on the    *)
(* client's own loop.  A coroutine waits for its job, but one that is      *)
(* cancelled leaves its job running.                                       *)
(*                                                                         *)
(* Two polls can overlap: the scheduled one runs under the coordinator's   *)
(* lock, the refresh an entity asks for after a command (async_refresh)    *)
(* does not.  A session number stands for a NativeHon with its appliances; *)
(* MQTT and the dedicated thread go with it.                               *)
(***************************************************************************)
EXTENDS Naturals, FiniteSets

CONSTANTS
  Polls,         \* coroutines that may be polling
  FirstRefresh,  \* the one that runs the entry's first refresh
  Entry,         \* the setup and unload of the entry
  Appliances,
  Inventories,   \* the appliance lists a session may load
  Retries,       \* attempts per appliance (3 in the code)
  MaxSessions,   \* bound: sessions created
  MaxRotations,  \* bound: refresh tokens rotated in mid-life
  MaxFaults      \* bound: logins that fail, appliances skipped, re-logins for a rejection

ASSUME ActorsAssumption == FirstRefresh \in Polls /\ Entry \notin Polls
ASSUME InventoriesAssumption == Inventories \subseteq SUBSET Appliances
ASSUME ClientBoundsAssumption ==
  /\ Retries \in Nat \ {0}
  /\ MaxSessions \in Nat /\ MaxRotations \in Nat /\ MaxFaults \in Nat

Actors   == Polls \cup {Entry}
None     == 0
Sessions == 1 .. MaxSessions
NoToken  == 0

\* st: a NativeHon that was never closed is building, live or waiting for an OTP.
\* tok: the refresh token it holds.
Session  == [st : {"unused", "building", "live", "mfa", "closed"},
             apps : SUBSET Appliances, tok : Nat, notify : BOOLEAN]
Unused   == [st |-> "unused", apps |-> {}, tok |-> NoToken, notify |-> FALSE]
Job      == [kind : {"none", "close", "setup"}, stage : {"wait", "run"}, hon : Sessions \cup {None}]
NoJob    == [kind |-> "none", stage |-> "wait", hon |-> None]
Outcomes == {"none", "ok"}
\* Locals of async_get_appliances_data: got is data (which session's object was
\* stored for an appliance); logins counts its setup_sync calls; out tells whether the
\* last call returned, all that is left of it.
Poll     == [pc : {"idle", "list", "update", "close", "setup", "cleanup"},
             s : Sessions \cup {None}, todo : SUBSET Appliances,
             got : SUBSET (Appliances \X Sessions), failed : SUBSET Appliances,
             att : 0 .. Retries - 1, reauthed : BOOLEAN, logins : Nat,
             out : Outcomes]
Calling  == [pc |-> "list", s |-> None, todo |-> {}, got |-> {}, failed |-> {}, att |-> 0,
             reauthed |-> FALSE, logins |-> 0, out |-> "none"]

VARIABLES
  inst,       \* _hon_instance
  api,        \* _api
  loop,       \* the dedicated loop runs
  seed,       \* _refresh_token
  firstDone,  \* _first_poll_done
  notify,     \* _notify_function is set
  sess,       \* every NativeHon
  created,    \* how many there are
  poll,       \* the coroutines of Home Assistant's loop
  job,        \* the executor thread each actor has started, if any
  entry,      \* the config entry
  data,       \* coordinator.data
  stored,     \* entry.data["refresh_token"]
  live,       \* the refresh token the provider honours, if it has given one
  rotations, faults,
  crossed,    \* history: whose setup was waiting for the lock while another's began
  orphaned    \* history: the open sessions whose reference a setup has overwritten

clientVars == <<inst, api, loop, seed, firstDone, notify>>
haVars     == <<entry, data, stored>>
envVars    == <<live, rotations, faults>>
history    == <<crossed, orphaned>>
vars == <<clientVars, sess, created, poll, job, haVars, envVars, history>>

TypeOK ==
  /\ inst \in Sessions \cup {None} /\ api \in Sessions \cup {None}
  /\ loop \in BOOLEAN /\ firstDone \in BOOLEAN /\ notify \in BOOLEAN
  /\ seed \in Nat /\ stored \in Nat /\ live \in Nat
  /\ sess \in [Sessions -> Session]
  /\ created \in 0 .. MaxSessions
  /\ poll \in [Polls -> Poll]
  /\ job \in [Actors -> Job]
  /\ entry \in {"setup", "first", "loaded", "closing", "detaching", "gone"}
  /\ data \subseteq Appliances \X Sessions
  /\ rotations \in 0 .. MaxRotations /\ faults \in 0 .. MaxFaults
  /\ crossed \subseteq Actors /\ orphaned \subseteq Sessions

\* async_setup_entry has built a client, seeded with the persisted token if the provider
\* has given one.
Init ==
  /\ inst = None /\ api = None /\ loop = FALSE
  /\ firstDone = FALSE /\ notify = FALSE
  /\ live \in {NoToken, 1} /\ seed = live /\ stored = live
  /\ sess = [s \in Sessions |-> Unused] /\ created = 0
  /\ poll = [p \in Polls |-> [Calling EXCEPT !.pc = "idle"]]
  /\ job = [a \in Actors |-> IF a = Entry THEN [NoJob EXCEPT !.kind = "setup"] ELSE NoJob]
  /\ entry = "setup" /\ data = {}
  /\ rotations = 0 /\ faults = 0 /\ crossed = {} /\ orphaned = {}

Fault == faults < MaxFaults /\ faults' = faults + 1
Rotate(token) ==
  \/ token' = token /\ UNCHANGED rotations
  \/ rotations < MaxRotations /\ rotations' = rotations + 1 /\ token' = token + 1

\* A session that holds connections and tasks.
Open(s) == sess[s].st \in {"building", "live", "mfa"}

\* _lifecycle_lock.
LockFree == \A a \in Actors : job[a].stage = "wait"

Submit(a, kind) == job' = [job EXCEPT ![a] = [NoJob EXCEPT !.kind = kind]]
Ready(a, kind) == job[a].kind = kind /\ job[a].stage = "wait" /\ LockFree
Running(a, kind) == job[a].kind = kind /\ job[a].stage = "run"

\* The end of a call: the coordinator keeps the data it has.
Leave(p, out) == poll' = [poll EXCEPT ![p] = [Calling EXCEPT !.pc = "idle", !.out = out]]
Raise(p) == Leave(p, "none")

\* Mutant: re-authentication does not close the old session first.
Mutant_Reauth(p, q) == poll' = [poll EXCEPT ![p] = [q EXCEPT !.pc = "setup"]] /\ Submit(p, "setup")

\* _async_reauth begins, for a call whose locals are q; the next turn of the loop sets
\* what it does not carry over.
Reauth(p, q) ==
  /\ poll' = [poll EXCEPT ![p] = [Calling EXCEPT !.pc = "close", !.got = q.got,
                                                 !.reauthed = q.reauthed, !.logins = q.logins]]
  /\ Submit(p, "close")

-----------------------------------------------------------------------------
(* The executor jobs.                                                      *)

\* _close_sync takes the references away before it closes anything.
CloseBegin(a) ==
  /\ Ready(a, "close")
  /\ job' = [job EXCEPT ![a].stage = "run", ![a].hon = inst]
  /\ inst' = None /\ api' = None
  /\ UNCHANGED <<loop, seed, firstDone, notify, sess, created, poll, haVars, envVars, history>>

\* What the coroutine does when its _close_sync is over: _async_reauth logs in
\* again, or has failed; the unload goes on.  A cancelled one does nothing.
Closed(a) ==
  \/ /\ a \in Polls /\ poll[a].pc = "close"
     /\ poll' = [poll EXCEPT ![a].pc = "setup"] /\ Submit(a, "setup")
     /\ UNCHANGED entry
  \/ /\ a \in Polls /\ poll[a].pc = "cleanup"
     /\ Raise(a)
     /\ job' = [job EXCEPT ![a] = NoJob] /\ UNCHANGED entry
  \/ /\ a \in Polls /\ poll[a].pc = "idle"
     /\ job' = [job EXCEPT ![a] = NoJob] /\ UNCHANGED <<poll, entry>>
  \/ /\ a = Entry /\ entry' = "detaching"
     /\ job' = [job EXCEPT ![a] = NoJob] /\ UNCHANGED poll

CloseEnd(a) ==
  /\ Running(a, "close")
  /\ sess' = IF job[a].hon = None THEN sess ELSE [sess EXCEPT ![job[a].hon].st = "closed", ![job[a].hon].tok = NoToken]
  /\ loop' = FALSE
  /\ Closed(a)
  /\ UNCHANGED <<inst, api, seed, firstDone, notify, created, data, stored, envVars, history>>

\* setup_sync: a new session becomes _hon_instance, then logs in.
SetupBegin(a) ==
  /\ Ready(a, "setup")
  /\ created < MaxSessions /\ created' = created + 1
  /\ job' = [job EXCEPT ![a].stage = "run"]
  /\ loop' = TRUE
  /\ inst' = created'
  /\ sess' = [sess EXCEPT ![created'] = [Unused EXCEPT !.st = "building"]]
  /\ poll' = IF a \in Polls THEN [poll EXCEPT ![a].logins = @ + 1] ELSE poll
  /\ crossed' = {b \in Actors \ {a} : job[b].kind = "setup"}
  /\ orphaned' = IF inst # None /\ Open(inst) THEN orphaned \cup {inst} ELSE orphaned
  /\ UNCHANGED <<api, seed, firstDone, notify, haVars, envVars>>

\* The refresh token it was created with, which nobody replaces while it logs in, is
\* none, or is no longer honoured: the whole login runs.
NeedsLogin == seed = NoToken \/ seed # live

\* The token of the current session, or the one already held.
SeedFrom(s, old) == IF s # None /\ sess'[s].tok # NoToken THEN sess'[s].tok ELSE old

\* Mutant: the callback is left with the old session.
Mutant_Rewired == FALSE

\* The callback kept on the client is re-applied to the new session.
Rewired == notify

SetupOk(a) ==
  /\ Running(a, "setup")
  /\ IF NeedsLogin THEN live' = live + 1 /\ UNCHANGED rotations ELSE Rotate(live)
  /\ \E apps \in Inventories :
       sess' = [sess EXCEPT ![inst].st = "live", ![inst].apps = apps,
                            ![inst].tok = live', ![inst].notify = Rewired]
  /\ api' = inst
  /\ seed' = SeedFrom(inst, seed)
  /\ job' = [job EXCEPT ![a] = NoJob]
  /\ \/ /\ a \in Polls /\ poll[a].pc = "setup"
        /\ poll' = [poll EXCEPT ![a].pc = "list", ![a].reauthed = TRUE]
        /\ UNCHANGED <<entry, stored>>
     \/ /\ a \in Polls /\ poll[a].pc = "idle" /\ UNCHANGED <<poll, entry, stored>>
     \/ /\ a = Entry
        /\ entry' = "first" /\ stored' = SeedFrom(inst, stored)
        /\ poll' = [poll EXCEPT ![FirstRefresh] = Calling]
  /\ UNCHANGED <<inst, loop, firstDone, notify, created, data, faults, history>>

\* async_setup_entry sees setup_sync raise, and closes the client.
EntryRaised == entry' = "closing" /\ Submit(Entry, "close") /\ UNCHANGED poll

\* The coroutine that waits for setup_sync sees it raise: _async_reauth closes again,
\* one that was cancelled does nothing.
SetupRaised(a) ==
  \/ /\ a \in Polls /\ poll[a].pc = "setup"
     /\ poll' = [poll EXCEPT ![a].pc = "cleanup"]
     /\ Submit(a, "close") /\ UNCHANGED entry
  \/ /\ a \in Polls /\ poll[a].pc = "idle"
     /\ job' = [job EXCEPT ![a] = NoJob] /\ UNCHANGED <<poll, entry>>
  \/ a = Entry /\ EntryRaised

\* A login may meet an OTP challenge: the session stays half open for a resume.
SetupMfa(a) ==
  /\ Running(a, "setup")
  /\ NeedsLogin
  /\ sess' = [sess EXCEPT ![inst].st = "mfa"]
  /\ SetupRaised(a)
  /\ UNCHANGED <<clientVars, created, data, stored, envVars, history>>

\* Any other failure, the 60 s cap included: NativeHon.create() closes the session, the
\* nested _close_sync forgets it and stops the loop.  A token it was given is lost.
SetupFails(a) ==
  /\ Running(a, "setup") /\ Fault
  /\ IF NeedsLogin THEN live' \in {live, live + 1} /\ UNCHANGED rotations ELSE Rotate(live)
  /\ sess' = [sess EXCEPT ![inst].st = "closed"]
  /\ inst' = None /\ api' = None /\ loop' = FALSE
  /\ SetupRaised(a)
  /\ UNCHANGED <<seed, firstDone, notify, created, data, stored, history>>

-----------------------------------------------------------------------------
(* async_get_appliances_data.                                              *)

\* Mutant: the data of the session that was given up are kept.
Mutant_Fetch(p, q) ==
  \/ /\ api # None
     /\ poll' = [poll EXCEPT ![p] = [q EXCEPT !.pc = "update", !.s = api, !.todo = sess[api].apps,
                                              !.got = q.got, !.failed = {}, !.att = 0]]
     /\ UNCHANGED job
  \/ api = None /\ ~q.reauthed /\ Reauth(p, q)
  \/ api = None /\ q.reauthed /\ Raise(p) /\ UNCHANGED job

\* Mutant: it asks again and again.
Mutant_FetchForever(p, q) ==
  \/ /\ api # None
     /\ poll' = [poll EXCEPT ![p] = [q EXCEPT !.pc = "update", !.s = api, !.todo = sess[api].apps,
                                              !.got = {}, !.failed = {}, !.att = 0]]
     /\ UNCHANGED job
  \/ api = None /\ ~q.reauthed /\ Reauth(p, q)
  \/ api = None /\ q.reauthed /\ poll' = poll /\ UNCHANGED job

\* The top of its loop, for a call whose locals are q: async_get_appliances reads
\* _api without the lock, and without an await before it.
Fetch(p, q) ==
  \/ /\ api # None
     /\ poll' = [poll EXCEPT ![p] = [q EXCEPT !.pc = "update", !.s = api, !.todo = sess[api].apps,
                                              !.got = {}, !.failed = {}, !.att = 0]]
     /\ UNCHANGED job
  \/ api = None /\ ~q.reauthed /\ Reauth(p, q)
  \/ api = None /\ q.reauthed /\ Raise(p) /\ UNCHANGED job

\* The bound on sessions stops polls from starting, never one that has started.
MayStart == created + Cardinality({q \in Polls : poll[q].pc # "idle"}) < MaxSessions

PollStart(p) ==
  /\ entry = "loaded" /\ poll[p].pc = "idle" /\ job[p] = NoJob
  /\ MayStart
  /\ Fetch(p, Calling)
  /\ UNCHANGED <<clientVars, sess, created, haVars, envVars, history>>

List(p) ==
  /\ poll[p].pc = "list"
  /\ Fetch(p, poll[p])
  /\ UNCHANGED <<clientVars, sess, created, haVars, envVars, history>>

\* The loop over the appliances, in the order of their list: x is the next, and is
\* updated in an executor thread, which needs the lock.
Updating(p, x) ==
  /\ poll[p].pc = "update" /\ LockFree
  /\ x \in poll[p].todo /\ x = CHOOSE y \in poll[p].todo : TRUE

\* An appliance's HTTP session is its own session's.
Usable(p) == loop /\ sess[poll[p].s].st = "live"

UpdateOk(p, x) ==
  /\ Updating(p, x) /\ Usable(p)
  /\ poll' = [poll EXCEPT ![p].todo = @ \ {x}, ![p].got = @ \cup {<<x, poll[p].s>>}, ![p].att = 0]
  /\ UNCHANGED <<clientVars, sess, created, job, haVars, envVars, history>>

\* Any request through the connection of a session may find its tokens old and have
\* them rotated: an update, a command (run_command_sync), the token of MQTT, which is
\* loaded on the loop whoever holds the lock.  Nobody is told.
RequestRotates(s) ==
  /\ loop /\ sess[s].st = "live"
  /\ rotations < MaxRotations /\ rotations' = rotations + 1
  /\ live' = live + 1
  /\ sess' = [sess EXCEPT ![s].tok = live']
  /\ UNCHANGED <<clientVars, created, poll, job, haVars, faults, history>>

\* A failure that is not about authentication: strict until a first poll has
\* succeeded, skipped afterwards.
Skip(p, x) ==
  IF firstDone
    THEN poll' = [poll EXCEPT ![p].todo = @ \ {x}, ![p].failed = @ \cup {x}, ![p].att = 0]
    ELSE Raise(p)

\* Mutant: one attempt too many.
Mutant_UpdateTransient(p, x) ==
  /\ Updating(p, x) /\ Usable(p)
  /\ IF poll[p].att < Retries
       THEN poll' = [poll EXCEPT ![p].att = @ + 1] /\ UNCHANGED faults
       ELSE Skip(p, x) /\ Fault
  /\ UNCHANGED <<clientVars, sess, created, job, haVars, live, rotations, history>>

\* A 5xx or a timeout: attempted again, a few times.
UpdateTransient(p, x) ==
  /\ Updating(p, x) /\ Usable(p)
  /\ IF poll[p].att < Retries - 1
       THEN poll' = [poll EXCEPT ![p].att = @ + 1] /\ UNCHANGED faults
       ELSE Skip(p, x) /\ Fault
  /\ UNCHANGED <<clientVars, sess, created, job, haVars, live, rotations, history>>

\* Also "Dedicated hOn loop not active" and "Session is closed".
UpdateFails(p, x) ==
  /\ Updating(p, x)
  /\ IF Usable(p) THEN Fault ELSE UNCHANGED faults
  /\ Skip(p, x)
  /\ UNCHANGED <<clientVars, sess, created, job, haVars, live, rotations, history>>

\* Mutant: a second rejection logs in again.
Mutant_UpdateRejected(p, x) ==
  /\ Updating(p, x) /\ Usable(p)
  /\ IF poll[p].reauthed THEN UNCHANGED faults ELSE Fault
  /\ Reauth(p, poll[p])
  /\ UNCHANGED <<clientVars, sess, created, haVars, live, rotations, history>>

UpdateRejected(p, x) ==
  /\ Updating(p, x) /\ Usable(p)
  /\ IF poll[p].reauthed
       THEN Raise(p) /\ UNCHANGED <<job, faults>>
       ELSE Reauth(p, poll[p]) /\ Fault
  /\ UNCHANGED <<clientVars, sess, created, haVars, live, rotations, history>>

AllFailed(p) == poll[p].failed # {} /\ poll[p].got = {}

\* HonClient.refresh_token: the token of the session of the moment.
CurrentToken == IF inst = None THEN NoToken ELSE sess[inst].tok

\* _persist_refresh_token, and the seed: never wiped by an empty token.
Rotated(old) == IF CurrentToken = NoToken THEN old ELSE CurrentToken

\* Mutant: the rotated token reaches the disk at setup only.
Mutant_Return(p) ==
  /\ poll[p].pc = "update" /\ poll[p].todo = {}
  /\ IF AllFailed(p)
       THEN Raise(p) /\ UNCHANGED <<clientVars, data, stored>>
       ELSE /\ Leave(p, "ok")
            /\ firstDone' = TRUE
            /\ seed' = Rotated(seed)
            /\ data' = poll[p].got
            /\ UNCHANGED <<inst, api, loop, notify, stored>>
  /\ UNCHANGED <<sess, created, job, entry, envVars, history>>

\* All failed: nothing is published.  Otherwise the seed follows the live token,
\* async_update_data persists it and the coordinator takes the data.
Return(p) ==
  /\ poll[p].pc = "update" /\ poll[p].todo = {}
  /\ IF AllFailed(p)
       THEN Raise(p) /\ UNCHANGED <<clientVars, data, stored>>
       ELSE /\ Leave(p, "ok")
            /\ firstDone' = TRUE
            /\ seed' = Rotated(seed)
            /\ stored' = Rotated(stored)
            /\ data' = poll[p].got
            /\ UNCHANGED <<inst, api, loop, notify>>
  /\ UNCHANGED <<sess, created, job, entry, envVars, history>>

\* Home Assistant cancels the entry's background tasks when it is unloaded: an
\* executor job that has started goes on.
PollCancelled(p) ==
  /\ entry = "gone" /\ poll[p].pc # "idle"
  /\ Raise(p)
  /\ \/ UNCHANGED job
     \/ job[p].stage = "wait" /\ job[p] # NoJob /\ job' = [job EXCEPT ![p] = NoJob]
  /\ UNCHANGED <<clientVars, sess, created, haVars, envVars, history>>

-----------------------------------------------------------------------------
(* async_setup_entry and async_unload_entry.                               *)

\* subscribe_updates.
Subscribe(wanted) ==
  /\ notify' = wanted
  /\ sess' = IF inst = None THEN sess ELSE [sess EXCEPT ![inst].notify = wanted]

\* The first refresh is over: the push is wired and the platforms are set up, or
\* the client is closed.
FirstRefreshed ==
  /\ entry = "first" /\ poll[FirstRefresh].pc = "idle"
  /\ IF poll[FirstRefresh].out = "ok"
       THEN entry' = "loaded" /\ Subscribe(TRUE) /\ UNCHANGED job
       ELSE entry' = "closing" /\ Submit(Entry, "close") /\ UNCHANGED <<notify, sess>>
  /\ UNCHANGED <<inst, api, loop, seed, firstDone, created, poll, data, stored, envVars, history>>

Unload ==
  /\ entry = "loaded" /\ entry' = "closing" /\ Submit(Entry, "close")
  /\ UNCHANGED <<clientVars, sess, created, poll, data, stored, envVars, history>>

\* The async_on_unload callback.
Detach ==
  /\ entry = "detaching" /\ entry' = "gone" /\ Subscribe(FALSE)
  /\ UNCHANGED <<inst, api, loop, seed, firstDone, created, poll, job, data, stored, envVars, history>>

-----------------------------------------------------------------------------
JobStep(a) ==
  CloseBegin(a) \/ CloseEnd(a) \/ SetupBegin(a) \/ SetupOk(a) \/ SetupMfa(a) \/ SetupFails(a)
PollStep(p) ==
  \/ List(p) \/ Return(p)
  \/ \E x \in Appliances :
       UpdateOk(p, x) \/ UpdateTransient(p, x) \/ UpdateFails(p, x) \/ UpdateRejected(p, x)
Next ==
  \/ \E a \in Actors : JobStep(a)
  \/ \E p \in Polls : PollStart(p) \/ PollStep(p) \/ PollCancelled(p)
  \/ \E s \in Sessions : RequestRotates(s)
  \/ FirstRefreshed \/ Unload \/ Detach

Spec == Init /\ [][Next]_vars

\* Executor threads and coroutines get their turn.  Nothing obliges anyone to poll
\* or to unload, or Home Assistant to cancel a poll.
FairSpec ==
  /\ Spec
  /\ \A p \in Polls : WF_vars(PollStep(p) \/ JobStep(p))
  /\ WF_vars(JobStep(Entry) \/ FirstRefreshed \/ Detach)

-----------------------------------------------------------------------------
(* Properties.                                                             *)

\* A session that holds connections and tasks is the one the client would close, or is
\* being closed, or its reference was overwritten.
NoOrphan ==
  \A s \in Sessions : Open(s) =>
    s = inst \/ s \in orphaned \/ \E a \in Actors : Running(a, "close") /\ job[a].hon = s

\* Where each session is: the one the client would close, one being closed, or over.
Where == [s \in Sessions |-> IF sess[s].st = "unused" THEN "fresh"
                            ELSE IF ~Open(s) THEN "gone"
                            ELSE IF s = inst THEN "kept" ELSE "closing"]

Custodian == INSTANCE Custody WITH Things <- Sessions, where <- Where, owner <- TRUE

\* The setup of a loses the reference to an open session: it had been submitted on the
\* assumption that there was none, and another's setup went before it.
Overwrites(a) ==
  /\ a \in crossed /\ Ready(a, "setup") /\ Running(a, "setup")'
  /\ inst # None /\ inst' \in Sessions
  /\ Where' = [Where EXCEPT ![inst] = "closing", ![inst'] = "kept"]

\* The sessions are in custody: a closed one never opens again, and setup_sync never
\* overwrites the reference to an open one, but where two re-authentications crossed
\* between their close and their setup (README section 5).
SessionInCustody ==
  Custodian!Init /\ [][Custodian!Next \/ \E a \in Actors : Overwrites(a)]_(Custodian!vars)

\* Once the entry is gone, and whatever it had started has ended, nothing runs.
UnloadedIsGone ==
  entry = "gone" /\ (\A p \in Polls : poll[p].pc = "idle") /\ (\A a \in Actors : job[a] = NoJob)
    => ~loop /\ \A s \in Sessions : ~Open(s)

\* A detached entry is not pushed to: the session that the client still holds, or has
\* made since, is silent. (One that is being closed may get a last word in.)
SilentAfterUnload == entry = "gone" /\ inst # None => ~sess[inst].notify

\* The push survives every re-authentication: the live session of a loaded entry notifies.
PushWired ==
  entry = "loaded" /\ inst # None /\ sess[inst].st = "live" => sess[inst].notify

\* The push goes where the entry is, through every re-authentication, of one poll or of
\* two that overlap.
PushFollowsTheEntry == PushWired /\ SilentAfterUnload

\* The platforms see every appliance the account has: there is no later discovery.
FirstIsComplete ==
  [][entry = "first" /\ entry' = "loaded"
       => {d[1] : d \in data} = UNION {sess[s].apps : s \in {d[2] : d \in data}}]_vars

\* The data a poll publishes are objects of one session, of those it lists.
OneSessionPublished ==
  [][data' # data => /\ Cardinality({d[2] : d \in data'}) <= 1
                     /\ \A d \in data' : d[1] \in sess[d[2]].apps]_vars

\* A failed cycle never blanks the devices: data go empty only when the session that
\* the poll has read has no appliance.
NeverBlanked ==
  [][data' = {} /\ data # {}
       => \E p \in Polls :
            poll[p].pc = "update" /\ poll'[p].pc = "idle" /\ sess[poll[p].s].apps = {}]_vars

\* What the entities see is one whole snapshot of the account, from the first one on,
\* whatever re-logins happen in the middle of a poll or beside it.
SnapshotsAreWhole == FirstIsComplete /\ OneSessionPublished /\ NeverBlanked

\* A poll logs in at most once, however the cloud answers.
OneLoginPerPoll == \A p \in Polls : poll[p].logins <= 1

\* A poll that succeeds.
Succeeds(p) == poll[p].pc = "update" /\ poll'[p].pc = "idle" /\ poll'[p].out = "ok"

\* A token rotated by any request is on disk and in the client after the next poll that
\* succeeds; and what the provider honours is never replaced there by what it does not.
\* (A session whose reference is lost rotates for itself.)
TokensReachTheDisk ==
  [][orphaned = {} =>
       /\ \A p \in Polls : Succeeds(p) /\ inst # None /\ sess[inst].st = "live"
            => stored' = live /\ seed' = live
       /\ live' = live => /\ stored = live => stored' = live
                          /\ seed = live => seed' = live]_vars

\* The entry, or a session whose reference was taken away to close it, is going down.
GoingDown ==
  \/ entry \in {"closing", "detaching"}
  \/ \E s \in Sessions : Where[s] = "closing" /\ s \notin orphaned

\* Every poll ends, and so does every unload, whoever holds the lock; and a session
\* whose reference was taken away, and not overwritten, is closed, whoever took it.
EveryCallEnds ==
  /\ \A p \in Polls : poll[p].pc # "idle" ~> poll[p].pc = "idle"
  /\ GoingDown ~> ~GoingDown

=============================================================================
