-------------------------- MODULE HonClientProofs --------------------------
(***************************************************************************)
(* Proofs about HonClient, for any polls, appliances and bounds, however   *)
(* many polls overlap.                                                     *)
(***************************************************************************)
EXTENDS HonClient, FiniteSetTheorems, TLAPS

\* A poll that updates appliances has read them from a session.
Polled == \A p \in Polls : poll[p].pc = "update" => poll[p].s \in Sessions

\* The lock admits one job; a close has already taken _hon_instance away.
LockInv ==
  /\ \A a, b \in Actors : job[a].stage = "run" /\ job[b].stage = "run" => a = b
  /\ \A a \in Actors : Running(a, "close") => inst = None

\* Nobody polls during the entry's setup, which is the entry's only setup_sync.
SetupInv ==
  /\ entry = "setup" => \A p \in Polls : poll[p].pc = "idle" /\ job[p] = NoJob
  /\ job[Entry].kind = "setup" => entry = "setup"

\* A coroutine waits for the job it has submitted; only one that was cancelled,
\* and is idle, leaves a job behind.
JobInv ==
  /\ \A p \in Polls :
       /\ poll[p].pc \in {"list", "update"} => job[p] = NoJob
       /\ poll[p].pc \in {"close", "cleanup"} => job[p].kind = "close"
       /\ poll[p].pc = "setup" => job[p].kind = "setup"
  /\ entry \in {"first", "loaded"} => job[Entry] = NoJob

\* A setup_sync that has not begun will find no session, unless another's has begun
\* while it waited.
VacantInv ==
  \A a \in Actors :
    job[a].kind = "setup" /\ job[a].stage = "wait" => inst = None \/ a \in crossed

\* A call that has not logged in yet has not counted a login.
LoginInv ==
  \A p \in Polls :
    /\ poll[p].logins <= 1
    /\ job[p].kind = "setup" /\ job[p].stage = "wait" => poll[p].logins = 0
    /\ poll[p].pc = "close" => poll[p].logins = 0
    /\ poll[p].pc \in {"list", "update"} /\ ~poll[p].reauthed => poll[p].logins = 0


-----------------------------------------------------------------------------
(* Types, operator by operator.                                            *)

USE ActorsAssumption, InventoriesAssumption, ClientBoundsAssumption

LEMMA ActorCases == \A a \in Actors : a \in Polls \/ a = Entry
BY DEF Actors

\* A function updated outside its domain is left alone.
LEMMA UpdateTypes ==
  ASSUME NEW D, NEW R, NEW f \in [D -> R], NEW d, NEW v, d \in D => v \in R
  PROVE  [f EXCEPT ![d] = v] \in [D -> R]
OBVIOUS

LEMMA SubmitTypes ==
  ASSUME TypeOK, NEW a \in Actors, NEW kind \in {"close", "setup"}, Submit(a, kind)
  PROVE  job' \in [Actors -> Job]
<1>1. [NoJob EXCEPT !.kind = kind] \in Job
  BY DEF NoJob, Job, None
<1> QED
  BY <1>1 DEF Submit, TypeOK

LEMMA DoneTypes ==
  ASSUME TypeOK, NEW a \in Actors
  PROVE  [job EXCEPT ![a] = NoJob] \in [Actors -> Job]
BY DEF TypeOK, NoJob, Job, None

LEMMA PollFields ==
  ASSUME NEW q \in Poll
  PROVE  /\ [q EXCEPT !.pc = "cleanup"] \in Poll
         /\ [q EXCEPT !.pc = "list", !.reauthed = TRUE] \in Poll
BY DEF Poll

LEMMA CallingTypes == Calling \in Poll
BY DEF Calling, Poll, Outcomes, None

LEMMA RaiseTypes ==
  ASSUME TypeOK, NEW p \in Polls, Raise(p) \/ Leave(p, "ok")
  PROVE  poll' \in [Polls -> Poll]
<1>1. \A out \in Outcomes : [Calling EXCEPT !.pc = "idle", !.out = out] \in Poll
  BY CallingTypes DEF Poll
<1> QED
  BY <1>1 DEF Raise, Leave, Outcomes, TypeOK

LEMMA ReauthTypes ==
  ASSUME TypeOK, NEW p \in Polls, NEW q \in Poll, Reauth(p, q)
  PROVE  poll' \in [Polls -> Poll] /\ job' \in [Actors -> Job]
<1>1. [Calling EXCEPT !.pc = "close", !.got = q.got, !.reauthed = q.reauthed,
                      !.logins = q.logins] \in Poll
  BY CallingTypes DEF Poll
<1> QED
  BY <1>1, SubmitTypes DEF Reauth, TypeOK, Actors

LEMMA FetchTypes ==
  ASSUME TypeOK, NEW p \in Polls, NEW q \in Poll, Fetch(p, q)
  PROVE  poll' \in [Polls -> Poll] /\ job' \in [Actors -> Job]
<1>1. CASE api # None /\ UNCHANGED job
           /\ poll' = [poll EXCEPT ![p] = [q EXCEPT !.pc = "update", !.s = api, !.todo = sess[api].apps,
                                                    !.got = {}, !.failed = {}, !.att = 0]]
  <2>1. api \in Sessions /\ sess[api].apps \subseteq Appliances
    BY <1>1 DEF TypeOK, Session
  <2>2. [q EXCEPT !.pc = "update", !.s = api, !.todo = sess[api].apps,
                  !.got = {}, !.failed = {}, !.att = 0] \in Poll
    <3>1. 0 \in 0 .. Retries - 1
      OBVIOUS
    <3> HIDE DEF Sessions
    <3> QED
      BY <2>1, <3>1 DEF Poll
  <2> QED
    BY <1>1, <2>2 DEF TypeOK
<1>2. CASE Reauth(p, q)
  BY <1>2, ReauthTypes
<1>3. CASE Raise(p) /\ UNCHANGED job
  BY <1>3, RaiseTypes DEF Outcomes, TypeOK
<1> QED
  BY <1>1, <1>2, <1>3 DEF Fetch

LEMMA SkipTypes ==
  ASSUME TypeOK, NEW p \in Polls, NEW x \in Appliances, Skip(p, x)
  PROVE  poll' \in [Polls -> Poll]
<1>1. CASE firstDone
  BY <1>1 DEF Skip, TypeOK, Poll
<1>2. CASE ~firstDone
  BY <1>2, RaiseTypes DEF Skip, Outcomes
<1> QED
  BY <1>1, <1>2

LEMMA ClosedTypes ==
  ASSUME TypeOK, NEW a \in Actors, Closed(a)
  PROVE  /\ poll' \in [Polls -> Poll] /\ job' \in [Actors -> Job]
         /\ entry' \in {"setup", "first", "loaded", "closing", "detaching", "gone"}
<1>1. CASE a \in Polls /\ poll' = [poll EXCEPT ![a].pc = "setup"] /\ Submit(a, "setup") /\ UNCHANGED entry
  <2>1. poll' \in [Polls -> Poll]
    <3>1. poll \in [Polls -> Poll] /\ poll[a] \in Poll
      BY <1>1 DEF TypeOK
    <3>2. [poll[a] EXCEPT !.pc = "setup"] \in Poll
      BY <3>1 DEF Poll
    <3> QED
      BY <1>1, <3>1, <3>2
  <2>2. job' \in [Actors -> Job]
    BY <1>1, SubmitTypes
  <2> QED
    BY <1>1, <2>1, <2>2 DEF TypeOK
<1>2. CASE a \in Polls /\ Raise(a) /\ job' = [job EXCEPT ![a] = NoJob]
           /\ UNCHANGED entry
  BY <1>2, RaiseTypes, DoneTypes DEF TypeOK, Outcomes
<1>3. CASE job' = [job EXCEPT ![a] = NoJob] /\ UNCHANGED <<poll, entry>>
  BY <1>3, DoneTypes DEF TypeOK
<1>4. CASE entry' = "detaching" /\ job' = [job EXCEPT ![a] = NoJob] /\ UNCHANGED poll
  BY <1>4, DoneTypes DEF TypeOK
<1> QED
  BY <1>1, <1>2, <1>3, <1>4 DEF Closed

LEMMA SetupRaisedTypes ==
  ASSUME TypeOK, NEW a \in Actors, SetupRaised(a)
  PROVE  /\ poll' \in [Polls -> Poll] /\ job' \in [Actors -> Job]
         /\ entry' \in {"setup", "first", "loaded", "closing", "detaching", "gone"}
<1>1. CASE a \in Polls /\ poll' = [poll EXCEPT ![a].pc = "cleanup"]
           /\ Submit(a, "close") /\ UNCHANGED entry
  <2>1. [poll[a] EXCEPT !.pc = "cleanup"] \in Poll
    BY <1>1, PollFields DEF TypeOK
  <2>2. poll' = [poll EXCEPT ![a] = [poll[a] EXCEPT !.pc = "cleanup"]]
    BY <1>1 DEF TypeOK, Poll
  <2> QED
    BY <1>1, <2>1, <2>2, SubmitTypes DEF TypeOK
<1>2. CASE job' = [job EXCEPT ![a] = NoJob] /\ UNCHANGED <<poll, entry>>
  BY <1>2, DoneTypes DEF TypeOK
<1>3. CASE entry' = "closing" /\ Submit(a, "close") /\ UNCHANGED poll
  BY <1>3, SubmitTypes DEF TypeOK
<1> QED
  BY <1>1, <1>2, <1>3 DEF SetupRaised, EntryRaised

LEMMA RotateTypes ==
  ASSUME TypeOK, Rotate(live)
  PROVE  live' \in Nat /\ rotations' \in 0 .. MaxRotations
BY DEF Rotate, TypeOK

LEMMA FaultTypes == ASSUME TypeOK, Fault  PROVE faults' \in 0 .. MaxFaults
BY DEF Fault, TypeOK

LEMMA SessionFields ==
  ASSUME TypeOK, NEW s \in Sessions \cup {None}, NEW st \in {"building", "live", "mfa", "closed"}
  PROVE  /\ [sess EXCEPT ![s].st = st] \in [Sessions -> Session]
         /\ [sess EXCEPT ![s].st = st, ![s].tok = NoToken] \in [Sessions -> Session]
<1>1. s \in Sessions => /\ [sess[s] EXCEPT !.st = st] \in Session
                        /\ [sess[s] EXCEPT !.st = st, !.tok = NoToken] \in Session
  <2>1. s \in Sessions => sess[s] \in Session
    BY DEF TypeOK
  <2> QED
    BY <2>1 DEF Session, NoToken
<1>2. sess \in [Sessions -> Session]
  BY DEF TypeOK
<1>3. s \in Sessions =>
        [sess EXCEPT ![s].st = st, ![s].tok = NoToken]
          = [sess EXCEPT ![s] = [sess[s] EXCEPT !.st = st, !.tok = NoToken]]
  BY <1>2
<1>4. s \notin Sessions => [sess EXCEPT ![s].st = st, ![s].tok = NoToken] = sess
  BY <1>2
<1> QED
  BY <1>1, <1>2, <1>3, <1>4, UpdateTypes

LEMMA JobStepTypes ==
  ASSUME TypeOK, NEW a \in Actors, JobStep(a)
  PROVE  TypeOK'
<1> USE DEF clientVars, haVars, envVars, history
<1>1. CASE CloseBegin(a)
  <2>1. job' \in [Actors -> Job]
    BY <1>1, ZenonT(60) DEF CloseBegin, TypeOK, Job
  <2> QED
    BY <1>1, <2>1 DEF CloseBegin, TypeOK, None
<1>2. CASE CloseEnd(a)
  <2>1. sess' \in [Sessions -> Session]
    <3>1. job[a].hon \in Sessions \cup {None}
      BY DEF TypeOK, Job
    <3> QED
      BY <1>2, <3>1, SessionFields DEF CloseEnd, TypeOK
  <2> QED
    BY <1>2, <2>1, ClosedTypes DEF CloseEnd, TypeOK
<1>3. CASE SetupBegin(a)
  <2>1. created' \in Sessions
    BY <1>3 DEF SetupBegin, TypeOK, Sessions
  <2>2. [Unused EXCEPT !.st = "building"] \in Session
    BY DEF TypeOK, Unused, Session, NoToken
  <2>3. sess' \in [Sessions -> Session]
    BY <1>3, <2>1, <2>2 DEF SetupBegin, TypeOK
  <2>4. poll' \in [Polls -> Poll]
    <3>1. \A q \in Poll : [q EXCEPT !.logins = @ + 1] \in Poll
      BY DEF Poll
    <3>2. CASE a \in Polls
      <4>1. poll' = [poll EXCEPT ![a] = [poll[a] EXCEPT !.logins = @ + 1]]
        BY <1>3, <3>2 DEF SetupBegin, TypeOK, Poll
      <4> QED
        BY <3>1, <3>2, <4>1 DEF TypeOK
    <3>3. CASE a \notin Polls
      BY <1>3, <3>3 DEF SetupBegin, TypeOK
    <3> QED
      BY <3>2, <3>3
  <2>5. job' \in [Actors -> Job] /\ crossed' \subseteq Actors
    BY <1>3 DEF SetupBegin, TypeOK, Job
  <2>6. created' \in 0 .. MaxSessions /\ orphaned' \subseteq Sessions
    BY <1>3 DEF SetupBegin, TypeOK, None
  <2> QED
    BY <1>3, <2>1, <2>3, <2>4, <2>5, <2>6 DEF SetupBegin, TypeOK
<1>4. CASE SetupOk(a)
  <2>1. live' \in Nat /\ rotations' \in 0 .. MaxRotations
    BY <1>4, RotateTypes DEF SetupOk, TypeOK
  <2>2. sess' \in [Sessions -> Session]
    <3>1. Rewired \in BOOLEAN
      BY DEF Rewired, TypeOK
    <3>2. PICK apps \in Inventories :
            sess' = [sess EXCEPT ![inst].st = "live", ![inst].apps = apps,
                                 ![inst].tok = live', ![inst].notify = Rewired]
      BY <1>4 DEF SetupOk
    <3>3. apps \in SUBSET Appliances
      OBVIOUS
    <3>4. \A q \in Session :
            [q EXCEPT !.st = "live", !.apps = apps, !.tok = live', !.notify = Rewired] \in Session
      BY <2>1, <3>1, <3>3 DEF Session
    <3>5. sess' = [sess EXCEPT ![inst] =
                    [sess[inst] EXCEPT !.st = "live", !.apps = apps, !.tok = live', !.notify = Rewired]]
      BY <3>2 DEF TypeOK
    <3>6. sess \in [Sessions -> Session]
      BY DEF TypeOK
    <3>7. inst \in Sessions => [sess[inst] EXCEPT !.st = "live", !.apps = apps, !.tok = live',
                                                  !.notify = Rewired] \in Session
      BY <3>4, <3>6
    <3> HIDE DEF Sessions, Session
    <3> QED
      BY <3>5, <3>6, <3>7, UpdateTypes
  <2>3. \A old \in Nat : SeedFrom(inst, old) \in Nat
    BY <2>2 DEF SeedFrom, TypeOK, Session, None
  <2>4. seed' \in Nat /\ stored' \in Nat
    BY <1>4, <2>3 DEF SetupOk, TypeOK
  <2>5. job' \in [Actors -> Job]
    BY <1>4, DoneTypes DEF SetupOk
  <2>6. poll' \in [Polls -> Poll]
    <3>1. CASE a \in Polls /\ poll' = [poll EXCEPT ![a].pc = "list", ![a].reauthed = TRUE]
      <4>1. poll' = [poll EXCEPT ![a] = [poll[a] EXCEPT !.pc = "list", !.reauthed = TRUE]]
        BY <3>1 DEF TypeOK, Poll
      <4>2. [poll[a] EXCEPT !.pc = "list", !.reauthed = TRUE] \in Poll
        BY <3>1, PollFields DEF TypeOK
      <4> QED
        BY <3>1, <4>1, <4>2 DEF TypeOK, Outcomes
    <3>2. CASE poll' = [poll EXCEPT ![FirstRefresh] = Calling]
      BY <3>2, CallingTypes DEF TypeOK
    <3> QED
      BY <1>4, <3>1, <3>2 DEF SetupOk, TypeOK
  <2>7. entry' \in {"setup", "first", "loaded", "closing", "detaching", "gone"}
    BY <1>4 DEF SetupOk, TypeOK
  <2> QED
    BY <1>4, <2>1, <2>2, <2>4, <2>5, <2>6, <2>7 DEF SetupOk, TypeOK
<1>5. CASE SetupMfa(a)
  <2>1. sess' \in [Sessions -> Session]
    BY <1>5, SessionFields DEF SetupMfa, TypeOK
  <2> QED
    BY <1>5, <2>1, SetupRaisedTypes DEF SetupMfa, TypeOK, Outcomes
<1>6. CASE SetupFails(a)
  <2>1. sess' \in [Sessions -> Session]
    BY <1>6, SessionFields DEF SetupFails, TypeOK
  <2>2. SetupRaised(a)
    BY <1>6 DEF SetupFails
  <2>3. live' \in Nat /\ rotations' \in 0 .. MaxRotations
    BY <1>6, RotateTypes DEF SetupFails, TypeOK
  <2> QED
    BY <1>6, <2>1, <2>2, <2>3, SetupRaisedTypes, FaultTypes DEF SetupFails, TypeOK, None
<1> QED
  BY <1>1, <1>2, <1>3, <1>4, <1>5, <1>6 DEF JobStep

LEMMA PollStepTypes ==
  ASSUME TypeOK, Polled, NEW p \in Polls, PollStart(p) \/ PollStep(p) \/ PollCancelled(p)
  PROVE  TypeOK'
<1> USE DEF clientVars, haVars, envVars, history
<1>1. CASE PollStart(p)
  BY <1>1, CallingTypes, FetchTypes DEF PollStart, TypeOK
<1>2. CASE List(p)
  <2>1. poll[p] \in Poll
    BY DEF TypeOK
  <2> QED
    BY <1>2, <2>1, FetchTypes DEF List, TypeOK
<1>3. CASE Return(p)
  <2>1. poll' \in [Polls -> Poll]
    BY <1>3, RaiseTypes DEF Return, Outcomes
  <2>2. data' \subseteq Appliances \X Sessions
    BY <1>3 DEF Return, TypeOK, Poll
  <2>3. seed' \in Nat /\ stored' \in Nat
    BY <1>3 DEF Return, Rotated, CurrentToken, NoToken, TypeOK, Session, None
  <2> QED
    BY <1>3, <2>1, <2>2, <2>3 DEF Return, TypeOK
<1>4. ASSUME NEW x \in Appliances, UpdateOk(p, x)  PROVE TypeOK'
  <2>1. poll[p].s \in Sessions
    BY <1>4 DEF Polled, UpdateOk, Updating
  <2>4. [poll[p] EXCEPT !.todo = @ \ {x}, !.got = @ \cup {<<x, poll[p].s>>}, !.att = 0] \in Poll
    <3>1. poll[p] \in Poll /\ <<x, poll[p].s>> \in Appliances \X Sessions /\ 0 \in 0 .. Retries - 1
      BY <2>1 DEF TypeOK
    <3> HIDE DEF Sessions
    <3> QED
      BY <3>1 DEF Poll
  <2>5. poll' = [poll EXCEPT ![p] = [poll[p] EXCEPT !.todo = @ \ {x},
                                       !.got = @ \cup {<<x, poll[p].s>>}, !.att = 0]]
    BY <1>4 DEF UpdateOk, TypeOK, Poll
  <2>6. poll' \in [Polls -> Poll]
    BY <2>4, <2>5 DEF TypeOK
  <2> QED
    BY <1>4, <2>6 DEF UpdateOk, TypeOK
<1>5. ASSUME NEW x \in Appliances, UpdateTransient(p, x)  PROVE TypeOK'
  <2>1. poll' \in [Polls -> Poll]
    <3>1. CASE poll[p].att < Retries - 1 /\ poll' = [poll EXCEPT ![p].att = @ + 1]
      <4>1. poll[p] \in Poll /\ poll \in [Polls -> Poll]
        BY DEF TypeOK
      <4>2. poll[p].att + 1 \in 0 .. Retries - 1
        BY <3>1, <4>1 DEF Poll
      <4>3. [poll[p] EXCEPT !.att = @ + 1] \in Poll
        BY <4>1, <4>2 DEF Poll
      <4>4. poll' = [poll EXCEPT ![p] = [poll[p] EXCEPT !.att = @ + 1]]
        BY <3>1, <4>1 DEF Poll
      <4> QED
        BY <4>1, <4>3, <4>4
    <3>2. CASE Skip(p, x)
      BY <3>2, SkipTypes
    <3> QED
      BY <1>5, <3>1, <3>2 DEF UpdateTransient
  <2> QED
    BY <1>5, <2>1, FaultTypes DEF UpdateTransient, TypeOK
<1>6. ASSUME NEW x \in Appliances, UpdateFails(p, x)  PROVE TypeOK'
  BY <1>6, SkipTypes, FaultTypes DEF UpdateFails, TypeOK
<1>7. ASSUME NEW x \in Appliances, UpdateRejected(p, x)  PROVE TypeOK'
  <2>1. poll' \in [Polls -> Poll] /\ job' \in [Actors -> Job]
    <3>1. CASE Raise(p) /\ UNCHANGED job
      BY <3>1, RaiseTypes DEF Outcomes, TypeOK
    <3>2. CASE Reauth(p, poll[p])
      BY <3>2, ReauthTypes DEF TypeOK
    <3> QED
      BY <1>7, <3>1, <3>2 DEF UpdateRejected
  <2> QED
    BY <1>7, <2>1, FaultTypes DEF UpdateRejected, TypeOK
<1>8. CASE PollCancelled(p)
  <2>1. p \in Actors
    BY DEF Actors
  <2> QED
    BY <1>8, <2>1, RaiseTypes, DoneTypes DEF PollCancelled, TypeOK, Outcomes
<1> QED
  BY <1>1, <1>2, <1>3, <1>4, <1>5, <1>6, <1>7, <1>8 DEF PollStep

\* No session is made, opened or closed.
SameSessions == \A s \in Sessions : sess'[s].st = sess[s].st

\* A request that finds its tokens old touches them only.
LEMMA RotatesOnly ==
  ASSUME TypeOK, NEW s \in Sessions, RequestRotates(s)
  PROVE  /\ TypeOK' /\ SameSessions
         /\ inst' = inst /\ api' = api /\ loop' = loop /\ seed' = seed /\ stored' = stored
         /\ firstDone' = firstDone /\ notify' = notify /\ created' = created
         /\ poll' = poll /\ job' = job /\ entry' = entry /\ data' = data
         /\ crossed' = crossed /\ orphaned' = orphaned
         /\ sess[s].st = "live" /\ sess'[s].tok = live' /\ live' = live + 1
         /\ \A t \in Sessions : sess'[t].st = sess[t].st
         /\ \A t \in Sessions : sess'[t].apps = sess[t].apps
         /\ \A t \in Sessions : sess'[t].notify = sess[t].notify
         /\ \A t \in Sessions \ {s} : sess'[t] = sess[t]
<1>1. live' = live + 1 /\ live' \in Nat /\ rotations' \in 0 .. MaxRotations
  BY DEF RequestRotates, TypeOK
<1>2. [sess[s] EXCEPT !.tok = live'] \in Session
  BY <1>1 DEF TypeOK, Session
<1>3. sess' = [sess EXCEPT ![s] = [sess[s] EXCEPT !.tok = live']]
  BY DEF RequestRotates, TypeOK, Session
<1>4. sess' \in [Sessions -> Session]
  BY <1>2, <1>3 DEF TypeOK
<1>5. TypeOK'
  BY <1>1, <1>4 DEF RequestRotates, TypeOK, clientVars, haVars, history
<1> QED
  BY <1>1, <1>3, <1>5 DEF RequestRotates, TypeOK, Session, clientVars, haVars, history, SameSessions

LEMMA EntryStepTypes ==
  ASSUME TypeOK, FirstRefreshed \/ Unload \/ Detach
  PROVE  TypeOK'
<1> USE DEF clientVars, haVars, envVars, history
<1> Entry \in Actors
  BY DEF Actors
<1>1. ASSUME NEW wanted \in BOOLEAN, Subscribe(wanted)
      PROVE  notify' \in BOOLEAN /\ sess' \in [Sessions -> Session]
  BY <1>1 DEF Subscribe, TypeOK, Session
<1>2. CASE FirstRefreshed
  BY <1>2, <1>1, SubmitTypes DEF FirstRefreshed, TypeOK
<1>3. CASE Unload
  BY <1>3, SubmitTypes DEF Unload, TypeOK
<1>4. CASE Detach
  BY <1>4, <1>1 DEF Detach, TypeOK
<1> QED
  BY <1>2, <1>3, <1>4

\* What a call that ends, or that logs in again, leaves in its locals.
LEMMA LeaveIs ==
  ASSUME TypeOK, NEW p \in Polls, NEW out, Leave(p, out)
  PROVE  /\ poll'[p].pc = "idle" /\ poll'[p].logins = 0 /\ poll'[p].out = out
         /\ \A b \in Polls : b # p => poll'[b] = poll[b]
BY DEF Leave, Calling, TypeOK

LEMMA RaiseIs ==
  ASSUME TypeOK, NEW p \in Polls, Raise(p)
  PROVE  /\ poll'[p].pc = "idle" /\ poll'[p].logins = 0 /\ poll'[p].out = "none"
         /\ \A b \in Polls : b # p => poll'[b] = poll[b]
BY LeaveIs DEF Raise

LEMMA ReauthIs ==
  ASSUME TypeOK, NEW p \in Polls, NEW q, Reauth(p, q)
  PROVE  /\ poll'[p].pc = "close" /\ poll'[p].logins = q.logins
         /\ poll'[p].reauthed = q.reauthed /\ poll'[p].got = q.got
         /\ job' = [job EXCEPT ![p] = [NoJob EXCEPT !.kind = "close"]]
         /\ job'[p] = [NoJob EXCEPT !.kind = "close"]
         /\ \A b \in Polls : b # p => poll'[b] = poll[b]
BY DEF Reauth, Calling, Submit, TypeOK, Actors

\* A poll that goes on to another phase than the updates is no longer polled.
LEMMA LeavesPolled ==
  ASSUME Polled, NEW p \in Polls, poll'[p].pc # "update",
         \A b \in Polls : b # p => poll'[b] = poll[b]
  PROVE  Polled'
BY DEF Polled

LEMMA PolledStep ==
  ASSUME TypeOK, Polled, [Next]_vars
  PROVE  Polled'
<1>1. ASSUME NEW a \in Actors, JobStep(a)  PROVE Polled'
  <2>1. CASE CloseEnd(a)
    <3>1. CASE a \in Polls /\ Raise(a)
      BY <3>1, RaiseIs, LeavesPolled
    <3>2. CASE a \in Polls /\ poll' = [poll EXCEPT ![a].pc = "setup"]
      BY <3>2 DEF TypeOK, Poll, Polled
    <3>3. CASE UNCHANGED poll
      BY <3>3 DEF Polled
    <3> QED
      BY <2>1, <3>1, <3>2, <3>3 DEF CloseEnd, Closed
  <2>2. CASE SetupBegin(a)
    BY <2>2 DEF SetupBegin, TypeOK, Poll, Polled
  <2>3. CASE SetupOk(a)
    BY <2>3 DEF SetupOk, Calling, TypeOK, Poll, Polled
  <2>4. ASSUME SetupRaised(a)  PROVE Polled'
    BY <2>4 DEF SetupRaised, EntryRaised, TypeOK, Poll, Polled
  <2>5. CASE CloseBegin(a)
    BY <2>5 DEF CloseBegin, Polled
  <2> QED
    BY <1>1, <2>1, <2>2, <2>3, <2>4, <2>5 DEF JobStep, SetupMfa, SetupFails
<1>2. ASSUME NEW p \in Polls, NEW q \in Poll, Fetch(p, q)  PROVE Polled'
  <2>1. CASE Reauth(p, q)
    BY <2>1, ReauthIs, LeavesPolled
  <2>2. CASE Raise(p)
    BY <2>2, RaiseIs, LeavesPolled
  <2>3. CASE /\ api # None
             /\ poll' = [poll EXCEPT ![p] = [q EXCEPT !.pc = "update", !.s = api, !.todo = sess[api].apps,
                                                      !.got = {}, !.failed = {}, !.att = 0]]
    <3>1. poll'[p].s = api /\ api \in Sessions
      BY <2>3 DEF TypeOK, Poll
    <3>2. \A b \in Polls \ {p} : poll'[b] = poll[b]
      BY <2>3 DEF TypeOK
    <3> QED
      BY <3>1, <3>2 DEF Polled
  <2> QED
    BY <1>2, <2>1, <2>2, <2>3 DEF Fetch
<1>3. ASSUME NEW p \in Polls, PollStart(p) \/ List(p)  PROVE Polled'
  BY <1>2, <1>3, CallingTypes DEF PollStart, List, TypeOK
<1>4. ASSUME NEW p \in Polls, Return(p) \/ PollCancelled(p)  PROVE Polled'
  BY <1>4, LeaveIs, RaiseIs, LeavesPolled DEF Return, PollCancelled
<1>5. ASSUME NEW p \in Polls, NEW x \in Appliances,
             UpdateOk(p, x) \/ UpdateTransient(p, x) \/ UpdateFails(p, x) \/ UpdateRejected(p, x)
      PROVE  Polled'
  <2>1. CASE Raise(p) \/ Reauth(p, poll[p])
    BY <2>1, RaiseIs, ReauthIs, LeavesPolled
  <2>2. CASE UpdateOk(p, x)
    BY <2>2 DEF UpdateOk, TypeOK, Poll, Polled
  <2>3. CASE poll' = [poll EXCEPT ![p].att = @ + 1]
    BY <2>3 DEF TypeOK, Poll, Polled
  <2>4. CASE poll' = [poll EXCEPT ![p].todo = @ \ {x}, ![p].failed = @ \cup {x}, ![p].att = 0]
    BY <2>4 DEF TypeOK, Poll, Polled
  <2> QED
    BY <1>5, <2>1, <2>2, <2>3, <2>4 DEF UpdateTransient, UpdateFails, UpdateRejected, Skip
<1>6. CASE UNCHANGED poll
  BY <1>6 DEF Polled
<1>7. ASSUME NEW s \in Sessions, RequestRotates(s)  PROVE Polled'
  BY <1>6, <1>7 DEF RequestRotates
<1> QED
  BY <1>1, <1>3, <1>4, <1>5, <1>6, <1>7
     DEF Next, PollStep, FirstRefreshed, Unload, Detach, vars, clientVars

\* Every reachable state is well typed: in particular no appliance is attempted
\* more often than Retries, whoever polls.
THEOREM TypeCorrect == Spec => []TypeOK
<1>1. Init => TypeOK /\ Polled
  <2> SUFFICES ASSUME Init  PROVE TypeOK /\ Polled
    OBVIOUS
  <2>1. Unused \in Session
    BY DEF Unused, Session, NoToken
  <2>2. [Calling EXCEPT !.pc = "idle"] \in Poll
    BY CallingTypes DEF Poll
  <2>3. NoJob \in Job /\ [NoJob EXCEPT !.kind = "setup"] \in Job
    BY DEF NoJob, Job, None
  <2>4. sess \in [Sessions -> Session] /\ poll \in [Polls -> Poll] /\ job \in [Actors -> Job]
    BY <2>1, <2>2, <2>3 DEF Init
  <2>5. Polled
    BY DEF Init, Polled, Calling
  <2>6. seed \in Nat /\ stored \in Nat /\ live \in Nat
    BY DEF Init, NoToken
  <2>7. 0 \in 0 .. MaxSessions /\ 0 \in 0 .. MaxRotations /\ 0 \in 0 .. MaxFaults
    OBVIOUS
  <2> HIDE DEF Sessions
  <2> QED
    BY <2>4, <2>5, <2>6, <2>7 DEF Init, TypeOK, None
<1>2. TypeOK /\ Polled /\ [Next]_vars => TypeOK' /\ Polled'
  <2> SUFFICES ASSUME TypeOK, Polled, [Next]_vars  PROVE TypeOK'
    BY PolledStep
  <2>1. CASE UNCHANGED vars
    BY <2>1 DEF TypeOK, vars, clientVars, haVars, envVars, history
  <2> QED
    BY <2>1, JobStepTypes, PollStepTypes, EntryStepTypes, RotatesOnly DEF Next
<1> QED
  BY <1>1, <1>2, PTL DEF Spec

-----------------------------------------------------------------------------
(* What one step may do to the jobs and to the sessions.                   *)

Waits(q) == q = NoJob \/ q = [NoJob EXCEPT !.kind = "close"] \/ q = [NoJob EXCEPT !.kind = "setup"]

\* The job of a coroutine or of the entry: kept, withdrawn before it starts, or a
\* close submitted when there was none.
HandsOver(a) ==
  /\ \A b \in Actors \ {a} : job'[b] = job[b]
  /\ \/ job'[a] = job[a]
     \/ job[a].stage = "wait" /\ job'[a] \in {NoJob, [NoJob EXCEPT !.kind = "close"]}

LEMMA SubmitHandsOver ==
  ASSUME TypeOK, NEW a \in Actors, job[a] = NoJob, Submit(a, "close")  PROVE HandsOver(a)
BY DEF Submit, HandsOver, TypeOK, NoJob

LEMMA KeptHandsOver == ASSUME NEW a \in Actors, UNCHANGED job  PROVE HandsOver(a)
BY DEF HandsOver

LEMMA PollHandsOver ==
  ASSUME TypeOK, Polled, JobInv, NEW p \in Polls, PollStart(p) \/ PollStep(p) \/ PollCancelled(p)
  PROVE  HandsOver(p) /\ UNCHANGED <<inst, entry, created, crossed, orphaned>> /\ SameSessions
<1> p \in Actors
  BY DEF Actors
<1> USE DEF clientVars, haVars, envVars, history
<1>1. ASSUME NEW q, job[p] = NoJob, Fetch(p, q)  PROVE HandsOver(p)
  BY <1>1, SubmitHandsOver, KeptHandsOver DEF Fetch, Reauth
<1>2. CASE PollStart(p) \/ List(p)
  BY <1>1, <1>2 DEF PollStart, List, JobInv, SameSessions
<1>3. CASE Return(p)
  BY <1>3, KeptHandsOver DEF Return, SameSessions
<1>4. ASSUME NEW x \in Appliances, UpdateOk(p, x)
      PROVE  HandsOver(p) /\ UNCHANGED <<inst, entry, created, crossed, orphaned>> /\ SameSessions
  BY <1>4, KeptHandsOver DEF UpdateOk, TypeOK, Session, SameSessions
<1>5. ASSUME NEW x \in Appliances, UpdateTransient(p, x) \/ UpdateFails(p, x)
      PROVE  HandsOver(p) /\ UNCHANGED <<inst, entry, created, crossed, orphaned>> /\ SameSessions
  BY <1>5, KeptHandsOver DEF UpdateTransient, UpdateFails, SameSessions
<1>6. ASSUME NEW x \in Appliances, UpdateRejected(p, x)
      PROVE  HandsOver(p) /\ UNCHANGED <<inst, entry, created, crossed, orphaned>> /\ SameSessions
  <2>1. job[p] = NoJob
    BY <1>6 DEF UpdateRejected, Updating, JobInv
  <2> QED
    BY <1>6, <2>1, SubmitHandsOver, KeptHandsOver DEF UpdateRejected, Reauth, SameSessions
<1>7. CASE PollCancelled(p)
  BY <1>7, KeptHandsOver DEF PollCancelled, HandsOver, SameSessions, TypeOK
<1> QED
  BY <1>2, <1>3, <1>4, <1>5, <1>6, <1>7 DEF PollStep

LEMMA EntryHandsOver ==
  ASSUME TypeOK, JobInv, FirstRefreshed \/ Unload \/ Detach
  PROVE  HandsOver(Entry) /\ UNCHANGED <<inst, created, poll, crossed, orphaned>> /\ SameSessions
<1> Entry \in Actors
  BY DEF Actors
<1> USE DEF clientVars, haVars, envVars, history
<1>1. ASSUME NEW wanted, Subscribe(wanted)  PROVE SameSessions
  BY <1>1 DEF Subscribe, SameSessions, TypeOK, Session
<1>2. CASE FirstRefreshed
  BY <1>1, <1>2, SubmitHandsOver, KeptHandsOver DEF FirstRefreshed, JobInv, SameSessions
<1>3. CASE Unload
  BY <1>3, SubmitHandsOver DEF Unload, JobInv, SameSessions
<1>4. CASE Detach
  BY <1>1, <1>4, KeptHandsOver DEF Detach
<1> QED
  BY <1>2, <1>3, <1>4

LEMMA ClosedJob ==
  ASSUME TypeOK, NEW a \in Actors, Closed(a)
  PROVE  (\A b \in Actors \ {a} : job'[b] = job[b]) /\ Waits(job'[a])
BY DEF Closed, Submit, Waits, TypeOK

LEMMA RaisedJob ==
  ASSUME TypeOK, NEW a \in Actors, SetupRaised(a)
  PROVE  /\ \A b \in Actors \ {a} : job'[b] = job[b]
         /\ job'[a] \in {NoJob, [NoJob EXCEPT !.kind = "close"]}
BY DEF SetupRaised, EntryRaised, Submit, TypeOK

-----------------------------------------------------------------------------
(* The lock.                                                               *)

LEMMA LockStep ==
  ASSUME TypeOK, Polled, JobInv, LockInv, [Next]_vars
  PROVE  LockInv'
<1> USE DEF LockInv, Running
<1>1. ASSUME NEW a \in Actors, HandsOver(a), UNCHANGED inst  PROVE LockInv'
  BY <1>1 DEF HandsOver, NoJob
<1>2. ASSUME NEW a \in Actors, CloseBegin(a)  PROVE LockInv'
  BY <1>2 DEF CloseBegin, Ready, LockFree, TypeOK, Job
<1>3. ASSUME NEW a \in Actors, CloseEnd(a)  PROVE LockInv'
  BY <1>3, ClosedJob DEF CloseEnd, Waits, NoJob
<1>4. ASSUME NEW a \in Actors, SetupBegin(a)  PROVE LockInv'
  BY <1>4 DEF SetupBegin, Ready, LockFree, TypeOK, Job
<1>5. ASSUME NEW a \in Actors, SetupOk(a)  PROVE LockInv'
  BY <1>5 DEF SetupOk, NoJob, TypeOK
<1>6. ASSUME NEW a \in Actors, SetupMfa(a) \/ SetupFails(a)  PROVE LockInv'
  BY <1>6, RaisedJob DEF SetupMfa, SetupFails, NoJob, clientVars
<1>7. CASE UNCHANGED vars
  BY <1>7 DEF vars, clientVars
<1>8. Polls \subseteq Actors /\ Entry \in Actors
  BY DEF Actors
<1>9. ASSUME NEW s \in Sessions, RequestRotates(s)  PROVE LockInv'
  BY <1>9, RotatesOnly
<1> QED
  BY <1>1, <1>2, <1>3, <1>4, <1>5, <1>6, <1>7, <1>8, <1>9, PollHandsOver, EntryHandsOver
     DEF Next, JobStep

-----------------------------------------------------------------------------
(* Who has submitted what.                                                 *)

CallInv == SetupInv /\ JobInv

\* A step of one call, which leaves it with a job that fits its phase.
LEMMA OneCallKeepsJobs ==
  ASSUME CallInv, NEW p \in Polls, UNCHANGED entry,
         \A b \in Polls : b # p => poll'[b] = poll[b],
         \A b \in Actors : b # p => job'[b] = job[b],
         entry = "setup" => poll'[p].pc = "idle" /\ job'[p] = NoJob,
         poll'[p].pc \in {"list", "update"} => job'[p] = NoJob,
         poll'[p].pc \in {"close", "cleanup"} => job'[p].kind = "close",
         poll'[p].pc = "setup" => job'[p].kind = "setup"
  PROVE  CallInv'
BY DEF CallInv, SetupInv, JobInv, Actors

\* A call that starts or goes on, with no job outstanding.
LEMMA FetchKeepsJobs ==
  ASSUME TypeOK, CallInv, NEW p \in Polls, NEW q \in Poll, job[p] = NoJob, entry # "setup",
         Fetch(p, q), UNCHANGED entry
  PROVE  CallInv'
<1> p \in Actors /\ Entry # p
  BY DEF Actors
<1>1. CASE Reauth(p, q)
  BY <1>1, ReauthIs, OneCallKeepsJobs DEF NoJob, TypeOK
<1>2. CASE Raise(p) /\ UNCHANGED job
  BY <1>2, RaiseIs, OneCallKeepsJobs
<1>3. CASE /\ UNCHANGED job
           /\ poll' = [poll EXCEPT ![p] = [q EXCEPT !.pc = "update", !.s = api, !.todo = sess[api].apps,
                                                    !.got = {}, !.failed = {}, !.att = 0]]
  <2>1. poll'[p].pc = "update"
    BY <1>3 DEF TypeOK, Poll
  <2>2. \A b \in Polls \ {p} : poll'[b] = poll[b]
    BY <1>3 DEF TypeOK
  <2> QED
    BY <1>3, <2>1, <2>2 DEF CallInv, SetupInv, JobInv
<1> QED
  BY <1>1, <1>2, <1>3 DEF Fetch

LEMMA RaiseKeepsJobs ==
  ASSUME TypeOK, CallInv, NEW p \in Polls, NEW out, Leave(p, out),
         UNCHANGED <<job, entry>>
  PROVE  CallInv'
BY LeaveIs, OneCallKeepsJobs DEF CallInv, SetupInv

LEMMA CallStep ==
  ASSUME TypeOK, CallInv, [Next]_vars
  PROVE  CallInv'
<1> Polls \subseteq Actors /\ Entry \in Actors /\ Entry \notin Polls
  BY DEF Actors
<1> USE DEF clientVars, haVars, envVars, history
<1>1. ASSUME NEW a \in Actors, CloseBegin(a)  PROVE CallInv'
  BY <1>1 DEF CloseBegin, Ready, CallInv, SetupInv, JobInv, NoJob, TypeOK, Job
<1>2. ASSUME NEW a \in Actors, CloseEnd(a)  PROVE CallInv'
  <2>1. CASE a \in Polls /\ poll[a].pc = "close"
             /\ poll' = [poll EXCEPT ![a].pc = "setup"] /\ Submit(a, "setup") /\ UNCHANGED entry
    BY <2>1 DEF Submit, CallInv, SetupInv, JobInv, NoJob, TypeOK, Poll, Job
  <2>2. CASE a \in Polls /\ Raise(a)
             /\ job' = [job EXCEPT ![a] = NoJob] /\ UNCHANGED entry
    BY <2>2, RaiseIs, OneCallKeepsJobs DEF TypeOK
  <2>3. CASE a \in Polls /\ poll[a].pc = "idle"
             /\ job' = [job EXCEPT ![a] = NoJob] /\ UNCHANGED <<poll, entry>>
    BY <2>3 DEF CallInv, SetupInv, JobInv, NoJob, TypeOK, Poll, Job
  <2>4. CASE a = Entry /\ entry' = "detaching" /\ job' = [job EXCEPT ![a] = NoJob] /\ UNCHANGED poll
    BY <2>4 DEF CallInv, SetupInv, JobInv, NoJob, TypeOK, Poll, Job
  <2> QED
    BY <1>2, <2>1, <2>2, <2>3, <2>4 DEF CloseEnd, Closed
<1>3. ASSUME NEW a \in Actors, SetupBegin(a)  PROVE CallInv'
  BY <1>3 DEF SetupBegin, Ready, CallInv, SetupInv, JobInv, NoJob, TypeOK, Poll, Job
<1>4. ASSUME NEW a \in Actors, SetupOk(a)  PROVE CallInv'
  <2>1. CASE a \in Polls /\ poll[a].pc = "setup"
             /\ poll' = [poll EXCEPT ![a].pc = "list", ![a].reauthed = TRUE] /\ UNCHANGED entry
    BY <1>4, <2>1 DEF SetupOk, CallInv, SetupInv, JobInv, NoJob, TypeOK, Poll, Job
  <2>2. CASE a \in Polls /\ poll[a].pc = "idle" /\ UNCHANGED <<poll, entry>>
    BY <1>4, <2>2 DEF SetupOk, CallInv, SetupInv, JobInv, NoJob, TypeOK
  <2>3. CASE a = Entry /\ entry' = "first" /\ poll' = [poll EXCEPT ![FirstRefresh] = Calling]
    BY <1>4, <2>3 DEF SetupOk, Running, CallInv, SetupInv, JobInv, NoJob, TypeOK, Calling
  <2> QED
    BY <1>4, <2>1, <2>2, <2>3 DEF SetupOk
<1>5. ASSUME NEW a \in Actors, Running(a, "setup"), SetupRaised(a)  PROVE CallInv'
  <2>1. CASE a \in Polls /\ poll[a].pc = "setup"
             /\ poll' = [poll EXCEPT ![a].pc = "cleanup"]
             /\ Submit(a, "close") /\ UNCHANGED entry
    BY <2>1 DEF Submit, CallInv, SetupInv, JobInv, NoJob, TypeOK, Poll, Job
  <2>2. CASE a \in Polls /\ poll[a].pc = "idle" /\ job' = [job EXCEPT ![a] = NoJob]
             /\ UNCHANGED <<poll, entry>>
    BY <2>2 DEF CallInv, SetupInv, JobInv, NoJob, TypeOK, Poll, Job
  <2>3. CASE a = Entry /\ entry' = "closing" /\ Submit(a, "close") /\ UNCHANGED poll
    BY <2>3 DEF Submit, CallInv, SetupInv, JobInv, NoJob, TypeOK, Poll, Job
  <2> QED
    BY <1>5, <2>1, <2>2, <2>3 DEF SetupRaised, EntryRaised
<1>6. ASSUME NEW a \in Actors, SetupMfa(a) \/ SetupFails(a)  PROVE CallInv'
  BY <1>5, <1>6 DEF SetupMfa, SetupFails
<1>7. ASSUME NEW p \in Polls, PollStart(p) \/ List(p)  PROVE CallInv'
  BY <1>7, FetchKeepsJobs, CallingTypes DEF PollStart, List, CallInv, SetupInv, JobInv, TypeOK
<1>8. ASSUME NEW p \in Polls, Return(p)  PROVE CallInv'
  BY <1>8, RaiseKeepsJobs DEF Return, Raise, haVars
<1>9. ASSUME NEW p \in Polls, NEW x \in Appliances,
             UpdateOk(p, x) \/ UpdateTransient(p, x) \/ UpdateFails(p, x)
      PROVE  CallInv'
  <2>1. CASE Skip(p, x) /\ UNCHANGED <<job, entry>>
    <3>1. CASE Raise(p)
      BY <2>1, <3>1, RaiseKeepsJobs DEF Raise
    <3>2. CASE poll' = [poll EXCEPT ![p].todo = @ \ {x}, ![p].failed = @ \cup {x}, ![p].att = 0]
      BY <2>1, <3>2 DEF CallInv, SetupInv, JobInv, TypeOK, Poll
    <3> QED
      BY <2>1, <3>1, <3>2 DEF Skip
  <2>2. CASE UpdateOk(p, x)
    BY <2>2 DEF UpdateOk, CallInv, SetupInv, JobInv, TypeOK, Poll
  <2>3. CASE poll' = [poll EXCEPT ![p].att = @ + 1] /\ UNCHANGED <<job, entry>>
    BY <2>3 DEF CallInv, SetupInv, JobInv, TypeOK, Poll
  <2> QED
    BY <1>9, <2>1, <2>2, <2>3 DEF UpdateTransient, UpdateFails
<1>10. ASSUME NEW p \in Polls, NEW x \in Appliances, UpdateRejected(p, x)  PROVE CallInv'
  <2>1. job[p] = NoJob /\ entry # "setup"
    BY <1>10 DEF UpdateRejected, Updating, CallInv, JobInv, SetupInv
  <2>2. CASE Reauth(p, poll[p]) /\ UNCHANGED entry
    BY <2>1, <2>2, ReauthIs, OneCallKeepsJobs DEF NoJob, TypeOK
  <2> QED
    BY <1>10, <2>2, RaiseKeepsJobs DEF UpdateRejected, Raise
<1>11. ASSUME NEW p \in Polls, PollCancelled(p)  PROVE CallInv'
  BY <1>11, RaiseIs, OneCallKeepsJobs DEF PollCancelled, TypeOK
<1>12. CASE FirstRefreshed \/ Unload
  BY <1>12, ZenonT(60) DEF FirstRefreshed, Unload, Submit, CallInv, SetupInv, JobInv, NoJob, TypeOK
<1>13. CASE Detach
  BY <1>13 DEF Detach, CallInv, SetupInv, JobInv
<1>14. CASE UNCHANGED vars
  BY <1>14 DEF vars, CallInv, SetupInv, JobInv
<1>15. ASSUME NEW s \in Sessions, RequestRotates(s)  PROVE CallInv'
  BY <1>15, RotatesOnly DEF CallInv, SetupInv, JobInv
<1> QED
  BY <1>1, <1>2, <1>3, <1>4, <1>6, <1>7, <1>8, <1>9, <1>10, <1>11, <1>12, <1>13, <1>14, <1>15
     DEF Next, JobStep, PollStep

-----------------------------------------------------------------------------
(* One login for each call.                                                *)

\* A step of one call, which counts no login too many.
LEMMA OneCallKeepsLogins ==
  ASSUME LoginInv, NEW p \in Polls,
         \A b \in Polls : b # p => poll'[b] = poll[b] /\ job'[b] = job[b],
         poll'[p].logins <= 1,
         poll'[p].logins = 0
           \/ /\ poll'[p].pc # "close" /\ (poll'[p].pc \in {"list", "update"} => poll'[p].reauthed)
              /\ ~(job'[p].kind = "setup" /\ job'[p].stage = "wait")
  PROVE  LoginInv'
BY DEF LoginInv

LEMMA FetchKeepsLogins ==
  ASSUME TypeOK, LoginInv, NEW p \in Polls, NEW q \in Poll, Fetch(p, q),
         job[p] = NoJob, q.logins <= 1, ~q.reauthed => q.logins = 0
  PROVE  LoginInv'
<1> p \in Actors
  BY DEF Actors
<1>1. CASE Reauth(p, q) /\ ~q.reauthed
  <2>1. poll'[p].logins = 0 /\ \A b \in Polls : b # p => poll'[b] = poll[b] /\ job'[b] = job[b]
    BY <1>1, ReauthIs DEF TypeOK, Actors
  <2> QED
    BY <2>1, OneCallKeepsLogins
<1>2. CASE Raise(p) /\ UNCHANGED job
  BY <1>2, RaiseIs, OneCallKeepsLogins
<1>3. CASE /\ UNCHANGED job
           /\ poll' = [poll EXCEPT ![p] = [q EXCEPT !.pc = "update", !.s = api, !.todo = sess[api].apps,
                                                    !.got = {}, !.failed = {}, !.att = 0]]
  <2>1. /\ poll'[p].pc = "update" /\ poll'[p].logins = q.logins
        /\ poll'[p].reauthed = q.reauthed
    BY <1>3 DEF TypeOK, Poll
  <2>2. \A b \in Polls \ {p} : poll'[b] = poll[b]
    BY <1>3 DEF TypeOK
  <2>3. job[p].kind = "setup" /\ job[p].stage = "wait" => poll'[p].logins = 0
    BY DEF NoJob
  <2> QED
    BY <1>3, <2>1, <2>2, <2>3 DEF LoginInv
<1> QED
  BY <1>1, <1>2, <1>3 DEF Fetch

LEMMA LoginStep ==
  ASSUME TypeOK, CallInv, LoginInv, [Next]_vars
  PROVE  LoginInv'
<1> Polls \subseteq Actors /\ Entry \in Actors /\ Entry \notin Polls
  BY DEF Actors
<1> USE DEF clientVars, haVars, envVars, history
<1>1. ASSUME NEW a \in Actors, CloseBegin(a)  PROVE LoginInv'
  BY <1>1 DEF CloseBegin, Ready, LoginInv, TypeOK, Job
<1>2. ASSUME NEW a \in Actors, CloseEnd(a)  PROVE LoginInv'
  <2>1. CASE a \in Polls /\ poll[a].pc = "close"
             /\ poll' = [poll EXCEPT ![a].pc = "setup"] /\ Submit(a, "setup")
    BY <2>1 DEF Submit, LoginInv, NoJob, TypeOK, Poll, Job
  <2>2. CASE a \in Polls /\ Raise(a) /\ job' = [job EXCEPT ![a] = NoJob]
    BY <2>2, RaiseIs, OneCallKeepsLogins DEF TypeOK
  <2>3. CASE job' = [job EXCEPT ![a] = NoJob] /\ UNCHANGED poll
    BY <2>3 DEF LoginInv, NoJob, TypeOK, Job
  <2> QED
    BY <1>2, <2>1, <2>2, <2>3 DEF CloseEnd, Closed
<1>3. ASSUME NEW a \in Actors, SetupBegin(a)  PROVE LoginInv'
  <2>1. CASE a \in Polls
    <3>1. poll[a].logins = 0 /\ poll[a].pc \in {"setup", "idle"}
      BY <1>3, <2>1 DEF SetupBegin, Ready, LoginInv, CallInv, JobInv, NoJob, TypeOK, Poll
    <3>2. poll'[a].logins = 1 /\ poll'[a].pc = poll[a].pc /\ job'[a].stage = "run"
      BY <1>3, <2>1, <3>1 DEF SetupBegin, TypeOK, Poll, Job
    <3>3. \A b \in Polls \ {a} : poll'[b] = poll[b] /\ job'[b] = job[b]
      BY <1>3, <2>1 DEF SetupBegin, TypeOK
    <3> QED
      BY <3>1, <3>2, <3>3 DEF LoginInv
  <2>2. CASE a \notin Polls
    BY <1>3, <2>2 DEF SetupBegin, LoginInv, TypeOK
  <2> QED
    BY <2>1, <2>2
<1>4. ASSUME NEW a \in Actors, SetupOk(a)  PROVE LoginInv'
  <2>1. CASE a \in Polls /\ poll' = [poll EXCEPT ![a].pc = "list", ![a].reauthed = TRUE]
    BY <1>4, <2>1 DEF SetupOk, LoginInv, NoJob, TypeOK, Poll, Job
  <2>2. CASE UNCHANGED poll
    BY <1>4, <2>2 DEF SetupOk, LoginInv, NoJob, TypeOK
  <2>3. CASE a = Entry /\ poll' = [poll EXCEPT ![FirstRefresh] = Calling]
    BY <1>4, <2>3 DEF SetupOk, LoginInv, NoJob, TypeOK, Calling
  <2> QED
    BY <1>4, <2>1, <2>2, <2>3 DEF SetupOk
<1>5. ASSUME NEW a \in Actors, SetupRaised(a)  PROVE LoginInv'
  <2>1. CASE a \in Polls /\ poll' = [poll EXCEPT ![a].pc = "cleanup"]
             /\ Submit(a, "close")
    BY <2>1 DEF Submit, LoginInv, NoJob, TypeOK, Poll, Job
  <2>2. CASE UNCHANGED poll
    BY <1>5, <2>2, RaisedJob DEF LoginInv, NoJob
  <2> QED
    BY <1>5, <2>1, <2>2 DEF SetupRaised, EntryRaised
<1>6. ASSUME NEW a \in Actors, SetupMfa(a) \/ SetupFails(a)  PROVE LoginInv'
  BY <1>5, <1>6 DEF SetupMfa, SetupFails
<1>7. ASSUME NEW p \in Polls, PollStart(p)  PROVE LoginInv'
  <2>1. Calling.logins = 0 /\ job[p] = NoJob /\ Fetch(p, Calling)
    BY <1>7 DEF PollStart, Calling
  <2> QED
    BY <2>1, FetchKeepsLogins, CallingTypes
<1>8. ASSUME NEW p \in Polls, List(p)  PROVE LoginInv'
  <2>1. /\ poll[p] \in Poll /\ job[p] = NoJob /\ Fetch(p, poll[p])
        /\ poll[p].logins <= 1 /\ (~poll[p].reauthed => poll[p].logins = 0)
    BY <1>8 DEF List, TypeOK, CallInv, JobInv, LoginInv
  <2> QED
    BY <2>1, FetchKeepsLogins
<1>9. ASSUME NEW p \in Polls, NEW out, Leave(p, out), UNCHANGED job  PROVE LoginInv'
  BY <1>9, LeaveIs, OneCallKeepsLogins
<1>10. ASSUME NEW p \in Polls, Return(p)  PROVE LoginInv'
  BY <1>9, <1>10 DEF Return, Raise
<1>11. ASSUME NEW p \in Polls, NEW x \in Appliances,
              UpdateOk(p, x) \/ UpdateTransient(p, x) \/ UpdateFails(p, x)
       PROVE  LoginInv'
  <2>1. CASE Skip(p, x) /\ UNCHANGED job
    <3>1. CASE poll' = [poll EXCEPT ![p].todo = @ \ {x}, ![p].failed = @ \cup {x}, ![p].att = 0]
      BY <2>1, <3>1 DEF LoginInv, TypeOK, Poll
    <3> QED
      BY <1>9, <2>1, <3>1 DEF Skip, Raise
  <2>2. CASE UpdateOk(p, x)
    BY <2>2 DEF UpdateOk, LoginInv, TypeOK, Poll
  <2>3. CASE poll' = [poll EXCEPT ![p].att = @ + 1] /\ UNCHANGED job
    BY <2>3 DEF LoginInv, TypeOK, Poll
  <2> QED
    BY <1>11, <2>1, <2>2, <2>3 DEF UpdateTransient, UpdateFails
<1>12. ASSUME NEW p \in Polls, NEW x \in Appliances, UpdateRejected(p, x)  PROVE LoginInv'
  <2>1. CASE Reauth(p, poll[p]) /\ ~poll[p].reauthed
    <3>1. poll[p].logins = 0
      BY <1>12, <2>1 DEF UpdateRejected, Updating, LoginInv
    <3>2. poll'[p].logins = 0 /\ \A b \in Polls : b # p => poll'[b] = poll[b] /\ job'[b] = job[b]
      BY <2>1, <3>1, ReauthIs DEF TypeOK, Actors
    <3> QED
      BY <3>2, OneCallKeepsLogins
  <2> QED
    BY <1>9, <1>12, <2>1 DEF UpdateRejected, Raise
<1>13. ASSUME NEW p \in Polls, PollCancelled(p)  PROVE LoginInv'
  BY <1>13, RaiseIs, OneCallKeepsLogins DEF PollCancelled, TypeOK
<1>14. CASE FirstRefreshed \/ Unload \/ Detach
  BY <1>14 DEF FirstRefreshed, Unload, Detach, Submit, LoginInv, NoJob, TypeOK
<1>15. CASE UNCHANGED vars
  BY <1>15 DEF vars, LoginInv
<1>16. ASSUME NEW s \in Sessions, RequestRotates(s)  PROVE LoginInv'
  BY <1>16, RotatesOnly DEF LoginInv
<1> QED
  BY <1>1, <1>2, <1>3, <1>4, <1>6, <1>7, <1>8, <1>10, <1>11, <1>12, <1>13, <1>14, <1>15, <1>16
     DEF Next, JobStep, PollStep

-----------------------------------------------------------------------------
(* One session, and an owner for it.                                       *)

\* Who waits to log in finds no session, unless another's login went before it.
LEMMA VacantStep ==
  ASSUME TypeOK, Polled, CallInv, LockInv, VacantInv, [Next]_vars
  PROVE  VacantInv'
<1> USE DEF VacantInv, Running
<1>1. ASSUME NEW a \in Actors, HandsOver(a), UNCHANGED <<inst, crossed>>  PROVE VacantInv'
  BY <1>1 DEF HandsOver, NoJob
<1>2. ASSUME NEW a \in Actors, CloseBegin(a)  PROVE VacantInv'
  BY <1>2 DEF CloseBegin, TypeOK, Job
<1>3. ASSUME NEW a \in Actors, CloseEnd(a)  PROVE VacantInv'
  BY <1>3 DEF CloseEnd, LockInv
<1>4. ASSUME NEW a \in Actors, SetupBegin(a)  PROVE VacantInv'
  BY <1>4 DEF SetupBegin, TypeOK, Job
<1>5. ASSUME NEW a \in Actors, SetupOk(a)  PROVE VacantInv'
  BY <1>5 DEF SetupOk, NoJob, TypeOK, history
<1>6. ASSUME NEW a \in Actors, SetupMfa(a)  PROVE VacantInv'
  BY <1>6, RaisedJob DEF SetupMfa, NoJob, clientVars, history
<1>7. ASSUME NEW a \in Actors, SetupFails(a)  PROVE VacantInv'
  BY <1>7 DEF SetupFails
<1>8. CASE UNCHANGED vars
  BY <1>8 DEF vars, clientVars, history
<1>9. Polls \subseteq Actors /\ Entry \in Actors
  BY DEF Actors
<1>10. ASSUME NEW s \in Sessions, RequestRotates(s)  PROVE VacantInv'
  BY <1>10, RotatesOnly
<1> QED
  BY <1>1, <1>2, <1>3, <1>4, <1>5, <1>6, <1>7, <1>8, <1>9, <1>10, PollHandsOver, EntryHandsOver
     DEF Next, JobStep, CallInv

LEMMA OrphanStep ==
  ASSUME TypeOK, Polled, CallInv, LockInv, NoOrphan, [Next]_vars
  PROVE  NoOrphan'
<1> USE DEF NoOrphan, Open, Running
<1>1. ASSUME NEW a \in Actors, HandsOver(a), UNCHANGED <<inst, orphaned>>, SameSessions
      PROVE  NoOrphan'
  BY <1>1 DEF HandsOver, SameSessions
<1>2. ASSUME NEW a \in Actors, CloseBegin(a)  PROVE NoOrphan'
  BY <1>2 DEF CloseBegin, Ready, LockFree, TypeOK, Job, history
<1>3. ASSUME NEW a \in Actors, CloseEnd(a)  PROVE NoOrphan'
  <2> SUFFICES ASSUME NEW s \in Sessions, Open(s)'  PROVE s = inst' \/ s \in orphaned'
    OBVIOUS
  <2>1. Open(s) /\ s # job[a].hon
    BY <1>3 DEF CloseEnd, TypeOK, Session, None, Sessions
  <2>2. \A b \in Actors : job[b].stage = "run" => b = a
    BY <1>3 DEF CloseEnd, LockInv
  <2> QED
    BY <1>3, <2>1, <2>2 DEF CloseEnd, history
<1>4. ASSUME NEW a \in Actors, SetupBegin(a)  PROVE NoOrphan'
  <2>1. \A s \in Sessions : Open(s) => s \in orphaned'
    BY <1>4 DEF SetupBegin, Ready, LockFree, None, Sessions
  <2>2. \A s \in Sessions \ {created'} : sess'[s] = sess[s]
    BY <1>4 DEF SetupBegin, TypeOK
  <2> QED
    BY <1>4, <2>1, <2>2 DEF SetupBegin
<1>5. ASSUME NEW a \in Actors, SetupOk(a)  PROVE NoOrphan'
  <2>1. \A s \in Sessions \ {inst} : sess'[s] = sess[s]
    BY <1>5 DEF SetupOk, TypeOK
  <2>2. \A b \in Actors \ {a} : job'[b] = job[b]
    BY <1>5 DEF SetupOk, TypeOK
  <2> QED
    BY <1>5, <2>1, <2>2 DEF SetupOk, history
<1>6. ASSUME NEW a \in Actors, SetupMfa(a)  PROVE NoOrphan'
  <2>1. \A s \in Sessions \ {inst} : sess'[s] = sess[s]
    BY <1>6 DEF SetupMfa, TypeOK
  <2>2. \A b \in Actors \ {a} : job'[b] = job[b]
    BY <1>6, RaisedJob DEF SetupMfa
  <2> QED
    BY <1>6, <2>1, <2>2 DEF SetupMfa, clientVars, history
<1>7. ASSUME NEW a \in Actors, SetupFails(a)  PROVE NoOrphan'
  <2>1. \A b \in Actors : job[b].stage = "run" => b = a
    BY <1>7 DEF SetupFails, LockInv
  <2>2. \A s \in Sessions : Open(s)' => Open(s) /\ s # inst
    BY <1>7 DEF SetupFails, TypeOK, Session
  <2> QED
    BY <1>7, <2>1, <2>2 DEF SetupFails, history
<1>8. CASE UNCHANGED vars
  BY <1>8 DEF vars, clientVars, history
<1>9. Polls \subseteq Actors /\ Entry \in Actors
  BY DEF Actors
<1>10. ASSUME NEW s \in Sessions, RequestRotates(s)  PROVE NoOrphan'
  <2>1. UNCHANGED <<inst, job, orphaned>> /\ SameSessions
    BY <1>10, RotatesOnly
  <2> QED
    BY <1>1, <1>9, <2>1, KeptHandsOver
<1> QED
  BY <1>1, <1>2, <1>3, <1>4, <1>5, <1>6, <1>7, <1>8, <1>9, <1>10, PollHandsOver, EntryHandsOver
     DEF Next, JobStep, CallInv

-----------------------------------------------------------------------------
LEMMA CallInit == Init => CallInv /\ LockInv /\ LoginInv /\ VacantInv /\ NoOrphan
<1> SUFFICES ASSUME Init  PROVE CallInv /\ LockInv /\ LoginInv /\ VacantInv /\ NoOrphan
  OBVIOUS
<1>1. \A p \in Polls : poll[p].pc = "idle" /\ poll[p].logins = 0 /\ job[p] = NoJob
  BY DEF Init, Calling, Actors
<1>2. \A a \in Actors : job[a].stage = "wait"
  BY DEF Init, NoJob
<1>3. \A s \in Sessions : sess[s].st = "unused"
  BY DEF Init, Unused
<1>4. CallInv /\ LoginInv
  BY <1>1 DEF Init, CallInv, SetupInv, JobInv, LoginInv, NoJob
<1>5. LockInv /\ VacantInv
  BY <1>2 DEF Init, LockInv, VacantInv, Running
<1>6. NoOrphan
  BY <1>3 DEF NoOrphan, Open
<1> QED
  BY <1>4, <1>5, <1>6

\* A poll logs in at most once, however many polls overlap, whatever they are
\* answered and whenever the entry is unloaded.
THEOREM OneLogin == Spec => []OneLoginPerPoll
<1> DEFINE IInv == TypeOK /\ CallInv /\ LoginInv
<1>1. Init /\ TypeOK => IInv
  BY CallInit
<1>2. IInv /\ TypeOK' /\ [Next]_vars => IInv'
  BY CallStep, LoginStep
<1>3. IInv => OneLoginPerPoll
  BY DEF LoginInv, OneLoginPerPoll
<1> QED
  BY <1>1, <1>2, <1>3, TypeCorrect, PTL DEF Spec

LEMMA PolledCorrect == Spec => []Polled
<1>1. Init => Polled
  BY DEF Init, Polled, Calling
<1>2. TypeOK /\ Polled /\ [Next]_vars => Polled'
  BY PolledStep
<1> QED
  BY <1>1, <1>2, TypeCorrect, PTL DEF Spec

\* What setup_sync may lose.
OrphansCross ==
  [][orphaned' # orphaned
       => \E a \in crossed : Ready(a, "setup") /\ orphaned' = orphaned \cup {inst}]_vars

\* Every open session has an owner that will close it, whatever polls overlap: no login,
\* failed login, OTP challenge, cancellation or unload loses one, but for a setup_sync
\* that waited for the lock while another's began.
THEOREM NothingOrphaned == Spec => []NoOrphan /\ OrphansCross
<1> DEFINE IInv == TypeOK /\ Polled /\ CallInv /\ LockInv /\ VacantInv /\ NoOrphan
<1>1. Init /\ TypeOK /\ Polled => IInv
  BY CallInit
<1>2. IInv /\ TypeOK' /\ Polled' /\ [Next]_vars => IInv'
  BY CallStep, LockStep, VacantStep, OrphanStep DEF CallInv
<1>3. IInv => NoOrphan
  OBVIOUS
<1>4. IInv /\ [Next]_vars
        => [orphaned' # orphaned
              => \E a \in crossed : Ready(a, "setup") /\ orphaned' = orphaned \cup {inst}]_vars
  <2> SUFFICES ASSUME IInv, [Next]_vars, orphaned' # orphaned
               PROVE  \E a \in crossed : Ready(a, "setup") /\ orphaned' = orphaned \cup {inst}
    OBVIOUS
  <2> Polls \subseteq Actors
    BY DEF Actors
  <2>1. PICK a \in Actors : SetupBegin(a)
    BY RotatesOnly, PollHandsOver, EntryHandsOver
       DEF Next, JobStep, CloseBegin, CloseEnd, SetupOk, SetupMfa, SetupFails, history, CallInv, vars
  <2> QED
    BY <2>1 DEF SetupBegin, Ready, VacantInv
<1> HIDE DEF IInv
<1> QED
  BY <1>1, <1>2, <1>3, <1>4, TypeCorrect, PolledCorrect, PTL DEF Spec, OrphansCross

-----------------------------------------------------------------------------
(* The client implements Custody.                                          *)

\* What the client holds, and what is being closed, is open; a login that runs has a
\* session; what it has not created yet is untouched.
Alive ==
  /\ \A a \in Actors : Running(a, "setup") => inst # None
  /\ inst # None => Open(inst)
  /\ \A a \in Actors : Running(a, "close") /\ job[a].hon # None => Open(job[a].hon)
  /\ \A s \in Sessions : s > created => sess[s].st = "unused"

\* The session a running job is about.
LEMMA SetupEnds ==
  ASSUME TypeOK, LockInv, Alive, NEW a \in Actors, SetupOk(a) \/ SetupMfa(a) \/ SetupFails(a)
  PROVE  /\ inst \in Sessions /\ Open(inst) /\ created' = created
         /\ \A z \in Sessions \ {inst} : sess'[z] = sess[z]
         /\ \A b \in Actors : job'[b].stage = "wait"
<1>1. Running(a, "setup") /\ created' = created
  BY DEF SetupOk, SetupMfa, SetupFails
<1>2. inst \in Sessions /\ Open(inst)
  BY <1>1 DEF LockInv, Alive, TypeOK, None, Running
<1>3. \A z \in Sessions \ {inst} : sess'[z] = sess[z]
  BY <1>2 DEF SetupOk, SetupMfa, SetupFails, TypeOK
<1>4. \A b \in Actors \ {a} : job'[b] = job[b] /\ job[b].stage # "run"
  BY <1>1, RaisedJob DEF SetupOk, SetupMfa, SetupFails, LockInv, Running, TypeOK
<1>5. job'[a].stage = "wait"
  <2>1. CASE SetupOk(a)
    BY <2>1 DEF SetupOk, NoJob, TypeOK
  <2>2. ASSUME SetupRaised(a)  PROVE job'[a].stage = "wait"
    BY <2>2, RaisedJob DEF NoJob
  <2> QED
    BY <2>1, <2>2 DEF SetupMfa, SetupFails
<1>6. \A b \in Actors : job'[b].stage = "wait"
  BY <1>4, <1>5 DEF TypeOK, Job
<1> QED
  BY <1>1, <1>2, <1>3, <1>6

\* And what it is then.
LEMMA SetupLeaves ==
  ASSUME TypeOK, LockInv, Alive, NEW a \in Actors
  PROVE  /\ SetupOk(a) => inst' = inst /\ sess'[inst].st = "live"
         /\ SetupMfa(a) => inst' = inst /\ sess'[inst].st = "mfa"
         /\ SetupFails(a) => inst' = None /\ sess'[inst].st = "closed"
<1> HIDE DEF Session
<1>1. ASSUME SetupOk(a)  PROVE inst' = inst /\ sess'[inst].st = "live"
  <2>1. inst \in Sessions /\ sess[inst] \in Session
    BY <1>1, SetupEnds DEF TypeOK
  <2>2. PICK apps \in Inventories :
          sess' = [sess EXCEPT ![inst].st = "live", ![inst].apps = apps,
                               ![inst].tok = live', ![inst].notify = Rewired]
    BY <1>1 DEF SetupOk
  <2>3. sess'[inst].st = "live"
    BY <2>1, <2>2 DEF TypeOK, Session
  <2> QED
    BY <1>1, <2>3 DEF SetupOk
<1>2. ASSUME SetupMfa(a)  PROVE inst' = inst /\ sess'[inst].st = "mfa"
  <2>1. inst \in Sessions /\ sess[inst] \in Session
    BY <1>2, SetupEnds DEF TypeOK
  <2> QED
    BY <1>2, <2>1 DEF SetupMfa, TypeOK, Session, clientVars
<1>3. ASSUME SetupFails(a)  PROVE inst' = None /\ sess'[inst].st = "closed"
  <2>1. inst \in Sessions /\ sess[inst] \in Session
    BY <1>3, SetupEnds DEF TypeOK
  <2> QED
    BY <1>3, <2>1 DEF SetupFails, TypeOK, Session
<1> QED
  BY <1>1, <1>2, <1>3

LEMMA AliveKept ==
  ASSUME TypeOK, Alive, NEW a \in Actors, HandsOver(a), UNCHANGED <<inst, created>>, SameSessions
  PROVE  Alive'
<1>1. \A s \in Sessions : Open(s)' <=> Open(s)
  BY DEF SameSessions, Open
<1>2. \A b \in Actors : Running(b, "close")' => Running(b, "close") /\ job'[b] = job[b]
  BY DEF HandsOver, Running, NoJob
<1>3. \A b \in Actors : Running(b, "setup")' => Running(b, "setup")
  BY DEF HandsOver, Running, NoJob
<1>4. \A b \in Actors : job[b].hon \in Sessions \cup {None}
  BY DEF TypeOK, Job
<1>5. inst \in Sessions \cup {None}
  BY DEF TypeOK
<1>6. (inst # None => Open(inst))'
  BY <1>1, <1>5 DEF Alive
<1>7. \A b \in Actors : (Running(b, "close") /\ job[b].hon # None => Open(job[b].hon))'
  BY <1>1, <1>2, <1>4 DEF Alive
<1> QED
  BY <1>3, <1>6, <1>7 DEF Alive, SameSessions

LEMMA AliveStep ==
  ASSUME TypeOK, Polled, CallInv, LockInv, Alive, [Next]_vars
  PROVE  Alive'
<1> USE DEF Alive, Open
<1>1. ASSUME NEW a \in Actors, HandsOver(a), UNCHANGED <<inst, created>>, SameSessions  PROVE Alive'
  BY <1>1, AliveKept
<1>2. ASSUME NEW a \in Actors, CloseBegin(a)  PROVE Alive'
  BY <1>2 DEF CloseBegin, Ready, LockFree, Running, TypeOK, Job
<1>3. ASSUME NEW a \in Actors, CloseEnd(a)  PROVE Alive'
  <2>1. inst' = None /\ created' = created
    BY <1>3 DEF CloseEnd, LockInv, Running
  <2>2. \A b \in Actors : job'[b].stage # "run"
    BY <1>3, ClosedJob DEF CloseEnd, LockInv, Running, Waits, NoJob
  <2>3. \A s \in Sessions : s > created => sess'[s].st = "unused"
    BY <1>3 DEF CloseEnd, TypeOK, Session, None, Sessions
  <2> QED
    BY <2>1, <2>2, <2>3 DEF Running
<1>4. ASSUME NEW a \in Actors, SetupBegin(a)  PROVE Alive'
  <2>1. created' \in Sessions /\ created' = created + 1 /\ inst' = created'
    BY <1>4 DEF SetupBegin, TypeOK, Sessions
  <2>2. sess'[created'].st = "building"
    BY <1>4, <2>1 DEF SetupBegin, TypeOK, Unused
  <2>3. \A b \in Actors : ~Running(b, "close")'
    BY <1>4 DEF SetupBegin, Ready, LockFree, Running, TypeOK, Job
  <2>4. \A s \in Sessions : s > created' => sess'[s].st = "unused"
    BY <1>4, <2>1 DEF SetupBegin, TypeOK, Sessions
  <2>5. inst' # None
    BY <2>1 DEF None, Sessions
  <2> QED
    BY <2>1, <2>2, <2>3, <2>4, <2>5
<1>5. ASSUME NEW a \in Actors, SetupOk(a) \/ SetupMfa(a) \/ SetupFails(a)  PROVE Alive'
  <2>1. /\ inst \in Sessions /\ Open(inst) /\ created' = created
        /\ \A z \in Sessions \ {inst} : sess'[z] = sess[z]
        /\ \A b \in Actors : job'[b].stage = "wait"
    BY <1>5, SetupEnds
  <2>2. inst' = None \/ (inst' = inst /\ sess'[inst].st \in {"live", "mfa"})
    BY <1>5, SetupLeaves
  <2>3. \A s \in Sessions : s > created' => sess'[s].st = "unused"
    BY <2>1
  <2>4. (inst # None => Open(inst))'
    BY <2>2
  <2>5. \A b \in Actors : ~Running(b, "close")' /\ ~Running(b, "setup")'
    BY <2>1 DEF Running
  <2> QED
    BY <2>3, <2>4, <2>5
<1>6. CASE UNCHANGED vars
  BY <1>6 DEF vars, clientVars, Running
<1>7. Polls \subseteq Actors /\ Entry \in Actors
  BY DEF Actors
<1>8. ASSUME NEW s \in Sessions, RequestRotates(s)  PROVE Alive'
  <2>1. UNCHANGED <<inst, created, job>> /\ SameSessions
    BY <1>8, RotatesOnly
  <2> QED
    BY <1>1, <1>7, <2>1, KeptHandsOver
<1> QED
  BY <1>1, <1>2, <1>3, <1>4, <1>5, <1>6, <1>7, <1>8, PollHandsOver, EntryHandsOver
     DEF Next, JobStep, CallInv

LEMMA NoneIsNone == \A s \in Sessions : s # None
BY DEF None, Sessions

\* A step that neither moves a reference nor opens or closes anything is a stutter of
\* the abstract owner.
LEMMA KeptCustody ==
  ASSUME UNCHANGED inst, SameSessions  PROVE UNCHANGED Custodian!vars
BY DEF Custodian!vars, Where, SameSessions, Open

LEMMA CustodyStep ==
  ASSUME TypeOK, Polled, CallInv, LockInv, VacantInv, Alive, [Next]_vars
  PROVE  [Custodian!Next \/ \E a \in Actors : Overwrites(a)]_(Custodian!vars)
<1>1. ASSUME NEW a \in Actors, CloseBegin(a)  PROVE [Custodian!Next]_(Custodian!vars)
  <2>1. sess' = sess /\ inst' = None
    BY <1>1 DEF CloseBegin
  <2>2. CASE inst = None
    BY <2>1, <2>2, KeptCustody DEF SameSessions
  <2>3. CASE inst # None
    <3>1. inst \in Sessions /\ Open(inst)
      BY <2>3 DEF Alive, TypeOK
    <3>2. Where' = [Where EXCEPT ![inst] = "closing"] /\ Where[inst] = "kept"
      BY <2>1, <2>3, <3>1, NoneIsNone DEF Where, Open
    <3>3. Custodian!GiveUp(inst)
      BY <3>2 DEF Custodian!GiveUp, Custodian!Move
    <3> QED
      BY <3>1, <3>3 DEF Custodian!Next
  <2> QED
    BY <2>2, <2>3
<1>2. ASSUME NEW a \in Actors, CloseEnd(a)  PROVE [Custodian!Next]_(Custodian!vars)
  <2> DEFINE s == job[a].hon
  <2>1. inst = None /\ inst' = None
    BY <1>2 DEF CloseEnd, LockInv, Running
  <2>2. CASE s = None
    BY <1>2, <2>1, <2>2, KeptCustody DEF CloseEnd, SameSessions
  <2>3. CASE s # None
    <3>1. s \in Sessions /\ Open(s)
      BY <1>2, <2>3 DEF CloseEnd, Alive, TypeOK, Job
    <3>2. (\A z \in Sessions \ {s} : sess'[z] = sess[z]) /\ sess'[s].st = "closed"
      BY <1>2, <2>3, <3>1 DEF CloseEnd, TypeOK, Session
    <3>3. Where' = [Where EXCEPT ![s] = "gone"] /\ Where[s] = "closing"
      BY <2>1, <2>3, <3>1, <3>2 DEF Where, Open
    <3>4. Custodian!Close(s)
      BY <3>3 DEF Custodian!Close, Custodian!Move
    <3> QED
      BY <3>1, <3>4 DEF Custodian!Next
  <2> QED
    BY <2>2, <2>3
<1>3. ASSUME NEW a \in Actors, SetupBegin(a)  PROVE Custodian!Next \/ Overwrites(a)
  <2> DEFINE s == created'
  <2>1. s \in Sessions /\ sess[s].st = "unused" /\ inst' = s
    BY <1>3 DEF SetupBegin, Alive, TypeOK, Sessions
  <2>2. (\A z \in Sessions \ {s} : sess'[z] = sess[z]) /\ sess'[s].st = "building"
    BY <1>3, <2>1 DEF SetupBegin, TypeOK, Unused
  <2>3. CASE inst = None
    <3>1. Where' = [Where EXCEPT ![s] = "kept"] /\ Where[s] = "fresh"
      BY <2>1, <2>2, <2>3, NoneIsNone DEF Where, Open
    <3>2. Custodian!NothingKept
      BY <2>3, NoneIsNone DEF Custodian!NothingKept, Where, Open
    <3>3. Custodian!Keep(s)
      BY <3>1, <3>2 DEF Custodian!Keep, Custodian!Move
    <3> QED
      BY <2>1, <3>3 DEF Custodian!Next
  <2>4. CASE inst # None
    <3>1. inst \in Sessions /\ Open(inst) /\ inst # s
      BY <2>1, <2>4 DEF Alive, Open, TypeOK
    <3>2. Where' = [Where EXCEPT ![inst] = "closing", ![s] = "kept"]
      BY <2>1, <2>2, <3>1 DEF Where, Open
    <3>3. a \in crossed /\ Ready(a, "setup") /\ Running(a, "setup")'
      BY <1>3, <2>4 DEF SetupBegin, Ready, Running, VacantInv, TypeOK, Job
    <3> QED
      BY <2>1, <2>4, <3>2, <3>3 DEF Overwrites
  <2> QED
    BY <2>3, <2>4
<1>4. ASSUME NEW a \in Actors, SetupOk(a) \/ SetupMfa(a)  PROVE UNCHANGED Custodian!vars
  <2>1. inst \in Sessions /\ Open(inst) /\ \A z \in Sessions \ {inst} : sess'[z] = sess[z]
    BY <1>4, SetupEnds
  <2>2. inst' = inst /\ sess'[inst].st \in {"live", "mfa"}
    BY <1>4, SetupLeaves
  <2>3. Where' = Where
    BY <2>1, <2>2 DEF Where, Open
  <2> QED
    BY <2>3 DEF Custodian!vars
<1>5. ASSUME NEW a \in Actors, SetupFails(a)  PROVE Custodian!Next
  <2>1. inst \in Sessions /\ Open(inst) /\ \A z \in Sessions \ {inst} : sess'[z] = sess[z]
    BY <1>5, SetupEnds
  <2>2. inst' = None /\ sess'[inst].st = "closed"
    BY <1>5, SetupLeaves
  <2>3. Where' = [Where EXCEPT ![inst] = "gone"] /\ Where[inst] = "kept"
    <3>1. Where[inst] = "kept" /\ Where'[inst] = "gone"
      BY <2>1, <2>2 DEF Where, Open
    <3> QED
      BY <2>1, <2>2, <3>1, NoneIsNone DEF Where, Open
  <2>4. Custodian!Close(inst)
    BY <2>3 DEF Custodian!Close, Custodian!Move
  <2> QED
    BY <2>1, <2>4 DEF Custodian!Next
<1>6. CASE UNCHANGED vars
  BY <1>6, KeptCustody DEF vars, clientVars, SameSessions
<1>7. ASSUME NEW s \in Sessions, RequestRotates(s)  PROVE UNCHANGED Custodian!vars
  BY <1>7, RotatesOnly, KeptCustody
<1> QED
  BY <1>1, <1>2, <1>3, <1>4, <1>5, <1>6, <1>7, KeptCustody, PollHandsOver, EntryHandsOver
     DEF Next, JobStep, CallInv

\* The client is an owner as Custody says, whatever polls overlap: setup, every
\* re-authentication and the unload give a session up before they close it, and never
\* take up a closed one; a login that begins with a session still kept is one that
\* crossed another.
THEOREM ClientInCustody == Spec => SessionInCustody
<1> DEFINE IInv == CallInv /\ LockInv /\ VacantInv /\ Alive
<1>1. Init => IInv /\ Custodian!Init
  <2> SUFFICES ASSUME Init  PROVE Alive /\ Custodian!Init
    BY CallInit
  <2>1. \A s \in Sessions : sess[s].st = "unused"
    BY DEF Init, Unused
  <2>2. inst = None /\ \A a \in Actors : job[a].stage = "wait"
    BY DEF Init, NoJob
  <2>3. Alive
    BY <2>1, <2>2 DEF Alive, Running
  <2>4. Where = [s \in Sessions |-> "fresh"]
    BY <2>1 DEF Where
  <2> QED
    BY <2>3, <2>4 DEF Custodian!Init
<1>2. TypeOK /\ Polled /\ IInv /\ [Next]_vars => IInv'
  BY CallStep, LockStep, VacantStep, AliveStep DEF CallInv
<1>3. TypeOK /\ Polled /\ IInv /\ [Next]_vars
        => [Custodian!Next \/ \E a \in Actors : Overwrites(a)]_(Custodian!vars)
  BY CustodyStep DEF CallInv
<1> HIDE DEF IInv
<1> QED
  BY <1>1, <1>2, <1>3, TypeCorrect, PolledCorrect, PTL DEF Spec, SessionInCustody

-----------------------------------------------------------------------------
(* What a poll reads.                                                      *)

\* A session whose login is over.
SetUp(s) == s \in Sessions /\ sess[s].st \in {"live", "closed"}

\* A login that runs is that of the session the client holds, and what polls read has
\* been set up.
SetUpInv ==
  /\ \A a \in Actors : Running(a, "setup") => sess[inst].st = "building"
  /\ api # None => SetUp(api)

\* Every appliance of the session a poll has read is to be updated, was skipped, or was
\* updated with that session; none is skipped before a first poll has succeeded.
LooksWell(p) ==
  /\ SetUp(poll[p].s)
  /\ \A d \in poll[p].got : d[2] = poll[p].s
  /\ \A x \in Appliances :
       (x \in sess[poll[p].s].apps)
         <=> (x \in poll[p].todo \/ x \in poll[p].failed \/ <<x, poll[p].s>> \in poll[p].got)
  /\ poll[p].failed # {} => firstDone

LookInv == \A p \in Polls : poll[p].pc = "update" => LooksWell(p)

LEMMA NoneAside ==
  /\ \A p \in Polls : PollStart(p) \/ PollStep(p) \/ PollCancelled(p) => UNCHANGED <<api, loop, notify>>
  /\ FirstRefreshed \/ Unload \/ Detach => UNCHANGED <<api, loop, seed, firstDone, data, stored>>
BY ZenonT(60) DEF PollStart, PollStep, PollCancelled, List, Return, UpdateOk, UpdateTransient, UpdateFails,
       UpdateRejected, FirstRefreshed, Unload, Detach, clientVars, haVars

\* What a close does to a session.
LEMMA CloseEndSession ==
  ASSUME TypeOK, NEW a \in Actors, CloseEnd(a), NEW s \in Sessions
  PROVE  /\ sess'[s].apps = sess[s].apps /\ sess'[s].notify = sess[s].notify
         /\ s = job[a].hon => sess'[s].st = "closed"
         /\ s # job[a].hon => sess'[s].st = sess[s].st
<1>1. sess[s] \in Session /\ s # None
  BY NoneIsNone DEF TypeOK
<1>2. CASE s = job[a].hon
  <2>1. sess'[s] = [sess[s] EXCEPT !.st = "closed", !.tok = NoToken]
    BY <1>1, <1>2 DEF CloseEnd, TypeOK
  <2> QED
    BY <1>1, <1>2, <2>1 DEF Session
<1>3. CASE s # job[a].hon
  BY <1>3 DEF CloseEnd, TypeOK
<1> QED
  BY <1>2, <1>3

\* What a subscription does to a session.
LEMMA SubscribeSession ==
  ASSUME TypeOK, NEW wanted \in BOOLEAN, Subscribe(wanted), NEW s \in Sessions
  PROVE  /\ sess'[s].apps = sess[s].apps /\ sess'[s].tok = sess[s].tok /\ sess'[s].st = sess[s].st
         /\ s = inst => sess'[s].notify = wanted
         /\ s # inst => sess'[s].notify = sess[s].notify
<1>1. sess[s] \in Session /\ s # None
  BY NoneIsNone DEF TypeOK
<1>2. CASE s = inst
  <2>1. sess'[s] = [sess[s] EXCEPT !.notify = wanted]
    BY <1>1, <1>2 DEF Subscribe, TypeOK
  <2> QED
    BY <1>1, <1>2, <2>1 DEF Session
<1>3. CASE s # inst
  BY <1>3 DEF Subscribe, TypeOK
<1> QED
  BY <1>2, <1>3

\* A step of a poll does nothing to the sessions.
LEMMA PolledSession ==
  ASSUME NEW p \in Polls, PollStart(p) \/ PollStep(p) \/ PollCancelled(p)
  PROVE  sess' = sess
BY DEF PollStart, PollStep, PollCancelled, List, Return, UpdateOk, UpdateTransient, UpdateFails,
       UpdateRejected

\* The session of a login that begins, and of one that succeeds.
LEMMA SetupBeginSession ==
  ASSUME TypeOK, Alive, NEW a \in Actors, SetupBegin(a)
  PROVE  /\ inst' \in Sessions /\ sess[inst'].st = "unused"
         /\ sess'[inst'].st = "building" /\ ~sess'[inst'].notify /\ sess'[inst'].tok = NoToken
         /\ \A s \in Sessions \ {inst'} : sess'[s] = sess[s]
<1>1. inst' = created + 1 /\ created + 1 \in Sessions
  BY DEF SetupBegin, TypeOK, Sessions
<1>2. sess' = [sess EXCEPT ![inst'] = [Unused EXCEPT !.st = "building"]]
  BY DEF SetupBegin
<1>3. sess[inst'].st = "unused"
  BY <1>1 DEF Alive, TypeOK
<1> QED
  BY <1>1, <1>2, <1>3 DEF TypeOK, Unused

LEMMA SetupOkSession ==
  ASSUME TypeOK, LockInv, Alive, NEW a \in Actors, SetupOk(a)
  PROVE  /\ inst' = inst /\ inst \in Sessions /\ api' = inst /\ UNCHANGED notify
         /\ sess'[inst].st = "live" /\ sess'[inst].tok = live' /\ sess'[inst].notify = notify
<1>1. inst \in Sessions
  BY SetupEnds
<1>2. PICK apps \in Inventories :
        sess' = [sess EXCEPT ![inst].st = "live", ![inst].apps = apps,
                             ![inst].tok = live', ![inst].notify = Rewired]
  BY DEF SetupOk
<1>3. sess[inst] \in Session
  BY <1>1 DEF TypeOK
<1>4. sess'[inst] = [sess[inst] EXCEPT !.st = "live", !.apps = apps, !.tok = live', !.notify = Rewired]
  BY <1>1, <1>2 DEF TypeOK
<1>5. sess'[inst].st = "live" /\ sess'[inst].tok = live' /\ sess'[inst].notify = notify
  BY <1>3, <1>4 DEF Session, Rewired
<1> QED
  BY <1>1, <1>5 DEF SetupOk

\* A session that was set up stays so, with the same appliances.
LEMMA SetUpStays ==
  ASSUME TypeOK, Polled, LockInv, Alive, SetUpInv, [Next]_vars, NEW s \in Sessions, SetUp(s)
  PROVE  SetUp(s)' /\ sess'[s].apps = sess[s].apps
<1> USE DEF SetUp
<1>1. ASSUME NEW a \in Actors, CloseBegin(a)  PROVE sess'[s] = sess[s]
  BY <1>1 DEF CloseBegin
<1>2. ASSUME NEW a \in Actors, CloseEnd(a)
      PROVE  sess'[s].st \in {"live", "closed"} /\ sess'[s].apps = sess[s].apps
  BY <1>2, CloseEndSession
<1>3. ASSUME NEW a \in Actors, SetupBegin(a)  PROVE sess'[s] = sess[s]
  BY <1>3, SetupBeginSession
<1>4. ASSUME NEW a \in Actors, SetupOk(a) \/ SetupMfa(a) \/ SetupFails(a)  PROVE sess'[s] = sess[s]
  BY <1>4, SetupEnds DEF SetUpInv, SetupOk, SetupMfa, SetupFails
<1>5. ASSUME NEW p \in Polls, PollStart(p) \/ PollStep(p) \/ PollCancelled(p)
      PROVE  sess'[s].st = sess[s].st /\ sess'[s].apps = sess[s].apps
  BY <1>5, PolledSession
<1>6. CASE FirstRefreshed \/ Unload \/ Detach
  BY <1>6, SubscribeSession DEF FirstRefreshed, Unload, Detach
<1>7. CASE UNCHANGED vars
  BY <1>7 DEF vars
<1>8. ASSUME NEW t \in Sessions, RequestRotates(t)
      PROVE  sess'[s].st = sess[s].st /\ sess'[s].apps = sess[s].apps
  <2>1. \A z \in Sessions : sess'[z].st = sess[z].st
    BY <1>8, RotatesOnly
  <2>2. \A z \in Sessions : sess'[z].apps = sess[z].apps
    BY <1>8, RotatesOnly
  <2> QED
    BY <2>1, <2>2
<1> QED
  BY <1>1, <1>2, <1>3, <1>4, <1>5, <1>6, <1>7, <1>8 DEF Next, JobStep

LEMMA SetUpStep ==
  ASSUME TypeOK, Polled, CallInv, LockInv, Alive, SetUpInv, [Next]_vars
  PROVE  SetUpInv'
<1>1. TypeOK => api \in Sessions \cup {None}
  BY DEF TypeOK
<1>2. ASSUME UNCHANGED api  PROVE (api # None => SetUp(api))'
  BY <1>1, <1>2, SetUpStays DEF SetUpInv
<1>3. ASSUME NEW a \in Actors, HandsOver(a), UNCHANGED <<inst, api>>, SameSessions  PROVE SetUpInv'
  <2>1. \A b \in Actors : Running(b, "setup")' => Running(b, "setup")
    BY <1>3 DEF HandsOver, Running, NoJob
  <2>2. \A b \in Actors : Running(b, "setup") => sess'[inst].st = sess[inst].st
    BY <1>3 DEF SameSessions, Alive, TypeOK
  <2> QED
    BY <1>2, <1>3, <2>1, <2>2 DEF SetUpInv
<1>4. ASSUME NEW a \in Actors, CloseBegin(a)  PROVE SetUpInv'
  BY <1>4 DEF CloseBegin, Ready, LockFree, Running, SetUpInv, TypeOK, Job
<1>5. ASSUME NEW a \in Actors, CloseEnd(a)  PROVE SetUpInv'
  <2>1. \A b \in Actors : job'[b].stage # "run"
    BY <1>5, ClosedJob DEF CloseEnd, LockInv, Running, Waits, NoJob
  <2> QED
    BY <1>2, <1>5, <2>1 DEF CloseEnd, Running, SetUpInv
<1>6. ASSUME NEW a \in Actors, SetupBegin(a)  PROVE SetUpInv'
  <2>1. UNCHANGED api
    BY <1>6 DEF SetupBegin
  <2> QED
    BY <1>2, <1>6, <2>1, SetupBeginSession DEF SetUpInv
<1>7. ASSUME NEW a \in Actors, SetupOk(a) \/ SetupMfa(a) \/ SetupFails(a)  PROVE SetUpInv'
  <2>1. \A b \in Actors : ~Running(b, "setup")'
    BY <1>7, SetupEnds DEF Running
  <2>2. CASE SetupOk(a)
    BY <2>1, <2>2, SetupOkSession DEF SetUpInv, SetUp
  <2>3. CASE SetupMfa(a)
    BY <1>2, <2>1, <2>3 DEF SetupMfa, clientVars, SetUpInv
  <2>4. CASE SetupFails(a)
    BY <2>1, <2>4 DEF SetupFails, SetUpInv
  <2> QED
    BY <1>7, <2>2, <2>3, <2>4
<1>8. CASE UNCHANGED vars
  BY <1>8 DEF vars, clientVars, Running, SetUpInv, SetUp
<1>9. Polls \subseteq Actors /\ Entry \in Actors
  BY DEF Actors
<1>10. ASSUME NEW s \in Sessions, RequestRotates(s)  PROVE SetUpInv'
  <2>1. UNCHANGED <<inst, api, job>> /\ SameSessions
    BY <1>10, RotatesOnly
  <2> QED
    BY <1>3, <1>9, <2>1, KeptHandsOver
<1> QED
  BY <1>3, <1>4, <1>5, <1>6, <1>7, <1>8, <1>9, <1>10, PollHandsOver, EntryHandsOver, NoneAside
     DEF Next, JobStep, CallInv

\* The locals of a poll that updates appliances are left alone.
SameLook(p) ==
  /\ poll'[p].pc = poll[p].pc /\ poll'[p].s = poll[p].s /\ poll'[p].todo = poll[p].todo
  /\ poll'[p].got = poll[p].got /\ poll'[p].failed = poll[p].failed

\* No job touches them, nor the entry.
LEMMA JobLeavesLooks ==
  ASSUME TypeOK, NEW p \in Polls, poll'[p].pc = "update",
         (\E a \in Actors : JobStep(a)) \/ FirstRefreshed \/ Unload \/ Detach
  PROVE  SameLook(p)
<1> USE DEF SameLook
<1>1. ASSUME NEW a \in Actors, CloseEnd(a)  PROVE SameLook(p)
  <2>1. CASE a \in Polls /\ Raise(a)
    BY <2>1, RaiseIs
  <2>2. CASE a \in Polls /\ poll' = [poll EXCEPT ![a].pc = "setup"]
    BY <2>2 DEF TypeOK, Poll
  <2> QED
    BY <1>1, <2>1, <2>2 DEF CloseEnd, Closed
<1>2. ASSUME NEW a \in Actors, SetupBegin(a)  PROVE SameLook(p)
  BY <1>2 DEF SetupBegin, TypeOK, Poll
<1>3. ASSUME NEW a \in Actors, SetupOk(a)  PROVE SameLook(p)
  BY <1>3 DEF SetupOk, Calling, TypeOK, Poll
<1>4. ASSUME NEW a \in Actors, SetupRaised(a)  PROVE SameLook(p)
  BY <1>4 DEF SetupRaised, EntryRaised, TypeOK, Poll
<1>5. CASE UNCHANGED poll
  BY <1>5
<1>6. ASSUME NEW a \in Actors, CloseBegin(a)  PROVE UNCHANGED poll
  BY <1>6 DEF CloseBegin
<1>7. FirstRefreshed \/ Unload \/ Detach => UNCHANGED poll
  BY DEF FirstRefreshed, Unload, Detach
<1> QED
  BY <1>1, <1>2, <1>3, <1>4, <1>5, <1>6, <1>7 DEF JobStep, SetupMfa, SetupFails

\* Nor the other polls.
LEMMA OtherPolls ==
  ASSUME TypeOK, NEW p \in Polls, PollStart(p) \/ PollStep(p) \/ PollCancelled(p)
  PROVE  \A b \in Polls \ {p} : poll'[b] = poll[b]
BY DEF PollStart, PollStep, PollCancelled, List, Return, UpdateOk, UpdateTransient, UpdateFails,
       UpdateRejected, Skip, Fetch, Reauth, Raise, Leave, TypeOK

\* A poll that asks for the appliances reads the client's session, or does not update.
LEMMA FetchLooks ==
  ASSUME TypeOK, NEW p \in Polls, NEW q \in Poll, Fetch(p, q), poll'[p].pc = "update"
  PROVE  /\ api # None /\ poll'[p].s = api /\ poll'[p].todo = sess[api].apps
         /\ poll'[p].got = {} /\ poll'[p].failed = {} /\ poll'[p].reauthed = q.reauthed
<1>1. CASE Reauth(p, q) \/ Raise(p)
  BY <1>1, ReauthIs, RaiseIs
<1>2. CASE api # None /\ poll' = [poll EXCEPT ![p] =
             [q EXCEPT !.pc = "update", !.s = api, !.todo = sess[api].apps,
                       !.got = {}, !.failed = {}, !.att = 0]]
  <2>1. poll'[p] = [q EXCEPT !.pc = "update", !.s = api, !.todo = sess[api].apps,
                             !.got = {}, !.failed = {}, !.att = 0]
    BY <1>2 DEF TypeOK
  <2>2. poll'[p].s = api
    BY <2>1 DEF Poll
  <2>3. poll'[p].todo = sess[api].apps
    BY <2>1 DEF Poll
  <2>4. poll'[p].got = {} /\ poll'[p].failed = {}
    BY <2>1 DEF Poll
  <2>5. poll'[p].reauthed = q.reauthed
    BY <2>1 DEF Poll
  <2> QED
    BY <1>2, <2>2, <2>3, <2>4, <2>5
<1> QED
  BY <1>1, <1>2 DEF Fetch

\* A poll that starts or asks again has read nothing else.
LEMMA NewLook ==
  ASSUME TypeOK, SetUpInv, NEW p \in Polls, PollStart(p) \/ List(p), poll'[p].pc = "update"
  PROVE  /\ SetUp(api) /\ poll'[p].s = api /\ poll'[p].todo = sess[api].apps
         /\ poll'[p].got = {} /\ poll'[p].failed = {}
         /\ UNCHANGED sess
<1>1. PICK q \in Poll : Fetch(p, q)
  BY CallingTypes DEF PollStart, List, TypeOK
<1> QED
  BY <1>1, FetchLooks DEF PollStart, List, SetUpInv

\* An appliance is updated, skipped, or kept for another attempt.
LEMMA UpdateLooks ==
  ASSUME TypeOK, NEW p \in Polls, NEW x \in Appliances,
         UpdateOk(p, x) \/ UpdateTransient(p, x) \/ UpdateFails(p, x) \/ UpdateRejected(p, x),
         poll'[p].pc = "update"
  PROVE  \/ SameLook(p)
         \/ /\ poll'[p].s = poll[p].s /\ poll'[p].todo = poll[p].todo \ {x} /\ x \in poll[p].todo
            /\ \/ poll'[p].got = poll[p].got \cup {<<x, poll[p].s>>} /\ poll'[p].failed = poll[p].failed
               \/ /\ poll'[p].failed = poll[p].failed \cup {x} /\ poll'[p].got = poll[p].got
                  /\ firstDone
<1> USE DEF SameLook
<1>1. poll[p] \in Poll /\ poll[p].pc = "update" /\ x \in poll[p].todo
  BY DEF TypeOK, UpdateOk, UpdateTransient, UpdateFails, UpdateRejected, Updating
<1>2. CASE UpdateOk(p, x)
  <2>1. poll'[p] = [poll[p] EXCEPT !.todo = @ \ {x}, !.got = @ \cup {<<x, poll[p].s>>}, !.att = 0]
    BY <1>2 DEF UpdateOk, TypeOK, Poll
  <2> QED
    BY <1>1, <2>1 DEF Poll
<1>3. CASE Skip(p, x)
  <2>1. firstDone
    BY <1>3, RaiseIs DEF Skip
  <2>2. poll'[p] = [poll[p] EXCEPT !.todo = @ \ {x}, !.failed = @ \cup {x}, !.att = 0]
    BY <1>3, <2>1 DEF Skip, TypeOK, Poll
  <2> QED
    BY <1>1, <2>1, <2>2 DEF Poll
<1>4. CASE poll' = [poll EXCEPT ![p].att = @ + 1]
  BY <1>1, <1>4 DEF TypeOK, Poll
<1>5. CASE UpdateRejected(p, x)
  BY <1>5, RaiseIs, ReauthIs DEF UpdateRejected
<1> QED
  BY <1>2, <1>3, <1>4, <1>5 DEF UpdateTransient, UpdateFails

\* The first success is never forgotten.
LEMMA FirstDoneStays == ASSUME [Next]_vars, firstDone  PROVE firstDone'
BY ZenonT(60) DEF Next, JobStep, PollStep, RequestRotates, CloseBegin, CloseEnd, SetupBegin, SetupOk, SetupMfa, SetupFails,
       PollStart, PollCancelled, List, Return, UpdateOk, UpdateTransient, UpdateFails, UpdateRejected,
       FirstRefreshed, Unload, Detach, vars, clientVars

LEMMA LookKept ==
  ASSUME TypeOK, Polled, LockInv, Alive, SetUpInv, [Next]_vars, NEW p \in Polls, LooksWell(p), SameLook(p)
  PROVE  LooksWell(p)'
<1>1. SetUp(poll[p].s) /\ poll[p].s \in Sessions
  BY DEF LooksWell, SetUp
<1>2. SetUp(poll[p].s)' /\ sess'[poll[p].s].apps = sess[poll[p].s].apps
  BY <1>1, SetUpStays DEF SameLook, SetUp
<1> QED
  BY <1>1, <1>2, FirstDoneStays DEF LooksWell, SameLook

LEMMA LookStep ==
  ASSUME TypeOK, Polled, LockInv, Alive, SetUpInv, LookInv, [Next]_vars
  PROVE  LookInv'
<1> SUFFICES ASSUME NEW p \in Polls, poll'[p].pc = "update"  PROVE LooksWell(p)'
  BY DEF LookInv
<1>1. CASE SameLook(p)
  BY <1>1, LookKept DEF LookInv, SameLook
<1>2. CASE PollStart(p) \/ List(p)
  BY <1>2, NewLook DEF LooksWell, SetUp
<1>3. CASE Return(p) \/ PollCancelled(p)
  BY <1>3, RaiseIs, LeaveIs DEF Return, PollCancelled
<1>4. ASSUME NEW x \in Appliances, ~SameLook(p),
             UpdateOk(p, x) \/ UpdateTransient(p, x) \/ UpdateFails(p, x) \/ UpdateRejected(p, x)
      PROVE  LooksWell(p)'
  <2>0. PICK s : s = poll[p].s
    OBVIOUS
  <2>1. LooksWell(p) /\ s \in Sessions
    BY <1>4, <2>0 DEF LookInv, LooksWell, SetUp, UpdateOk, UpdateTransient, UpdateFails, UpdateRejected, Updating
  <2>2. poll'[p].s = s /\ SetUp(s)' /\ sess'[s].apps = sess[s].apps
    BY <1>4, <2>0, <2>1, UpdateLooks, SetUpStays DEF LooksWell, SetUp
  <2>3. firstDone => firstDone'
    BY FirstDoneStays
  <2>4. poll'[p].failed # {} => firstDone'
    BY <1>4, <2>1, <2>3, UpdateLooks DEF LooksWell
  <2>5. \A d \in poll'[p].got : d[2] = s
    BY <1>4, <2>0, <2>1, UpdateLooks DEF LooksWell
  <2>6. \A z \in Appliances :
          (z \in sess'[s].apps) <=> (z \in poll'[p].todo \/ z \in poll'[p].failed \/ <<z, s>> \in poll'[p].got)
    BY <1>4, <2>0, <2>1, <2>2, UpdateLooks DEF LooksWell
  <2> QED
    BY <2>2, <2>4, <2>5, <2>6 DEF LooksWell
<1>5. CASE UNCHANGED vars
  BY <1>1, <1>5 DEF vars, SameLook
<1>6. ASSUME NEW b \in Polls \ {p}, PollStart(b) \/ PollStep(b) \/ PollCancelled(b)  PROVE SameLook(p)
  BY <1>6, OtherPolls DEF SameLook
<1>7. CASE (\E a \in Actors : JobStep(a)) \/ FirstRefreshed \/ Unload \/ Detach
  BY <1>1, <1>7, JobLeavesLooks
<1>8. ASSUME NEW s \in Sessions, RequestRotates(s)  PROVE SameLook(p)
  BY <1>8, RotatesOnly DEF SameLook
<1> QED
  BY <1>1, <1>2, <1>3, <1>4, <1>5, <1>6, <1>7, <1>8 DEF Next, PollStep

-----------------------------------------------------------------------------
(* The first snapshot.                                                     *)

\* Until the entry is loaded only its first refresh polls; it has succeeded when a first
\* poll is said to have, and what it has published is every appliance of one session.
FirstInv ==
  /\ entry \in {"setup", "first"} =>
       /\ \A p \in Polls \ {FirstRefresh} : poll[p].pc = "idle" /\ job[p] = NoJob
       /\ firstDone => poll[FirstRefresh].pc = "idle"
  /\ entry = "setup" => ~firstDone
  /\ entry = "first" /\ poll[FirstRefresh].pc = "idle" /\ poll[FirstRefresh].out = "ok"
       => \E s \in Sessions : SetUp(s) /\ data = sess[s].apps \X {s}

\* What a job does to the polls, in the words of FirstInv.
LEMMA JobPolls ==
  ASSUME TypeOK, CallInv, NEW a \in Actors, JobStep(a), NEW b \in Polls
  PROVE  /\ UNCHANGED <<data, firstDone>>
         /\ \A c \in Actors \ {a} : job'[c] = job[c]
         /\ job[a] # NoJob
         /\ entry' = "first" => entry = "first" \/ (entry = "setup" /\ poll'[FirstRefresh].pc = "list")
         /\ entry' = "setup" => entry = "setup"
         /\ poll[b].pc = "idle" => \/ poll'[b].pc = "idle" /\ poll'[b].out = poll[b].out
                                   \/ b = FirstRefresh /\ entry = "setup" /\ entry' = "first"
         /\ poll'[b].pc = "idle" /\ poll'[b].out = "ok" => poll[b].pc = "idle" /\ poll[b].out = "ok"
<1> USE DEF NoJob
<1>1. CASE CloseBegin(a)
  BY <1>1 DEF CloseBegin, Ready, TypeOK, haVars
<1>2. CASE CloseEnd(a)
  <2>1. UNCHANGED <<data, firstDone>> /\ job[a] # NoJob /\ \A c \in Actors \ {a} : job'[c] = job[c]
    BY <1>2, ClosedJob DEF CloseEnd, Running
  <2>2. entry' = entry \/ entry' = "detaching"
    BY <1>2 DEF CloseEnd, Closed
  <2>3. poll'[b] = poll[b] \/ (poll[b].pc # "idle" /\ (poll'[b].pc # "idle" \/ poll'[b].out # "ok"))
    <3>1. CASE a \in Polls /\ poll[a].pc # "idle" /\ Raise(a)
      BY <3>1, RaiseIs
    <3>2. CASE a \in Polls /\ poll[a].pc = "close" /\ poll' = [poll EXCEPT ![a].pc = "setup"]
      BY <3>2 DEF TypeOK, Poll
    <3> QED
      BY <1>2, <3>1, <3>2 DEF CloseEnd, Closed
  <2> QED
    BY <2>1, <2>2, <2>3
<1>3. CASE SetupBegin(a)
  <2>1. poll'[b].pc = poll[b].pc /\ poll'[b].out = poll[b].out
    BY <1>3 DEF SetupBegin, TypeOK, Poll
  <2> QED
    BY <1>3, <2>1 DEF SetupBegin, Ready, TypeOK, haVars
<1>4. CASE SetupOk(a)
  <2>1. UNCHANGED <<data, firstDone>> /\ job[a] # NoJob /\ \A c \in Actors \ {a} : job'[c] = job[c]
    BY <1>4 DEF SetupOk, Running, TypeOK
  <2>2. CASE a \in Polls /\ poll[a].pc = "setup"
             /\ poll' = [poll EXCEPT ![a].pc = "list", ![a].reauthed = TRUE] /\ UNCHANGED entry
    BY <2>1, <2>2 DEF TypeOK, Poll
  <2>3. CASE UNCHANGED <<poll, entry>>
    BY <2>1, <2>3
  <2>4. CASE a = Entry /\ entry' = "first" /\ poll' = [poll EXCEPT ![FirstRefresh] = Calling]
    <3>1. entry = "setup"
      BY <1>4, <2>4 DEF SetupOk, Running, CallInv, SetupInv
    <3>2. poll'[FirstRefresh].pc = "list" /\ (b # FirstRefresh => poll'[b] = poll[b])
      BY <2>4 DEF TypeOK, Calling
    <3> QED
      BY <2>1, <2>4, <3>1, <3>2
  <2> QED
    BY <1>4, <2>2, <2>3, <2>4 DEF SetupOk
<1>5. ASSUME Running(a, "setup"), SetupRaised(a), UNCHANGED <<data, firstDone>>
      PROVE  /\ UNCHANGED <<data, firstDone>> /\ job[a] # NoJob /\ \A c \in Actors \ {a} : job'[c] = job[c]
             /\ entry' = entry \/ entry' = "closing"
             /\ poll'[b] = poll[b] \/ (poll[b].pc # "idle" /\ poll'[b].pc # "idle")
  <2>1. poll'[b] = poll[b] \/ (poll[b].pc # "idle" /\ poll'[b].pc # "idle")
    BY <1>5 DEF SetupRaised, EntryRaised, TypeOK, Poll
  <2>2. entry' = entry \/ entry' = "closing"
    BY <1>5 DEF SetupRaised, EntryRaised
  <2> QED
    BY <1>5, <2>1, <2>2, RaisedJob DEF Running
<1>6. CASE SetupMfa(a) \/ SetupFails(a)
  <2>1. SetupRaised(a)
    BY <1>6 DEF SetupMfa, SetupFails
  <2>2. Running(a, "setup") /\ UNCHANGED <<data, firstDone>>
    BY <1>6 DEF SetupMfa, SetupFails, clientVars
  <2> QED
    BY <1>5, <2>1, <2>2
<1> QED
  BY <1>1, <1>2, <1>3, <1>4, <1>6 DEF JobStep

\* A call that returns its data has updated every appliance of its session, but those
\* it was allowed to skip.
LEMMA ReturnedLooks ==
  ASSUME TypeOK, LookInv, NEW p \in Polls, Return(p)
  PROVE  /\ SetUp(poll[p].s) /\ sess' = sess
         /\ \A d \in poll[p].got : d[2] = poll[p].s
         /\ poll[p].failed = {} => poll[p].got = sess[poll[p].s].apps \X {poll[p].s}
         /\ poll[p].failed # {} => firstDone
         /\ poll'[p].pc = "idle"
         /\ \/ poll'[p].out # "ok" /\ UNCHANGED <<data, firstDone>> /\ poll[p].failed # {}
            \/ /\ data' = poll[p].got /\ firstDone'
               /\ poll[p].got # {} \/ poll[p].failed = {}
<1>1. LooksWell(p) /\ poll[p].todo = {} /\ sess' = sess
  BY DEF Return, LookInv
<1>2. poll[p].got \subseteq Appliances \X Sessions /\ sess[poll[p].s].apps \subseteq Appliances
  BY <1>1 DEF LooksWell, SetUp, TypeOK, Poll, Session
<1>3. poll[p].failed = {} => poll[p].got = sess[poll[p].s].apps \X {poll[p].s}
  BY <1>1, <1>2 DEF LooksWell
<1>4. poll'[p].pc = "idle"
  BY RaiseIs, LeaveIs DEF Return
<1>5. CASE AllFailed(p)
  BY <1>1, <1>3, <1>4, <1>5, RaiseIs DEF Return, AllFailed, clientVars, LooksWell
<1>6. CASE ~AllFailed(p)
  BY <1>1, <1>3, <1>4, <1>6 DEF Return, AllFailed, LooksWell
<1> QED
  BY <1>5, <1>6

\* How a call of the first refresh may end.
LEMMA EndsOk ==
  ASSUME TypeOK, NEW p \in Polls, PollStep(p), ~Return(p), poll'[p].pc = "idle"
  PROVE  poll'[p].out # "ok" /\ UNCHANGED <<data, firstDone>>
<1>1. ASSUME NEW q \in Poll, Fetch(p, q)  PROVE poll'[p].out # "ok"
  <2>1. CASE Reauth(p, q) \/ Raise(p)
    BY <1>1, <2>1, ReauthIs, RaiseIs
  <2>2. CASE poll' = [poll EXCEPT ![p] = [q EXCEPT !.pc = "update", !.s = api, !.todo = sess[api].apps,
                                                   !.got = {}, !.failed = {}, !.att = 0]]
    <3>1. poll'[p].pc = "update"
      BY <2>2 DEF TypeOK, Poll
    <3> QED
      BY <3>1
  <2> QED
    BY <1>1, <2>1, <2>2 DEF Fetch
<1>2. CASE List(p)
  BY <1>1, <1>2 DEF List, TypeOK, clientVars, haVars
<1>3. ASSUME NEW x \in Appliances,
             UpdateOk(p, x) \/ UpdateTransient(p, x) \/ UpdateFails(p, x) \/ UpdateRejected(p, x)
      PROVE  poll'[p].out # "ok" /\ UNCHANGED <<data, firstDone>>
  <2>1. UNCHANGED <<data, firstDone>>
    BY <1>3 DEF UpdateOk, UpdateTransient, UpdateFails, UpdateRejected, clientVars, haVars
  <2>2. CASE Raise(p) \/ Reauth(p, poll[p])
    BY <2>1, <2>2, RaiseIs, ReauthIs
  <2>3. CASE ~(Raise(p) \/ Reauth(p, poll[p]))
    <3>1. poll'[p].pc = "update"
      BY <1>3, <2>3 DEF UpdateOk, UpdateTransient, UpdateFails, UpdateRejected, Updating, Skip,
                        TypeOK, Poll
    <3> QED
      BY <3>1
  <2> QED
    BY <2>2, <2>3
<1> QED
  BY <1>2, <1>3 DEF PollStep

\* What is published, and a first success, come from a call that returns.
LEMMA OnlyReturns ==
  ASSUME [Next]_vars, data' # data \/ firstDone' # firstDone
  PROVE  \E p \in Polls : Return(p)
BY ZenonT(60) DEF Next, JobStep, PollStep, CloseBegin, CloseEnd, SetupBegin, SetupOk, SetupMfa, SetupFails,
       RequestRotates, PollStart, PollCancelled, List, UpdateOk, UpdateTransient, UpdateFails, UpdateRejected,
       FirstRefreshed, Unload, Detach, vars, clientVars, haVars

LEMMA FirstStep ==
  ASSUME TypeOK, Polled, CallInv, LockInv, Alive, SetUpInv, LookInv, FirstInv, [Next]_vars
  PROVE  FirstInv'
<1>1. ASSUME UNCHANGED <<data, entry>>, entry = "first", poll[FirstRefresh].pc = "idle",
             poll[FirstRefresh].out = "ok"
      PROVE  \E s \in Sessions : SetUp(s)' /\ data' = sess'[s].apps \X {s}
  <2>1. PICK s \in Sessions : SetUp(s) /\ data = sess[s].apps \X {s}
    BY <1>1 DEF FirstInv
  <2> QED
    BY <1>1, <2>1, SetUpStays
<1>2. ASSUME NEW a \in Actors, JobStep(a)  PROVE FirstInv'
  <2>1. ASSUME NEW b \in Polls \ {FirstRefresh}, entry' \in {"setup", "first"}
        PROVE  poll'[b].pc = "idle" /\ job'[b] = NoJob
    BY <1>2, <2>1, JobPolls DEF FirstInv, Actors
  <2>2. entry' \in {"setup", "first"} /\ firstDone' => poll'[FirstRefresh].pc = "idle"
    BY <1>2, JobPolls DEF FirstInv
  <2>3. entry' = "setup" => ~firstDone'
    BY <1>2, JobPolls DEF FirstInv
  <2>4. ASSUME entry' = "first", poll'[FirstRefresh].pc = "idle", poll'[FirstRefresh].out = "ok"
        PROVE  \E s \in Sessions : SetUp(s)' /\ data' = sess'[s].apps \X {s}
    BY <1>1, <1>2, <2>4, JobPolls
  <2> QED
    BY <2>1, <2>2, <2>3, <2>4 DEF FirstInv
<1>3. ASSUME NEW p \in Polls, PollStart(p) \/ PollCancelled(p)  PROVE FirstInv'
  BY <1>3 DEF PollStart, PollCancelled, haVars, FirstInv
<1>7. ASSUME NEW s \in Sessions, RequestRotates(s)  PROVE FirstInv'
  <2>1. UNCHANGED <<entry, poll, job, firstDone, data>>
    BY <1>7, RotatesOnly
  <2> QED
    BY <1>1, <2>1 DEF FirstInv
<1>4. ASSUME NEW p \in Polls, PollStep(p)  PROVE FirstInv'
  <2>1. UNCHANGED entry /\ HandsOver(p)
    BY <1>4, PollHandsOver DEF CallInv
  <2> SUFFICES ASSUME entry \in {"setup", "first"}  PROVE FirstInv'
    BY <2>1 DEF FirstInv
  <2>2. poll[p].pc # "idle"
    BY <1>4 DEF PollStep, List, Return, UpdateOk, UpdateTransient, UpdateFails, UpdateRejected, Updating
  <2>3. p = FirstRefresh /\ entry = "first" /\ ~firstDone
    BY <2>2 DEF FirstInv, CallInv, SetupInv
  <2>4. \A b \in Polls \ {FirstRefresh} : poll'[b] = poll[b] /\ job'[b] = job[b]
    BY <1>4, <2>1, <2>3, OtherPolls DEF HandsOver, Actors
  <2>5. CASE Return(p)
    <3>1. poll[p].failed = {} /\ data' = sess[poll[p].s].apps \X {poll[p].s}
      BY <2>3, <2>5, ReturnedLooks
    <3>2. poll[p].s \in Sessions /\ SetUp(poll[p].s) /\ sess' = sess /\ poll'[p].pc = "idle"
      BY <2>5, ReturnedLooks DEF SetUp
    <3>3. \E s \in Sessions : SetUp(s)' /\ data' = sess'[s].apps \X {s}
      BY <3>1, <3>2 DEF SetUp
    <3> QED
      BY <2>1, <2>3, <2>4, <3>2, <3>3 DEF FirstInv
  <2>6. CASE ~Return(p)
    <3>1. ~firstDone'
      BY <1>4, <2>3, <2>6 DEF PollStep, List, UpdateOk, UpdateTransient, UpdateFails, UpdateRejected,
                              clientVars
    <3>2. poll'[p].pc = "idle" => poll'[p].out # "ok"
      BY <1>4, <2>6, EndsOk
    <3> QED
      BY <2>1, <2>3, <2>4, <3>1, <3>2 DEF FirstInv
  <2> QED
    BY <2>5, <2>6
<1>5. CASE FirstRefreshed \/ Unload \/ Detach
  <2>1. entry' \notin {"setup", "first"}
    BY <1>5 DEF FirstRefreshed, Unload, Detach
  <2> QED
    BY <2>1 DEF FirstInv
<1>6. CASE UNCHANGED vars
  BY <1>1, <1>6 DEF vars, haVars, clientVars, FirstInv
<1> QED
  BY <1>2, <1>3, <1>4, <1>5, <1>6, <1>7 DEF Next

\* What every run of the client keeps, however many polls overlap.
ReadInv == CallInv /\ LockInv /\ Alive /\ SetUpInv /\ LookInv /\ FirstInv

LEMMA ReadInit == Init => ReadInv
<1> SUFFICES ASSUME Init  PROVE ReadInv
  OBVIOUS
<1>1. CallInv /\ LockInv
  BY CallInit
<1>2. \A s \in Sessions : sess[s].st = "unused"
  BY DEF Init, Unused
<1>3. inst = None /\ api = None /\ ~firstDone /\ \A a \in Actors : job[a].stage = "wait"
  BY DEF Init, NoJob
<1>4. \A p \in Polls : poll[p].pc = "idle" /\ job[p] = NoJob
  BY DEF Init, Calling, Actors
<1>5. Alive
  BY <1>2, <1>3 DEF Alive, Running
<1>6. SetUpInv /\ LookInv
  BY <1>3, <1>4 DEF SetUpInv, LookInv, Running
<1>7. FirstInv
  BY <1>3, <1>4 DEF FirstInv, Init
<1> QED
  BY <1>1, <1>5, <1>6, <1>7 DEF ReadInv

LEMMA ReadStep ==
  ASSUME TypeOK, Polled, ReadInv, [Next]_vars  PROVE ReadInv'
BY CallStep, LockStep, AliveStep, SetUpStep, LookStep, FirstStep DEF ReadInv, CallInv

LEMMA ReadCorrect == Spec => []ReadInv
<1> USE ReadInit, ReadStep
<1>1. TypeOK /\ Polled /\ ReadInv /\ [Next]_vars => ReadInv'
  OBVIOUS
<1> QED
  BY <1>1, TypeCorrect, PolledCorrect, PTL DEF Spec

\* The platforms are set up with every appliance of the session the first refresh read,
\* however its calls are answered: one skipped appliance and the entry is not loaded.
THEOREM FirstSnapshot == Spec => FirstIsComplete
<1>1. ReadInv /\ TypeOK /\ [Next]_vars =>
        [entry = "first" /\ entry' = "loaded"
           => {d[1] : d \in data} = UNION {sess[s].apps : s \in {d[2] : d \in data}}]_vars
  <2> SUFFICES ASSUME ReadInv, TypeOK, [Next]_vars, entry = "first", entry' = "loaded"
               PROVE  {d[1] : d \in data} = UNION {sess[s].apps : s \in {d[2] : d \in data}}
    OBVIOUS
  <2>1. FirstRefreshed
    <3>1. ASSUME NEW a \in Actors, JobStep(a)  PROVE FALSE
      BY <3>1 DEF JobStep, CloseBegin, CloseEnd, Closed, SetupBegin, SetupOk, SetupMfa, SetupFails,
                  SetupRaised, EntryRaised, haVars
    <3>2. ASSUME NEW p \in Polls, PollStart(p) \/ PollStep(p) \/ PollCancelled(p)  PROVE FALSE
      BY <3>2 DEF PollStart, PollStep, PollCancelled, List, Return, UpdateOk,
              UpdateTransient, UpdateFails, UpdateRejected, haVars
    <3> QED
      BY <3>1, <3>2, RotatesOnly DEF Next, Unload, Detach, vars, haVars
  <2>2. PICK s \in Sessions : data = sess[s].apps \X {s}
    BY <2>1 DEF FirstRefreshed, ReadInv, FirstInv
  <2>3. {d[1] : d \in data} = sess[s].apps
    <3>1. \A x \in sess[s].apps : <<x, s>> \in data /\ <<x, s>>[1] = x
      BY <2>2
    <3>2. \A d \in data : d[1] \in sess[s].apps
      BY <2>2
    <3> QED
      BY <3>1, <3>2
  <2>4. UNION {sess[z].apps : z \in {d[2] : d \in data}} = sess[s].apps
    <3>1. CASE sess[s].apps = {}
      BY <2>2, <3>1
    <3>2. CASE sess[s].apps # {}
      <4>1. {d[2] : d \in data} = {s}
        <5>1. PICK x \in sess[s].apps : <<x, s>> \in data /\ <<x, s>>[2] = s
          BY <2>2, <3>2
        <5>2. \A d \in data : d[2] = s
          BY <2>2
        <5> QED
          BY <5>1, <5>2
      <4> QED
        BY <4>1
    <3> QED
      BY <3>1, <3>2
  <2> QED
    BY <2>3, <2>4
<1> QED
  BY <1>1, TypeCorrect, ReadCorrect, PTL DEF Spec, FirstIsComplete

\* Data are never replaced by nothing unless the session polled has no appliance,
\* however many polls overlap and whatever fails.
THEOREM DevicesStay == Spec => NeverBlanked
<1>1. ReadInv /\ TypeOK /\ [Next]_vars =>
        [data' = {} /\ data # {}
           => \E p \in Polls :
                poll[p].pc = "update" /\ poll'[p].pc = "idle" /\ sess[poll[p].s].apps = {}]_vars
  <2> SUFFICES ASSUME ReadInv, TypeOK, [Next]_vars, data' = {}, data # {}
               PROVE  \E p \in Polls :
                poll[p].pc = "update" /\ poll'[p].pc = "idle" /\ sess[poll[p].s].apps = {}
    OBVIOUS
  <2>1. PICK p \in Polls : Return(p)
    BY OnlyReturns
  <2>2. /\ poll[p].pc = "update" /\ poll'[p].pc = "idle"
        /\ poll[p].failed = {} /\ poll[p].got = {}
    BY <2>1, ReturnedLooks DEF Return, ReadInv
  <2>3. {} = sess[poll[p].s].apps \X {poll[p].s}
    BY <2>1, <2>2, ReturnedLooks DEF ReadInv
  <2>4. sess[poll[p].s].apps = {}
    <3>1. \A x \in sess[poll[p].s].apps : <<x, poll[p].s>> \in sess[poll[p].s].apps \X {poll[p].s}
      OBVIOUS
    <3> QED
      BY <2>3, <3>1
  <2> QED
    BY <2>2, <2>4
<1> QED
  BY <1>1, TypeCorrect, ReadCorrect, PTL DEF Spec, NeverBlanked

-----------------------------------------------------------------------------
(* Where the push goes.                                                    *)

\* The live session notifies whenever the client has a callback; a loaded entry gave it one.
WiredInv ==
  /\ entry = "loaded" => notify
  /\ inst # None /\ sess[inst].st = "live" => sess[inst].notify = notify

\* A job moves the entry on as its kind says.
LEMMA JobEntry ==
  ASSUME TypeOK, CallInv, NEW a \in Actors, JobStep(a)
  PROVE  /\ UNCHANGED notify
         /\ \/ UNCHANGED entry
            \/ a = Entry /\ SetupOk(a) /\ entry = "setup" /\ entry' = "first"
                         /\ poll'[FirstRefresh].pc = "list"
            \/ a = Entry /\ entry = "setup" /\ entry' = "closing"
            \/ a = Entry /\ CloseEnd(a) /\ entry' = "detaching" /\ job'[a] = NoJob
<1>1. CASE CloseEnd(a)
  BY <1>1 DEF CloseEnd, Closed, TypeOK
<1>2. CASE SetupOk(a)
  <2>1. UNCHANGED notify
    BY <1>2 DEF SetupOk
  <2>2. a = Entry => entry = "setup"
    BY <1>2 DEF SetupOk, Running, CallInv, SetupInv
  <2>3. UNCHANGED entry \/ (a = Entry /\ entry' = "first" /\ poll'[FirstRefresh].pc = "list")
    BY <1>2 DEF SetupOk, Calling, TypeOK
  <2> QED
    BY <1>2, <2>1, <2>2, <2>3
<1>3. CASE CloseBegin(a) \/ SetupBegin(a)
  BY <1>3 DEF CloseBegin, SetupBegin, clientVars, haVars
<1>4. CASE SetupMfa(a) \/ SetupFails(a)
  BY <1>4 DEF SetupMfa, SetupFails, SetupRaised, EntryRaised, Running, CallInv, SetupInv, clientVars
<1> QED
  BY <1>1, <1>2, <1>3, <1>4 DEF JobStep

LEMMA WiredStep ==
  ASSUME TypeOK, Polled, CallInv, LockInv, Alive, WiredInv, [Next]_vars
  PROVE  WiredInv'
<1>1. ASSUME NEW a \in Actors, JobStep(a)  PROVE WiredInv'
  <2>1. entry' = "loaded" => notify'
    BY <1>1, JobEntry DEF WiredInv
  <2>2. CASE CloseBegin(a) \/ CloseEnd(a)
    BY <2>1, <2>2 DEF CloseBegin, CloseEnd, LockInv, Running, WiredInv
  <2>3. CASE SetupBegin(a)
    BY <2>1, <2>3, SetupBeginSession DEF WiredInv
  <2>4. CASE SetupOk(a)
    BY <2>1, <2>4, SetupOkSession DEF WiredInv
  <2>5. CASE SetupMfa(a) \/ SetupFails(a)
    BY <2>1, <2>5, SetupLeaves DEF WiredInv
  <2> QED
    BY <1>1, <2>2, <2>3, <2>4, <2>5 DEF JobStep
<1>2. ASSUME NEW p \in Polls, PollStart(p) \/ PollStep(p) \/ PollCancelled(p)  PROVE WiredInv'
  <2>1. UNCHANGED <<inst, entry, notify>>
    BY <1>2, PollHandsOver, NoneAside DEF CallInv
  <2> QED
    BY <1>2, <2>1, PolledSession DEF WiredInv
<1>3. ASSUME NEW wanted \in BOOLEAN, Subscribe(wanted), UNCHANGED inst, entry' = "loaded" => wanted
      PROVE  WiredInv'
  <2>1. notify' = wanted
    BY <1>3 DEF Subscribe
  <2>2. inst # None => sess'[inst].notify = wanted
    BY <1>3, SubscribeSession DEF TypeOK
  <2> QED
    BY <1>3, <2>1, <2>2 DEF WiredInv
<1>4. CASE FirstRefreshed \/ Unload \/ Detach
  BY <1>3, <1>4 DEF FirstRefreshed, Unload, Detach, WiredInv, clientVars
<1>5. CASE UNCHANGED vars
  BY <1>5 DEF vars, clientVars, haVars, WiredInv
<1>6. ASSUME NEW s \in Sessions, RequestRotates(s)  PROVE WiredInv'
  <2>1. UNCHANGED <<inst, entry, notify>>
    BY <1>6, RotatesOnly
  <2>2. inst # None => sess'[inst].st = sess[inst].st
    BY <1>6, RotatesOnly DEF TypeOK
  <2>3. inst # None => sess'[inst].notify = sess[inst].notify
    BY <1>6, RotatesOnly DEF TypeOK
  <2> QED
    BY <2>1, <2>2, <2>3 DEF WiredInv
<1> QED
  BY <1>1, <1>2, <1>4, <1>5, <1>6 DEF Next

\* While the entry is loaded the session the client is logged in with notifies it,
\* after every re-authentication and however many polls overlap.
THEOREM PushStaysWired == Spec => []PushWired
<1>1. Init => WiredInv
  BY DEF Init, WiredInv
<1>2. TypeOK /\ Polled /\ ReadInv /\ WiredInv /\ [Next]_vars => WiredInv'
  BY WiredStep DEF ReadInv
<1>3. WiredInv => PushWired
  BY DEF WiredInv, PushWired
<1> QED
  BY <1>1, <1>2, <1>3, TypeCorrect, PolledCorrect, ReadCorrect, PTL DEF Spec

\* A job without a coroutine is that of a poll cancelled with its entry, which has none
\* left of its own.
LeftInv ==
  /\ \A p \in Polls : poll[p].pc = "idle" /\ job[p] # NoJob => entry = "gone"
  /\ entry \in {"detaching", "gone"} => job[Entry] = NoJob

\* A poll that is over has no job unless it was cancelled.
LEMMA PollLeaves ==
  ASSUME TypeOK, CallInv, NEW p \in Polls, PollStart(p) \/ PollStep(p), poll'[p].pc = "idle"
  PROVE  job'[p] = NoJob
<1>1. job[p] = NoJob
  BY DEF PollStart, PollStep, List, Return, UpdateOk, UpdateTransient, UpdateFails, UpdateRejected,
         Updating, CallInv, JobInv
<1>2. ASSUME NEW q \in Poll, Reauth(p, q)  PROVE FALSE
  BY <1>2, ReauthIs
<1>3. ASSUME NEW q \in Poll, Fetch(p, q)  PROVE job' = job
  BY <1>2, <1>3 DEF Fetch
<1>4. CASE PollStart(p) \/ List(p)
  BY <1>1, <1>3, <1>4, CallingTypes DEF PollStart, List, TypeOK
<1>5. CASE ~(PollStart(p) \/ List(p))
  BY <1>1, <1>2, <1>5 DEF PollStep, Return, UpdateOk, UpdateTransient, UpdateFails, UpdateRejected, TypeOK
<1> QED
  BY <1>4, <1>5

LEMMA LeftStep ==
  ASSUME TypeOK, Polled, CallInv, LeftInv, [Next]_vars
  PROVE  LeftInv'
<1>0. entry' \in {"detaching", "gone"} => job'[Entry] = NoJob
  <2> Polls \subseteq Actors \ {Entry} /\ Entry \in Actors
    BY DEF Actors
  <2>1. ASSUME NEW a \in Actors, JobStep(a), entry' \in {"detaching", "gone"}  PROVE job'[Entry] = NoJob
    BY <2>1, JobEntry, JobPolls DEF LeftInv
  <2>2. ASSUME NEW p \in Polls, PollStart(p) \/ PollStep(p) \/ PollCancelled(p)
        PROVE  UNCHANGED entry /\ job'[Entry] = job[Entry]
    BY <2>2, PollHandsOver DEF HandsOver, CallInv
  <2>3. CASE FirstRefreshed \/ Unload \/ Detach
    BY <2>3 DEF FirstRefreshed, Unload, Detach, LeftInv
  <2>4. CASE UNCHANGED vars
    BY <2>4 DEF vars, haVars, LeftInv
  <2>5. ASSUME NEW s \in Sessions, RequestRotates(s)  PROVE UNCHANGED <<entry, job>>
    BY <2>5, RotatesOnly
  <2> QED
    BY <2>1, <2>2, <2>3, <2>4, <2>5 DEF Next, LeftInv
<1> SUFFICES ASSUME NEW p \in Polls, poll'[p].pc = "idle", job'[p] # NoJob  PROVE entry' = "gone"
  BY <1>0 DEF LeftInv
<1> p \in Actors /\ p # Entry
  BY DEF Actors
<1>1. ASSUME NEW a \in Actors, JobStep(a)  PROVE entry' = "gone"
  <2>1. CASE poll[p].pc = "idle"
    <3>1. job[p] # NoJob \/ a = p
      BY <1>1, JobPolls
    <3>2. job[p] # NoJob
      BY <1>1, <3>1, JobPolls
    <3>3. entry = "gone" /\ a # Entry
      BY <1>1, <2>1, <3>2, JobPolls DEF LeftInv
    <3> QED
      BY <1>1, <3>3, JobEntry
  <2>2. CASE poll[p].pc # "idle"
    <3>1. CASE CloseEnd(a)
      <4>1. ASSUME Raise(a), a \in Polls, job' = [job EXCEPT ![a] = NoJob]  PROVE FALSE
        BY <2>2, <4>1, RaiseIs DEF TypeOK
      <4>2. poll' = [poll EXCEPT ![a].pc = "setup"] \/ UNCHANGED poll
        BY <3>1, <4>1 DEF CloseEnd, Closed
      <4> QED
        BY <2>2, <4>2 DEF TypeOK, Poll
    <3>2. CASE SetupBegin(a)
      BY <2>2, <3>2 DEF SetupBegin, TypeOK, Poll
    <3>3. CASE SetupOk(a)
      BY <2>2, <3>3 DEF SetupOk, Calling, TypeOK, Poll
    <3>4. ASSUME SetupRaised(a)  PROVE FALSE
      BY <2>2, <3>4 DEF SetupRaised, EntryRaised, TypeOK, Poll
    <3>5. CASE CloseBegin(a)
      BY <2>2, <3>5 DEF CloseBegin
    <3> QED
      BY <1>1, <3>1, <3>2, <3>3, <3>4, <3>5 DEF JobStep, SetupMfa, SetupFails
  <2> QED
    BY <2>1, <2>2
<1>2. CASE PollStart(p) \/ PollStep(p)
  BY <1>2, PollLeaves
<1>3. CASE PollCancelled(p)
  BY <1>3 DEF PollCancelled, haVars
<1>4. ASSUME NEW b \in Polls \ {p}, PollStart(b) \/ PollStep(b) \/ PollCancelled(b)  PROVE entry' = "gone"
  BY <1>4, OtherPolls, PollHandsOver DEF HandsOver, LeftInv, CallInv
<1>5. CASE FirstRefreshed \/ Unload \/ Detach
  <2>1. job'[p] = job[p] /\ poll' = poll
    BY <1>5, EntryHandsOver DEF HandsOver, CallInv
  <2> QED
    BY <1>5, <2>1 DEF FirstRefreshed, Unload, Detach, LeftInv
<1>6. CASE UNCHANGED vars
  BY <1>6 DEF vars, haVars, LeftInv
<1>7. ASSUME NEW s \in Sessions, RequestRotates(s)  PROVE UNCHANGED <<entry, job, poll>>
  BY <1>7, RotatesOnly
<1> QED
  BY <1>1, <1>2, <1>3, <1>4, <1>5, <1>6, <1>7 DEF Next, LeftInv

LEMMA LeftCorrect == Spec => []LeftInv
<1>1. Init => LeftInv
  BY DEF Init, LeftInv, Actors
<1>2. TypeOK /\ Polled /\ ReadInv /\ LeftInv /\ [Next]_vars => LeftInv'
  BY LeftStep DEF ReadInv
<1> QED
  BY <1>1, <1>2, TypeCorrect, PolledCorrect, ReadCorrect, PTL DEF Spec

LEMMA SetupMfaSession ==
  ASSUME TypeOK, LockInv, Alive, NEW a \in Actors, SetupMfa(a)
  PROVE  /\ inst' = inst /\ inst \in Sessions /\ sess'[inst].st = "mfa"
         /\ sess'[inst].notify = sess[inst].notify /\ sess'[inst].tok = sess[inst].tok
<1>1. inst \in Sessions /\ sess[inst] \in Session
  BY SetupEnds DEF TypeOK
<1>2. sess'[inst] = [sess[inst] EXCEPT !.st = "mfa"]
  BY <1>1 DEF SetupMfa, TypeOK
<1> QED
  BY <1>1, <1>2 DEF Session, SetupMfa, clientVars

\* Once the entry is gone the client has no callback, nor has the session it holds.
SilentInv == entry = "gone" => ~notify /\ (inst # None => ~sess[inst].notify)

LEMMA SilentStep ==
  ASSUME TypeOK, Polled, CallInv, LockInv, Alive, SilentInv, [Next]_vars
  PROVE  SilentInv'
<1> SUFFICES ASSUME entry' = "gone"  PROVE SilentInv'
  BY DEF SilentInv
<1>1. ASSUME NEW a \in Actors, JobStep(a)  PROVE SilentInv'
  <2>1. entry = "gone" /\ notify' = notify
    BY <1>1, JobEntry
  <2>2. CASE CloseBegin(a) \/ CloseEnd(a) \/ SetupFails(a)
    BY <2>1, <2>2 DEF CloseBegin, CloseEnd, SetupFails, LockInv, Running, SilentInv
  <2>3. CASE SetupBegin(a)
    BY <2>1, <2>3, SetupBeginSession DEF SilentInv
  <2>4. CASE SetupOk(a)
    BY <2>1, <2>4, SetupOkSession DEF SilentInv
  <2>5. CASE SetupMfa(a)
    BY <2>1, <2>5, SetupMfaSession, NoneIsNone DEF SilentInv
  <2> QED
    BY <1>1, <2>2, <2>3, <2>4, <2>5 DEF JobStep
<1>2. ASSUME NEW p \in Polls, PollStart(p) \/ PollStep(p) \/ PollCancelled(p)  PROVE SilentInv'
  BY <1>2, PollHandsOver, NoneAside, PolledSession DEF CallInv, SilentInv
<1>3. CASE FirstRefreshed \/ Unload
  BY <1>3 DEF FirstRefreshed, Unload
<1>4. CASE Detach
  <2>1. Subscribe(FALSE) /\ ~notify' /\ inst' = inst
    BY <1>4 DEF Detach, Subscribe
  <2>2. inst # None => ~sess'[inst].notify
    BY <2>1, SubscribeSession DEF TypeOK
  <2> QED
    BY <2>1, <2>2 DEF SilentInv
<1>5. CASE UNCHANGED vars
  BY <1>5 DEF vars, clientVars, haVars, SilentInv
<1>6. ASSUME NEW s \in Sessions, RequestRotates(s)  PROVE SilentInv'
  <2>1. UNCHANGED <<inst, entry, notify>>
    BY <1>6, RotatesOnly
  <2>2. inst # None => sess'[inst].notify = sess[inst].notify
    BY <1>6, RotatesOnly DEF TypeOK
  <2> QED
    BY <2>1, <2>2 DEF SilentInv
<1> QED
  BY <1>1, <1>2, <1>3, <1>4, <1>5, <1>6 DEF Next

\* The push follows the entry, whatever polls overlap and whatever was in flight when it
\* was unloaded: the session in use is wired while the entry is loaded, and the one held
\* or made once it is gone is silent.
THEOREM PushFollows == Spec => []PushFollowsTheEntry
<1>1. Init => SilentInv
  BY DEF Init, SilentInv
<1>2. TypeOK /\ Polled /\ ReadInv /\ SilentInv /\ [Next]_vars => SilentInv'
  BY SilentStep DEF ReadInv
<1>3. SilentInv /\ PushWired => PushFollowsTheEntry
  BY DEF SilentInv, PushFollowsTheEntry, SilentAfterUnload
<1> QED
  BY <1>1, <1>2, <1>3, TypeCorrect, PolledCorrect, ReadCorrect, PushStaysWired, PTL DEF Spec

-----------------------------------------------------------------------------
(* The session of the moment, and its token.                               *)

\* While no reference was overwritten the session in use holds the token the provider
\* honours; one that has not logged in holds none.
TokenInv ==
  /\ orphaned = {} /\ inst # None /\ sess[inst].st = "live" => sess[inst].tok = live /\ live # NoToken
  /\ inst # None /\ sess[inst].st # "live" => sess[inst].tok = NoToken

LEMMA TokenStep ==
  ASSUME TypeOK, Polled, CallInv, LockInv, NoOrphan, Alive, SetUpInv, TokenInv, [Next]_vars
  PROVE  TokenInv'
<1>1. ASSUME NEW a \in Actors, JobStep(a)  PROVE TokenInv'
  <2>1. CASE CloseBegin(a) \/ CloseEnd(a) \/ SetupFails(a)
    BY <2>1 DEF CloseBegin, CloseEnd, SetupFails, LockInv, Running, TokenInv
  <2>2. CASE SetupBegin(a)
    BY <2>2, SetupBeginSession DEF TokenInv
  <2>3. CASE SetupOk(a)
    <3>1. inst' = inst /\ sess'[inst].tok = live' /\ sess'[inst].st = "live"
      BY <2>3, SetupOkSession
    <3>2. live' # NoToken
      BY <2>3 DEF SetupOk, NeedsLogin, Rotate, TypeOK, NoToken
    <3> QED
      BY <3>1, <3>2 DEF TokenInv
  <2>4. CASE SetupMfa(a)
    BY <2>4, SetupMfaSession, NoneIsNone DEF SetupMfa, SetUpInv, TokenInv
  <2> QED
    BY <1>1, <2>1, <2>2, <2>3, <2>4 DEF JobStep
<1>2. ASSUME NEW p \in Polls, PollStart(p) \/ PollStep(p) \/ PollCancelled(p)  PROVE TokenInv'
  <2>1. live' = live
    BY <1>2 DEF PollStart, PollStep, PollCancelled, List, Return, UpdateOk, UpdateTransient,
                UpdateFails, UpdateRejected, envVars
  <2>2. UNCHANGED <<inst, orphaned, sess>>
    BY <1>2, PollHandsOver, PolledSession DEF CallInv
  <2> QED
    BY <2>1, <2>2 DEF TokenInv
<1>3. CASE FirstRefreshed \/ Unload \/ Detach
  <2>1. UNCHANGED <<inst, orphaned, live>>
    BY <1>3 DEF FirstRefreshed, Unload, Detach, envVars, clientVars, history
  <2>2. inst # None => sess'[inst].st = sess[inst].st /\ sess'[inst].tok = sess[inst].tok
    BY <1>3, SubscribeSession DEF FirstRefreshed, Unload, Detach, TypeOK
  <2> QED
    BY <2>1, <2>2 DEF TokenInv
<1>4. CASE UNCHANGED vars
  BY <1>4 DEF vars, clientVars, envVars, history, TokenInv
<1>5. ASSUME NEW s \in Sessions, RequestRotates(s)  PROVE TokenInv'
  <2>1. inst' = inst /\ orphaned' = orphaned /\ sess[s].st = "live"
    BY <1>5, RotatesOnly
  <2>2. sess'[s].tok = live' /\ live' = live + 1 /\ sess'[s].st = sess[s].st
    BY <1>5, RotatesOnly
  <2>3. live' # NoToken
    BY <2>2 DEF NoToken, TypeOK
  <2>4. CASE s = inst
    BY <2>1, <2>2, <2>3, <2>4 DEF TokenInv
  <2>5. CASE s # inst
    <3>1. inst # None => orphaned # {}
      BY <2>1, <2>5 DEF NoOrphan, Open, LockInv
    <3>2. inst # None => sess'[inst] = sess[inst]
      BY <1>5, <2>5, RotatesOnly DEF TypeOK
    <3> QED
      BY <2>1, <3>1, <3>2 DEF TokenInv
  <2> QED
    BY <2>4, <2>5
<1> QED
  BY <1>1, <1>2, <1>3, <1>4, <1>5 DEF Next

LEMMA TokenCorrect == Spec => []TokenInv
<1>1. Init => TokenInv
  BY DEF Init, TokenInv
<1>2. TypeOK /\ Polled /\ ReadInv /\ NoOrphan /\ TokenInv /\ [Next]_vars => TokenInv'
  BY TokenStep DEF ReadInv
<1> QED
  BY <1>1, <1>2, TypeCorrect, PolledCorrect, ReadCorrect, NothingOrphaned, PTL DEF Spec

\* A poll that succeeds is one that returns its data.
LEMMA SucceedsIs ==
  ASSUME TypeOK, Polled, CallInv, [Next]_vars, NEW p \in Polls, Succeeds(p)
  PROVE  Return(p) /\ ~AllFailed(p)
<1>1. poll[p].pc = "update" /\ poll'[p].pc = "idle" /\ poll'[p].out = "ok"
  BY DEF Succeeds
<1>2. ASSUME NEW a \in Actors, JobStep(a)  PROVE FALSE
  BY <1>1, <1>2, JobPolls
<1>3. ASSUME NEW b \in Polls \ {p}, PollStart(b) \/ PollStep(b) \/ PollCancelled(b)  PROVE FALSE
  BY <1>1, <1>3, OtherPolls
<1>4. ~(PollStart(p) \/ PollCancelled(p))
  BY <1>1, RaiseIs DEF PollStart, PollCancelled
<1>5. poll' # poll
  BY <1>1
<1>6. ASSUME NEW s \in Sessions, RequestRotates(s)  PROVE FALSE
  BY <1>5, <1>6, RotatesOnly
<1>7. PollStep(p)
  <2>1. ~(FirstRefreshed \/ Unload \/ Detach)
    BY <1>5 DEF FirstRefreshed, Unload, Detach
  <2>2. Next
    BY <1>5 DEF vars
  <2>3. PICK b \in Polls : PollStart(b) \/ PollStep(b) \/ PollCancelled(b)
    BY <1>2, <1>6, <2>1, <2>2 DEF Next
  <2> QED
    BY <1>3, <1>4, <2>3
<1>8. Return(p)
  BY <1>1, <1>7, EndsOk
<1>9. ~AllFailed(p)
  BY <1>1, <1>8, RaiseIs DEF Return
<1> QED
  BY <1>8, <1>9

\* What is written to disk and what the client keeps to log in with.
LEMMA TokenWritten ==
  ASSUME TypeOK, LockInv, Alive, TokenInv, orphaned = {}, live' = live, [Next]_vars,
         NEW old, NEW new, old = live,
         \/ new = old
         \/ \E p \in Polls : Return(p) /\ new = Rotated(old)
         \/ \E a \in Actors : SetupOk(a) /\ new = SeedFrom(inst, old)
  PROVE  new = live
<1>1. ASSUME NEW p \in Polls, Return(p), new = Rotated(old)  PROVE new = live
  BY <1>1 DEF Rotated, CurrentToken, TokenInv
<1>2. ASSUME NEW a \in Actors, SetupOk(a), new = SeedFrom(inst, old)  PROVE new = live
  BY <1>2, SetupOkSession DEF SeedFrom
<1> QED
  BY <1>1, <1>2

LEMMA WhoWrites ==
  ASSUME [Next]_vars
  PROVE  /\ \/ stored' = stored
            \/ \E p \in Polls : Return(p) /\ stored' = Rotated(stored)
            \/ \E a \in Actors : SetupOk(a) /\ stored' = SeedFrom(inst, stored)
         /\ \/ seed' = seed
            \/ \E p \in Polls : Return(p) /\ seed' = Rotated(seed)
            \/ \E a \in Actors : SetupOk(a) /\ seed' = SeedFrom(inst, seed)
<1>1. ASSUME NEW a \in Actors, JobStep(a), ~SetupOk(a)  PROVE UNCHANGED <<stored, seed>>
  BY <1>1 DEF JobStep, CloseBegin, CloseEnd, SetupBegin, SetupMfa, SetupFails, clientVars, haVars
<1>2. ASSUME NEW a \in Actors, SetupOk(a)
      PROVE  seed' = SeedFrom(inst, seed) /\ (stored' = stored \/ stored' = SeedFrom(inst, stored))
  BY <1>2 DEF SetupOk
<1>3. ASSUME NEW p \in Polls, PollStart(p) \/ PollStep(p) \/ PollCancelled(p), ~Return(p)
      PROVE  UNCHANGED <<stored, seed>>
  BY <1>3 DEF PollStart, PollStep, PollCancelled, List, UpdateOk, UpdateTransient, UpdateFails,
              UpdateRejected, clientVars, haVars
<1>4. ASSUME NEW p \in Polls, Return(p)
      PROVE  /\ seed' = seed \/ seed' = Rotated(seed)
             /\ stored' = stored \/ stored' = Rotated(stored)
  BY <1>4 DEF Return, clientVars
<1>5. CASE FirstRefreshed \/ Unload \/ Detach
  BY <1>5 DEF FirstRefreshed, Unload, Detach, clientVars
<1>6. ASSUME NEW s \in Sessions, RequestRotates(s)  PROVE UNCHANGED <<stored, seed>>
  BY <1>6 DEF RequestRotates, clientVars, haVars
<1>7. CASE UNCHANGED vars
  BY <1>7 DEF vars, clientVars, haVars
<1> QED
  BY <1>1, <1>2, <1>3, <1>4, <1>5, <1>6, <1>7 DEF Next, JobStep

\* What a successful poll leaves on disk, and in the client, is the token the provider
\* honours, whichever request has rotated it; and that is never replaced by another.
THEOREM TokensGetToDisk == Spec => TokensReachTheDisk
<1>1. TypeOK /\ Polled /\ ReadInv /\ TokenInv /\ [Next]_vars =>
        [orphaned = {} =>
           /\ \A p \in Polls : Succeeds(p) /\ inst # None /\ sess[inst].st = "live"
                => stored' = live /\ seed' = live
           /\ live' = live => /\ stored = live => stored' = live
                              /\ seed = live => seed' = live]_vars
  <2> SUFFICES ASSUME TypeOK, Polled, ReadInv, TokenInv, [Next]_vars, orphaned = {}
               PROVE  /\ \A p \in Polls : Succeeds(p) /\ inst # None /\ sess[inst].st = "live"
                           => stored' = live /\ seed' = live
                      /\ live' = live => /\ stored = live => stored' = live
                                         /\ seed = live => seed' = live
    OBVIOUS
  <2>1. ASSUME NEW p \in Polls, Succeeds(p), inst # None, sess[inst].st = "live"
        PROVE  stored' = live /\ seed' = live
    <3>1. Return(p) /\ ~AllFailed(p)
      BY <2>1, SucceedsIs DEF ReadInv
    <3>2. stored' = Rotated(stored) /\ seed' = Rotated(seed)
      BY <3>1 DEF Return
    <3> QED
      BY <2>1, <3>2 DEF Rotated, CurrentToken, TokenInv
  <2>2. ASSUME live' = live, stored = live  PROVE stored' = live
    BY <2>2, WhoWrites, TokenWritten DEF ReadInv
  <2>3. ASSUME live' = live, seed = live  PROVE seed' = live
    BY <2>3, WhoWrites, TokenWritten DEF ReadInv
  <2> QED
    BY <2>1, <2>2, <2>3
<1> QED
  BY <1>1, TypeCorrect, PolledCorrect, ReadCorrect, TokenCorrect, PTL DEF Spec, TokensReachTheDisk

\* What the entities see is always one whole snapshot, however many polls overlap:
\* complete when the platforms are set up, of one session and what it lists, and never
\* blanked by a failure.
THEOREM SnapshotsHold == Spec => SnapshotsAreWhole
<1>1. ReadInv /\ TypeOK /\ [Next]_vars =>
        [data' # data => /\ Cardinality({d[2] : d \in data'}) <= 1
                         /\ \A d \in data' : d[1] \in sess[d[2]].apps]_vars
  <2> SUFFICES ASSUME ReadInv, TypeOK, [Next]_vars, data' # data
               PROVE  /\ Cardinality({d[2] : d \in data'}) <= 1
                      /\ \A d \in data' : d[1] \in sess[d[2]].apps
    OBVIOUS
  <2>1. PICK p \in Polls : Return(p)
    BY OnlyReturns
  <2>2. PICK s : s = poll[p].s
    OBVIOUS
  <2>3. (\A d \in data' : d[2] = s) /\ data' \subseteq poll[p].got
    BY <2>1, <2>2, ReturnedLooks DEF ReadInv
  <2>4. {d[2] : d \in data'} = {} \/ {d[2] : d \in data'} = {s}
    BY <2>3
  <2>5. Cardinality({d[2] : d \in data'}) <= 1
    <3>1. Cardinality({}) = 0
      BY FS_EmptySet
    <3>2. Cardinality({s}) = 1
      BY FS_Singleton
    <3>3. 0 <= 1 /\ 1 <= 1
      OBVIOUS
    <3> QED
      BY <2>4, <3>1, <3>2, <3>3, Zenon
  <2>6. \A d \in data' : d[1] \in sess[d[2]].apps
    <3> SUFFICES ASSUME NEW d \in data'  PROVE d[1] \in sess[s].apps
      BY <2>3
    <3>1. d \in Appliances \X Sessions /\ d[2] = s /\ d \in poll[p].got
      BY <2>3 DEF TypeOK, Poll
    <3>2. <<d[1], s>> \in poll[p].got /\ d[1] \in Appliances
      BY <3>1
    <3> QED
      BY <2>1, <2>2, <3>2 DEF Return, ReadInv, LookInv, LooksWell
  <2> QED
    BY <2>5, <2>6
<1>2. Spec => OneSessionPublished
  BY <1>1, TypeCorrect, ReadCorrect, PTL DEF Spec, OneSessionPublished
<1> QED
  BY <1>2, FirstSnapshot, DevicesStay, PTL DEF SnapshotsAreWhole

-----------------------------------------------------------------------------
(* Every call moves on.                                                    *)

\* How far from its end is a poll with locals q and job j: the first reading of
\* the account, the one login, the reading after it.  A call that was cancelled
\* may leave a job behind.
PhaseOf(q, j) ==
  CASE q.pc = "list" -> IF q.reauthed THEN 5 ELSE 11
    [] q.pc = "update" -> IF q.reauthed THEN 4 ELSE 10
    [] q.pc = "close" -> IF j.stage = "wait" THEN 9 ELSE 8
    [] q.pc = "setup" -> IF j.stage = "wait" THEN 7 ELSE 6
    [] q.pc = "cleanup" -> IF j.stage = "wait" THEN 4 ELSE 3
    [] q.pc = "idle" -> IF j = NoJob THEN 0 ELSE IF j.stage = "wait" THEN 2 ELSE 1
Phase(p) == PhaseOf(poll[p], job[p])

\* One appliance, or one attempt at it, is behind the reading q.
Fewer(q, next) ==
  \/ \E x \in q.todo : next.todo = q.todo \ {x}
  \/ next.todo = q.todo /\ next.att = q.att + 1

\* A step of poll p that brings it nearer to its end.
Nearer(p) ==
  \/ Phase(p)' < Phase(p)
  \/ poll[p].pc = "update" /\ Phase(p)' = Phase(p) /\ Fewer(poll[p], poll'[p])

Aside(p) == poll'[p] = poll[p] /\ job'[p] = job[p]

\* How far from its end is the entry.
EntryPhaseOf(e, j) ==
  CASE e = "setup" -> IF j.stage = "wait" THEN 7 ELSE 6
    [] e = "first" -> 5
    [] e = "loaded" -> 4
    [] e = "closing" -> IF j.stage = "wait" THEN 3 ELSE 2
    [] e = "detaching" -> 1
    [] e = "gone" -> 0
EntryPhase == EntryPhaseOf(entry, job[Entry])
EntryStep == JobStep(Entry) \/ FirstRefreshed \/ Unload \/ Detach

LEMMA SubmitWaits ==
  ASSUME TypeOK, NEW a \in Actors, NEW kind, Submit(a, kind)
  PROVE  job'[a].stage = "wait" /\ \A b \in Actors \ {a} : job'[b] = job[b]
BY DEF Submit, TypeOK, NoJob

LEMMA PhaseAt ==
  ASSUME NEW q, NEW j
  PROVE  /\ q.pc = "list" => PhaseOf(q, j) = IF q.reauthed THEN 5 ELSE 11
         /\ q.pc = "update" => PhaseOf(q, j) = IF q.reauthed THEN 4 ELSE 10
         /\ q.pc = "close" => PhaseOf(q, j) = IF j.stage = "wait" THEN 9 ELSE 8
         /\ q.pc = "setup" => PhaseOf(q, j) = IF j.stage = "wait" THEN 7 ELSE 6
         /\ q.pc = "cleanup" => PhaseOf(q, j) = IF j.stage = "wait" THEN 4 ELSE 3
         /\ q.pc = "idle" =>
              PhaseOf(q, j) = IF j = NoJob THEN 0 ELSE IF j.stage = "wait" THEN 2 ELSE 1
BY DEF PhaseOf

LEMMA PhaseIs ==
  ASSUME NEW p
  PROVE  Phase(p) = PhaseOf(poll[p], job[p]) /\ Phase(p)' = PhaseOf(poll'[p], job'[p])
BY DEF Phase

\* A poll that ends, and one that begins its login, is nearer to its end than it was.
LEMMA EndIsNear ==
  ASSUME TypeOK, JobInv, NEW p \in Polls, poll[p].pc \in {"list", "update"},
         poll'[p].pc = "idle", job'[p] = job[p]
  PROVE  Nearer(p)
<1>1. job'[p] = NoJob
  BY DEF JobInv
<1>2. Phase(p)' = 0
  BY <1>1, PhaseIs, PhaseAt
<1>3. Phase(p) \in {4, 5, 10, 11}
  BY PhaseIs, PhaseAt
<1> QED
  BY <1>2, <1>3 DEF Nearer

LEMMA LoginIsNearer ==
  ASSUME NEW p \in Polls, poll[p].pc \in {"list", "update"}, ~poll[p].reauthed,
         poll'[p].pc = "close", job'[p].stage = "wait"
  PROVE  Nearer(p)
<1>1. Phase(p)' = 9
  BY PhaseIs, PhaseAt
<1>2. Phase(p) \in {10, 11}
  BY PhaseIs, PhaseAt
<1> QED
  BY <1>1, <1>2 DEF Nearer

LEMMA PollBringsOn ==
  ASSUME TypeOK, JobInv, NEW p \in Polls, PollStep(p)
  PROVE  Nearer(p)
<1>1. CASE List(p)
  <2>1. poll[p].pc = "list" /\ Fetch(p, poll[p])
    BY <1>1 DEF List
  <2>2. CASE /\ poll' = [poll EXCEPT ![p] = [poll[p] EXCEPT !.pc = "update", !.s = api,
                                         !.todo = sess[api].apps, !.got = {}, !.failed = {}, !.att = 0]]
             /\ UNCHANGED job
    <3>1. poll'[p].pc = "update" /\ poll'[p].reauthed = poll[p].reauthed
      BY <2>2 DEF TypeOK, Poll
    <3>2. Phase(p)' = IF poll[p].reauthed THEN 4 ELSE 10
      BY <3>1, PhaseIs, PhaseAt
    <3>3. Phase(p) = IF poll[p].reauthed THEN 5 ELSE 11
      BY <2>1, PhaseIs, PhaseAt
    <3>4. Phase(p)' < Phase(p)
      BY <3>2, <3>3
    <3> QED
      BY <3>4 DEF Nearer
  <2>3. CASE ~poll[p].reauthed /\ Reauth(p, poll[p])
    BY <2>1, <2>3, ReauthIs, LoginIsNearer DEF NoJob
  <2>4. CASE Raise(p) /\ UNCHANGED job
    BY <2>1, <2>4, RaiseIs, EndIsNear
  <2> QED
    BY <2>1, <2>2, <2>3, <2>4 DEF Fetch
<1>2. CASE Return(p)
  <2>1. poll[p].pc = "update" /\ job' = job /\ \E out : Leave(p, out)
    BY <1>2 DEF Return, Raise
  <2> QED
    BY <2>1, LeaveIs, EndIsNear DEF Raise
<1>3. ASSUME poll[p].pc = "update", poll'[p].pc = "update", poll'[p].reauthed = poll[p].reauthed,
             Fewer(poll[p], poll'[p])
      PROVE  Nearer(p)
  <2>1. Phase(p)' = Phase(p)
    BY <1>3, PhaseIs, PhaseAt
  <2> QED
    BY <1>3, <2>1 DEF Nearer
<1>4. ASSUME NEW x \in Appliances, UpdateOk(p, x)  PROVE Nearer(p)
  <2>1. /\ poll'[p].pc = "update" /\ poll'[p].reauthed = poll[p].reauthed
        /\ x \in poll[p].todo /\ poll'[p].todo = poll[p].todo \ {x} /\ poll[p].pc = "update"
    <3>1. poll \in [Polls -> Poll] /\ poll[p] \in Poll
      BY DEF TypeOK
    <3>2. poll[p].pc = "update" /\ x \in poll[p].todo
      BY <1>4 DEF UpdateOk, Updating
    <3>3. poll' = [poll EXCEPT ![p].todo = @ \ {x}, ![p].got = @ \cup {<<x, poll[p].s>>}, ![p].att = 0]
      BY <1>4 DEF UpdateOk
    <3> QED
      BY <3>1, <3>2, <3>3 DEF Poll
  <2> QED
    BY <1>3, <2>1 DEF Fewer
<1>5. ASSUME NEW x \in Appliances, poll[p].pc = "update", x \in poll[p].todo, Skip(p, x), UNCHANGED job
      PROVE  Nearer(p)
  <2>1. CASE firstDone
    <3>1. /\ poll'[p].pc = "update" /\ poll'[p].reauthed = poll[p].reauthed
          /\ poll'[p].todo = poll[p].todo \ {x}
      BY <1>5, <2>1 DEF Skip, TypeOK, Poll
    <3> QED
      BY <1>3, <1>5, <3>1 DEF Fewer
  <2>2. CASE ~firstDone
    BY <1>5, <2>2, RaiseIs, EndIsNear DEF Skip
  <2> QED
    BY <2>1, <2>2
<1>6. ASSUME NEW x \in Appliances, UpdateTransient(p, x)  PROVE Nearer(p)
  <2>1. poll[p].pc = "update" /\ x \in poll[p].todo /\ UNCHANGED job
    BY <1>6 DEF UpdateTransient, Updating
  <2>2. CASE Skip(p, x)
    BY <1>5, <2>1, <2>2
  <2>3. CASE poll' = [poll EXCEPT ![p].att = @ + 1]
    <3>1. /\ poll'[p].pc = "update" /\ poll'[p].reauthed = poll[p].reauthed
          /\ poll'[p].todo = poll[p].todo /\ poll'[p].att = poll[p].att + 1
      BY <2>1, <2>3 DEF TypeOK, Poll
    <3> QED
      BY <1>3, <2>1, <3>1 DEF Fewer
  <2> QED
    BY <1>6, <2>2, <2>3 DEF UpdateTransient
<1>7. ASSUME NEW x \in Appliances, UpdateFails(p, x)  PROVE Nearer(p)
  BY <1>5, <1>7 DEF UpdateFails, Updating
<1>8. ASSUME NEW x \in Appliances, UpdateRejected(p, x)  PROVE Nearer(p)
  <2>1. poll[p].pc = "update"
    BY <1>8 DEF UpdateRejected, Updating
  <2>2. CASE ~poll[p].reauthed /\ Reauth(p, poll[p])
    BY <2>1, <2>2, ReauthIs, LoginIsNearer DEF NoJob
  <2>3. CASE Raise(p) /\ UNCHANGED job
    BY <2>1, <2>3, RaiseIs, EndIsNear
  <2> QED
    BY <1>8, <2>2, <2>3 DEF UpdateRejected
<1> QED
  BY <1>1, <1>2, <1>4, <1>6, <1>7, <1>8 DEF PollStep

LEMMA CancelBringsOn ==
  ASSUME TypeOK, JobInv, NEW p \in Polls, PollCancelled(p)
  PROVE  Nearer(p)
<1>1. poll[p].pc # "idle" /\ poll'[p].pc = "idle" /\ job'[p] \in {job[p], NoJob}
  BY RaiseIs DEF PollCancelled, TypeOK, Actors
<1>2. Phase(p)' \in {0, 1, 2} /\ (job'[p] = NoJob => Phase(p)' = 0)
  BY <1>1, PhaseIs, PhaseAt
<1>3. poll[p].pc \in {"list", "update", "close", "setup", "cleanup"}
  BY <1>1 DEF TypeOK, Poll
<1>4. Phase(p) \in 3 .. 11
  BY <1>3, PhaseIs, PhaseAt
<1> QED
  BY <1>2, <1>4 DEF Nearer

\* What its job's step makes of a poll: the job begins, it ends with the call waiting
\* for the next one or over, or it ends behind a call that was cancelled.
LEMMA JobBringsOn ==
  ASSUME TypeOK, CallInv, NEW p \in Polls, JobStep(p)
  PROVE  Nearer(p)
<1>0. p \in Actors /\ p # Entry
  BY DEF Actors
<1>1. /\ poll[p].pc \in {"idle", "list", "update", "close", "setup", "cleanup"}
      /\ job[p].kind # "none" => poll[p].pc \notin {"list", "update"}
      /\ job[p].kind = "close" => poll[p].pc # "setup"
      /\ job[p].kind = "setup" => poll[p].pc \notin {"close", "cleanup"}
  BY DEF TypeOK, Poll, CallInv, JobInv, NoJob
<1>2. ASSUME job[p].kind # "none", job[p].stage = "wait", job'[p].stage = "run",
             poll'[p].pc = poll[p].pc
      PROVE  Nearer(p)
  <2>1. job[p] # NoJob /\ job'[p] # NoJob
    BY <1>2 DEF NoJob
  <2>2. Phase(p)' < Phase(p)
    BY <1>1, <1>2, <2>1, PhaseIs, PhaseAt
  <2> QED
    BY <2>2 DEF Nearer
<1>3. CASE CloseBegin(p)
  BY <1>0, <1>2, <1>3 DEF CloseBegin, Ready, TypeOK
<1>4. CASE SetupBegin(p)
  <2>1. poll'[p].pc = poll[p].pc
    BY <1>4 DEF SetupBegin, TypeOK, Poll
  <2> QED
    BY <1>0, <1>2, <1>4, <2>1 DEF SetupBegin, Ready, TypeOK
<1>5. ASSUME poll[p].pc = "idle", job[p].stage = "run", poll'[p] = poll[p], job'[p] = NoJob
      PROVE  Nearer(p)
  <2>1. Phase(p) = 1 /\ Phase(p)' = 0
    BY <1>5, PhaseIs, PhaseAt DEF NoJob
  <2> QED
    BY <2>1 DEF Nearer
<1>6. CASE CloseEnd(p)
  <2>0. job[p].stage = "run"
    BY <1>6 DEF CloseEnd, Running
  <2>1. CASE poll[p].pc = "close" /\ poll' = [poll EXCEPT ![p].pc = "setup"] /\ Submit(p, "setup")
    <3>1. poll[p].pc = "close" /\ poll'[p].pc = "setup" /\ job'[p].stage = "wait"
      BY <1>0, <2>1, SubmitWaits DEF TypeOK, Poll
    <3>2. Phase(p) = 8
      BY <2>0, <3>1, PhaseIs, PhaseAt
    <3>3. Phase(p)' = 7
      BY <3>1, PhaseIs, PhaseAt
    <3> QED
      BY <3>2, <3>3 DEF Nearer
  <2>2. CASE poll[p].pc = "cleanup" /\ Raise(p) /\ job' = [job EXCEPT ![p] = NoJob]
    <3>1. poll'[p].pc = "idle" /\ job'[p] = NoJob
      BY <1>0, <2>2, RaiseIs DEF TypeOK
    <3>2. Phase(p) = 3 /\ Phase(p)' = 0
      BY <2>0, <2>2, <3>1, PhaseIs, PhaseAt
    <3> QED
      BY <3>2 DEF Nearer
  <2>3. CASE poll[p].pc = "idle" /\ job' = [job EXCEPT ![p] = NoJob] /\ UNCHANGED poll
    BY <1>0, <1>5, <2>0, <2>3 DEF TypeOK
  <2> QED
    BY <1>0, <1>6, <2>1, <2>2, <2>3 DEF CloseEnd, Closed
<1>7. CASE SetupOk(p)
  <2>0. job[p].stage = "run" /\ job'[p] = NoJob
    BY <1>0, <1>7 DEF SetupOk, Running, TypeOK
  <2>1. CASE poll[p].pc = "setup" /\ poll' = [poll EXCEPT ![p].pc = "list", ![p].reauthed = TRUE]
    <3>1. poll[p].pc = "setup" /\ poll'[p].pc = "list" /\ poll'[p].reauthed
      BY <2>1 DEF TypeOK, Poll
    <3>2. Phase(p) = 6
      BY <2>0, <3>1, PhaseIs, PhaseAt
    <3>3. Phase(p)' = 5
      BY <3>1, PhaseIs, PhaseAt
    <3> QED
      BY <3>2, <3>3 DEF Nearer
  <2>2. CASE poll[p].pc = "idle" /\ UNCHANGED poll
    BY <1>5, <2>0, <2>2
  <2> QED
    BY <1>0, <1>7, <2>1, <2>2 DEF SetupOk
<1>8. ASSUME Running(p, "setup"), SetupRaised(p)  PROVE Nearer(p)
  <2>0. job[p].stage = "run"
    BY <1>8 DEF Running
  <2>1. CASE /\ poll[p].pc = "setup" /\ Submit(p, "close")
             /\ poll' = [poll EXCEPT ![p].pc = "cleanup"]
    <3>1. poll[p].pc = "setup" /\ poll'[p].pc = "cleanup" /\ job'[p].stage = "wait"
      BY <1>0, <2>1, SubmitWaits DEF TypeOK, Poll
    <3>2. Phase(p) = 6
      BY <2>0, <3>1, PhaseIs, PhaseAt
    <3>3. Phase(p)' = 4
      BY <3>1, PhaseIs, PhaseAt
    <3> QED
      BY <3>2, <3>3 DEF Nearer
  <2>2. CASE poll[p].pc = "idle" /\ job' = [job EXCEPT ![p] = NoJob] /\ UNCHANGED poll
    BY <1>0, <1>5, <2>0, <2>2 DEF TypeOK
  <2> QED
    BY <1>0, <1>8, <2>1, <2>2 DEF SetupRaised
<1>9. CASE SetupMfa(p) \/ SetupFails(p)
  BY <1>8, <1>9 DEF SetupMfa, SetupFails
<1> QED
  BY <1>3, <1>4, <1>6, <1>7, <1>9 DEF JobStep

\* A job leaves the other polls that have something under way alone.
LEMMA JobLeavesOthers ==
  ASSUME TypeOK, CallInv, NEW a \in Actors, JobStep(a), NEW p \in Polls, p # a,
         poll[p].pc # "idle" \/ job[p] # NoJob
  PROVE  Aside(p)
<1>1. p \in Actors /\ job'[p] = job[p]
  BY JobPolls DEF Actors
<1>2. poll'[p] = poll[p]
  <2>1. CASE CloseEnd(a)
    BY <2>1 DEF CloseEnd, Closed, Raise, Leave, TypeOK
  <2>2. CASE SetupBegin(a)
    BY <2>2 DEF SetupBegin, TypeOK
  <2>3. CASE SetupOk(a)
    <3>1. a = Entry => entry = "setup"
      BY <2>3 DEF SetupOk, Running, CallInv, SetupInv
    <3>2. a # Entry
      BY <3>1 DEF CallInv, SetupInv
    <3> QED
      BY <2>3, <3>2 DEF SetupOk, TypeOK
  <2>4. ASSUME SetupRaised(a)  PROVE poll'[p] = poll[p]
    BY <2>4 DEF SetupRaised, EntryRaised, TypeOK
  <2>5. CASE CloseBegin(a)
    BY <2>5 DEF CloseBegin
  <2> QED
    BY <2>1, <2>2, <2>3, <2>4, <2>5 DEF JobStep, SetupMfa, SetupFails
<1> QED
  BY <1>1, <1>2 DEF Aside

LEMMA CallGoesOn ==
  ASSUME TypeOK, Polled, CallInv, [Next]_vars, NEW p \in Polls,
         poll[p].pc # "idle" \/ job[p] # NoJob
  PROVE  /\ Nearer(p) \/ Aside(p)
         /\ PollStep(p) \/ PollCancelled(p) \/ JobStep(p) => Nearer(p)
<1>0. p \in Actors /\ JobInv
  BY DEF Actors, CallInv
<1>1. PollStep(p) \/ PollCancelled(p) \/ JobStep(p) => Nearer(p)
  BY <1>0, PollBringsOn, CancelBringsOn, JobBringsOn
<1>2. ASSUME NEW a \in Actors, JobStep(a)  PROVE Nearer(p) \/ Aside(p)
  BY <1>1, <1>2, JobLeavesOthers
<1>3. ASSUME NEW b \in Polls, PollStart(b) \/ PollStep(b) \/ PollCancelled(b)
      PROVE  Nearer(p) \/ Aside(p)
  <2>1. CASE b = p
    <3>1. ~PollStart(p)
      BY DEF PollStart
    <3> QED
      BY <1>1, <1>3, <2>1, <3>1
  <2>2. CASE b # p
    BY <1>0, <1>3, <2>2, OtherPolls, PollHandsOver DEF HandsOver, Aside
  <2> QED
    BY <2>1, <2>2
<1>4. CASE FirstRefreshed \/ Unload \/ Detach
  <2>1. p # Entry
    OBVIOUS
  <2>2. HandsOver(Entry) /\ UNCHANGED <<inst, created, poll>>
    BY <1>0, <1>4, EntryHandsOver
  <2>3. job'[p] = job[p]
    BY <1>0, <2>1, <2>2 DEF HandsOver
  <2>4. poll'[p] = poll[p]
    BY <2>2
  <2> QED
    BY <1>1, <2>3, <2>4 DEF Aside
<1>5. CASE UNCHANGED vars
  BY <1>1, <1>5 DEF vars, Aside
<1>6. ASSUME NEW s \in Sessions, RequestRotates(s)  PROVE Aside(p)
  BY <1>6, RotatesOnly DEF Aside
<1> QED
  BY <1>1, <1>2, <1>3, <1>4, <1>5, <1>6 DEF Next

LEMMA EntryPhaseAt ==
  ASSUME NEW e, NEW j
  PROVE  /\ e = "setup" => EntryPhaseOf(e, j) = IF j.stage = "wait" THEN 7 ELSE 6
         /\ e = "first" => EntryPhaseOf(e, j) = 5
         /\ e = "loaded" => EntryPhaseOf(e, j) = 4
         /\ e = "closing" => EntryPhaseOf(e, j) = IF j.stage = "wait" THEN 3 ELSE 2
         /\ e = "detaching" => EntryPhaseOf(e, j) = 1
         /\ e = "gone" => EntryPhaseOf(e, j) = 0
BY DEF EntryPhaseOf

LEMMA EntryGoesOn ==
  ASSUME TypeOK, Polled, CallInv, LeftInv, [Next]_vars
  PROVE  EntryPhase' <= EntryPhase /\ (EntryStep => EntryPhase' < EntryPhase)
<1>0. /\ Entry \in Actors /\ entry \in {"setup", "first", "loaded", "closing", "detaching", "gone"}
      /\ EntryPhase = EntryPhaseOf(entry, job[Entry])
      /\ EntryPhase' = EntryPhaseOf(entry', job'[Entry])
  BY DEF Actors, TypeOK, EntryPhase
<1>1. EntryPhase \in 0 .. 7
  BY <1>0, EntryPhaseAt
<1>2. ASSUME entry' = entry, job'[Entry] = job[Entry]  PROVE EntryPhase' = EntryPhase
  BY <1>0, <1>2
<1>3. ASSUME entry' = entry, job[Entry].kind # "none", job[Entry].stage = "wait", job'[Entry].stage = "run"
      PROVE  EntryPhase' \in 0 .. 7 /\ EntryPhase' < EntryPhase
  <2>1. entry \in {"setup", "closing"}
    BY <1>0, <1>3 DEF CallInv, JobInv, LeftInv, NoJob
  <2> QED
    BY <1>0, <1>3, <2>1, EntryPhaseAt
<1>4. ASSUME JobStep(Entry)  PROVE EntryPhase' \in 0 .. 7 /\ EntryPhase' < EntryPhase
  <2>1. CASE CloseBegin(Entry)
    BY <1>0, <1>3, <2>1 DEF CloseBegin, Ready, haVars, TypeOK
  <2>2. CASE SetupBegin(Entry)
    BY <1>0, <1>3, <2>2 DEF SetupBegin, Ready, haVars, TypeOK
  <2>3. CASE CloseEnd(Entry)
    <3>1. entry' = "detaching"
      BY <2>3 DEF CloseEnd, Closed
    <3>2. entry \in {"setup", "closing"}
      BY <1>0, <2>3 DEF CloseEnd, Running, CallInv, JobInv, LeftInv, NoJob
    <3> QED
      BY <1>0, <3>1, <3>2, EntryPhaseAt
  <2>4. CASE SetupOk(Entry)
    <3>1. entry = "setup" /\ entry' = "first"
      BY <2>4 DEF SetupOk, Running, CallInv, SetupInv
    <3> QED
      BY <1>0, <3>1, EntryPhaseAt
  <2>5. CASE SetupMfa(Entry) \/ SetupFails(Entry)
    <3>1. Running(Entry, "setup") /\ EntryRaised
      BY <2>5 DEF SetupMfa, SetupFails, SetupRaised
    <3>2. entry = "setup" /\ entry' = "closing"
      BY <3>1 DEF Running, EntryRaised, CallInv, SetupInv
    <3> QED
      BY <1>0, <3>2, EntryPhaseAt
  <2> QED
    BY <1>4, <2>1, <2>2, <2>3, <2>4, <2>5 DEF JobStep
<1>5. ASSUME FirstRefreshed \/ Unload \/ Detach  PROVE EntryPhase' \in 0 .. 7 /\ EntryPhase' < EntryPhase
  <2>1. \/ entry = "first" /\ entry' \in {"loaded", "closing"}
        \/ entry = "loaded" /\ entry' = "closing"
        \/ entry = "detaching" /\ entry' = "gone"
    BY <1>5 DEF FirstRefreshed, Unload, Detach
  <2> QED
    BY <1>0, <2>1, EntryPhaseAt
<1>6. ASSUME EntryStep  PROVE EntryPhase' \in 0 .. 7 /\ EntryPhase' < EntryPhase
  BY <1>4, <1>5, <1>6 DEF EntryStep
<1>7. EntryStep \/ (entry' = entry /\ job'[Entry] = job[Entry])
  <2>1. ASSUME NEW a \in Actors \ {Entry}, JobStep(a)
        PROVE  entry' = entry /\ job'[Entry] = job[Entry]
    <3>1. a \in Polls
      BY <2>1, ActorCases
    <3>2. job'[Entry] = job[Entry]
      BY <1>0, <2>1, <3>1, JobPolls
    <3>3. entry' = entry
      <4>1. CASE CloseBegin(a) \/ SetupBegin(a)
        BY <4>1 DEF CloseBegin, SetupBegin, haVars
      <4>2. CASE CloseEnd(a)
        BY <2>1, <4>2 DEF CloseEnd, Closed
      <4>3. CASE SetupOk(a)
        BY <2>1, <4>3 DEF SetupOk
      <4>4. CASE SetupMfa(a) \/ SetupFails(a)
        BY <2>1, <4>4 DEF SetupMfa, SetupFails, SetupRaised
      <4> QED
        BY <2>1, <4>1, <4>2, <4>3, <4>4 DEF JobStep
    <3> QED
      BY <3>2, <3>3
  <2>2. ASSUME NEW p \in Polls, PollStart(p) \/ PollStep(p) \/ PollCancelled(p)
        PROVE  entry' = entry /\ job'[Entry] = job[Entry]
    BY <1>0, <2>2, PollHandsOver DEF HandsOver, CallInv, Actors
  <2>3. CASE UNCHANGED vars
    BY <2>3 DEF vars, haVars
  <2>4. ASSUME NEW s \in Sessions, RequestRotates(s)
        PROVE  entry' = entry /\ job'[Entry] = job[Entry]
    BY <2>4, RotatesOnly
  <2> QED
    BY <2>1, <2>2, <2>3, <2>4 DEF Next, EntryStep
<1>8. EntryPhase' \in 0 .. 7 /\ EntryPhase' <= EntryPhase
  BY <1>1, <1>2, <1>6, <1>7
<1> QED
  BY <1>6, <1>8

\* Every step of a poll, of the job it has submitted, or the one it left behind, brings
\* it nearer to its end: by a phase (there are twelve, one of them the only login), by an
\* appliance, or by an attempt of which there are Retries.  No step of another poll or of
\* the entry sets it back; and the entry only goes from its setup to its end.
CallsMoveOn ==
  [][/\ \A p \in Polls : poll[p].pc # "idle" \/ job[p] # NoJob =>
          /\ Nearer(p) \/ Aside(p)
          /\ PollStep(p) \/ PollCancelled(p) \/ JobStep(p) => Nearer(p)
     /\ EntryPhase' <= EntryPhase
     /\ EntryStep => EntryPhase' < EntryPhase]_vars

\* For any number of polls that overlap, of appliances and of attempts, however the cloud
\* answers and whoever is cancelled: no call goes round in circles.
THEOREM CallsGetOn == Spec => CallsMoveOn
<1>1. TypeOK /\ Polled /\ ReadInv /\ LeftInv /\ [Next]_vars =>
        [/\ \A p \in Polls : poll[p].pc # "idle" \/ job[p] # NoJob =>
              /\ Nearer(p) \/ Aside(p)
              /\ PollStep(p) \/ PollCancelled(p) \/ JobStep(p) => Nearer(p)
         /\ EntryPhase' <= EntryPhase
         /\ EntryStep => EntryPhase' < EntryPhase]_vars
  BY CallGoesOn, EntryGoesOn DEF ReadInv
<1> QED
  BY <1>1, LeftCorrect, TypeCorrect, PolledCorrect, ReadCorrect, PTL DEF Spec, CallsMoveOn

-----------------------------------------------------------------------------
(* An unload, or a setup that failed, that meets no re-login.              *)

\* No poll has a close or a login in the executor, or submits one, from the moment the
\* entry's own close is submitted.
NoReloginAside == entry \in {"closing", "detaching", "gone"} => \A p \in Polls : job[p] = NoJob

\* From the end of that close on, the client holds nothing.
ClosedInv == entry \in {"detaching", "gone"} => inst = None /\ ~loop

LEMMA ClosedStep ==
  ASSUME TypeOK, CallInv, LockInv, LeftInv, ClosedInv, NoReloginAside, [Next]_vars
  PROVE  ClosedInv'
<1> SUFFICES ASSUME entry' \in {"detaching", "gone"}  PROVE inst' = None /\ ~loop'
  BY DEF ClosedInv
<1>1. ASSUME NEW a \in Actors, JobStep(a)  PROVE inst' = None /\ ~loop'
  <2>1. CASE entry' = entry
    <3>1. job[a] = NoJob
      BY <1>1, <2>1, ActorCases DEF NoReloginAside, LeftInv
    <3> QED
      BY <1>1, <3>1 DEF JobStep, CloseBegin, CloseEnd, SetupBegin, SetupOk, SetupMfa, SetupFails,
                        Ready, Running, NoJob
  <2>2. CASE entry' # entry
    <3>1. CloseEnd(a)
      BY <1>1, <2>2, JobEntry
    <3> QED
      BY <3>1 DEF CloseEnd, LockInv
  <2> QED
    BY <2>1, <2>2
<1>2. ASSUME NEW p \in Polls, PollStart(p) \/ PollStep(p) \/ PollCancelled(p)
      PROVE  inst' = None /\ ~loop'
  <2>1. UNCHANGED <<inst, loop, entry>>
    BY <1>2 DEF PollStart, PollStep, PollCancelled, List, Return, UpdateOk, UpdateTransient,
                UpdateFails, UpdateRejected, clientVars, haVars
  <2> QED
    BY <2>1 DEF ClosedInv
<1>3. CASE FirstRefreshed \/ Unload \/ Detach
  <2>1. ~FirstRefreshed /\ ~Unload
    BY DEF FirstRefreshed, Unload
  <2>2. entry = "detaching" /\ UNCHANGED <<inst, loop>>
    BY <1>3, <2>1 DEF Detach
  <2> QED
    BY <2>2 DEF ClosedInv
<1>4. CASE UNCHANGED vars
  BY <1>4 DEF vars, clientVars, haVars, ClosedInv
<1>5. ASSUME NEW s \in Sessions, RequestRotates(s)  PROVE inst' = None /\ ~loop'
  BY <1>5, RotatesOnly DEF ClosedInv
<1> QED
  BY <1>1, <1>2, <1>3, <1>4, <1>5 DEF Next

\* Once the entry's close is over the dedicated loop is stopped, and no session is open
\* but those whose reference two crossing re-logins had lost before.
NothingRuns ==
  entry \in {"detaching", "gone"} => ~loop /\ \A s \in Sessions : Open(s) => s \in orphaned

\* What client_unload refutes is due to a re-login under way: without one, an unload leaves
\* no session, loop or thread behind, whatever polls it interrupts, nor does a setup or a
\* first refresh that failed.
THEOREM UnloadLeavesNothing ==
  Spec /\ []NoReloginAside => [](NothingRuns /\ (orphaned = {} => UnloadedIsGone))
<1>1. Init => ClosedInv
  BY DEF Init, ClosedInv
<1>2. TypeOK /\ ReadInv /\ LeftInv /\ NoReloginAside /\ ClosedInv /\ [Next]_vars => ClosedInv'
  BY ClosedStep DEF ReadInv
<1>3. NoOrphan /\ LeftInv /\ NoReloginAside /\ ClosedInv => NothingRuns
  <2> SUFFICES ASSUME NoOrphan, LeftInv, NoReloginAside, ClosedInv, entry \in {"detaching", "gone"}
               PROVE  ~loop /\ \A s \in Sessions : Open(s) => s \in orphaned
    BY DEF NothingRuns
  <2>1. inst = None /\ ~loop
    BY DEF ClosedInv
  <2>2. \A a \in Actors : job[a] = NoJob
    BY ActorCases DEF NoReloginAside, LeftInv
  <2>3. ASSUME NEW s \in Sessions, Open(s)  PROVE s \in orphaned
    BY <2>1, <2>2, <2>3, NoneIsNone DEF NoOrphan, Running, NoJob
  <2> QED
    BY <2>1, <2>3
<1>4. NothingRuns => (orphaned = {} => UnloadedIsGone)
  BY DEF NothingRuns, UnloadedIsGone
<1> QED
  BY <1>1, <1>2, <1>3, <1>4, TypeCorrect, ReadCorrect, LeftCorrect, NothingOrphaned, PTL DEF Spec

=============================================================================
