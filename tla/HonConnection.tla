--------------------------- MODULE HonConnection ---------------------------
(***************************************************************************)
(* HonConnection (client/transport/connection.py) with the part of HonAuth *)
(* (client/transport/auth.py) it drives: every HTTP request goes through   *)
(* _intercept, which refreshes or re-creates the login when it must.       *)
(*                                                                         *)
(* Requests are coroutines of one event loop: what runs between two awaits *)
(* is one step.  They share _auth (cur: which HonAuth object), the         *)
(* connection's _refresh_token and _refresh_gen, and _refresh_lock, an     *)
(* asyncio.Lock: first come first served, not reentrant (queue: its head   *)
(* holds it).  Acquiring the free lock is a step of its own here; it only  *)
(* delays the request, which reads nothing before it holds the lock.       *)
(*                                                                         *)
(* The identity provider and the hOn API are outside: a grant number       *)
(* stands for the refresh token, the id token and the cognito token minted *)
(* together, and Nothing for an empty string.                              *)
(***************************************************************************)
EXTENDS Naturals, Sequences

CONSTANTS
  Requests,      \* concurrent calls of get()/post()
  MaxGrants,     \* bound: tokens minted
  MaxAuths,      \* bound: HonAuth objects, one per create()
  MaxUpsets,     \* bound: tokens revoked by the API, or passing their 7 h or 8 h mark
  MaxFaults      \* bound: failed or lost exchanges, cancellations

ASSUME BoundsAssumption ==
  /\ MaxGrants \in Nat \ {0}
  /\ MaxAuths \in Nat \ {0}
  /\ MaxUpsets \in Nat /\ MaxFaults \in Nat

Nothing == 0
Grants == 1 .. MaxGrants
Token == Grants \cup {Nothing}
Auths == 1 .. MaxAuths

\* A HonAuth: id_token, cognito_token, refresh_token and the age of _expires
\* (0 fresh, 1 token_expires_soon, 2 token_is_expired).
Auth == [id : Token, cognito : Token, refresh : Token, age : 0 .. 2]
BlankAuth == [id |-> Nothing, cognito |-> Nothing, refresh |-> Nothing, age |-> 0]

VARIABLES
  auths,         \* every HonAuth object created so far (blank beyond cur)
  cur,           \* the one self._auth names
  refreshToken,  \* the connection's _refresh_token
  refreshGen,    \* _refresh_gen
  queue,         \* _refresh_lock: its holder, then its waiters
  pc,            \* where each request stands
  loop,          \* its loop argument
  why,           \* what it wants the lock for: "headers" | "rejection"
  via,           \* _api_auth called from: "refresh" | "login"
  obj,           \* the HonAuth its pending auth call runs on
  header,        \* cognito token of the request in flight
  genAtSend,     \* its refresh_gen
  granted,       \* identity provider: grants minted
  liveRefresh,   \* refresh tokens it would honour
  spent,         \* refresh tokens it rotated away in a reply that arrived
  accepted,      \* cognito tokens the API accepts
  upsets, faults

connVars == <<auths, cur, refreshToken, refreshGen, queue>>
reqVars  == <<pc, loop, why, via, obj, header, genAtSend>>
srvVars  == <<granted, liveRefresh, spent, accepted>>
bounds   == <<upsets, faults>>
vars     == <<connVars, reqVars, srvVars, bounds>>

InCall == {"refresh", "api_auth", "login"}     \* awaiting an auth exchange
Ended  == {"done", "failed"}

TypeOK ==
  /\ auths \in [Auths -> Auth]
  /\ cur \in Auths
  /\ refreshToken \in Token
  /\ refreshGen \in Nat
  /\ queue \in Seq(Requests)
  /\ pc \in [Requests -> {"idle", "lock", "sent"} \cup InCall \cup Ended]
  /\ loop \in [Requests -> 0 .. 2]
  /\ why \in [Requests -> {"headers", "rejection"}]
  /\ via \in [Requests -> {"refresh", "login"}]
  /\ obj \in [Requests -> Auths]
  /\ header \in [Requests -> Token]
  /\ genAtSend \in [Requests -> Nat]
  /\ granted \in Token
  /\ liveRefresh \subseteq Grants /\ spent \subseteq Grants /\ accepted \subseteq Token
  /\ upsets \in 0 .. MaxUpsets /\ faults \in 0 .. MaxFaults

\* A session starts with the refresh token persisted by an earlier run, which
\* may have died since, or with none.
Init ==
  /\ auths = [a \in Auths |-> BlankAuth]
  /\ cur = 1
  /\ refreshToken \in {Nothing, 1}
  /\ liveRefresh \in SUBSET ({refreshToken} \ {Nothing})
  /\ granted = 1 /\ spent = {} /\ accepted = {}
  /\ refreshGen = 0 /\ queue = <<>>
  /\ pc = [r \in Requests |-> "idle"]
  /\ loop = [r \in Requests |-> 0]
  /\ why = [r \in Requests |-> "headers"]
  /\ via = [r \in Requests |-> "refresh"]
  /\ obj = [r \in Requests |-> 1]
  /\ header = [r \in Requests |-> Nothing]
  /\ genAtSend = [r \in Requests |-> 0]
  /\ upsets = 0 /\ faults = 0

Fault == faults < MaxFaults /\ faults' = faults + 1
Goto(r, label) == pc' = [pc EXCEPT ![r] = label]

-----------------------------------------------------------------------------
(* _check_headers.  a is the HonAuth in use, rt the _refresh_token.        *)

NeedAuth(a) == a.cognito = Nothing \/ a.id = Nothing
NeedRefresh(a, rt) == rt # Nothing /\ (NeedAuth(a) \/ a.age >= 1)

\* Mutant: headers built for an earlier attempt are sent again.
Mutant_Send(r, a, gen) ==
  /\ Goto(r, "sent")
  /\ header' = IF header[r] # Nothing THEN header ELSE [header EXCEPT ![r] = a.cognito]
  /\ genAtSend' = [genAtSend EXCEPT ![r] = gen]

\* Build the headers from the HonAuth in use and send; gen is _refresh_gen now.
Send(r, a, gen) ==
  /\ Goto(r, "sent")
  /\ header' = [header EXCEPT ![r] = a.cognito]
  /\ genAtSend' = [genAtSend EXCEPT ![r] = gen]

\* Mutant: the attempt is counted twice.
Mutant_CheckHeaders(r, l, a, rt, gen, others) ==
  /\ loop' = [loop EXCEPT ![r] = @ + l + 1]
  /\ IF NeedRefresh(a, rt) \/ NeedAuth(a)
       THEN /\ Goto(r, "lock")
            /\ why' = [why EXCEPT ![r] = "headers"]
            /\ queue' = Append(others, r)
            /\ UNCHANGED <<header, genAtSend>>
       ELSE Send(r, a, gen) /\ queue' = others /\ UNCHANGED why

\* The check outside the lock, on behalf of _intercept(loop=l); others is the
\* lock's queue as the caller leaves it.
CheckHeaders(r, l, a, rt, gen, others) ==
  /\ loop' = [loop EXCEPT ![r] = l]
  /\ IF NeedRefresh(a, rt) \/ NeedAuth(a)
       THEN /\ Goto(r, "lock")
            /\ why' = [why EXCEPT ![r] = "headers"]
            /\ queue' = Append(others, r)
            /\ UNCHANGED <<header, genAtSend>>
       ELSE Send(r, a, gen) /\ queue' = others /\ UNCHANGED why

Enter(r) ==
  /\ pc[r] = "idle"
  /\ CheckHeaders(r, 0, auths[cur], refreshToken, refreshGen, queue)
  /\ UNCHANGED <<auths, cur, refreshToken, refreshGen, via, obj, srvVars, bounds>>

\* Mutant: the lock excludes nobody.
Mutant_HoldsLock(r) == \E i \in 1 .. Len(queue) : queue[i] = r

HoldsLock(r) == queue # <<>> /\ Head(queue) = r

\* HonAuth.refresh(self._refresh_token), up to its POST.
StartRefresh(r) ==
  /\ auths' = IF refreshToken = Nothing THEN auths
              ELSE [auths EXCEPT ![cur].refresh = refreshToken]
  /\ obj' = [obj EXCEPT ![r] = cur]
  /\ Goto(r, "refresh")
  /\ UNCHANGED <<loop, header, genAtSend, queue>>

\* HonAuth.authenticate(), up to its first request: everything is cleared.
StartLogin(r, as) ==
  /\ auths' = [as EXCEPT ![cur] = [BlankAuth EXCEPT !.age = as[cur].age]]
  /\ obj' = [obj EXCEPT ![r] = cur]
  /\ Goto(r, "login")
  /\ UNCHANGED <<loop, header, genAtSend, queue>>

SendUnlocked(r, as, gen) ==
  /\ auths' = as
  /\ Send(r, as[cur], gen)
  /\ queue' = Tail(queue)
  /\ UNCHANGED <<obj, loop>>

\* The re-check under the lock.
LockedHeaders(r) ==
  /\ pc[r] = "lock" /\ HoldsLock(r) /\ why[r] = "headers"
  /\ IF NeedRefresh(auths[cur], refreshToken) THEN StartRefresh(r)
     ELSE IF NeedAuth(auths[cur]) THEN StartLogin(r, auths)
     ELSE SendUnlocked(r, auths, refreshGen)
  /\ UNCHANGED <<cur, refreshToken, refreshGen, why, via, srvVars, bounds>>

\* Mutant: every rejected request refreshes.
Mutant_LockedRejection(r) ==
  /\ pc[r] = "lock" /\ HoldsLock(r) /\ why[r] = "rejection"
  /\ StartRefresh(r)
  /\ UNCHANGED <<why, cur, refreshToken, refreshGen, via, srvVars, bounds>>

\* _refresh_after_rejection: a sibling that has refreshed since this request
\* was sent spares it the refresh.
LockedRejection(r) ==
  /\ pc[r] = "lock" /\ HoldsLock(r) /\ why[r] = "rejection"
  /\ IF refreshGen # genAtSend[r]
       THEN /\ CheckHeaders(r, 1, auths[cur], refreshToken, refreshGen, Tail(queue))
            /\ UNCHANGED <<auths, obj>>
       ELSE StartRefresh(r) /\ UNCHANGED why
  /\ UNCHANGED <<cur, refreshToken, refreshGen, via, srvVars, bounds>>

\* Mutant: the rotated refresh token is not copied back.
Mutant_NoCopyBack(r, as) ==
  /\ refreshToken' = refreshToken
  /\ refreshGen' = refreshGen + 1
  /\ IF why[r] = "headers"
       THEN /\ IF NeedAuth(as[cur]) THEN StartLogin(r, as)
               ELSE SendUnlocked(r, as, refreshGen + 1)
            /\ UNCHANGED why
       ELSE /\ CheckHeaders(r, 1, as[cur], refreshToken, refreshGen + 1, Tail(queue))
            /\ auths' = as /\ UNCHANGED obj

\* What follows the return of refresh(), with as the HonAuth objects it leaves:
\* copy-back and _refresh_gen + 1 whatever it returned, then the rest of
\* _check_headers, or the release of the lock and _intercept(loop=1).
RefreshReturns(r, as) ==
  /\ refreshToken' = as[cur].refresh
  /\ refreshGen' = refreshGen + 1
  /\ IF why[r] = "headers"
       THEN /\ IF NeedAuth(as[cur]) THEN StartLogin(r, as)
               ELSE SendUnlocked(r, as, refreshGen + 1)
            /\ UNCHANGED why
       ELSE /\ CheckHeaders(r, 1, as[cur], as[cur].refresh, refreshGen + 1, Tail(queue))
            /\ auths' = as /\ UNCHANGED obj

LoginReturns(r, as) ==
  /\ refreshToken' = as[cur].refresh
  /\ refreshGen' = refreshGen + 1
  /\ SendUnlocked(r, as, refreshGen + 1)
  /\ UNCHANGED why

\* An exception leaves the locked region: the request fails, the lock is freed.
Raise(r) ==
  /\ Goto(r, "failed")
  /\ queue' = Tail(queue)
  /\ UNCHANGED <<loop, why, via, obj, header, genAtSend, cur, refreshToken, refreshGen>>

-----------------------------------------------------------------------------
(* HonAuth.refresh, _api_auth and authenticate, at the exchanges.          *)

\* The id and refresh token of a reply; the cognito token waits for _api_auth.
Adopt(a, grant) ==
  [id |-> grant, cognito |-> a.cognito, refresh |-> grant, age |-> 0]

\* refresh() returns False: the token is refused, or the provider has a 5xx or
\* a reply without tokens (a fault).
RefreshRefused(r) ==
  /\ pc[r] = "refresh"
  /\ IF auths[obj[r]].refresh \in liveRefresh THEN Fault ELSE UNCHANGED faults
  /\ RefreshReturns(r, auths)
  /\ UNCHANGED <<cur, via, srvVars, upsets>>

\* The provider rotates: the token presented is spent for a new grant.
Rotate(rt) ==
  /\ rt \in liveRefresh /\ granted < MaxGrants
  /\ granted' = granted + 1
  /\ liveRefresh' = (liveRefresh \ {rt}) \cup {granted + 1}
  /\ UNCHANGED accepted

RefreshGranted(r) ==
  /\ pc[r] = "refresh"
  /\ Rotate(auths[obj[r]].refresh)
  /\ spent' = spent \cup {auths[obj[r]].refresh}
  /\ auths' = [auths EXCEPT ![obj[r]] = Adopt(@, granted + 1)]
  /\ via' = [via EXCEPT ![r] = "refresh"]
  /\ Goto(r, "api_auth")
  /\ UNCHANGED <<cur, refreshToken, refreshGen, queue, loop, why, obj, header, genAtSend, bounds>>

\* The token POST raises, before or after the provider did its part.
RefreshRaises(r) ==
  /\ pc[r] = "refresh" /\ Fault
  /\ Rotate(auths[obj[r]].refresh) \/ UNCHANGED <<granted, liveRefresh, accepted>>
  /\ Raise(r)
  /\ UNCHANGED <<auths, spent, upsets>>

\* _api_auth trades the id token for a cognito token.
ApiAuthGranted(r) ==
  /\ pc[r] = "api_auth"
  /\ LET o == obj[r]
         as == [auths EXCEPT ![o].cognito = auths[o].id]
     IN  /\ accepted' = accepted \cup {auths[o].id}
         /\ IF via[r] = "refresh" THEN RefreshReturns(r, as) ELSE LoginReturns(r, as)
  /\ UNCHANGED <<cur, via, granted, liveRefresh, spent, bounds>>

\* It raises: on a reply without a cognito token, or on the exchange itself.
ApiAuthRaises(r) ==
  /\ pc[r] = "api_auth" /\ Fault
  /\ \/ auths' = [auths EXCEPT ![obj[r]].cognito = Nothing]
     \/ UNCHANGED auths
  /\ Raise(r)
  /\ UNCHANGED <<srvVars, upsets>>

\* The interactive login, from _introduce to _get_token.
LoginGranted(r) ==
  /\ pc[r] = "login" /\ granted < MaxGrants
  /\ granted' = granted + 1
  /\ liveRefresh' = liveRefresh \cup {granted + 1}
  /\ auths' = [auths EXCEPT ![obj[r]] = Adopt(@, granted + 1)]
  /\ via' = [via EXCEPT ![r] = "login"]
  /\ Goto(r, "api_auth")
  /\ UNCHANGED <<cur, refreshToken, refreshGen, queue, loop, why, obj, header, genAtSend,
                 spent, accepted, bounds>>

\* Wrong page, no network, or the 2FA challenge, before or after _introduce has
\* renewed _expires.
LoginRaises(r) ==
  /\ pc[r] = "login" /\ Fault
  /\ UNCHANGED auths \/ auths' = [auths EXCEPT ![obj[r]].age = 0]
  /\ Raise(r)
  /\ UNCHANGED <<srvVars, upsets>>

-----------------------------------------------------------------------------
(* _intercept after the response, and the environment.                     *)

Authorized(r) == header[r] \in accepted

\* First attempt: rejected, or the token is about to expire.
Rejected(r) ==
  /\ pc[r] = "sent" /\ loop[r] = 0
  /\ ~Authorized(r) \/ auths[cur].age >= 1
  /\ Goto(r, "lock")
  /\ why' = [why EXCEPT ![r] = "rejection"]
  /\ queue' = Append(queue, r)
  /\ UNCHANGED <<auths, cur, refreshToken, refreshGen, loop, via, obj, header, genAtSend,
                 srvVars, bounds>>

\* Second attempt rejected too, or made with a dead token: create() puts a
\* blank HonAuth in place and the request starts over.
Recreate(r) ==
  /\ pc[r] = "sent" /\ loop[r] = 1
  /\ ~Authorized(r) \/ auths[cur].age = 2
  /\ cur < MaxAuths
  /\ cur' = cur + 1
  /\ CheckHeaders(r, 2, BlankAuth, refreshToken, refreshGen, queue)
  /\ UNCHANGED <<auths, refreshToken, refreshGen, via, obj, srvVars, bounds>>

GiveUp(r) ==
  /\ pc[r] = "sent" /\ loop[r] = 2
  /\ ~Authorized(r) \/ auths[cur].age = 2
  /\ Goto(r, "failed")
  /\ UNCHANGED <<connVars, loop, why, via, obj, header, genAtSend, srvVars, bounds>>

Answered(r) ==
  /\ pc[r] = "sent"
  /\ Authorized(r)
  /\ \/ loop[r] = 0 /\ auths[cur].age = 0
     \/ loop[r] > 0 /\ auths[cur].age < 2
  /\ Goto(r, "done")
  /\ UNCHANGED <<connVars, loop, why, via, obj, header, genAtSend, srvVars, bounds>>

\* The queue without r, wherever it stands in it.
Dequeued(r) ==
  IF \E i \in 1 .. Len(queue) : queue[i] = r
  THEN LET i == CHOOSE i \in 1 .. Len(queue) : queue[i] = r
       IN  [j \in 1 .. Len(queue) - 1 |-> queue[IF j < i THEN j ELSE j + 1]]
  ELSE queue

\* The caller gives up (the 60 s cap, a sibling's failure): CancelledError at
\* the await, wherever that is.
Cancel(r) ==
  /\ pc[r] \in {"lock", "sent"} \cup InCall
  /\ Fault
  /\ Goto(r, "failed")
  /\ queue' = Dequeued(r)
  /\ UNCHANGED <<auths, cur, refreshToken, refreshGen, loop, why, via, obj, header,
                 genAtSend, srvVars, upsets>>

\* The API stops accepting every token it has given out.
Revoke ==
  /\ upsets < MaxUpsets /\ accepted # {}
  /\ upsets' = upsets + 1
  /\ accepted' = {}
  /\ UNCHANGED <<connVars, reqVars, granted, liveRefresh, spent, faults>>

\* Time passes: the tokens in use near, then pass, their expiry.
Age ==
  /\ upsets < MaxUpsets /\ auths[cur].age < 2
  /\ upsets' = upsets + 1
  /\ auths' = [auths EXCEPT ![cur].age = @ + 1]
  /\ UNCHANGED <<cur, refreshToken, refreshGen, queue, reqVars, srvVars, faults>>

\* A step the request takes, or is answered, without anything going wrong.
Advance(r) ==
  \/ Enter(r) \/ LockedHeaders(r) \/ LockedRejection(r)
  \/ RefreshRefused(r) \/ RefreshGranted(r) \/ ApiAuthGranted(r) \/ LoginGranted(r)
  \/ Rejected(r) \/ Recreate(r) \/ GiveUp(r) \/ Answered(r)

Next ==
  \/ \E r \in Requests :
       \/ Advance(r)
       \/ RefreshRaises(r) \/ ApiAuthRaises(r) \/ LoginRaises(r) \/ Cancel(r)
  \/ Revoke \/ Age

Spec == Init /\ [][Next]_vars

\* Every exchange is answered in the end (the session has timeouts) and the
\* event loop is fair to ready coroutines.
FairSpec == Spec /\ \A r \in Requests : WF_vars(Advance(r))

-----------------------------------------------------------------------------
(* Properties.                                                             *)

\* Token calls exclude each other: at most one request is inside refresh() or
\* authenticate(), so a rotating provider never sees the same token twice at
\* once.
OneTokenCall ==
  \A r, s \in Requests : pc[r] \in InCall /\ pc[s] \in InCall => r = s

\* No exchange has failed and nobody has cancelled.
Undisturbed == faults = 0

\* No refresh presents a token whose replacement the process was given, as long as
\* every exchange is answered.
NoReplay ==
  Undisturbed => \A r \in Requests : pc[r] = "refresh" => auths[obj[r]].refresh \notin spent

\* A refresh starts only if the tokens in use are rejected, missing or about to
\* expire: a burst of rejected requests collapses to one refresh.
InUseIsGood ==
  /\ auths[cur].cognito \in accepted
  /\ auths[cur].cognito = auths[cur].id
  /\ auths[cur].age = 0
NoWastedRefresh ==
  [][\A r \in Requests :
       Undisturbed' /\ pc[r] # "refresh" /\ pc'[r] = "refresh" => ~InUseIsGood]_vars

\* Refresh tokens, which rotate, are spent once and only when one is needed.
TokensAreNotWasted == []NoReplay /\ NoWastedRefresh

\* The password login is the last resort: as long as no exchange fails, it starts
\* only when the provider honours none of the refresh tokens it has granted.
LoginIsLastResort ==
  [][\A r \in Requests :
       Undisturbed' /\ pc[r] # "login" /\ pc'[r] = "login" => liveRefresh = {}]_vars

\* One revocation, or one token that ages in flight, fails no request, whoever else
\* is recovering from it at the time.
NoSpuriousFailure ==
  [][\A r \in Requests : Undisturbed' /\ pc[r] # "failed" => pc'[r] # "failed"]_vars

\* Every request ends: the lock is never held for ever, whatever fails or is
\* cancelled.
EveryRequestEnds == \A r \in Requests : pc[r] # "idle" ~> pc[r] \in Ended

\* Every request is served in the end, unless something really failed.
RequestsAreServed == NoSpuriousFailure /\ EveryRequestEnds
=============================================================================
