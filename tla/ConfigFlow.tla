----------------------------- MODULE ConfigFlow -----------------------------
(***************************************************************************)
(* The config flow (config_flow.py) with the clients it makes: a form is   *)
(* submitted, a throw-away HonClient logs in to validate it, and where the *)
(* account wants an e-mailed code the client is held, half open, until the *)
(* code has been verified on that very session.                            *)
(*                                                                         *)
(* A step of the flow is a coroutine of Home Assistant's loop (call).      *)
(* Whenever it awaits an executor job on a client, another step may run,   *)
(* or the flow be removed. A job holds the client's _lifecycle_lock from   *)
(* beginning to end, so it is one step: RunJob. What follows the await is  *)
(* another.                                                                *)
(***************************************************************************)
EXTENDS FailureCodes, FiniteSets

CONSTANTS
  Calls,                  \* submissions that may be under way together
  Passwords, Right,       \* the one the account accepts
  MaxClients,             \* bound: clients made, one for each form submitted
  MaxCodes,               \* bound: codes submitted or asked for again
  MaxFaults,              \* bound: requests that fail
  AbandonedInValidation   \* may the flow be removed while validate_input runs?

ASSUME PasswordsAssumption == Right \in Passwords
ASSUME FlowBoundsAssumption == MaxClients \in Nat /\ MaxCodes \in Nat /\ MaxFaults \in Nat
ASSUME FlowSwitchAssumption == AbandonedInValidation \in BOOLEAN

Clients  == 1 .. MaxClients
NoClient == 0

-----------------------------------------------------------------------------
(* How a job ends: well, with a challenge, or with an exception, which is  *)
(* named by the place that raises it and the status or cause it reports.   *)

End(step, status) == [step |-> step, status |-> status]
Ok  == End("ok", "none")
Mfa == End("mfa", "none")

LoginSteps == {"introduce", "login", "get_token"}
Statuses   == {"2xx", "4xx", "denied", "429", "5xx"}
Network    == {End("network", w) :
                 w \in {"refused", "dns", "certificate", "timeout", "capped", "disconnected"}}
ApiErrors  == {End("api_auth", "none"), End("decode", "none")} \cup Network
LoginErrors == {End(s, w) : s \in LoginSteps, w \in Statuses} \cup ApiErrors
WrongPassword == {End("login", "2xx"), End("login", "4xx")}
SendErrors == {End("mfa_send", "none"), End("unreadable", "5xx")} \cup Network
VerifyErrors == {End("mfa_service", "none"), End("unreadable", "5xx")} \cup Network
FinishErrors == {End("mfa_token", "none")} \cup ApiErrors
CodeInvalid == End("mfa_code", "none")
NoChallenge == End("no_challenge", "none")
NoAttribute == End("no_client", "none")
Ends == {Ok, Mfa, CodeInvalid, NoChallenge, NoAttribute}
          \cup LoginErrors \cup SendErrors \cup VerifyErrors \cup FinishErrors

Coded(code) == [code |-> code, timeout |-> FALSE, text |-> {}, name |-> {}]
Plain(text) == [code |-> NoCode, timeout |-> FALSE, text |-> text, name |-> {}]
NativeAuthError(text) == [code |-> NoCode, timeout |-> FALSE, text |-> text, name |-> {"auth"}]
StatusMarks(w) == CASE w \in {"429", "5xx"} -> {w} [] w = "denied" -> {"auth"} [] OTHER -> {}

\* The exception itself, as the catalog sees it.
Failure(e) ==
  CASE e.step \in LoginSteps    -> NativeAuthError({e.step} \cup StatusMarks(e.status))
    [] e.step = "api_auth"      -> NativeAuthError({"api_auth", "auth"})
    [] e.step = "decode"        -> NativeAuthError({"decode"})
    [] e.step = "unreadable"    -> NativeAuthError(StatusMarks(e.status))
    [] e.step = "mfa_send"      -> Coded("mfa_send_failed")
    [] e.step = "mfa_service"   -> Coded("mfa_service_error")
    [] e.step = "mfa_code"      -> Coded("mfa_code_invalid")
    [] e.step = "mfa_token"     -> Coded("mfa_token_after_verify_failed")
    [] e.step = "no_client"     -> Plain({"auth"})
    [] e.step = "no_challenge"  -> Plain({})
    [] e.status = "capped"      -> Coded(PhaseTimeoutCode("load_appliances"))
    [] e.status = "timeout"     -> [Plain({}) EXCEPT !.timeout = TRUE]
    [] e.status = "dns"         -> Plain({"dns", "refused"})
    [] e.status = "certificate" -> Plain({"certificate", "refused"})
    [] e.status = "refused"     -> Plain({"refused"})
    [] OTHER                    -> Plain({})

\* The error key of the form: the code's own, or that of its bucket.
ErrorBase(e) ==
  LET code == Classify(Failure(e), "none")
  IN  IF code \notin Hidden THEN code
      ELSE IF RequiresReauth(Failure(e)) THEN "invalid_auth" ELSE "cannot_connect"

-----------------------------------------------------------------------------
\* A client's session: it waits for a code (challenge), or is logged in (live).
\* sent: the code went out; spent: it has been verified; tok: the session has
\* tokens; proved: its login has gone through to the end.
Client == [st : {"unused", "setup", "challenge", "live", "closed"}, pw : Passwords,
           sent : BOOLEAN, spent : BOOLEAN, tok : BOOLEAN, proved : BOOLEAN]
Unused == [st |-> "unused", pw |-> Right, sent |-> FALSE, spent |-> FALSE,
           tok |-> FALSE, proved |-> FALSE]

\* What is saved: a password, and the client whose refresh token goes with it.
Saved == [pw : Passwords, tok : Clients \cup {NoClient}]
Idle  == [at |-> "idle", on |-> NoClient, job |-> "done", res |-> Ok, code |-> "none",
          mine |-> NoClient, data |-> [pw |-> Right, tok |-> NoClient]]
\* A coroutine: the await it stands at, its job and the client the job is on;
\* mine is err.client while an older one is being closed.
Call  == {k \in [at : {"idle", "setup", "discard", "replace", "send", "submit", "finish"},
                 on : Clients \cup {NoClient}, job : {"pending", "done"}, res : Ends,
                 code : {"none", "right", "wrong"}, mine : Clients \cup {NoClient}, data : Saved] :
            /\ k.at # "idle" => k.on # NoClient
            /\ k.at = "replace" => k.mine # NoClient}
NoEntry == [pw |-> "none", tok |-> NoClient]

VARIABLES
  setting,   \* whose flow it is, and what the account is like: never changes
  flow,      \* "open" | "gone"
  held,      \* _mfa_client, with its context and form data
  call,      \* the steps under way
  removal,   \* client that async_remove is closing
  cl,        \* every client
  entry,     \* the entry's data
  form,      \* the form shown: its step, its error key, the exception behind it
  codes, faults

vars == <<setting, flow, held, call, removal, cl, entry, form, codes, faults>>

Setting == [kind : {"user", "reauth"}, twoFactor : BOOLEAN, sameAccount : BOOLEAN]

TypeOK ==
  /\ setting \in Setting
  /\ flow \in {"open", "gone"}
  /\ held \in Clients \cup {NoClient}
  /\ call \in [Calls -> Call]
  /\ removal \in Clients \cup {NoClient}
  /\ cl \in [Clients -> Client]
  /\ entry \in Saved \cup {NoEntry}
  /\ form.step \in {"first", "2fa"} /\ form.why \in Ends
  /\ codes \in 0 .. MaxCodes /\ faults \in 0 .. MaxFaults

\* A reauth flow has its entry; so may a user flow, for an account configured already.
Init ==
  /\ setting \in Setting
  /\ flow = "open" /\ held = NoClient /\ removal = NoClient
  /\ call = [h \in Calls |-> Idle]
  /\ cl = [c \in Clients |-> Unused]
  /\ entry \in {NoEntry, [pw |-> Right, tok |-> NoClient]}
  /\ setting.kind = "reauth" => entry # NoEntry
  /\ form = [step |-> "first", key |-> "none", why |-> Ok]
  /\ codes = 0 /\ faults = 0

Fault == faults < MaxFaults /\ faults' = faults + 1

\* Home Assistant removes the flow, on the user's word or because it has ended:
\* async_remove takes the held client away and closes it.
Dismiss ==
  IF flow = "open"
    THEN flow' = "gone" /\ held' = NoClient /\ removal' = held
    ELSE UNCHANGED <<flow, held, removal>>

Show(step, e) ==
  form' = IF flow = "gone" THEN form
          ELSE [step |-> step, key |-> IF e = Ok THEN "none" ELSE ErrorBase(e), why |-> e]

Awaits(h, at, c) == [call[h] EXCEPT !.at = at, !.on = c, !.job = "pending"]
Resumes(h, at) == call[h].at = at /\ call[h].job = "done"
Return(h) == call' = [call EXCEPT ![h] = Idle]

-----------------------------------------------------------------------------
(* What the user does.                                                     *)

\* The first form. An account that is configured already is turned away; for any
\* other a client is made, and its login waited for (validate_input).
SubmitFirst(h, p) ==
  /\ flow = "open" /\ call[h].at = "idle"
  /\ \/ /\ setting.kind = "user" /\ entry # NoEntry
        /\ Dismiss
        /\ UNCHANGED <<call, cl>>
     \/ /\ setting.kind = "reauth" \/ entry = NoEntry
        /\ \E c \in Clients :
             /\ cl[c].st = "unused" /\ \A y \in 1 .. c - 1 : cl[y].st # "unused"
             /\ cl' = [cl EXCEPT ![c] = [Unused EXCEPT !.st = "setup", !.pw = p]]
             /\ call' = [call EXCEPT ![h] = Awaits(h, "setup", c)]
        /\ UNCHANGED <<flow, held, removal>>
  /\ UNCHANGED <<setting, entry, form, codes, faults>>

\* The second form: a code, nothing at all, or the wish for another code. Only who
\* has had a code can type the right one.
Submit2fa(h, input) ==
  /\ flow = "open" /\ call[h].at = "idle" /\ form.step = "2fa"
  /\ codes < MaxCodes /\ codes' = codes + 1
  /\ input = "right" => held # NoClient /\ cl[held].sent
  /\ \/ /\ held = NoClient
        /\ Dismiss
        /\ UNCHANGED <<call, form>>
     \/ /\ held # NoClient /\ input = "nothing"
        /\ Show("2fa", CodeInvalid)
        /\ UNCHANGED <<call, flow, held, removal>>
     \/ /\ held # NoClient /\ input # "nothing"
        /\ call' = [call EXCEPT ![h] =
             IF input = "resend" THEN Awaits(h, "send", held)
             ELSE [Awaits(h, "submit", held) EXCEPT !.code = input]]
        /\ UNCHANGED <<form, flow, held, removal>>
  /\ UNCHANGED <<setting, cl, entry, faults>>

\* The dialog is closed, or Home Assistant drops the flow.
Abandon ==
  /\ flow = "open"
  /\ AbandonedInValidation \/ \A h \in Calls : call[h].at \notin {"setup", "replace"}
  /\ Dismiss
  /\ UNCHANGED <<setting, call, cl, entry, form, codes, faults>>

-----------------------------------------------------------------------------
(* The executor: one job on one client, under its lock.                    *)

LogIn(c) == [cl EXCEPT ![c].st = "live", ![c].tok = TRUE, ![c].proved = TRUE]
Shut(c)  == [cl EXCEPT ![c].st = "closed"]

\* setup_sync: any failure but the challenge closes the client before it is raised.
SetUp(c, e) ==
  \/ /\ cl[c].pw = Right
     /\ e = IF setting.twoFactor THEN Mfa ELSE Ok
     /\ cl' = IF setting.twoFactor THEN [cl EXCEPT ![c].st = "challenge"] ELSE LogIn(c)
     /\ UNCHANGED faults
  \/ cl[c].pw # Right /\ e \in WrongPassword /\ cl' = Shut(c) /\ UNCHANGED faults
  \/ Fault /\ e \in LoginErrors /\ cl' = Shut(c)

\* resend_mfa_code_sync: every code but the last is void.
SendCode(c, e) ==
  \/ cl[c].st = "closed" /\ e = NoChallenge /\ UNCHANGED <<cl, faults>>
  \/ /\ cl[c].st # "closed" /\ e = Ok
     /\ cl' = [cl EXCEPT ![c].sent = TRUE, ![c].spent = FALSE]
     /\ UNCHANGED faults
  \/ cl[c].st # "closed" /\ Fault /\ e \in SendErrors /\ UNCHANGED cl

\* submit_mfa_code_sync: the code is verified, then spent, the tokens are fetched
\* and the session set up.
SubmitCode(c, code, e) ==
  \/ cl[c].st = "closed" /\ e = NoChallenge /\ UNCHANGED <<cl, faults>>
  \/ /\ cl[c].st # "closed" /\ (code = "wrong" \/ cl[c].spent)
     /\ e = CodeInvalid /\ UNCHANGED <<cl, faults>>
  \/ cl[c].st # "closed" /\ Fault /\ e \in VerifyErrors /\ UNCHANGED cl
  \/ /\ cl[c].st # "closed" /\ code = "right" /\ ~cl[c].spent
     /\ \/ e = Ok /\ cl' = [LogIn(c) EXCEPT ![c].spent = TRUE] /\ UNCHANGED faults
        \/ /\ Fault /\ e \in FinishErrors
           /\ \E got \in BOOLEAN : cl' = [cl EXCEPT ![c].spent = TRUE, ![c].tok = @ \/ got]

RunJob(h) ==
  /\ call[h].job = "pending"
  /\ \E e \in Ends :
       /\ call' = [call EXCEPT ![h].job = "done", ![h].res = e]
       /\ \/ call[h].at = "setup" /\ SetUp(call[h].on, e)
          \/ call[h].at = "send" /\ SendCode(call[h].on, e)
          \/ call[h].at = "submit" /\ SubmitCode(call[h].on, call[h].code, e)
  /\ UNCHANGED <<setting, flow, held, removal, entry, form, codes>>

\* _close_sync, which anybody may call twice.
RunClose(h) ==
  /\ call[h].job = "pending" /\ call[h].at \in {"discard", "replace", "finish"}
  /\ call' = [call EXCEPT ![h].job = "done"]
  /\ cl' = Shut(call[h].on)
  /\ UNCHANGED <<setting, flow, held, removal, entry, form, codes, faults>>

RunRemoval ==
  /\ removal # NoClient /\ removal' = NoClient
  /\ cl' = Shut(removal)
  /\ UNCHANGED <<setting, flow, held, call, entry, form, codes, faults>>

-----------------------------------------------------------------------------
(* The steps of the flow, resumed.                                         *)

\* The refresh token a client can give.
Token(c) == IF cl[c].tok /\ cl[c].st # "closed" THEN c ELSE NoClient
\* Mutant: what is saved is the form alone.
Mutant_Gives(c) == [pw |-> cl[c].pw]

Gives(c) == [pw |-> cl[c].pw, tok |-> Token(c)]

\* Mutant: the client held before is simply replaced.
Mutant_Begin(h, c) == held' = c /\ call' = [call EXCEPT ![h] = Awaits(h, "send", c)]

\* _mfa_begin: the client held before is closed first. Then the code is asked for.
Begin(h, c) ==
  IF held \in {NoClient, c}
    THEN held' = c /\ call' = [call EXCEPT ![h] = Awaits(h, "send", c)]
    ELSE /\ held' = NoClient
         /\ call' = [call EXCEPT ![h] = [Awaits(h, "replace", held) EXCEPT !.mine = c]]

\* Mutant: a client that is not challenged is closed only when its login failed.
Mutant_ResumeSetup(h) ==
  LET c == call[h].on
  IN  /\ Resumes(h, "setup")
      /\ \/ call[h].res = Mfa /\ Begin(h, c)
         \/ /\ call[h].res \notin {Mfa, Ok}
            /\ call' = [call EXCEPT ![h] = [Awaits(h, "discard", c) EXCEPT !.data = Gives(c)]]
            /\ UNCHANGED held
         \/ /\ call[h].res = Ok /\ UNCHANGED held
            /\ call' = [call EXCEPT ![h] =
                 [@ EXCEPT !.at = "discard", !.data = Gives(c)]]
      /\ UNCHANGED <<setting, flow, removal, cl, entry, form, codes, faults>>

\* validate_input, its setup done: a challenge keeps the client; any other client is
\* closed in the finally, but its refresh token is read before that.
ResumeSetup(h) ==
  LET c == call[h].on
  IN  /\ Resumes(h, "setup")
      /\ \/ call[h].res = Mfa /\ Begin(h, c)
         \/ /\ call[h].res # Mfa
            /\ call' = [call EXCEPT ![h] = [Awaits(h, "discard", c) EXCEPT !.data = Gives(c)]]
            /\ UNCHANGED held
      /\ UNCHANGED <<setting, flow, removal, cl, entry, form, codes, faults>>

ResumeReplace(h) ==
  /\ Resumes(h, "replace")
  /\ held' = call[h].mine
  /\ call' = [call EXCEPT ![h] = Awaits(h, "send", call[h].mine)]
  /\ UNCHANGED <<setting, flow, removal, cl, entry, form, codes, faults>>

ResumeSend(h) ==
  /\ Resumes(h, "send")
  /\ Show("2fa", call[h].res)
  /\ Return(h)
  /\ UNCHANGED <<setting, flow, held, removal, cl, entry, codes, faults>>

\* _async_finish_2fa takes what it saves from the client still held, then closes it.
\* A removed flow holds none: that exception is shown to nobody.
ResumeSubmit(h) ==
  /\ Resumes(h, "submit")
  /\ \/ /\ call[h].res # Ok \/ held = NoClient
        /\ Show("2fa", IF call[h].res = Ok THEN NoAttribute ELSE call[h].res)
        /\ Return(h)
        /\ UNCHANGED held
     \/ /\ call[h].res = Ok /\ held # NoClient
        /\ call' = [call EXCEPT ![h] = [Awaits(h, "finish", held) EXCEPT !.data = Gives(held)]]
        /\ held' = NoClient
        /\ UNCHANGED form
  /\ UNCHANGED <<setting, flow, removal, cl, entry, codes, faults>>

\* The flow ends. Home Assistant drops the new entry of a flow it has removed; an
\* entry that is there already is updated by the flow itself, if the account is its own.
Save(data) ==
  /\ entry' = IF \/ setting.kind = "user" /\ flow = "open"
                 \/ setting.kind = "reauth" /\ setting.sameAccount
              THEN data ELSE entry
  /\ Dismiss

ResumeFinish(h) ==
  /\ Resumes(h, "finish")
  /\ Save(call[h].data)
  /\ Return(h)
  /\ UNCHANGED <<setting, cl, form, codes, faults>>

\* Mutant: the refresh token is asked of the client after it has been closed.
Mutant_ResumeDiscard(h) ==
  /\ Resumes(h, "discard")
  /\ Return(h)
  /\ \/ call[h].res = Ok /\ Save(Gives(call[h].on)) /\ UNCHANGED form
     \/ /\ call[h].res # Ok
        /\ Show("first", call[h].res)
        /\ UNCHANGED <<flow, held, removal, entry>>
  /\ UNCHANGED <<setting, cl, codes, faults>>

ResumeDiscard(h) ==
  /\ Resumes(h, "discard")
  /\ Return(h)
  /\ \/ call[h].res = Ok /\ Save(call[h].data) /\ UNCHANGED form
     \/ /\ call[h].res # Ok
        /\ Show("first", call[h].res)
        /\ UNCHANGED <<flow, held, removal, entry>>
  /\ UNCHANGED <<setting, cl, codes, faults>>

-----------------------------------------------------------------------------
Resume(h) ==
  \/ ResumeSetup(h) \/ ResumeReplace(h) \/ ResumeSend(h)
  \/ ResumeSubmit(h) \/ ResumeFinish(h) \/ ResumeDiscard(h)

Next ==
  \/ \E h \in Calls :
       \/ \E p \in Passwords : SubmitFirst(h, p)
       \/ \E input \in {"nothing", "resend", "right", "wrong"} : Submit2fa(h, input)
       \/ RunJob(h) \/ RunClose(h) \/ Resume(h)
  \/ Abandon \/ RunRemoval

\* Jobs have their timeouts, and an executor and a loop that run what they are given.
Fairness ==
  /\ \A h \in Calls : WF_vars(RunJob(h)) /\ WF_vars(RunClose(h)) /\ WF_vars(Resume(h))
  /\ WF_vars(RunRemoval)

Spec == Init /\ [][Next]_vars /\ Fairness

-----------------------------------------------------------------------------
(* Properties.                                                             *)

\* Where a client is: the flow keeps one between its forms; a step that has one
\* owes it a close or a hand-over; a close is on its way or done.
Closing(c) ==
  \/ removal = c
  \/ \E h \in Calls : /\ call[h].on = c /\ call[h].job = "pending"
                      /\ call[h].at \in {"discard", "replace", "finish"}
Where ==
  [c \in Clients |->
     IF cl[c].st = "unused" THEN "fresh" ELSE IF cl[c].st = "closed" THEN "gone"
     ELSE IF c = held THEN "kept" ELSE IF Closing(c) THEN "closing" ELSE "made"]

Custodian == INSTANCE Custody WITH Things <- Clients, where <- Where, owner <- flow = "open"

\* The flow implements the abstract owner: a client is kept by a flow that is still
\* there, one at a time; the one before it is closed first, and the removal of the
\* flow closes what it kept (_mfa_begin, _async_close_mfa_client, async_remove).
FlowInCustody == Custodian!Spec

\* What is saved works: the refresh token of a login that went through to the end,
\* with the very password that it was made with, and for a reauth the entry's account.
\* A client closed before its token is read, or a half-done verification, breaks it.
EntryIsVerified ==
  [][entry' # entry =>
       /\ entry'.tok # NoClient
       /\ cl[entry'.tok].proved /\ cl[entry'.tok].pw = entry'.pw
       /\ setting.kind = "reauth" => setting.sameAccount]_vars

\* A failure of the service or the network.
Transient(e) == e.status \in {"429", "5xx"} \/ e.step \in {"network", "mfa_send", "mfa_service"}
FlowIsQuiet == flow = "open" /\ \A h \in Calls : call[h].at = "idle"

\* What the form says is true: nobody is asked for another password because the
\* service failed, nor told of the service when the password is wrong; and the form
\* that asks for a code stands for a client that waits for it, to which a code has
\* been sent unless the form says otherwise.
HonestPrompt ==
  /\ Transient(form.why) => form.key \notin RequireReauth \cup {"invalid_auth"}
  /\ form.why \in WrongPassword => form.key \in RequireReauth
  /\ FlowIsQuiet /\ form.step = "2fa" =>
       /\ held # NoClient /\ cl[held].st = "challenge"
       /\ form.why = Ok => cl[held].sent

\* Every step of the flow comes back to its form, or ends, and every client it made
\* is held for a code or closed.
StepsEnd == (\A h \in Calls : []<>(call[h].at = "idle")) /\ Custodian!Settled

\* async_remove, in its own words: "close the held 2FA client so an unfinished
\* verification does not leak its loop/thread/session". Once a removed flow has come
\* to rest, no client of its is open.
UnfinishedIsClosed ==
  flow = "gone" /\ removal = NoClient /\ (\A h \in Calls : call[h].at = "idle") =>
    \A c \in Clients : cl[c].st \in {"unused", "closed"}

=============================================================================
