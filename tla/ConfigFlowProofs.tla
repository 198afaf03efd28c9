-------------------------- MODULE ConfigFlowProofs --------------------------
(***************************************************************************)
(* Proofs about ConfigFlow, for any passwords, clients, codes and faults.  *)
(* What is saved, who owns the clients and what the form says is proved of *)
(* a flow whose steps come one after the other, as those of a dialog do;   *)
(* that each step comes back, of any that overlap.                         *)
(***************************************************************************)
EXTENDS ConfigFlow, TLAPS

USE PasswordsAssumption, FlowBoundsAssumption, FlowSwitchAssumption

SingleCall == \E h : Calls = {h}

-----------------------------------------------------------------------------
(* Types.                                                                  *)

LEMMA NoClientIsNone == NoClient \notin Clients
BY DEF NoClient, Clients

LEMMA EndTypes ==
  /\ Ok \in Ends /\ Mfa \in Ends /\ CodeInvalid \in Ends /\ NoAttribute \in Ends
  /\ Ok # Mfa
BY DEF Ends, Ok, Mfa, CodeInvalid, NoAttribute, End

LEMMA UnusedTypes == Unused \in Client
BY DEF Unused, Client

LEMMA CallTypes ==
  ASSUME TypeOK, NEW h \in Calls
  PROVE  /\ call[h] \in Call
         /\ call[h].at \in {"idle", "setup", "discard", "replace", "send", "submit", "finish"}
         /\ call[h].on \in Clients \cup {NoClient} /\ call[h].job \in {"pending", "done"}
         /\ call[h].res \in Ends /\ call[h].data \in Saved
         /\ call[h].at # "idle" => call[h].on \in Clients
         /\ call[h].at = "replace" => call[h].mine \in Clients
<1>1. call[h] \in Call
  BY DEF TypeOK
<1> QED
  BY <1>1 DEF Call

LEMMA GivesTypes ==
  ASSUME TypeOK, NEW c \in Clients
  PROVE  /\ Gives(c) \in Saved /\ Gives(c).pw = cl[c].pw /\ Gives(c).tok \in {c, NoClient}
         /\ cl[c].tok /\ cl[c].st # "closed" => Gives(c).tok = c
BY DEF TypeOK, Gives, Token, Saved, Client

\* What the jobs make of a client, and that they leave the others alone.
LEMMA Shuts ==
  ASSUME TypeOK, NEW c \in Clients
  PROVE  /\ Shut(c) \in [Clients -> Client]
         /\ \A z \in Clients \ {c} : Shut(c)[z] = cl[z]
         /\ Shut(c)[c].st = "closed"
         /\ \A z \in Clients : Shut(c)[z].pw = cl[z].pw /\ Shut(c)[z].proved = cl[z].proved
BY DEF TypeOK, Shut, Client

LEMMA LogsIn ==
  ASSUME TypeOK, NEW c \in Clients, NEW new, new = LogIn(c) \/ new = [LogIn(c) EXCEPT ![c].spent = TRUE]
  PROVE  /\ new \in [Clients -> Client]
         /\ \A z \in Clients \ {c} : new[z] = cl[z]
         /\ new[c].st = "live" /\ new[c].tok = TRUE /\ new[c].proved = TRUE /\ new[c].pw = cl[c].pw
<1> DEFINE x == [cl[c] EXCEPT !.st = "live", !.tok = TRUE, !.proved = TRUE]
<1>1. cl \in [Clients -> Client] /\ x \in Client
  BY ZenonT(60) DEF TypeOK, Client
<1>2. LogIn(c) = [cl EXCEPT ![c] = x]
  BY DEF LogIn, TypeOK
<1>3. /\ LogIn(c) \in [Clients -> Client] /\ LogIn(c)[c] = x
      /\ \A z \in Clients \ {c} : LogIn(c)[z] = cl[z]
  BY <1>1, <1>2
<1>4. x.st = "live" /\ x.tok = TRUE /\ x.proved = TRUE /\ x.pw = cl[c].pw
  BY <1>1 DEF Client
<1>5. [x EXCEPT !.spent = TRUE] \in Client
  BY <1>1 DEF Client
<1> HIDE DEF x
<1>6. CASE new = [LogIn(c) EXCEPT ![c].spent = TRUE]
  <2>1. new = [LogIn(c) EXCEPT ![c] = [x EXCEPT !.spent = TRUE]]
    BY <1>3, <1>6
  <2>2. [x EXCEPT !.spent = TRUE].st = x.st /\ [x EXCEPT !.spent = TRUE].tok = x.tok
        /\ [x EXCEPT !.spent = TRUE].proved = x.proved /\ [x EXCEPT !.spent = TRUE].pw = x.pw
    BY <1>1 DEF Client
  <2>3. new \in [Clients -> Client] /\ new[c] = [x EXCEPT !.spent = TRUE]
        /\ \A z \in Clients \ {c} : new[z] = cl[z]
    BY <1>3, <1>5, <2>1
  <2> QED
    BY <1>4, <2>2, <2>3
<1> QED
  BY <1>3, <1>4, <1>6

\* A client as a job leaves it: challenged, or with a code sent or spent.
LEMMA Challenged ==
  ASSUME TypeOK, NEW c \in Clients,
         cl' = [cl EXCEPT ![c].st = "challenge"]
  PROVE  /\ cl' \in [Clients -> Client]
         /\ \A z \in Clients \ {c} : cl'[z] = cl[z]
         /\ cl'[c].st = "challenge"
         /\ cl'[c].proved = cl[c].proved /\ cl'[c].pw = cl[c].pw
BY DEF TypeOK, Client

LEMMA CodeSent ==
  ASSUME TypeOK, NEW c \in Clients,
         cl' = [cl EXCEPT ![c].sent = TRUE, ![c].spent = FALSE]
  PROVE  /\ cl' \in [Clients -> Client]
         /\ \A z \in Clients \ {c} : cl'[z] = cl[z]
         /\ cl'[c].st = cl[c].st
         /\ cl'[c].proved = cl[c].proved /\ cl'[c].pw = cl[c].pw
BY ZenonT(60) DEF TypeOK, Client

LEMMA CodeSpent ==
  ASSUME TypeOK, NEW c \in Clients, NEW got \in BOOLEAN,
         cl' = [cl EXCEPT ![c].spent = TRUE, ![c].tok = @ \/ got]
  PROVE  /\ cl' \in [Clients -> Client]
         /\ \A z \in Clients \ {c} : cl'[z] = cl[z]
         /\ cl'[c].st = cl[c].st
         /\ cl'[c].proved = cl[c].proved /\ cl'[c].pw = cl[c].pw
<1> DEFINE x == [cl[c] EXCEPT !.spent = TRUE, !.tok = @ \/ got]
<1>1. cl \in [Clients -> Client] /\ x \in Client
  BY DEF TypeOK, Client
<1>2. cl' = [cl EXCEPT ![c] = x]
  BY <1>1
<1>3. x.st = cl[c].st /\ x.proved = cl[c].proved /\ x.pw = cl[c].pw
  BY <1>1 DEF Client
<1> QED
  BY <1>1, <1>2, <1>3

-----------------------------------------------------------------------------
(* How a job ends.                                                         *)

\* An exception is neither a success nor the challenge.
LEMMA ErrorsAreErrors ==
  \A e \in LoginErrors \cup WrongPassword \cup SendErrors \cup VerifyErrors \cup FinishErrors
             \cup {CodeInvalid, NoChallenge, NoAttribute} :
    e.step \notin {"ok", "mfa"} /\ e # Ok /\ e # Mfa
BY DEF LoginErrors, WrongPassword, SendErrors, VerifyErrors, FinishErrors, ApiErrors, Network,
       LoginSteps, CodeInvalid, NoChallenge, NoAttribute, End, Ok, Mfa

LEMMA JobMoves ==
  ASSUME TypeOK, NEW h \in Calls, NEW e \in Ends,
         call' = [call EXCEPT ![h].job = "done", ![h].res = e]
  PROVE  /\ call' \in [Calls -> Call] /\ call'[h].job = "done" /\ call'[h].res = e
         /\ call'[h].at = call[h].at /\ call'[h].on = call[h].on
         /\ call'[h].mine = call[h].mine /\ call'[h].data = call[h].data
         /\ \A g \in Calls \ {h} : call'[g] = call[g]
<1> DEFINE x == [call[h] EXCEPT !.job = "done", !.res = e]
<1>1. call \in [Calls -> Call] /\ x \in Call
  BY ZenonT(60) DEF TypeOK, Call
<1>2. call' = [call EXCEPT ![h] = x]
  BY DEF TypeOK
<1>3. /\ x.job = "done" /\ x.res = e /\ x.at = call[h].at /\ x.on = call[h].on
      /\ x.mine = call[h].mine /\ x.data = call[h].data
  BY <1>1 DEF Call
<1> HIDE DEF x
<1> QED
  BY <1>1, <1>2, <1>3

\* What a login, a code asked for and a code submitted leave.
LEMMA SetUpLeaves ==
  ASSUME TypeOK, NEW c \in Clients, NEW e \in Ends, SetUp(c, e)
  PROVE  /\ cl' \in [Clients -> Client] /\ faults' \in 0 .. MaxFaults
         /\ \A z \in Clients \ {c} : cl'[z] = cl[z]
         /\ cl'[c].pw = cl[c].pw /\ (cl[c].proved => cl'[c].proved)
         /\ cl'[c].st # "unused"
         /\ e = Ok => cl'[c].st = "live" /\ cl'[c].tok /\ cl'[c].proved
         /\ e = Mfa => cl'[c].st = "challenge"
<1>1. CASE cl' = [cl EXCEPT ![c].st = "challenge"] /\ e = Mfa /\ faults' = faults
  <2>1. faults' \in 0 .. MaxFaults
    BY <1>1 DEF TypeOK
  <2> QED
    BY <1>1, <2>1, Challenged, EndTypes
<1>2. CASE cl' = LogIn(c) /\ e = Ok /\ faults' = faults
  BY <1>2, LogsIn, EndTypes DEF TypeOK
<1>3. CASE cl' = Shut(c) /\ e \in WrongPassword \cup LoginErrors
           /\ (UNCHANGED faults \/ Fault)
  BY <1>3, Shuts, ErrorsAreErrors DEF TypeOK, Fault
<1> QED
  BY <1>1, <1>2, <1>3 DEF SetUp

LEMMA SendCodeLeaves ==
  ASSUME TypeOK, NEW c \in Clients, NEW e \in Ends, SendCode(c, e)
  PROVE  /\ cl' \in [Clients -> Client] /\ faults' \in 0 .. MaxFaults
         /\ \A z \in Clients \ {c} : cl'[z] = cl[z]
         /\ cl'[c].pw = cl[c].pw /\ cl'[c].proved = cl[c].proved /\ cl'[c].st = cl[c].st
<1>1. CASE cl' = [cl EXCEPT ![c].sent = TRUE, ![c].spent = FALSE] /\ UNCHANGED faults
  <2>1. cl'[c].st = cl[c].st /\ faults' \in 0 .. MaxFaults
    BY <1>1 DEF TypeOK, Client
  <2>2. /\ cl' \in [Clients -> Client] /\ \A z \in Clients \ {c} : cl'[z] = cl[z]
        /\ cl'[c].pw = cl[c].pw /\ cl'[c].proved = cl[c].proved
    BY <1>1, CodeSent
  <2> QED
    BY <2>1, <2>2
<1>2. CASE cl' = cl
  BY <1>2 DEF SendCode, Fault, TypeOK
<1> QED
  BY <1>1, <1>2 DEF SendCode

LEMMA SubmitCodeLeaves ==
  ASSUME TypeOK, NEW c \in Clients, NEW code, NEW e \in Ends, SubmitCode(c, code, e)
  PROVE  /\ cl' \in [Clients -> Client] /\ faults' \in 0 .. MaxFaults
         /\ \A z \in Clients \ {c} : cl'[z] = cl[z]
         /\ cl'[c].pw = cl[c].pw /\ (cl[c].proved => cl'[c].proved)
         /\ cl'[c].st = cl[c].st \/ (cl[c].st # "closed" /\ cl'[c].st = "live")
         /\ e = Ok => cl'[c].st = "live" /\ cl'[c].tok /\ cl'[c].proved
<1>1. CASE cl' = [LogIn(c) EXCEPT ![c].spent = TRUE] /\ UNCHANGED faults /\ cl[c].st # "closed"
  BY <1>1, LogsIn, ZenonT(60) DEF TypeOK
<1>2. ASSUME NEW got \in BOOLEAN, cl' = [cl EXCEPT ![c].spent = TRUE, ![c].tok = @ \/ got],
             e \in FinishErrors, Fault
      PROVE  /\ cl' \in [Clients -> Client] /\ faults' \in 0 .. MaxFaults
             /\ \A z \in Clients \ {c} : cl'[z] = cl[z]
             /\ cl'[c].pw = cl[c].pw /\ cl'[c].proved = cl[c].proved
             /\ cl'[c].st = cl[c].st /\ e # Ok
  <2>1. cl'[c].st = cl[c].st /\ faults' \in 0 .. MaxFaults /\ e # Ok
    BY <1>2, ErrorsAreErrors DEF TypeOK, Client, Fault
  <2>2. /\ cl' \in [Clients -> Client] /\ \A z \in Clients \ {c} : cl'[z] = cl[z]
        /\ cl'[c].pw = cl[c].pw /\ cl'[c].proved = cl[c].proved
    BY <1>2, CodeSpent
  <2> QED
    BY <2>1, <2>2
<1>3. CASE cl' = cl /\ e # Ok
  BY <1>3 DEF SubmitCode, Fault, TypeOK
<1> QED
  BY <1>1, <1>2, <1>3, ErrorsAreErrors DEF SubmitCode

\* Together: the job of a step.
LEMMA JobLeaves ==
  ASSUME TypeOK, NEW h \in Calls, RunJob(h)
  PROVE  /\ call[h].at \in {"setup", "send", "submit"} /\ call[h].on \in Clients
         /\ call[h].job = "pending"
         /\ cl' \in [Clients -> Client] /\ faults' \in 0 .. MaxFaults
         /\ call' \in [Calls -> Call] /\ call'[h].job = "done"
         /\ call'[h].at = call[h].at /\ call'[h].on = call[h].on
         /\ call'[h].mine = call[h].mine /\ call'[h].data = call[h].data
         /\ \A g \in Calls \ {h} : call'[g] = call[g]
         /\ \A z \in Clients \ {call[h].on} : cl'[z] = cl[z]
         /\ cl'[call[h].on].pw = cl[call[h].on].pw
         /\ cl[call[h].on].proved => cl'[call[h].on].proved
         /\ cl[call[h].on].st # "unused" => cl'[call[h].on].st # "unused"
         /\ call[h].at # "setup" =>
              (cl'[call[h].on].st = "closed" <=> cl[call[h].on].st = "closed")
         /\ call[h].at # "send" /\ call'[h].res = Ok =>
              cl'[call[h].on].st = "live" /\ cl'[call[h].on].tok /\ cl'[call[h].on].proved
         /\ call[h].at = "setup" /\ call'[h].res = Mfa => cl'[call[h].on].st = "challenge"
<1> DEFINE c == call[h].on
<1>1. PICK e \in Ends :
        /\ call' = [call EXCEPT ![h].job = "done", ![h].res = e]
        /\ \/ call[h].at = "setup" /\ SetUp(c, e)
           \/ call[h].at = "send" /\ SendCode(c, e)
           \/ call[h].at = "submit" /\ SubmitCode(c, call[h].code, e)
  BY DEF RunJob
<1>2. c \in Clients /\ call[h].job = "pending"
  BY <1>1, CallTypes DEF RunJob
<1>3. /\ call' \in [Calls -> Call] /\ call'[h].job = "done" /\ call'[h].res = e
      /\ call'[h].at = call[h].at /\ call'[h].on = call[h].on
      /\ call'[h].mine = call[h].mine /\ call'[h].data = call[h].data
      /\ \A g \in Calls \ {h} : call'[g] = call[g]
  BY <1>1, JobMoves
<1> HIDE DEF c
<1>4. CASE call[h].at = "setup" /\ SetUp(c, e)
  BY <1>2, <1>3, <1>4, SetUpLeaves DEF c
<1>5. CASE call[h].at = "send" /\ SendCode(c, e)
  BY <1>2, <1>3, <1>5, SendCodeLeaves DEF c
<1>6. CASE call[h].at = "submit" /\ SubmitCode(c, call[h].code, e)
  <2>1. /\ cl' \in [Clients -> Client] /\ faults' \in 0 .. MaxFaults
        /\ \A z \in Clients \ {c} : cl'[z] = cl[z]
        /\ cl'[c].pw = cl[c].pw /\ (cl[c].proved => cl'[c].proved)
        /\ cl'[c].st = cl[c].st \/ (cl[c].st # "closed" /\ cl'[c].st = "live")
        /\ e = Ok => cl'[c].st = "live" /\ cl'[c].tok /\ cl'[c].proved
    BY <1>2, <1>6, SubmitCodeLeaves
  <2> QED
    BY <1>2, <1>3, <1>6, <2>1 DEF c
<1> QED
  BY <1>1, <1>4, <1>5, <1>6 DEF c

-----------------------------------------------------------------------------
(* Where the steps go.                                                     *)

LEMMA ShowTypes ==
  ASSUME TypeOK, NEW step \in {"first", "2fa"}, NEW e \in Ends, Show(step, e)
  PROVE  form'.step \in {"first", "2fa"} /\ form'.why \in Ends
BY DEF TypeOK, Show

LEMMA DismissTypes ==
  ASSUME TypeOK, Dismiss
  PROVE  /\ flow' \in {"open", "gone"} /\ held' \in Clients \cup {NoClient}
         /\ removal' \in Clients \cup {NoClient}
BY DEF TypeOK, Dismiss

LEMMA IdleTypes == Idle \in Call /\ Idle.at = "idle" /\ Idle.job = "done"
BY EndTypes DEF Idle, Call, Saved

LEMMA Stands ==
  ASSUME TypeOK, NEW h \in Calls, NEW x \in Call, call' = [call EXCEPT ![h] = x]
  PROVE  call' \in [Calls -> Call] /\ call'[h] = x /\ \A g \in Calls \ {h} : call'[g] = call[g]
BY DEF TypeOK

\* A step that goes on to another await, with nothing else, with what it will save, or
\* with the code.
LEMMA Awaiting ==
  ASSUME TypeOK, NEW h \in Calls, NEW c \in Clients,
         NEW at \in {"setup", "discard", "send", "submit", "finish"},
         call' = [call EXCEPT ![h] = Awaits(h, at, c)]
  PROVE  /\ call' \in [Calls -> Call] /\ \A g \in Calls \ {h} : call'[g] = call[g]
         /\ call'[h].at = at /\ call'[h].on = c /\ call'[h].job = "pending"
<1>1. call[h] \in Call /\ c # NoClient
  BY NoClientIsNone DEF TypeOK
<1>2. PICK x : x = Awaits(h, at, c)
  OBVIOUS
<1>3. x \in Call /\ x.at = at /\ x.on = c /\ x.job = "pending"
  BY <1>1, <1>2 DEF Awaits, Call
<1> QED
  BY <1>2, <1>3, Stands

LEMMA AwaitingWithData ==
  ASSUME TypeOK, NEW h \in Calls, NEW c \in Clients, NEW at \in {"discard", "finish"},
         NEW d \in Saved, call' = [call EXCEPT ![h] = [Awaits(h, at, c) EXCEPT !.data = d]]
  PROVE  /\ call' \in [Calls -> Call] /\ \A g \in Calls \ {h} : call'[g] = call[g]
         /\ call'[h].at = at /\ call'[h].on = c /\ call'[h].job = "pending"
         /\ call'[h].data = d /\ call'[h].res = call[h].res
<1>1. call[h] \in Call /\ c # NoClient
  BY NoClientIsNone DEF TypeOK
<1>2. PICK x : x = [Awaits(h, at, c) EXCEPT !.data = d]
  OBVIOUS
<1>3. /\ x \in Call /\ x.at = at /\ x.on = c /\ x.job = "pending"
      /\ x.data = d /\ x.res = call[h].res
  BY <1>1, <1>2 DEF Awaits, Call
<1> QED
  BY <1>2, <1>3, Stands

LEMMA AwaitingWithCode ==
  ASSUME TypeOK, NEW h \in Calls, NEW c \in Clients, NEW w \in {"right", "wrong"},
         call' = [call EXCEPT ![h] = [Awaits(h, "submit", c) EXCEPT !.code = w]]
  PROVE  /\ call' \in [Calls -> Call] /\ \A g \in Calls \ {h} : call'[g] = call[g]
         /\ call'[h].at = "submit" /\ call'[h].on = c /\ call'[h].job = "pending"
<1>1. call[h] \in Call /\ c # NoClient
  BY NoClientIsNone DEF TypeOK
<1>2. PICK x : x = [Awaits(h, "submit", c) EXCEPT !.code = w]
  OBVIOUS
<1>3. x \in Call /\ x.at = "submit" /\ x.on = c /\ x.job = "pending"
  BY <1>1, <1>2 DEF Awaits, Call
<1> QED
  BY <1>2, <1>3, Stands

LEMMA Returned ==
  ASSUME TypeOK, NEW h \in Calls, Return(h)
  PROVE  /\ call' \in [Calls -> Call] /\ \A g \in Calls \ {h} : call'[g] = call[g]
         /\ call'[h].at = "idle" /\ call'[h].job = "done"
BY IdleTypes, Stands DEF Return

\* A challenged login: its client is kept, or the one before it is closed first.
LEMMA Begins ==
  ASSUME TypeOK, NEW h \in Calls, NEW c \in Clients, Begin(h, c)
  PROVE  /\ held' \in Clients \cup {NoClient} /\ call' \in [Calls -> Call]
         /\ call'[h].job = "pending"
         /\ \A g \in Calls \ {h} : call'[g] = call[g]
         /\ \/ /\ held \in {NoClient, c} /\ held' = c
               /\ call'[h].at = "send" /\ call'[h].on = c
            \/ /\ held \notin {NoClient, c} /\ held' = NoClient
               /\ call'[h].at = "replace" /\ call'[h].on = held /\ call'[h].mine = c
<1>1. CASE held \in {NoClient, c}
  BY <1>1, Awaiting DEF Begin
<1>2. CASE held \notin {NoClient, c}
  <2>1. held \in Clients
    BY <1>2 DEF TypeOK
  <2>2. PICK x : x = [Awaits(h, "replace", held) EXCEPT !.mine = c]
    OBVIOUS
  <2>3. x \in Call /\ x.at = "replace" /\ x.on = held /\ x.job = "pending" /\ x.mine = c
    <3>1. call[h] \in Call /\ c # NoClient /\ held # NoClient
      BY <2>1, NoClientIsNone DEF TypeOK
    <3> QED
      BY <2>1, <2>2, <3>1 DEF Awaits, Call
  <2>4. call' = [call EXCEPT ![h] = x] /\ held' = NoClient
    BY <1>2, <2>2 DEF Begin
  <2>5. call' \in [Calls -> Call] /\ call'[h] = x /\ \A g \in Calls \ {h} : call'[g] = call[g]
    BY <2>3, <2>4, Stands
  <2> QED
    BY <1>2, <2>3, <2>4, <2>5
<1> QED
  BY <1>1, <1>2

-----------------------------------------------------------------------------
(* Every step, as the invariants see it: where the coroutine goes, and     *)
(* what it does with the client that is held.                              *)

LEMMA FirstLeaves ==
  ASSUME TypeOK, NEW h \in Calls, NEW p \in Passwords, SubmitFirst(h, p)
  PROVE  /\ flow = "open" /\ call[h].at = "idle"
         /\ UNCHANGED <<setting, entry, form, codes, faults>>
         /\ \/ Dismiss /\ UNCHANGED <<call, cl>>
            \/ /\ UNCHANGED <<flow, held, removal>>
               /\ \E c \in Clients :
                    /\ cl[c].st = "unused" /\ cl' \in [Clients -> Client]
                    /\ \A z \in Clients \ {c} : cl'[z] = cl[z]
                    /\ cl'[c].st = "setup" /\ cl'[c].proved = FALSE
                    /\ call' \in [Calls -> Call] /\ \A g \in Calls \ {h} : call'[g] = call[g]
                    /\ call'[h].at = "setup" /\ call'[h].on = c /\ call'[h].job = "pending"
<1>1. CASE Dismiss /\ UNCHANGED <<call, cl>>
  BY <1>1 DEF SubmitFirst
<1>2. ASSUME NEW c \in Clients, cl[c].st = "unused",
             cl' = [cl EXCEPT ![c] = [Unused EXCEPT !.st = "setup", !.pw = p]],
             call' = [call EXCEPT ![h] = Awaits(h, "setup", c)]
      PROVE  /\ cl' \in [Clients -> Client] /\ \A z \in Clients \ {c} : cl'[z] = cl[z]
             /\ cl'[c].st = "setup" /\ cl'[c].proved = FALSE
             /\ call' \in [Calls -> Call] /\ \A g \in Calls \ {h} : call'[g] = call[g]
             /\ call'[h].at = "setup" /\ call'[h].on = c /\ call'[h].job = "pending"
  <2>1. PICK x : x = [Unused EXCEPT !.st = "setup", !.pw = p]
    OBVIOUS
  <2>2. x \in Client /\ x.st = "setup" /\ x.proved = FALSE
    BY <2>1 DEF Unused, Client
  <2>3. cl' \in [Clients -> Client] /\ cl'[c] = x /\ \A z \in Clients \ {c} : cl'[z] = cl[z]
    BY <1>2, <2>1, <2>2 DEF TypeOK
  <2> QED
    BY <1>2, <2>2, <2>3, Awaiting
<1> QED
  BY <1>1, <1>2 DEF SubmitFirst

LEMMA SecondLeaves ==
  ASSUME TypeOK, NEW h \in Calls, NEW input \in {"nothing", "resend", "right", "wrong"},
         Submit2fa(h, input)
  PROVE  /\ flow = "open" /\ call[h].at = "idle" /\ UNCHANGED <<setting, cl, entry, faults>>
         /\ codes' \in 0 .. MaxCodes
         /\ \/ held = NoClient /\ Dismiss /\ UNCHANGED <<call, form>>
            \/ /\ UNCHANGED <<call, flow, held, removal>>
               /\ form'.step \in {"first", "2fa"} /\ form'.why \in Ends
            \/ /\ held \in Clients /\ UNCHANGED <<form, flow, held, removal>>
               /\ call' \in [Calls -> Call] /\ \A g \in Calls \ {h} : call'[g] = call[g]
               /\ call'[h].at \in {"send", "submit"} /\ call'[h].on = held
               /\ call'[h].job = "pending"
<1>1. codes' \in 0 .. MaxCodes /\ UNCHANGED <<setting, cl, entry, faults>>
  BY DEF Submit2fa, TypeOK
<1>2. CASE held # NoClient /\ input = "nothing" /\ Show("2fa", CodeInvalid)
           /\ UNCHANGED <<call, flow, held, removal>>
  BY <1>1, <1>2, ShowTypes, EndTypes DEF Submit2fa
<1>3. CASE held # NoClient /\ input = "resend" /\ call' = [call EXCEPT ![h] = Awaits(h, "send", held)]
           /\ UNCHANGED <<form, flow, held, removal>>
  <2>1. held \in Clients
    BY <1>3 DEF TypeOK
  <2> QED
    BY <1>1, <1>3, <2>1, Awaiting DEF Submit2fa
<1>4. CASE /\ held # NoClient /\ input \in {"right", "wrong"}
           /\ call' = [call EXCEPT ![h] = [Awaits(h, "submit", held) EXCEPT !.code = input]]
           /\ UNCHANGED <<form, flow, held, removal>>
  <2>1. held \in Clients
    BY <1>4 DEF TypeOK
  <2> QED
    BY <1>1, <1>4, <2>1, AwaitingWithCode DEF Submit2fa
<1> QED
  BY <1>1, <1>2, <1>3, <1>4 DEF Submit2fa

LEMMA SetupResumes ==
  ASSUME TypeOK, NEW h \in Calls, ResumeSetup(h)
  PROVE  /\ call[h].at = "setup" /\ call[h].job = "done" /\ call[h].on \in Clients
         /\ UNCHANGED <<setting, flow, removal, cl, entry, form, codes, faults>>
         /\ \/ call[h].res = Mfa /\ Begin(h, call[h].on)
            \/ /\ UNCHANGED held
               /\ call' \in [Calls -> Call] /\ \A g \in Calls \ {h} : call'[g] = call[g]
               /\ call'[h].at = "discard" /\ call'[h].on = call[h].on
               /\ call'[h].job = "pending" /\ call'[h].res = call[h].res
               /\ call'[h].data = Gives(call[h].on)
<1>1. /\ call[h].at = "setup" /\ call[h].job = "done" /\ call[h].on \in Clients
      /\ Gives(call[h].on) \in Saved
  BY CallTypes, GivesTypes DEF ResumeSetup, Resumes
<1>2. CASE /\ UNCHANGED held
           /\ call' = [call EXCEPT ![h] =
                [Awaits(h, "discard", call[h].on) EXCEPT !.data = Gives(call[h].on)]]
  <2>1. /\ call' \in [Calls -> Call] /\ \A g \in Calls \ {h} : call'[g] = call[g]
        /\ call'[h].at = "discard" /\ call'[h].on = call[h].on /\ call'[h].job = "pending"
        /\ call'[h].data = Gives(call[h].on) /\ call'[h].res = call[h].res
    BY <1>1, <1>2, AwaitingWithData
  <2> QED
    BY <1>1, <1>2, <2>1 DEF ResumeSetup
<1> QED
  BY <1>1, <1>2 DEF ResumeSetup

LEMMA ReplaceResumes ==
  ASSUME TypeOK, NEW h \in Calls, ResumeReplace(h)
  PROVE  /\ call[h].at = "replace" /\ call[h].job = "done" /\ call[h].mine \in Clients
         /\ UNCHANGED <<setting, flow, removal, cl, entry, form, codes, faults>>
         /\ held' = call[h].mine
         /\ call' \in [Calls -> Call] /\ \A g \in Calls \ {h} : call'[g] = call[g]
         /\ call'[h].at = "send" /\ call'[h].on = call[h].mine /\ call'[h].job = "pending"
BY CallTypes, Awaiting DEF ResumeReplace, Resumes

LEMMA SubmitResumes ==
  ASSUME TypeOK, NEW h \in Calls, ResumeSubmit(h)
  PROVE  /\ call[h].at = "submit" /\ call[h].job = "done" /\ call[h].on \in Clients
         /\ UNCHANGED <<setting, flow, removal, cl, entry, codes, faults>>
         /\ form'.step \in {"first", "2fa"} /\ form'.why \in Ends
         /\ call' \in [Calls -> Call] /\ \A g \in Calls \ {h} : call'[g] = call[g]
         /\ \/ /\ UNCHANGED held
               /\ call'[h].at = "idle" /\ call'[h].job = "done"
            \/ /\ call[h].res = Ok /\ held \in Clients /\ held' = NoClient
               /\ call'[h].at = "finish" /\ call'[h].on = held /\ call'[h].job = "pending"
               /\ call'[h].data = Gives(held) /\ call'[h].res = Ok
<1>1. /\ call[h].at = "submit" /\ call[h].job = "done" /\ call[h].on \in Clients
      /\ call[h].res \in Ends
  BY CallTypes DEF ResumeSubmit, Resumes
<1>2. CASE Show("2fa", IF call[h].res = Ok THEN NoAttribute ELSE call[h].res) /\ Return(h)
           /\ UNCHANGED held
  BY <1>1, <1>2, ShowTypes, Returned, EndTypes DEF ResumeSubmit
<1>3. CASE /\ call[h].res = Ok /\ held # NoClient /\ held' = NoClient /\ UNCHANGED form
           /\ call' = [call EXCEPT ![h] = [Awaits(h, "finish", held) EXCEPT !.data = Gives(held)]]
  <2>1. held \in Clients /\ Gives(held) \in Saved /\ form.step \in {"first", "2fa"} /\ form.why \in Ends
    BY <1>3, GivesTypes DEF TypeOK
  <2>2. /\ call' \in [Calls -> Call] /\ \A g \in Calls \ {h} : call'[g] = call[g]
        /\ call'[h].at = "finish" /\ call'[h].on = held /\ call'[h].job = "pending"
        /\ call'[h].data = Gives(held) /\ call'[h].res = call[h].res
    BY <1>3, <2>1, AwaitingWithData
  <2> QED
    BY <1>1, <1>3, <2>1, <2>2 DEF ResumeSubmit
<1> QED
  BY <1>2, <1>3 DEF ResumeSubmit

LEMMA CloseRuns ==
  ASSUME TypeOK, NEW h \in Calls, RunClose(h)
  PROVE  /\ call[h].at \in {"discard", "replace", "finish"} /\ call[h].job = "pending"
         /\ call[h].on \in Clients /\ cl' = Shut(call[h].on)
         /\ UNCHANGED <<setting, flow, held, removal, entry, form, codes, faults>>
         /\ call' \in [Calls -> Call] /\ \A g \in Calls \ {h} : call'[g] = call[g]
         /\ call'[h].at = call[h].at /\ call'[h].on = call[h].on /\ call'[h].job = "done"
         /\ call'[h].mine = call[h].mine /\ call'[h].data = call[h].data
         /\ call'[h].res = call[h].res
<1>1. call[h].at \in {"discard", "replace", "finish"} /\ call[h].on \in Clients /\ call[h] \in Call
  BY CallTypes DEF RunClose
<1>2. PICK x : x = [call[h] EXCEPT !.job = "done"]
  OBVIOUS
<1>3. /\ x \in Call /\ x.at = call[h].at /\ x.on = call[h].on /\ x.job = "done"
      /\ x.mine = call[h].mine /\ x.data = call[h].data /\ x.res = call[h].res
  BY <1>1, <1>2 DEF Call
<1>4. call' = [call EXCEPT ![h] = x]
  BY <1>2 DEF RunClose
<1> QED
  BY <1>1, <1>3, <1>4, Stands DEF RunClose

LEMMA SaveLeaves ==
  ASSUME TypeOK, NEW d \in Saved, Save(d)
  PROVE  /\ Dismiss /\ entry' \in Saved \cup {NoEntry}
         /\ entry' # entry => entry' = d /\ (setting.kind = "reauth" => setting.sameAccount)
BY DEF Save, TypeOK

LEMMA SendResumes ==
  ASSUME TypeOK, NEW h \in Calls, ResumeSend(h)
  PROVE  /\ call[h].at = "send" /\ call[h].job = "done"
         /\ UNCHANGED <<setting, flow, held, removal, cl, entry, codes, faults>>
         /\ form'.step \in {"first", "2fa"} /\ form'.why \in Ends
         /\ call' \in [Calls -> Call] /\ \A g \in Calls \ {h} : call'[g] = call[g]
         /\ call'[h].at = "idle" /\ call'[h].job = "done"
BY CallTypes, ShowTypes, Returned DEF ResumeSend, Resumes

LEMMA FinishResumes ==
  ASSUME TypeOK, NEW h \in Calls, ResumeFinish(h)
  PROVE  /\ call[h].at = "finish" /\ call[h].job = "done" /\ call[h].data \in Saved
         /\ Save(call[h].data) /\ UNCHANGED <<setting, cl, form, codes, faults>>
         /\ call' \in [Calls -> Call] /\ \A g \in Calls \ {h} : call'[g] = call[g]
         /\ call'[h].at = "idle" /\ call'[h].job = "done"
BY CallTypes, Returned DEF ResumeFinish, Resumes

LEMMA DiscardResumes ==
  ASSUME TypeOK, NEW h \in Calls, ResumeDiscard(h)
  PROVE  /\ call[h].at = "discard" /\ call[h].job = "done" /\ call[h].data \in Saved
         /\ UNCHANGED <<setting, cl, codes, faults>>
         /\ call' \in [Calls -> Call] /\ \A g \in Calls \ {h} : call'[g] = call[g]
         /\ call'[h].at = "idle" /\ call'[h].job = "done"
         /\ form'.step \in {"first", "2fa"} /\ form'.why \in Ends
         /\ \/ call[h].res = Ok /\ Save(call[h].data)
            \/ UNCHANGED <<flow, held, removal, entry>>
<1>1. /\ call[h].at = "discard" /\ call[h].job = "done" /\ call[h].data \in Saved
      /\ call[h].res \in Ends
  BY CallTypes DEF ResumeDiscard, Resumes
<1>2. /\ call' \in [Calls -> Call] /\ \A g \in Calls \ {h} : call'[g] = call[g]
      /\ call'[h].at = "idle" /\ call'[h].job = "done"
  BY Returned DEF ResumeDiscard
<1>3. CASE call[h].res = Ok /\ Save(call[h].data) /\ UNCHANGED form
  BY <1>1, <1>2, <1>3 DEF ResumeDiscard, TypeOK
<1>4. CASE Show("first", call[h].res) /\ UNCHANGED <<flow, held, removal, entry>>
  BY <1>1, <1>2, <1>4, ShowTypes DEF ResumeDiscard
<1> QED
  BY <1>3, <1>4 DEF ResumeDiscard

\* Every reachable state is well typed, for any steps that overlap: a step that waits
\* for a job has its client, and one that replaces a client has the one that follows.
THEOREM TypeCorrect == Spec => []TypeOK
<1>1. Init => TypeOK
  <2> SUFFICES ASSUME Init PROVE TypeOK
    OBVIOUS
  <2>1. call \in [Calls -> Call] /\ cl \in [Clients -> Client]
    BY IdleTypes, UnusedTypes DEF Init
  <2>2. entry \in Saved \cup {NoEntry}
    BY DEF Init, Saved
  <2>3. form.step \in {"first", "2fa"} /\ form.why \in Ends
    BY EndTypes DEF Init
  <2> QED
    BY <2>1, <2>2, <2>3 DEF Init, TypeOK
<1>2. TypeOK /\ [Next]_vars => TypeOK'
  <2> SUFFICES ASSUME TypeOK, [Next]_vars PROVE TypeOK'
    OBVIOUS
  <2>1. ASSUME NEW h \in Calls, NEW p \in Passwords, SubmitFirst(h, p)  PROVE TypeOK'
    <3>1. CASE Dismiss /\ UNCHANGED <<call, cl>>
      BY <2>1, <3>1, FirstLeaves, DismissTypes DEF TypeOK
    <3>2. CASE ~(Dismiss /\ UNCHANGED <<call, cl>>)
      BY <2>1, <3>2, FirstLeaves DEF TypeOK
    <3> QED
      BY <3>1, <3>2
  <2>2. ASSUME NEW h \in Calls, NEW input \in {"nothing", "resend", "right", "wrong"},
               Submit2fa(h, input)
        PROVE  TypeOK'
    BY <2>2, SecondLeaves, DismissTypes DEF TypeOK
  <2>3. ASSUME NEW h \in Calls, RunJob(h)  PROVE TypeOK'
    BY <2>3, JobLeaves DEF TypeOK, RunJob
  <2>4. ASSUME NEW h \in Calls, RunClose(h)  PROVE TypeOK'
    <3>1. Shut(call[h].on) \in [Clients -> Client]
      BY <2>4, CloseRuns, Shuts
    <3> QED
      BY <2>4, <3>1, CloseRuns DEF TypeOK
  <2>5. ASSUME NEW h \in Calls, ResumeSetup(h)  PROVE TypeOK'
    <3>1. held' \in Clients \cup {NoClient} /\ call' \in [Calls -> Call]
      BY <2>5, SetupResumes, Begins DEF TypeOK
    <3> QED
      BY <2>5, <3>1, SetupResumes DEF TypeOK
  <2>6. ASSUME NEW h \in Calls, ResumeReplace(h)  PROVE TypeOK'
    BY <2>6, ReplaceResumes DEF TypeOK
  <2>7. ASSUME NEW h \in Calls, ResumeSend(h)  PROVE TypeOK'
    BY <2>7, SendResumes DEF TypeOK
  <2>8. ASSUME NEW h \in Calls, ResumeSubmit(h)  PROVE TypeOK'
    BY <2>8, SubmitResumes DEF TypeOK
  <2>9. ASSUME NEW h \in Calls, ResumeFinish(h)  PROVE TypeOK'
    <3>1. Dismiss /\ entry' \in Saved \cup {NoEntry}
      BY <2>9, FinishResumes, SaveLeaves
    <3> QED
      BY <2>9, <3>1, FinishResumes, DismissTypes DEF TypeOK
  <2>10. ASSUME NEW h \in Calls, ResumeDiscard(h)  PROVE TypeOK'
    <3>1. CASE call[h].res = Ok /\ Save(call[h].data)
      <4>1. Dismiss /\ entry' \in Saved \cup {NoEntry}
        BY <2>10, <3>1, DiscardResumes, SaveLeaves
      <4> QED
        BY <2>10, <4>1, DiscardResumes, DismissTypes DEF TypeOK
    <3>2. CASE UNCHANGED <<flow, held, removal, entry>>
      BY <2>10, <3>2, DiscardResumes DEF TypeOK
    <3> QED
      BY <2>10, <3>1, <3>2, DiscardResumes
  <2>11. ASSUME Abandon  PROVE TypeOK'
    BY <2>11, DismissTypes DEF Abandon, TypeOK
  <2>12. ASSUME RunRemoval  PROVE TypeOK'
    <3>1. Shut(removal) \in [Clients -> Client]
      BY <2>12, Shuts DEF RunRemoval, TypeOK
    <3> QED
      BY <2>12, <3>1 DEF RunRemoval, TypeOK
  <2>13. CASE UNCHANGED vars
    BY <2>13 DEF vars, TypeOK
  <2> QED
    BY <2>1, <2>2, <2>3, <2>4, <2>5, <2>6, <2>7, <2>8, <2>9, <2>10, <2>11, <2>12, <2>13
       DEF Next, Resume
<1> QED
  BY <1>1, <1>2, PTL DEF Spec

-----------------------------------------------------------------------------
(* What is saved, when the steps of the flow come one after the other.     *)

\* The clients the flow refers to exist; the one that logs in is neither the one held
\* nor the one being removed, and the one a code goes to is held or given up.
HeldInv ==
  /\ \A c \in Clients : cl[c].proved => cl[c].st # "unused"
  /\ held # NoClient => held # removal /\ cl[held].st # "unused"
  /\ removal # NoClient => cl[removal].st # "unused"
CallInv(h) ==
  /\ call[h].at # "idle" => cl[call[h].on].st # "unused"
  /\ call[h].at = "setup" => call[h].on # held /\ call[h].on # removal
  /\ call[h].at = "replace" =>
       /\ held = NoClient /\ call[h].mine # call[h].on /\ call[h].mine # removal
       /\ cl[call[h].mine].st # "unused"
  /\ call[h].at \in {"send", "submit"} => held \in {call[h].on, NoClient}

\* A success is one until its token has been read, and what was read is good from then on.
Proved(c) == cl[c].st = "live" /\ cl[c].tok /\ cl[c].proved
Good(d) == d.tok \in Clients /\ cl[d.tok].proved /\ cl[d.tok].pw = d.pw
DataInv(h) ==
  /\ call[h].at = "setup" /\ call[h].job = "done" /\ call[h].res = Ok => Proved(call[h].on)
  /\ call[h].at = "submit" /\ call[h].job = "done" /\ call[h].res = Ok /\ held # NoClient
       => Proved(held)
  /\ call[h].at = "finish" \/ (call[h].at = "discard" /\ call[h].res = Ok) => Good(call[h].data)

IInv == HeldInv /\ \A h \in Calls : CallInv(h) /\ DataInv(h)

\* A token that is read of a client in service is that client's.
LEMMA GivesGood ==
  ASSUME TypeOK, NEW c \in Clients, Proved(c)  PROVE Good(Gives(c))
BY GivesTypes DEF Proved, Good

\* What a removal changes, it changes for no step that goes on.
LEMMA DismissKeeps ==
  ASSUME TypeOK, IInv, Dismiss, UNCHANGED cl
  PROVE  /\ HeldInv'
         /\ \A h \in Calls : call'[h] = call[h] => CallInv(h)' /\ DataInv(h)'
<1>1. /\ held' # NoClient => held' = held /\ removal' = removal
      /\ removal' # NoClient => removal' \in {held, removal}
      /\ held' \in {held, NoClient}
      /\ removal' # removal => held' = NoClient
  BY DEF Dismiss
<1>2. HeldInv'
  BY <1>1 DEF IInv, HeldInv
<1>3. ASSUME NEW h \in Calls, call'[h] = call[h]  PROVE CallInv(h)' /\ DataInv(h)'
  <2>1. /\ call[h].at # "idle" => call[h].on # NoClient
        /\ call[h].at = "replace" => call[h].mine # NoClient
    BY CallTypes, NoClientIsNone
  <2>2. CallInv(h)'
    BY <1>1, <1>3, <2>1 DEF IInv, CallInv
  <2>3. DataInv(h)'
    BY <1>1, <1>3 DEF IInv, DataInv, Proved, Good
  <2> QED
    BY <2>2, <2>3
<1> QED
  BY <1>2, <1>3

\* A step that is back at its form, or has ended.
LEMMA IdleKeeps ==
  ASSUME NEW h, call'[h].at = "idle"  PROVE CallInv(h)' /\ DataInv(h)'
BY DEF CallInv, DataInv

LEMMA FlowStep ==
  ASSUME TypeOK, IInv, SingleCall, [Next]_vars
  PROVE  IInv'
<1> \A g, h \in Calls : g = h
  BY DEF SingleCall
<1>1. ASSUME NEW h \in Calls, NEW p \in Passwords, SubmitFirst(h, p)  PROVE IInv'
  <2>1. CASE Dismiss /\ UNCHANGED <<call, cl>>
    BY <2>1, DismissKeeps DEF IInv
  <2>2. ASSUME UNCHANGED <<flow, held, removal>>,
               NEW c \in Clients, cl[c].st = "unused", cl' \in [Clients -> Client],
               \A z \in Clients \ {c} : cl'[z] = cl[z],
               cl'[c].st = "setup", cl'[c].proved = FALSE,
               call'[h].at = "setup", call'[h].on = c, call'[h].job = "pending"
        PROVE  IInv'
    <3>1. held # c /\ removal # c
      BY <2>2, NoClientIsNone DEF IInv, HeldInv
    <3>2. HeldInv'
      BY <2>2, <3>1 DEF IInv, HeldInv, TypeOK
    <3>3. CallInv(h)' /\ DataInv(h)'
      BY <2>2, <3>1 DEF CallInv, DataInv
    <3> QED
      BY <3>2, <3>3 DEF IInv
  <2> QED
    BY <1>1, <2>1, <2>2, FirstLeaves
<1>2. ASSUME NEW h \in Calls, NEW input \in {"nothing", "resend", "right", "wrong"},
             Submit2fa(h, input)
      PROVE  IInv'
  <2>1. CASE Dismiss /\ UNCHANGED call
    BY <1>2, <2>1, SecondLeaves, DismissKeeps DEF IInv
  <2>2. CASE UNCHANGED <<call, held, removal>>
    <3>1. UNCHANGED cl
      BY <1>2, SecondLeaves
    <3> QED
      BY <2>2, <3>1 DEF IInv, HeldInv, CallInv, DataInv, Proved, Good
  <2>3. CASE /\ held \in Clients /\ UNCHANGED <<held, removal>>
             /\ call'[h].at \in {"send", "submit"} /\ call'[h].on = held
             /\ call'[h].job = "pending"
    <3>1. UNCHANGED cl
      BY <1>2, SecondLeaves
    <3>2. HeldInv'
      BY <2>3, <3>1 DEF IInv, HeldInv
    <3>3. CallInv(h)' /\ DataInv(h)'
      BY <2>3, <3>1, NoClientIsNone DEF IInv, HeldInv, CallInv, DataInv
    <3> QED
      BY <3>2, <3>3 DEF IInv
  <2> QED
    BY <1>2, <2>1, <2>2, <2>3, SecondLeaves
<1>3. ASSUME NEW h \in Calls, RunJob(h)  PROVE IInv'
  <2> DEFINE c == call[h].on
  <2>1. /\ c \in Clients /\ UNCHANGED <<held, removal>>
        /\ \A z \in Clients \ {c} : cl'[z] = cl[z]
        /\ cl[c].st # "unused" => cl'[c].st # "unused"
        /\ call[h].at # "send" /\ call'[h].res = Ok =>
             cl'[c].st = "live" /\ cl'[c].tok /\ cl'[c].proved
        /\ call[h].at \in {"setup", "send", "submit"} /\ call'[h].at = call[h].at
        /\ call'[h].on = call[h].on
    BY <1>3, JobLeaves DEF RunJob
  <2>2. cl[c].st # "unused"
    BY <2>1 DEF IInv, CallInv
  <2>3. HeldInv'
    BY <2>1, <2>2 DEF IInv, HeldInv, TypeOK
  <2>4. CallInv(h)'
    BY <2>1, <2>2 DEF IInv, CallInv
  <2>5. DataInv(h)'
    BY <2>1, <2>4 DEF CallInv, DataInv, Proved
  <2> QED
    BY <2>3, <2>4, <2>5 DEF IInv
<1>4. ASSUME NEW h \in Calls, RunClose(h)  PROVE IInv'
  <2> DEFINE c == call[h].on
  <2>1. /\ c \in Clients /\ UNCHANGED <<held, removal>>
        /\ \A z \in Clients \ {c} : cl'[z] = cl[z]
        /\ cl'[c].st = "closed"
        /\ \A z \in Clients : cl'[z].pw = cl[z].pw /\ cl'[z].proved = cl[z].proved
        /\ call[h].at \in {"discard", "replace", "finish"} /\ call'[h].at = call[h].at
        /\ call'[h].on = call[h].on /\ call'[h].mine = call[h].mine
        /\ call'[h].data = call[h].data /\ call'[h].res = call[h].res
    BY <1>4, CloseRuns, Shuts
  <2>2. HeldInv'
    BY <2>1 DEF IInv, HeldInv, TypeOK
  <2>3. CallInv(h)'
    BY <2>1, CallTypes DEF IInv, CallInv
  <2>4. DataInv(h)'
    BY <2>1 DEF IInv, DataInv, Good
  <2> QED
    BY <2>2, <2>3, <2>4 DEF IInv
<1>5. ASSUME NEW h \in Calls, ResumeSetup(h)  PROVE IInv'
  <2> DEFINE c == call[h].on
  <2>1. /\ call[h].at = "setup" /\ call[h].job = "done" /\ c \in Clients
        /\ UNCHANGED <<removal, cl>> /\ c # held /\ c # removal /\ cl[c].st # "unused"
    BY <1>5, SetupResumes DEF IInv, CallInv
  <2>2. CASE Begin(h, c)
    <3>1. HeldInv'
      BY <2>1, <2>2, Begins DEF IInv, HeldInv
    <3>2. CallInv(h)'
      BY <2>1, <2>2, Begins, NoClientIsNone DEF IInv, HeldInv, CallInv
    <3>3. DataInv(h)'
      BY <2>1, <2>2, Begins DEF DataInv
    <3> QED
      BY <3>1, <3>2, <3>3 DEF IInv
  <2>3. CASE /\ UNCHANGED held
             /\ call'[h].at = "discard" /\ call'[h].on = c
             /\ call'[h].res = call[h].res /\ call'[h].data = Gives(c)
    <3>1. HeldInv'
      BY <2>1, <2>3 DEF IInv, HeldInv
    <3>2. CallInv(h)'
      BY <2>1, <2>3 DEF CallInv
    <3>3. call[h].res = Ok => Good(Gives(c))
      BY <2>1, GivesGood DEF IInv, DataInv
    <3>4. DataInv(h)'
      BY <2>1, <2>3, <3>3 DEF DataInv, Good
    <3> QED
      BY <3>1, <3>2, <3>4 DEF IInv
  <2> QED
    BY <1>5, <2>2, <2>3, SetupResumes
<1>6. ASSUME NEW h \in Calls, ResumeReplace(h)  PROVE IInv'
  <2> DEFINE c == call[h].mine
  <2>1. /\ c \in Clients /\ UNCHANGED <<removal, cl>> /\ held' = c
        /\ call'[h].at = "send" /\ call'[h].on = c /\ call'[h].job = "pending"
        /\ c # removal /\ cl[c].st # "unused"
    BY <1>6, ReplaceResumes DEF IInv, CallInv
  <2>2. HeldInv'
    BY <2>1 DEF IInv, HeldInv
  <2>3. CallInv(h)' /\ DataInv(h)'
    BY <2>1 DEF CallInv, DataInv
  <2> QED
    BY <2>2, <2>3 DEF IInv
<1>7. ASSUME NEW h \in Calls, ResumeSend(h)  PROVE IInv'
  <2>1. HeldInv'
    BY <1>7, SendResumes DEF IInv, HeldInv
  <2> QED
    BY <1>7, <2>1, SendResumes, IdleKeeps DEF IInv
<1>8. ASSUME NEW h \in Calls, ResumeSubmit(h)  PROVE IInv'
  <2>1. call[h].at = "submit" /\ call[h].job = "done" /\ UNCHANGED <<removal, cl>>
    BY <1>8, SubmitResumes
  <2>2. CASE UNCHANGED held /\ call'[h].at = "idle"
    BY <2>1, <2>2, IdleKeeps DEF IInv, HeldInv
  <2>3. CASE /\ call[h].res = Ok /\ held \in Clients /\ held' = NoClient
             /\ call'[h].at = "finish" /\ call'[h].on = held /\ call'[h].data = Gives(held)
    <3>1. HeldInv' /\ CallInv(h)'
      BY <2>1, <2>3, NoClientIsNone DEF IInv, HeldInv, CallInv
    <3>2. Good(Gives(held))
      BY <2>1, <2>3, GivesGood, NoClientIsNone DEF IInv, DataInv
    <3>3. DataInv(h)'
      BY <2>1, <2>3, <3>2 DEF DataInv, Good
    <3> QED
      BY <3>1, <3>3 DEF IInv
  <2> QED
    BY <1>8, <2>2, <2>3, SubmitResumes
<1>9. ASSUME NEW h \in Calls, ResumeFinish(h)  PROVE IInv'
  <2>1. Dismiss /\ UNCHANGED cl
    BY <1>9, FinishResumes, SaveLeaves
  <2> QED
    BY <1>9, <2>1, FinishResumes, DismissKeeps, IdleKeeps DEF IInv
<1>10. ASSUME NEW h \in Calls, ResumeDiscard(h)  PROVE IInv'
  <2>1. UNCHANGED cl /\ call'[h].at = "idle"
    BY <1>10, DiscardResumes
  <2>2. CASE Save(call[h].data)
    <3>1. Dismiss
      BY <1>10, <2>2, DiscardResumes, SaveLeaves
    <3> QED
      BY <2>1, <3>1, DismissKeeps, IdleKeeps DEF IInv
  <2>3. CASE UNCHANGED <<held, removal>>
    BY <2>1, <2>3, IdleKeeps DEF IInv, HeldInv
  <2> QED
    BY <1>10, <2>2, <2>3, DiscardResumes
<1>11. CASE Abandon
  BY <1>11, DismissKeeps DEF Abandon, IInv
<1>12. CASE RunRemoval
  <2>1. /\ removal \in Clients /\ removal' = NoClient /\ UNCHANGED <<held, call>>
        /\ \A z \in Clients \ {removal} : cl'[z] = cl[z]
        /\ cl'[removal].st = "closed"
        /\ \A z \in Clients : cl'[z].pw = cl[z].pw /\ cl'[z].proved = cl[z].proved
    BY <1>12, Shuts DEF RunRemoval, TypeOK
  <2>2. HeldInv'
    BY <2>1 DEF IInv, HeldInv, TypeOK
  <2>3. ASSUME NEW h \in Calls  PROVE CallInv(h)' /\ DataInv(h)'
    <3>1. CallInv(h)'
      BY <2>1, CallTypes, NoClientIsNone DEF IInv, CallInv
    <3>2. DataInv(h)'
      BY <2>1, CallTypes, NoClientIsNone DEF IInv, HeldInv, CallInv, DataInv, Proved, Good, TypeOK
    <3> QED
      BY <3>1, <3>2
  <2> QED
    BY <2>2, <2>3 DEF IInv
<1>13. CASE UNCHANGED vars
  BY <1>13 DEF vars, IInv, HeldInv, CallInv, DataInv, Proved, Good
<1> QED
  BY <1>1, <1>2, <1>3, <1>4, <1>5, <1>6, <1>7, <1>8, <1>9, <1>10, <1>11, <1>12, <1>13
     DEF Next, Resume

LEMMA FlowInit == Init => IInv
<1> SUFFICES ASSUME Init PROVE IInv
  OBVIOUS
<1>1. held = NoClient /\ removal = NoClient /\ \A c \in Clients : cl[c].proved = FALSE
  BY DEF Init, Unused
<1>2. \A h \in Calls : call[h].at = "idle"
  BY IdleTypes DEF Init
<1> QED
  BY <1>1, <1>2 DEF IInv, HeldInv, CallInv, DataInv

\* What a finished step saves is good: only the two of them change the entry.
LEMMA SavesGood ==
  ASSUME TypeOK, IInv, [Next]_vars, entry' # entry
  PROVE  Good(entry') /\ (setting.kind = "reauth" => setting.sameAccount)
<1>1. ASSUME NEW h \in Calls, ResumeFinish(h)
      PROVE  Good(entry') /\ (setting.kind = "reauth" => setting.sameAccount)
  <2>1. /\ call[h].data \in Saved /\ Save(call[h].data) /\ Good(call[h].data)
    BY <1>1, FinishResumes DEF IInv, DataInv
  <2>2. entry' = call[h].data /\ (setting.kind = "reauth" => setting.sameAccount)
    BY <2>1, SaveLeaves
  <2> QED
    BY <2>1, <2>2
<1>2. ASSUME NEW h \in Calls, ResumeDiscard(h)
      PROVE  Good(entry') /\ (setting.kind = "reauth" => setting.sameAccount)
  <2>1. call[h].at = "discard" /\ call[h].res = Ok /\ call[h].data \in Saved /\ Save(call[h].data)
    BY <1>2, DiscardResumes
  <2>2. Good(call[h].data)
    BY <2>1 DEF IInv, DataInv
  <2>3. entry' = call[h].data /\ (setting.kind = "reauth" => setting.sameAccount)
    BY <2>1, SaveLeaves
  <2> QED
    BY <2>2, <2>3
<1>3. ASSUME NEW h \in Calls,
             \/ \E p \in Passwords : SubmitFirst(h, p)
             \/ \E input \in {"nothing", "resend", "right", "wrong"} : Submit2fa(h, input)
             \/ RunJob(h) \/ RunClose(h) \/ ResumeSetup(h) \/ ResumeReplace(h)
             \/ ResumeSend(h) \/ ResumeSubmit(h)
      PROVE  FALSE
  BY <1>3, FirstLeaves, SecondLeaves, CloseRuns, SetupResumes, ReplaceResumes, SendResumes,
     SubmitResumes DEF RunJob
<1>4. ~Abandon /\ ~RunRemoval /\ ~UNCHANGED vars
  BY DEF Abandon, RunRemoval, vars
<1> QED
  BY <1>1, <1>2, <1>3, <1>4 DEF Next, Resume

\* When the steps of a flow come one after the other, whatever is abandoned in between,
\* an entry only ever gets a password with the refresh token of a login that this
\* password has gone through to the end, and a reauth only that of its own account.
THEOREM OnlyVerifiedIsSaved ==
  ASSUME SingleCall  PROVE Spec => EntryIsVerified
<1>1. TypeOK /\ IInv /\ [Next]_vars =>
        (entry' # entry =>
           /\ entry'.tok # NoClient
           /\ cl[entry'.tok].proved /\ cl[entry'.tok].pw = entry'.pw
           /\ setting.kind = "reauth" => setting.sameAccount)
  <2> SUFFICES ASSUME TypeOK, IInv, [Next]_vars, entry' # entry
               PROVE  /\ entry'.tok # NoClient
                      /\ cl[entry'.tok].proved /\ cl[entry'.tok].pw = entry'.pw
                      /\ setting.kind = "reauth" => setting.sameAccount
    OBVIOUS
  <2> QED
    BY SavesGood, NoClientIsNone DEF Good
<1>2. TypeOK /\ IInv /\ [Next]_vars => IInv'
  BY SingleCall, FlowStep
<1> QED
  BY <1>1, <1>2, FlowInit, TypeCorrect, PTL DEF Spec, EntryIsVerified

-----------------------------------------------------------------------------
(* The flow implements Custody, when its steps come one after the other    *)
(* and nobody removes it while a form is being validated.                  *)

\* Only a flow that is there holds a client, which is open then and which no step
\* closes; a login runs, and a client is replaced, for a flow that is there.
OpenInv ==
  /\ flow = "open" => removal = NoClient
  /\ held # NoClient => flow = "open" /\ cl[held].st # "closed"
Closes(h) == call[h].at \in {"discard", "replace", "finish"}
LoginInv(h) ==
  /\ call[h].at \in {"setup", "replace"} => flow = "open"
  /\ call[h].at = "setup" /\ call[h].job = "pending" => cl[call[h].on].st # "closed"
  /\ call[h].at = "setup" /\ call[h].job = "done" /\ call[h].res = Mfa
       => cl[call[h].on].st = "challenge"
  /\ call[h].at = "replace" => cl[call[h].mine].st # "closed"
  /\ Closes(h) => call[h].on # held
OwnerInv == OpenInv /\ \A h \in Calls : LoginInv(h)

LEMMA DismissCloses ==
  ASSUME TypeOK, OpenInv, Dismiss, UNCHANGED cl
  PROVE  OpenInv' /\ flow' = "gone" /\ held' = NoClient
BY DEF TypeOK, OpenInv, Dismiss

\* A step that is back at its form, or has ended, or has a code on its way.
LEMMA RestsIn ==
  ASSUME NEW h, call'[h].at \in {"idle", "send", "submit"}  PROVE LoginInv(h)'
BY DEF LoginInv, Closes

LEMMA OwnerStep ==
  ASSUME TypeOK, IInv, OwnerInv, SingleCall, AbandonedInValidation = FALSE, [Next]_vars
  PROVE  OwnerInv'
<1> \A g, h \in Calls : g = h
  BY DEF SingleCall
<1>1. ASSUME NEW h \in Calls, NEW p \in Passwords, SubmitFirst(h, p)  PROVE OwnerInv'
  <2>1. CASE Dismiss /\ UNCHANGED <<call, cl>>
    <3>1. call'[h].at = "idle"
      BY <1>1, <2>1, FirstLeaves
    <3> QED
      BY <2>1, <3>1, DismissCloses, RestsIn DEF OwnerInv
  <2>2. ASSUME UNCHANGED <<flow, held, removal>>, flow = "open",
               NEW c \in Clients, cl[c].st = "unused",
               \A z \in Clients \ {c} : cl'[z] = cl[z], cl'[c].st = "setup",
               call'[h].at = "setup", call'[h].on = c, call'[h].job = "pending"
        PROVE  OwnerInv'
    <3>1. OpenInv'
      BY <2>2 DEF OwnerInv, OpenInv, IInv, HeldInv, TypeOK
    <3>2. LoginInv(h)'
      BY <2>2 DEF LoginInv, Closes
    <3> QED
      BY <3>1, <3>2 DEF OwnerInv
  <2> QED
    BY <1>1, <2>1, <2>2, FirstLeaves
<1>2. ASSUME NEW h \in Calls, NEW input \in {"nothing", "resend", "right", "wrong"},
             Submit2fa(h, input)
      PROVE  OwnerInv'
  <2>1. UNCHANGED cl /\ call'[h].at \in {"idle", "send", "submit"}
    BY <1>2, SecondLeaves
  <2>2. CASE Dismiss
    BY <2>1, <2>2, DismissCloses, RestsIn DEF OwnerInv
  <2>3. CASE UNCHANGED <<flow, held, removal>>
    BY <2>1, <2>3, RestsIn DEF OwnerInv, OpenInv
  <2> QED
    BY <1>2, <2>2, <2>3, SecondLeaves
<1>3. ASSUME NEW h \in Calls, RunJob(h)  PROVE OwnerInv'
  <2> DEFINE c == call[h].on
  <2>1. /\ c \in Clients /\ UNCHANGED <<flow, held, removal>>
        /\ \A z \in Clients \ {c} : cl'[z] = cl[z]
        /\ call[h].at \in {"setup", "send", "submit"} /\ call'[h].at = call[h].at
        /\ call'[h].on = c /\ call'[h].job = "done"
        /\ call[h].at # "setup" => (cl'[c].st = "closed" <=> cl[c].st = "closed")
        /\ call[h].at = "setup" /\ call'[h].res = Mfa => cl'[c].st = "challenge"
    BY <1>3, JobLeaves DEF RunJob
  <2>2. call[h].at = "setup" => c # held
    BY DEF IInv, CallInv
  <2>3. OpenInv'
    BY <2>1, <2>2 DEF OwnerInv, OpenInv, TypeOK
  <2>4. LoginInv(h)'
    BY <2>1 DEF OwnerInv, LoginInv, Closes
  <2> QED
    BY <2>3, <2>4 DEF OwnerInv
<1>4. ASSUME NEW h \in Calls, RunClose(h)  PROVE OwnerInv'
  <2> DEFINE c == call[h].on
  <2>1. /\ c \in Clients /\ UNCHANGED <<flow, held, removal>>
        /\ \A z \in Clients \ {c} : cl'[z] = cl[z]
        /\ Closes(h) /\ call'[h].at = call[h].at
        /\ call'[h].on = c /\ call'[h].mine = call[h].mine
    BY <1>4, CloseRuns, Shuts DEF Closes
  <2>2. call[h].at = "replace" => call[h].mine # c /\ call[h].mine \in Clients
    BY <2>1, CallTypes DEF IInv, CallInv
  <2>3. c # held
    BY <2>1 DEF OwnerInv, LoginInv
  <2>4. OpenInv'
    BY <2>1, <2>3 DEF OwnerInv, OpenInv, TypeOK
  <2>5. LoginInv(h)'
    BY <2>1, <2>2, <2>3 DEF OwnerInv, LoginInv, Closes
  <2> QED
    BY <2>4, <2>5 DEF OwnerInv
<1>5. ASSUME NEW h \in Calls, ResumeSetup(h)  PROVE OwnerInv'
  <2> DEFINE c == call[h].on
  <2>1. /\ call[h].at = "setup" /\ call[h].job = "done" /\ c \in Clients
        /\ UNCHANGED <<flow, removal, cl>> /\ c # held /\ flow = "open"
    BY <1>5, SetupResumes DEF IInv, CallInv, OwnerInv, LoginInv
  <2>2. CASE call[h].res = Mfa /\ Begin(h, c)
    <3>1. cl[c].st = "challenge"
      BY <2>1, <2>2 DEF OwnerInv, LoginInv
    <3>2. OpenInv'
      BY <2>1, <2>2, <3>1, Begins DEF OwnerInv, OpenInv
    <3>3. LoginInv(h)'
      BY <2>1, <2>2, <3>1, Begins DEF LoginInv, Closes
    <3> QED
      BY <3>2, <3>3 DEF OwnerInv
  <2>3. CASE UNCHANGED held /\ call'[h].at = "discard" /\ call'[h].on = c
    <3>1. OpenInv' /\ LoginInv(h)'
      BY <2>1, <2>3 DEF OwnerInv, OpenInv, LoginInv, Closes
    <3> QED
      BY <3>1 DEF OwnerInv
  <2> QED
    BY <1>5, <2>2, <2>3, SetupResumes
<1>6. ASSUME NEW h \in Calls, ResumeReplace(h)  PROVE OwnerInv'
  <2>1. /\ UNCHANGED <<flow, removal, cl>> /\ held' = call[h].mine
        /\ call'[h].at = "send" /\ flow = "open" /\ cl[call[h].mine].st # "closed"
    BY <1>6, ReplaceResumes DEF OwnerInv, LoginInv
  <2>2. OpenInv'
    BY <2>1 DEF OwnerInv, OpenInv
  <2> QED
    BY <2>1, <2>2, RestsIn DEF OwnerInv
<1>7. ASSUME NEW h \in Calls, ResumeSend(h)  PROVE OwnerInv'
  BY <1>7, SendResumes, RestsIn DEF OwnerInv, OpenInv
<1>8. ASSUME NEW h \in Calls, ResumeSubmit(h)  PROVE OwnerInv'
  <2>1. UNCHANGED <<flow, removal, cl>>
    BY <1>8, SubmitResumes
  <2>2. CASE UNCHANGED held /\ call'[h].at = "idle"
    BY <2>1, <2>2, RestsIn DEF OwnerInv, OpenInv
  <2>3. CASE held \in Clients /\ held' = NoClient /\ call'[h].at = "finish" /\ call'[h].on = held
    <3>1. OpenInv' /\ LoginInv(h)'
      BY <2>1, <2>3, NoClientIsNone DEF OwnerInv, OpenInv, LoginInv, Closes
    <3> QED
      BY <3>1 DEF OwnerInv
  <2> QED
    BY <1>8, <2>2, <2>3, SubmitResumes
<1>9. ASSUME NEW h \in Calls, ResumeFinish(h)  PROVE OwnerInv'
  BY <1>9, FinishResumes, SaveLeaves, DismissCloses, RestsIn DEF OwnerInv
<1>10. ASSUME NEW h \in Calls, ResumeDiscard(h)  PROVE OwnerInv'
  <2>1. UNCHANGED cl /\ call'[h].at = "idle"
    BY <1>10, DiscardResumes
  <2>2. CASE Save(call[h].data)
    BY <1>10, <2>1, <2>2, DiscardResumes, SaveLeaves, DismissCloses, RestsIn DEF OwnerInv
  <2>3. CASE UNCHANGED <<flow, held, removal>>
    BY <2>1, <2>3, RestsIn DEF OwnerInv, OpenInv
  <2> QED
    BY <1>10, <2>2, <2>3, DiscardResumes
<1>11. CASE Abandon
  <2>1. /\ OpenInv' /\ held' = NoClient /\ UNCHANGED <<call, cl>>
        /\ \A h \in Calls : call[h].at \notin {"setup", "replace"}
    BY <1>11, DismissCloses DEF Abandon, OwnerInv
  <2>2. ASSUME NEW h \in Calls  PROVE LoginInv(h)'
    BY <2>1, CallTypes, NoClientIsNone DEF LoginInv, Closes
  <2> QED
    BY <2>1, <2>2 DEF OwnerInv
<1>12. CASE RunRemoval
  <2>1. /\ removal \in Clients /\ removal' = NoClient /\ UNCHANGED <<flow, held, call>>
        /\ \A z \in Clients \ {removal} : cl'[z] = cl[z]
    BY <1>12, Shuts DEF RunRemoval, TypeOK
  <2>2. OpenInv'
    BY <2>1 DEF OwnerInv, OpenInv, IInv, HeldInv, TypeOK
  <2>3. ASSUME NEW h \in Calls  PROVE LoginInv(h)'
    BY <2>1, CallTypes DEF OwnerInv, LoginInv, Closes, IInv, CallInv
  <2> QED
    BY <2>2, <2>3 DEF OwnerInv
<1>13. CASE UNCHANGED vars
  BY <1>13 DEF vars, OwnerInv, OpenInv, LoginInv, Closes
<1> QED
  BY <1>1, <1>2, <1>3, <1>4, <1>5, <1>6, <1>7, <1>8, <1>9, <1>10, <1>11, <1>12, <1>13
     DEF Next, Resume

\* What a step closes, and where that puts a client.
ClosesIt(h, z) == Closes(h) /\ call[h].on = z /\ call[h].job = "pending"

LEMMA ClosingIs ==
  ASSUME NEW h, Calls = {h}, NEW z
  PROVE  /\ Closing(z) <=> removal = z \/ ClosesIt(h, z)
         /\ Closing(z)' <=> removal' = z \/ ClosesIt(h, z)'
BY DEF Closing, ClosesIt, Closes

LEMMA Placed ==
  ASSUME NEW z \in Clients
  PROVE  /\ cl[z].st = "unused" => Where[z] = "fresh"
         /\ cl[z].st = "closed" => Where[z] = "gone"
         /\ cl[z].st \notin {"unused", "closed"} =>
              /\ z = held => Where[z] = "kept"
              /\ z # held /\ Closing(z) => Where[z] = "closing"
              /\ z # held /\ ~Closing(z) => Where[z] = "made"
         /\ Where[z] = "kept" => z = held
BY DEF Where

LEMMA PlacedNext ==
  ASSUME NEW z \in Clients
  PROVE  /\ cl'[z].st = "closed" => Where'[z] = "gone"
         /\ cl'[z].st \notin {"unused", "closed"} =>
              /\ z = held' => Where'[z] = "kept"
              /\ z # held' /\ Closing(z)' => Where'[z] = "closing"
              /\ z # held' /\ ~Closing(z)' => Where'[z] = "made"
BY DEF Where

LEMMA SamePlace ==
  ASSUME NEW z \in Clients, cl'[z].st = cl[z].st, z = held' <=> z = held,
         Closing(z)' <=> Closing(z)
  PROVE  Where'[z] = Where[z]
BY DEF Where

LEMMA AllTheSame ==
  ASSUME \A z \in Clients : Where'[z] = Where[z], UNCHANGED flow
  PROVE  UNCHANGED Custodian!vars
<1>1. Where' = Where
  BY DEF Where
<1> QED
  BY <1>1 DEF Custodian!vars

LEMMA Moved ==
  ASSUME NEW x \in Clients, NEW to, Where'[x] = to, UNCHANGED flow,
         \A z \in Clients \ {x} : Where'[z] = Where[z]
  PROVE  \A from : Where[x] \in from => Custodian!Move(x, from, to)
<1>1. Where = [z \in Clients |-> Where[z]] /\ Where' = [z \in Clients |-> Where'[z]]
  BY DEF Where
<1>2. Where' = [Where EXCEPT ![x] = to]
  BY <1>1
<1> QED
  BY <1>2 DEF Custodian!Move

\* A flow that is removed leaves: what it held is being closed from then on.
LEMMA Leaving ==
  ASSUME NEW h, Calls = {h}, TypeOK, IInv, OwnerInv, Dismiss, UNCHANGED cl,
         call' = call \/ (\A z \in Clients : ~ClosesIt(h, z) /\ ~ClosesIt(h, z)')
  PROVE  [Custodian!Next]_(Custodian!vars)
<1>1. \A z \in Clients : ClosesIt(h, z)' <=> ClosesIt(h, z)
  BY DEF ClosesIt, Closes
<1>2. CASE flow = "open"
  <2>1. flow' = "gone" /\ held' = NoClient /\ removal = NoClient /\ removal' = held
    BY <1>2 DEF Dismiss, OwnerInv, OpenInv
  <2>2. ASSUME NEW z \in Clients
        PROVE  Where'[z] = IF Where[z] = "kept" THEN "closing" ELSE Where[z]
    <3>0. z # NoClient
      BY NoClientIsNone
    <3>1. Closing(z) <=> ClosesIt(h, z)
      BY <2>1, <3>0, ClosingIs
    <3>2. Closing(z)' <=> z = held \/ ClosesIt(h, z)
      BY <1>1, <2>1, ClosingIs
    <3>3. CASE z = held
      <4>1. cl[z].st \notin {"unused", "closed"}
        BY <3>0, <3>3 DEF IInv, HeldInv, OwnerInv, OpenInv
      <4> QED
        BY <2>1, <3>0, <3>2, <3>3, <4>1, Placed, PlacedNext
    <3>4. CASE z # held
      <4>1. Where[z] # "kept"
        BY <3>4, Placed
      <4>2. Where'[z] = Where[z]
        BY <2>1, <3>0, <3>1, <3>2, <3>4, SamePlace
      <4> QED
        BY <4>1, <4>2
    <3> QED
      BY <3>3, <3>4
  <2>3. Where' = [x \in Clients |-> IF Where[x] = "kept" THEN "closing" ELSE Where[x]]
    <3>1. Where' = [x \in Clients |-> Where'[x]]
      BY DEF Where
    <3> QED
      BY <2>2, <3>1
  <2>4. Custodian!Leave
    BY <1>2, <2>1, <2>3 DEF Custodian!Leave
  <2> QED
    BY <2>4 DEF Custodian!Next
<1>3. CASE flow # "open"
  <2>1. \A z \in Clients : Where'[z] = Where[z]
    BY <1>1, <1>3, ClosingIs, SamePlace DEF Dismiss
  <2> QED
    BY <1>3, <2>1, AllTheSame DEF Dismiss
<1> QED
  BY <1>2, <1>3

LEMMA CustodyStep ==
  ASSUME NEW h, Calls = {h}, TypeOK, IInv, OwnerInv, AbandonedInValidation = FALSE, [Next]_vars
  PROVE  [Custodian!Next]_(Custodian!vars)
<1> h \in Calls
  OBVIOUS
<1>1. ASSUME NEW p \in Passwords, SubmitFirst(h, p)
      PROVE  [Custodian!Next]_(Custodian!vars)
  <2>1. call[h].at = "idle"
    BY <1>1, FirstLeaves
  <2>2. CASE Dismiss /\ UNCHANGED <<call, cl>>
    BY <2>2, Leaving
  <2>3. ASSUME UNCHANGED <<flow, held, removal>>,
               NEW c \in Clients, cl[c].st = "unused",
               \A z \in Clients \ {c} : cl'[z] = cl[z], cl'[c].st = "setup",
               call'[h].at = "setup"
        PROVE  Custodian!Next
    <3>1. c # held /\ c # removal
      BY <2>3, NoClientIsNone DEF IInv, HeldInv
    <3>2. \A z \in Clients : ~ClosesIt(h, z) /\ ~ClosesIt(h, z)'
      BY <2>1, <2>3 DEF ClosesIt, Closes
    <3>3. \A z \in Clients \ {c} : Where'[z] = Where[z]
      BY <2>3, <3>2, ClosingIs, SamePlace
    <3>4. Where[c] = "fresh" /\ Where'[c] = "made"
      BY <2>3, <3>1, <3>2, ClosingIs, Placed, PlacedNext
    <3>5. Custodian!Make(c)
      BY <2>3, <3>3, <3>4, Moved DEF Custodian!Make
    <3> QED
      BY <3>5 DEF Custodian!Next
  <2> QED
    BY <1>1, <2>2, <2>3, FirstLeaves
<1>2. ASSUME NEW input \in {"nothing", "resend", "right", "wrong"}, Submit2fa(h, input)
      PROVE  [Custodian!Next]_(Custodian!vars)
  <2>1. UNCHANGED cl /\ call[h].at = "idle"
    BY <1>2, SecondLeaves
  <2>2. CASE Dismiss /\ UNCHANGED call
    BY <2>1, <2>2, Leaving
  <2>3. CASE UNCHANGED <<flow, held, removal>> /\ call'[h].at \in {"idle", "send", "submit"}
    <3>1. \A z \in Clients : ~ClosesIt(h, z) /\ ~ClosesIt(h, z)'
      BY <2>1, <2>3 DEF ClosesIt, Closes
    <3> QED
      BY <2>1, <2>3, <3>1, ClosingIs, SamePlace, AllTheSame
  <2> QED
    BY <1>2, <2>1, <2>2, <2>3, SecondLeaves
<1>3. ASSUME RunJob(h)  PROVE [Custodian!Next]_(Custodian!vars)
  <2> DEFINE c == call[h].on
  <2>1. /\ c \in Clients /\ UNCHANGED <<flow, held, removal>> /\ call[h].job = "pending"
        /\ \A z \in Clients \ {c} : cl'[z] = cl[z]
        /\ call[h].at \in {"setup", "send", "submit"} /\ call'[h].at = call[h].at
        /\ cl[c].st # "unused" => cl'[c].st # "unused"
        /\ call[h].at # "setup" => (cl'[c].st = "closed" <=> cl[c].st = "closed")
    BY <1>3, JobLeaves DEF RunJob
  <2>2. cl[c].st # "unused" /\ (call[h].at = "setup" => cl[c].st # "closed")
    BY <2>1 DEF IInv, CallInv, OwnerInv, LoginInv
  <2>3. \A z \in Clients : ~ClosesIt(h, z) /\ ~ClosesIt(h, z)'
    BY <2>1 DEF ClosesIt, Closes
  <2>4. \A z \in Clients : Closing(z)' <=> Closing(z)
    BY <2>1, <2>3, ClosingIs
  <2>5. \A z \in Clients \ {c} : Where'[z] = Where[z]
    BY <2>1, <2>4, SamePlace
  <2>6. CASE cl[c].st # "closed" /\ cl'[c].st = "closed"
    <3>1. Where[c] \in {"made", "kept", "closing"} /\ Where'[c] = "gone"
      BY <2>1, <2>2, <2>6, Placed, PlacedNext
    <3>2. Custodian!Close(c)
      BY <2>1, <2>5, <3>1, Moved DEF Custodian!Close
    <3> QED
      BY <2>1, <3>2 DEF Custodian!Next
  <2>7. CASE cl[c].st = "closed" <=> cl'[c].st = "closed"
    <3>1. Where'[c] = Where[c]
      BY <2>1, <2>2, <2>4, <2>7, Placed, PlacedNext
    <3> QED
      BY <2>1, <2>5, <3>1, AllTheSame
  <2> QED
    BY <2>1, <2>2, <2>6, <2>7
<1>4. ASSUME RunClose(h)  PROVE [Custodian!Next]_(Custodian!vars)
  <2> DEFINE c == call[h].on
  <2>1. /\ c \in Clients /\ UNCHANGED <<flow, held, removal>>
        /\ \A z \in Clients \ {c} : cl'[z] = cl[z]
        /\ cl'[c].st = "closed" /\ call[h].at # "idle" /\ call'[h].on = c
    BY <1>4, CloseRuns, Shuts
  <2>2. cl[c].st # "unused"
    BY <2>1 DEF IInv, CallInv
  <2>3. \A z \in Clients \ {c} : ~ClosesIt(h, z) /\ ~ClosesIt(h, z)'
    BY <2>1 DEF ClosesIt
  <2>4. \A z \in Clients \ {c} : Where'[z] = Where[z]
    BY <2>1, <2>3, ClosingIs, SamePlace
  <2>5. Where'[c] = "gone"
    BY <2>1, PlacedNext
  <2>6. CASE cl[c].st # "closed"
    <3>1. Where[c] \in {"made", "kept", "closing"}
      BY <2>1, <2>2, <2>6, Placed
    <3>2. Custodian!Close(c)
      BY <2>1, <2>4, <2>5, <3>1, Moved DEF Custodian!Close
    <3> QED
      BY <2>1, <3>2 DEF Custodian!Next
  <2>7. CASE cl[c].st = "closed"
    BY <2>1, <2>4, <2>5, <2>7, Placed, AllTheSame
  <2> QED
    BY <2>6, <2>7
<1>5. ASSUME ResumeSetup(h)  PROVE [Custodian!Next]_(Custodian!vars)
  <2> DEFINE c == call[h].on
  <2>1. /\ call[h].at = "setup" /\ call[h].job = "done" /\ c \in Clients
        /\ UNCHANGED <<flow, removal, cl>> /\ flow = "open" /\ removal = NoClient
        /\ c # held /\ cl[c].st # "unused"
    BY <1>5, SetupResumes DEF IInv, CallInv, OwnerInv, OpenInv, LoginInv
  <2>2. \A z \in Clients : /\ ~Closing(z)
                           /\ Closing(z)' <=> ClosesIt(h, z)'
    BY <2>1, ClosingIs, NoClientIsNone DEF ClosesIt, Closes
  <2>3. cl[c].st # "closed" => Where[c] = "made"
    BY <2>1, <2>2, Placed
  <2>4. CASE call[h].res = Mfa /\ Begin(h, c) /\ held \in {NoClient, c}
    <3>1. held = NoClient /\ held' = c /\ call'[h].at = "send" /\ cl[c].st = "challenge"
      BY <2>1, <2>4, Begins DEF OwnerInv, LoginInv
    <3>2. \A z \in Clients : ~Closing(z)'
      BY <2>2, <3>1 DEF ClosesIt, Closes
    <3>3. \A z \in Clients \ {c} : Where'[z] = Where[z]
      BY <2>1, <2>2, <3>1, <3>2, SamePlace, NoClientIsNone
    <3>4. Where[c] = "made" /\ Where'[c] = "kept"
      BY <2>1, <2>3, <3>1, PlacedNext
    <3>5. Custodian!NothingKept
      BY <3>1, Placed, NoClientIsNone DEF Custodian!NothingKept
    <3>6. Custodian!Keep(c)
      BY <2>1, <3>3, <3>4, <3>5, Moved DEF Custodian!Keep
    <3> QED
      BY <2>1, <3>6 DEF Custodian!Next
  <2>5. CASE call[h].res = Mfa /\ Begin(h, c) /\ held \notin {NoClient, c}
    <3>1. /\ held \in Clients /\ held' = NoClient /\ call'[h].at = "replace"
          /\ call'[h].on = held /\ call'[h].job = "pending"
      BY <2>1, <2>5, Begins DEF TypeOK
    <3>2. cl[held].st \notin {"unused", "closed"}
      BY <2>5 DEF IInv, HeldInv, OwnerInv, OpenInv
    <3>3. \A z \in Clients : Closing(z)' <=> z = held
      BY <2>2, <3>1 DEF ClosesIt, Closes
    <3>4. \A z \in Clients \ {held} : Where'[z] = Where[z]
      BY <2>1, <2>2, <3>1, <3>3, SamePlace, NoClientIsNone
    <3>5. Where[held] = "kept" /\ Where'[held] = "closing"
      BY <2>1, <3>1, <3>2, <3>3, Placed, PlacedNext, NoClientIsNone
    <3>6. Custodian!GiveUp(held)
      BY <2>1, <3>1, <3>4, <3>5, Moved DEF Custodian!GiveUp
    <3> QED
      BY <3>1, <3>6 DEF Custodian!Next
  <2>6. CASE /\ UNCHANGED held /\ call'[h].at = "discard" /\ call'[h].on = c
             /\ call'[h].job = "pending"
    <3>1. \A z \in Clients : Closing(z)' <=> z = c
      BY <2>2, <2>6 DEF ClosesIt, Closes
    <3>2. \A z \in Clients \ {c} : Where'[z] = Where[z]
      BY <2>1, <2>2, <2>6, <3>1, SamePlace
    <3>3. CASE cl[c].st = "closed"
      <4>1. Where'[c] = Where[c]
        BY <2>1, <3>3, Placed, PlacedNext
      <4> QED
        BY <2>1, <3>2, <4>1, AllTheSame
    <3>4. CASE cl[c].st # "closed"
      <4>1. Where'[c] = "closing"
        BY <2>1, <2>6, <3>1, <3>4, PlacedNext
      <4>2. Custodian!GiveUp(c)
        BY <2>1, <2>3, <3>2, <3>4, <4>1, Moved DEF Custodian!GiveUp
      <4> QED
        BY <2>1, <4>2 DEF Custodian!Next
    <3> QED
      BY <3>3, <3>4
  <2> QED
    BY <1>5, <2>4, <2>5, <2>6, SetupResumes
<1>6. ASSUME ResumeReplace(h)  PROVE Custodian!Next
  <2> DEFINE c == call[h].mine
  <2>1. /\ call[h].at = "replace" /\ call[h].job = "done" /\ c \in Clients
        /\ UNCHANGED <<flow, removal, cl>> /\ held' = c /\ call'[h].at = "send"
        /\ flow = "open" /\ held = NoClient /\ c # removal
        /\ cl[c].st \notin {"unused", "closed"}
    BY <1>6, ReplaceResumes DEF IInv, CallInv, OwnerInv, LoginInv
  <2>2. \A z \in Clients : ~ClosesIt(h, z) /\ ~ClosesIt(h, z)'
    BY <2>1 DEF ClosesIt, Closes
  <2>3. \A z \in Clients \ {c} : Where'[z] = Where[z]
    BY <2>1, <2>2, ClosingIs, SamePlace, NoClientIsNone
  <2>4. Where[c] = "made" /\ Where'[c] = "kept"
    BY <2>1, <2>2, ClosingIs, Placed, PlacedNext, NoClientIsNone
  <2>5. Custodian!NothingKept
    BY <2>1, Placed, NoClientIsNone DEF Custodian!NothingKept
  <2>6. Custodian!Keep(c)
    BY <2>1, <2>3, <2>4, <2>5, Moved DEF Custodian!Keep
  <2> QED
    BY <2>1, <2>6 DEF Custodian!Next
<1>7. ASSUME ResumeSend(h)  PROVE UNCHANGED Custodian!vars
  <2>1. \A z \in Clients : ~ClosesIt(h, z) /\ ~ClosesIt(h, z)'
    BY <1>7, SendResumes DEF ClosesIt, Closes
  <2> QED
    BY <1>7, <2>1, SendResumes, ClosingIs, SamePlace, AllTheSame
<1>8. ASSUME ResumeSubmit(h)  PROVE [Custodian!Next]_(Custodian!vars)
  <2>1. UNCHANGED <<flow, removal, cl>> /\ \A z \in Clients : ~ClosesIt(h, z)
    BY <1>8, SubmitResumes DEF ClosesIt, Closes
  <2>2. CASE UNCHANGED held /\ call'[h].at = "idle"
    <3>1. \A z \in Clients : ~ClosesIt(h, z)'
      BY <2>2 DEF ClosesIt, Closes
    <3> QED
      BY <2>1, <2>2, <3>1, ClosingIs, SamePlace, AllTheSame
  <2>3. CASE /\ held \in Clients /\ held' = NoClient
             /\ call'[h].at = "finish" /\ call'[h].on = held /\ call'[h].job = "pending"
    <3>1. cl[held].st \notin {"unused", "closed"}
      BY <2>3, NoClientIsNone DEF IInv, HeldInv, OwnerInv, OpenInv
    <3>2. \A z \in Clients : ClosesIt(h, z)' <=> z = held
      BY <2>3 DEF ClosesIt, Closes
    <3>3. \A z \in Clients \ {held} : Where'[z] = Where[z]
      BY <2>1, <2>3, <3>2, ClosingIs, SamePlace, NoClientIsNone
    <3>4. Where[held] = "kept" /\ Where'[held] = "closing"
      BY <2>1, <2>3, <3>1, <3>2, ClosingIs, Placed, PlacedNext, NoClientIsNone
    <3>5. Custodian!GiveUp(held)
      BY <2>1, <2>3, <3>3, <3>4, Moved DEF Custodian!GiveUp
    <3> QED
      BY <2>3, <3>5 DEF Custodian!Next
  <2> QED
    BY <1>8, <2>2, <2>3, SubmitResumes
<1>9. ASSUME ResumeFinish(h)  PROVE [Custodian!Next]_(Custodian!vars)
  <2>1. Dismiss /\ UNCHANGED cl /\ \A z \in Clients : ~ClosesIt(h, z) /\ ~ClosesIt(h, z)'
    BY <1>9, FinishResumes, SaveLeaves DEF ClosesIt, Closes
  <2> QED
    BY <2>1, Leaving
<1>10. ASSUME ResumeDiscard(h)  PROVE [Custodian!Next]_(Custodian!vars)
  <2>1. UNCHANGED cl /\ \A z \in Clients : ~ClosesIt(h, z) /\ ~ClosesIt(h, z)'
    BY <1>10, DiscardResumes DEF ClosesIt, Closes
  <2>2. CASE Save(call[h].data)
    <3>1. Dismiss
      BY <1>10, <2>2, DiscardResumes, SaveLeaves
    <3> QED
      BY <2>1, <3>1, Leaving
  <2>3. CASE UNCHANGED <<flow, held, removal>>
    BY <2>1, <2>3, ClosingIs, SamePlace, AllTheSame
  <2> QED
    BY <1>10, <2>2, <2>3, DiscardResumes
<1>11. CASE Abandon
  BY <1>11, Leaving DEF Abandon
<1>12. CASE RunRemoval
  <2>1. /\ removal \in Clients /\ removal' = NoClient /\ UNCHANGED <<flow, held, call>>
        /\ \A z \in Clients \ {removal} : cl'[z] = cl[z]
        /\ cl'[removal].st = "closed" /\ cl[removal].st # "unused"
    BY <1>12, Shuts DEF RunRemoval, TypeOK, IInv, HeldInv
  <2>2. \A z \in Clients : ClosesIt(h, z)' <=> ClosesIt(h, z)
    BY <2>1 DEF ClosesIt, Closes
  <2>3. \A z \in Clients \ {removal} : Where'[z] = Where[z]
    BY <2>1, <2>2, ClosingIs, SamePlace, NoClientIsNone
  <2>4. Where'[removal] = "gone"
    BY <2>1, PlacedNext
  <2>5. CASE cl[removal].st = "closed"
    BY <2>1, <2>3, <2>4, <2>5, Placed, AllTheSame
  <2>6. CASE cl[removal].st # "closed"
    <3>1. Where[removal] \in {"made", "kept", "closing"}
      BY <2>1, <2>6, Placed
    <3>2. Custodian!Close(removal)
      BY <2>1, <2>3, <2>4, <3>1, Moved DEF Custodian!Close
    <3> QED
      BY <2>1, <3>2 DEF Custodian!Next
  <2> QED
    BY <2>5, <2>6
<1>13. CASE UNCHANGED vars
  <2>1. \A z \in Clients : ClosesIt(h, z)' <=> ClosesIt(h, z)
    BY <1>13 DEF vars, ClosesIt, Closes
  <2> QED
    BY <1>13, <2>1, ClosingIs, SamePlace, AllTheSame DEF vars
<1> QED
  BY <1>1, <1>2, <1>3, <1>4, <1>5, <1>6, <1>7, <1>8, <1>9, <1>10, <1>11, <1>12, <1>13
     DEF Next, Resume

\* A dialog whose forms come one after the other, and that is not closed while a
\* password is being validated, is an owner as Custody says: at most one client is
\* held, it is closed before another is, and one given up or closed is never held.
THEOREM ClientsInCustody ==
  ASSUME SingleCall, AbandonedInValidation = FALSE  PROVE Spec => FlowInCustody
<1>1. Init => OwnerInv /\ Custodian!Init
  <2> SUFFICES ASSUME Init  PROVE OwnerInv /\ Custodian!Init
    OBVIOUS
  <2>1. /\ flow = "open" /\ held = NoClient /\ removal = NoClient
        /\ \A c \in Clients : cl[c].st = "unused"
    BY DEF Init, Unused
  <2>2. \A h \in Calls : call[h].at = "idle"
    BY IdleTypes DEF Init
  <2>3. OwnerInv
    BY <2>1, <2>2 DEF OwnerInv, OpenInv, LoginInv, Closes
  <2>4. Where = [c \in Clients |-> "fresh"]
    BY <2>1 DEF Where
  <2> QED
    BY <2>1, <2>3, <2>4 DEF Custodian!Init
<1>2. TypeOK /\ IInv /\ [Next]_vars => IInv'
  BY SingleCall, FlowStep
<1>3. TypeOK /\ IInv /\ OwnerInv /\ [Next]_vars => OwnerInv'
  BY SingleCall, AbandonedInValidation = FALSE, OwnerStep
<1>4. TypeOK /\ IInv /\ OwnerInv /\ [Next]_vars => [Custodian!Next]_(Custodian!vars)
  BY SingleCall, AbandonedInValidation = FALSE, CustodyStep DEF SingleCall
<1> QED
  BY <1>1, <1>2, <1>3, <1>4, FlowInit, TypeCorrect, PTL DEF Spec, FlowInCustody, Custodian!Spec

-----------------------------------------------------------------------------
(* What the form says, when the steps of the flow come one after the       *)
(* other, even if it is removed while a form is being validated.           *)

\* The marks, in the order they are looked for.
LEMMA MarksAre ==
  /\ DOMAIN Marks = 1 .. 14
  /\ Marks[1] = <<"429", "rate_limited">> /\ Marks[2] = <<"5xx", "server_error">>
  /\ Marks[3] = <<"gateway", "server_error">> /\ Marks[4] = <<"timeout", "phase">>
  /\ Marks[5] = <<"certificate", "tls_failure">> /\ Marks[6] = <<"dns", "dns_failure">>
  /\ Marks[7] = <<"refused", "connection_refused">> /\ Marks[8] = <<"decode", "decode_error">>
  /\ Marks[9] = <<"api_auth", "auth_api_auth">> /\ Marks[10] = <<"get_token", "auth_get_token">>
  /\ Marks[11] = <<"introduce", "auth_introduce">> /\ Marks[12] = <<"login", "auth_login">>
  /\ Marks[13] = <<"empty", "appliance_list_empty">>
  /\ Marks[14] = <<"auth", "invalid_credentials">>
BY DEF Marks, ServiceMarks, StepMarks

\* The first mark a failure bears names it.
LEMMA FirstMark ==
  ASSUME NEW f, NEW phase, f.code = NoCode, NEW i \in 1 .. 14, Bears(f, Marks[i][1]),
         \A j \in 1 .. 14 : j < i => ~Bears(f, Marks[j][1])
  PROVE  Classify(f, phase) =
           IF Marks[i][2] = "phase" THEN PhaseTimeoutCode(phase) ELSE Marks[i][2]
<1> DEFINE hits == {k \in DOMAIN Marks : Bears(f, Marks[k][1])}
           first == CHOOSE k \in hits : \A j \in hits : k <= j
<1>1. i \in hits /\ \A j \in hits : j \in 1 .. 14 /\ i <= j
  BY MarksAre
<1>2. first \in hits /\ \A j \in hits : first <= j
  <2>1. \E k \in hits : \A j \in hits : k <= j
    BY <1>1
  <2> QED
    BY <2>1
<1>3. first = i
  BY <1>1, <1>2
<1>4. hits # {}
  BY <1>1
<1>5. Classify(f, phase) = IF Marks[first][2] = "phase" THEN PhaseTimeoutCode(phase)
                           ELSE Marks[first][2]
  BY <1>4 DEF Classify
<1> QED
  BY <1>3, <1>5

LEMMA NoMark ==
  ASSUME NEW f, NEW phase, f.code = NoCode, \A j \in 1 .. 14 : ~Bears(f, Marks[j][1])
  PROVE  Classify(f, phase) = "unknown"
<1>1. {k \in DOMAIN Marks : Bears(f, Marks[k][1])} = {}
  BY MarksAre
<1> QED
  BY <1>1 DEF Classify

\* What a login that fails is called: by what the server answered, before the step.
LEMMA LoginNames ==
  ASSUME NEW s \in LoginSteps, NEW w \in Statuses
  PROVE  LET code == Classify(Failure(End(s, w)), "none")
         IN  /\ w = "429" => code = "rate_limited"
             /\ w = "5xx" => code = "server_error"
             /\ s = "login" /\ w \in {"2xx", "4xx"} => code = "auth_login"
<1> DEFINE f == Failure(End(s, w))
<1>1. f = NativeAuthError({s} \cup StatusMarks(w))
  <2>1. End(s, w).step = s /\ End(s, w).status = w
    BY DEF End
  <2>2. /\ s \notin {"api_auth", "decode", "unreadable", "mfa_send", "mfa_service", "mfa_code",
                     "mfa_token", "no_client", "no_challenge"}
        /\ w \notin {"capped", "timeout", "dns", "certificate", "refused"}
    BY DEF LoginSteps, Statuses
  <2> QED
    BY <2>1, <2>2 DEF Failure
<1>2. /\ f.code = NoCode /\ f.timeout = FALSE /\ f.name = {"auth"}
      /\ f.text = {s} \cup StatusMarks(w)
  BY <1>1 DEF NativeAuthError
<1> HIDE DEF f
<1>3. CASE w = "429"
  <2>1. Bears(f, Marks[1][1])
    BY <1>2, <1>3, MarksAre DEF Bears, Hay, StatusMarks
  <2>2. Classify(f, "none") = "rate_limited"
    BY <1>2, <2>1, MarksAre, FirstMark
  <2> QED
    BY <1>3, <2>2 DEF f
<1>4. CASE w = "5xx"
  <2>1. Bears(f, Marks[2][1]) /\ ~Bears(f, Marks[1][1])
    BY <1>2, <1>4, MarksAre DEF Bears, Hay, StatusMarks, LoginSteps
  <2>2. Classify(f, "none") = "server_error"
    BY <1>2, <2>1, MarksAre, FirstMark
  <2> QED
    BY <1>4, <2>2 DEF f
<1>5. CASE s = "login" /\ w \in {"2xx", "4xx"}
  <2>1. Hay(f) = {"login", "auth"}
    BY <1>2, <1>5 DEF Hay, StatusMarks
  <2>2. \A j \in 1 .. 14 : j < 12 => ~Bears(f, Marks[j][1])
    BY <1>2, <2>1, MarksAre DEF Bears
  <2>3. Bears(f, Marks[12][1])
    BY <2>1, MarksAre DEF Bears
  <2>4. Classify(f, "none") = "auth_login"
    BY <1>2, <2>2, <2>3, MarksAre, FirstMark
  <2> QED
    BY <1>5, <2>4 DEF f
<1> QED
  BY <1>3, <1>4, <1>5 DEF f
\* What a lost connection, a late answer and an answer that cannot be read are called.
LEMMA NetworkNames ==
  ASSUME NEW e \in Network \cup {End("unreadable", "5xx")}
  PROVE  Classify(Failure(e), "none") \in
           {"connection_refused", "dns_failure", "tls_failure", "loop_timeout",
            "network_timeout", "unknown", "server_error"}
<1>1. CASE e = End("network", "refused")
  <2>1. Failure(e) = Plain({"refused"})
    BY <1>1 DEF Failure, End, LoginSteps
  <2>2. PICK f : f = Failure(e)
    OBVIOUS
  <2>3. f.code = NoCode /\ f.timeout = FALSE /\ f.name = {} /\ f.text = {"refused"}
    BY <2>1, <2>2 DEF Plain
  <2>4. Bears(f, Marks[7][1]) /\ \A j \in 1 .. 14 : j < 7 => ~Bears(f, Marks[j][1])
    BY <2>3, MarksAre DEF Bears, Hay
  <2>5. Classify(f, "none") = "connection_refused"
    BY <2>3, <2>4, MarksAre, FirstMark
  <2> QED
    BY <2>2, <2>5
<1>2. CASE e = End("network", "dns")
  <2>1. Failure(e) = Plain({"dns", "refused"})
    BY <1>2 DEF Failure, End, LoginSteps
  <2>2. PICK f : f = Failure(e)
    OBVIOUS
  <2>3. f.code = NoCode /\ f.timeout = FALSE /\ f.name = {} /\ f.text = {"dns", "refused"}
    BY <2>1, <2>2 DEF Plain
  <2>4. Bears(f, Marks[6][1]) /\ \A j \in 1 .. 14 : j < 6 => ~Bears(f, Marks[j][1])
    BY <2>3, MarksAre DEF Bears, Hay
  <2>5. Classify(f, "none") = "dns_failure"
    BY <2>3, <2>4, MarksAre, FirstMark
  <2> QED
    BY <2>2, <2>5
<1>3. CASE e = End("network", "certificate")
  <2>1. Failure(e) = Plain({"certificate", "refused"})
    BY <1>3 DEF Failure, End, LoginSteps
  <2>2. PICK f : f = Failure(e)
    OBVIOUS
  <2>3. f.code = NoCode /\ f.timeout = FALSE /\ f.name = {} /\ f.text = {"certificate", "refused"}
    BY <2>1, <2>2 DEF Plain
  <2>4. Bears(f, Marks[5][1]) /\ \A j \in 1 .. 14 : j < 5 => ~Bears(f, Marks[j][1])
    BY <2>3, MarksAre DEF Bears, Hay
  <2>5. Classify(f, "none") = "tls_failure"
    BY <2>3, <2>4, MarksAre, FirstMark
  <2> QED
    BY <2>2, <2>5
<1>4. CASE e = End("network", "timeout")
  <2>1. Failure(e) = [Plain({}) EXCEPT !.timeout = TRUE]
    BY <1>4 DEF Failure, End, LoginSteps
  <2>2. PICK f : f = Failure(e)
    OBVIOUS
  <2>3. f.code = NoCode /\ f.timeout = TRUE /\ f.name = {} /\ f.text = {}
    BY <2>1, <2>2 DEF Plain
  <2>4. Bears(f, Marks[4][1]) /\ \A j \in 1 .. 14 : j < 4 => ~Bears(f, Marks[j][1])
    BY <2>3, MarksAre DEF Bears, Hay
  <2>5. Classify(f, "none") = "loop_timeout"
    BY <2>3, <2>4, MarksAre, FirstMark DEF PhaseTimeoutCode
  <2> QED
    BY <2>2, <2>5
<1>5. CASE e = End("network", "capped")
  <2>1. Failure(e) = Coded("network_timeout")
    BY <1>5 DEF Failure, End, LoginSteps, PhaseTimeoutCode
  <2>2. Failure(e).code = "network_timeout"
    BY <2>1 DEF Coded
  <2> QED
    BY <2>2 DEF Classify, NoCode
<1>6. CASE e = End("network", "disconnected")
  <2>1. Failure(e) = Plain({})
    BY <1>6 DEF Failure, End, LoginSteps
  <2>2. PICK f : f = Failure(e)
    OBVIOUS
  <2>3. f.code = NoCode /\ f.timeout = FALSE /\ f.name = {} /\ f.text = {}
    BY <2>1, <2>2 DEF Plain
  <2>4. \A j \in 1 .. 14 : ~Bears(f, Marks[j][1])
    BY <2>3, MarksAre DEF Bears, Hay
  <2>5. Classify(f, "none") = "unknown"
    BY <2>3, <2>4, NoMark
  <2> QED
    BY <2>2, <2>5
<1>7. CASE e = End("unreadable", "5xx")
  <2>1. Failure(e) = NativeAuthError({"5xx"})
    BY <1>7 DEF Failure, End, LoginSteps, StatusMarks
  <2>2. PICK f : f = Failure(e)
    OBVIOUS
  <2>3. f.code = NoCode /\ f.timeout = FALSE /\ f.name = {"auth"} /\ f.text = {"5xx"}
    BY <2>1, <2>2 DEF NativeAuthError
  <2>4. Bears(f, Marks[2][1]) /\ ~Bears(f, Marks[1][1])
    BY <2>3, MarksAre DEF Bears, Hay
  <2>5. Classify(f, "none") = "server_error"
    BY <2>3, <2>4, MarksAre, FirstMark
  <2> QED
    BY <2>2, <2>5
<1> QED
  BY <1>1, <1>2, <1>3, <1>4, <1>5, <1>6, <1>7 DEF Network

LEMMA CodeNames ==
  ASSUME NEW e \in {End("mfa_send", "none"), End("mfa_service", "none")}
  PROVE  Classify(Failure(e), "none") \in {"mfa_send_failed", "mfa_service_error"}
<1>1. Failure(e) = Coded("mfa_send_failed") \/ Failure(e) = Coded("mfa_service_error")
  <2>1. CASE e = End("mfa_send", "none")
    BY <2>1 DEF Failure, End, LoginSteps
  <2>2. CASE e = End("mfa_service", "none")
    BY <2>2 DEF Failure, End, LoginSteps
  <2> QED
    BY <2>1, <2>2
<1>2. Failure(e).code \in {"mfa_send_failed", "mfa_service_error"}
  BY <1>1 DEF Coded
<1> QED
  BY <1>2 DEF Classify, NoCode

\* The key of the form follows the kind of the failure.
LEMMA KeysAreHonest ==
  ASSUME NEW e \in Ends
  PROVE  /\ Transient(e) => ErrorBase(e) \notin RequireReauth \cup {"invalid_auth"}
         /\ e \in WrongPassword => ErrorBase(e) \in RequireReauth
<1> DEFINE code == Classify(Failure(e), "none")
<1>1. code \notin Hidden => ErrorBase(e) = code
  BY DEF ErrorBase
<1>2. CASE Transient(e)
  <2>1. \/ e \in Network \cup {End("unreadable", "5xx")}
        \/ e \in {End("mfa_send", "none"), End("mfa_service", "none")}
        \/ \E s \in LoginSteps, w \in {"429", "5xx"} : e = End(s, w)
    <3>1. CASE e \in {End(s, w) : s \in LoginSteps, w \in Statuses}
      <4>1. PICK s \in LoginSteps, w \in Statuses : e = End(s, w)
        BY <3>1
      <4>2. s \notin {"network", "mfa_send", "mfa_service"} /\ e.step = s /\ e.status = w
        BY <4>1 DEF LoginSteps, End
      <4>3. w \in {"429", "5xx"}
        BY <1>2, <4>2 DEF Transient
      <4> QED
        BY <4>1, <4>3
    <3>2. CASE e \notin {End(s, w) : s \in LoginSteps, w \in Statuses}
      <4>1. \/ e \in Network \cup {End("unreadable", "5xx"), End("mfa_send", "none"),
                                   End("mfa_service", "none")}
            \/ e \in {Ok, Mfa, CodeInvalid, NoChallenge, NoAttribute, End("api_auth", "none"),
                      End("decode", "none"), End("mfa_token", "none")}
        BY <3>2 DEF Ends, LoginErrors, SendErrors, VerifyErrors, FinishErrors, ApiErrors
      <4>2. e \notin {Ok, Mfa, CodeInvalid, NoChallenge, NoAttribute, End("api_auth", "none"),
                     End("decode", "none"), End("mfa_token", "none")}
        BY <1>2 DEF Transient, Ok, Mfa, CodeInvalid, NoChallenge, NoAttribute, End
      <4> QED
        BY <4>1, <4>2
    <3> QED
      BY <3>1, <3>2
  <2>2. code \in {"connection_refused", "dns_failure", "tls_failure", "loop_timeout",
                  "network_timeout", "unknown", "server_error", "mfa_send_failed",
                  "mfa_service_error", "rate_limited"}
    <3>1. CASE e \in Network \cup {End("unreadable", "5xx")}
      BY <3>1, NetworkNames
    <3>2. CASE e \in {End("mfa_send", "none"), End("mfa_service", "none")}
      BY <3>2, CodeNames
    <3>3. ASSUME NEW s \in LoginSteps, NEW w \in {"429", "5xx"}, e = End(s, w)
          PROVE  code \in {"server_error", "rate_limited"}
      <4>1. w \in Statuses
        BY DEF Statuses
      <4> QED
        BY <3>3, <4>1, LoginNames
    <3> QED
      BY <2>1, <3>1, <3>2, <3>3
  <2>3. code \notin Hidden /\ code \notin RequireReauth \cup {"invalid_auth"}
    BY <2>2 DEF Hidden, RequireReauth
  <2>4. e \notin WrongPassword
    BY <1>2 DEF Transient, WrongPassword, End
  <2> QED
    BY <1>1, <2>3, <2>4
<1>3. CASE e \in WrongPassword
  <2>1. PICK w \in {"2xx", "4xx"} : e = End("login", w)
    BY <1>3 DEF WrongPassword
  <2>2. code = "auth_login"
    <3>1. "login" \in LoginSteps /\ w \in Statuses
      BY DEF LoginSteps, Statuses
    <3> QED
      BY <2>1, <3>1, LoginNames
  <2>3. ~Transient(e)
    BY <2>1 DEF Transient, End
  <2> QED
    BY <1>1, <2>2, <2>3 DEF Hidden, RequireReauth
<1> QED
  BY <1>2, <1>3

\* The form keeps the key of the failure behind it.
KeyInv == form.key = IF form.why = Ok THEN "none" ELSE ErrorBase(form.why)

LEMMA KeyStep ==
  ASSUME TypeOK, KeyInv, [Next]_vars  PROVE KeyInv'
<1>1. form' = form \/ \E step \in {"first", "2fa"}, e \in Ends : Show(step, e)
  <2>1. ASSUME NEW h \in Calls, NEW p \in Passwords, SubmitFirst(h, p)  PROVE form' = form
    BY <2>1, FirstLeaves
  <2>2. ASSUME NEW h \in Calls, NEW input \in {"nothing", "resend", "right", "wrong"},
               Submit2fa(h, input)
        PROVE  form' = form \/ Show("2fa", CodeInvalid)
    BY <2>2 DEF Submit2fa
  <2>3. ASSUME NEW h \in Calls, RunJob(h) \/ RunClose(h)  PROVE form' = form
    BY <2>3 DEF RunJob, RunClose
  <2>4. ASSUME NEW h \in Calls, Resume(h)
        PROVE  form' = form \/ \E step \in {"first", "2fa"}, e \in Ends : Show(step, e)
    <3>1. call[h].res \in Ends /\ NoAttribute \in Ends
      BY CallTypes, EndTypes
    <3>2. CASE ResumeSetup(h) \/ ResumeReplace(h) \/ ResumeFinish(h)
      BY <3>2, SetupResumes, ReplaceResumes, FinishResumes
    <3>3. CASE ResumeSend(h)
      BY <3>1, <3>3 DEF ResumeSend
    <3>4. CASE ResumeSubmit(h)
      BY <3>1, <3>4 DEF ResumeSubmit
    <3>5. CASE ResumeDiscard(h)
      BY <3>1, <3>5 DEF ResumeDiscard
    <3> QED
      BY <2>4, <3>2, <3>3, <3>4, <3>5 DEF Resume
  <2>5. Abandon \/ RunRemoval \/ UNCHANGED vars => form' = form
    BY DEF Abandon, RunRemoval, vars
  <2> QED
    BY <2>1, <2>2, <2>3, <2>4, <2>5, EndTypes DEF Next
<1>2. ASSUME NEW step \in {"first", "2fa"}, NEW e \in Ends, Show(step, e)  PROVE KeyInv'
  <2>1. CASE flow = "gone"
    BY <1>2, <2>1 DEF Show, KeyInv
  <2>2. CASE flow # "gone"
    <3>1. form' = [step |-> step, key |-> IF e = Ok THEN "none" ELSE ErrorBase(e), why |-> e]
      BY <1>2, <2>2 DEF Show
    <3>2. form'.key = (IF e = Ok THEN "none" ELSE ErrorBase(e)) /\ form'.why = e
      BY <3>1
    <3> QED
      BY <3>2 DEF KeyInv
  <2> QED
    BY <2>1, <2>2
<1>3. form' = form => KeyInv'
  BY DEF KeyInv
<1> QED
  BY <1>1, <1>2, <1>3

\* While the flow is there: who is held for a code has been challenged, from the login
\* on; a code goes to the client that is held, and what the form says of it is so.
Asked(c) == cl[c].st = "challenge"
Verified(h) == call[h].at = "submit" /\ call[h].job = "done" /\ call[h].res = Ok
AskInv(h) ==
  /\ call[h].at = "setup" /\ call[h].job = "done" /\ call[h].res = Mfa => Asked(call[h].on)
  /\ call[h].at = "replace" => Asked(call[h].mine)
  /\ Closes(h) => call[h].on # held
  /\ call[h].at \in {"send", "submit"} => held = call[h].on
  /\ call[h].at = "send" /\ call[h].job = "done" /\ call[h].res = Ok => cl[held].sent
  /\ call[h].at = "idle" /\ form.step = "2fa" =>
       held # NoClient /\ (form.why = Ok => cl[held].sent)
  /\ held # NoClient /\ ~Verified(h) => Asked(held)
PromptInv == flow = "open" => removal = NoClient /\ \A h \in Calls : AskInv(h)

\* What a code asked for and a code refused leave of the client.
LEMMA JobAnswers ==
  ASSUME TypeOK, NEW h \in Calls, RunJob(h)
  PROVE  /\ call[h].at = "send" \/ (call[h].at = "submit" /\ call'[h].res # Ok)
              => cl'[call[h].on].st = cl[call[h].on].st
         /\ call[h].at = "send" /\ call'[h].res = Ok => cl'[call[h].on].sent
<1> DEFINE c == call[h].on
<1>1. PICK e \in Ends :
        /\ call' = [call EXCEPT ![h].job = "done", ![h].res = e]
        /\ \/ call[h].at = "setup" /\ SetUp(c, e)
           \/ call[h].at = "send" /\ SendCode(c, e)
           \/ call[h].at = "submit" /\ SubmitCode(c, call[h].code, e)
  BY DEF RunJob
<1>2. c \in Clients /\ call'[h].res = e
  BY <1>1, JobLeaves, JobMoves, SMTT(30)
<1> HIDE DEF c
<1>3. CASE call[h].at = "send" /\ SendCode(c, e)
  <2>1. cl'[c].st = cl[c].st
    BY <1>2, <1>3, SendCodeLeaves
  <2>2. e = Ok => cl' = [cl EXCEPT ![c].sent = TRUE, ![c].spent = FALSE]
    BY <1>3, ErrorsAreErrors DEF SendCode
  <2>3. e = Ok => cl'[c].sent
    BY <1>2, <2>2 DEF TypeOK, Client
  <2> QED
    BY <1>2, <1>3, <2>1, <2>3 DEF c
<1>4. CASE call[h].at = "submit" /\ SubmitCode(c, call[h].code, e)
  <2>1. ASSUME NEW got \in BOOLEAN, cl' = [cl EXCEPT ![c].spent = TRUE, ![c].tok = @ \/ got]
        PROVE  cl'[c].st = cl[c].st
    BY <1>2, <2>1, CodeSpent
  <2>2. e # Ok => cl'[c].st = cl[c].st
    BY <1>4, <2>1 DEF SubmitCode
  <2> QED
    BY <1>2, <1>4, <2>2 DEF c
<1> QED
  BY <1>1, <1>3, <1>4 DEF c

\* A flow that is there was there, and what is shown is the form's.
LEMMA DismissEnds ==
  ASSUME TypeOK, Dismiss  PROVE flow' = "gone"
BY DEF TypeOK, Dismiss

LEMMA Shows ==
  ASSUME flow # "gone", NEW step, NEW e, Show(step, e)
  PROVE  form'.step = step /\ form'.why = e
<1>1. form' = [step |-> step, key |-> IF e = Ok THEN "none" ELSE ErrorBase(e), why |-> e]
  BY DEF Show
<1> QED
  BY <1>1

LEMMA PromptStep ==
  ASSUME TypeOK, IInv, PromptInv, SingleCall, [Next]_vars, flow' = "open"
  PROVE  removal' = NoClient /\ \A h \in Calls : AskInv(h)'
<1> DEFINE Goal == removal' = NoClient /\ \A h \in Calls : AskInv(h)'
<1> \A g, h \in Calls : g = h
  BY DEF SingleCall
<1>0. ~Dismiss
  BY DismissEnds
<1>1. ASSUME NEW h \in Calls, NEW p \in Passwords, SubmitFirst(h, p)  PROVE Goal
  <2>1. /\ flow = "open" /\ call[h].at = "idle" /\ UNCHANGED <<form, held, removal>>
    BY <1>0, <1>1, FirstLeaves
  <2>2. PICK c \in Clients :
          /\ cl[c].st = "unused" /\ \A z \in Clients \ {c} : cl'[z] = cl[z]
          /\ call'[h].at = "setup" /\ call'[h].on = c /\ call'[h].job = "pending"
    BY <1>0, <1>1, FirstLeaves
  <2>3. removal = NoClient /\ (held # NoClient => Asked(held))
    BY <2>1 DEF PromptInv, AskInv, Verified
  <2>4. held # NoClient => held \in Clients \ {c}
    BY <2>2, <2>3 DEF Asked, TypeOK
  <2>5. AskInv(h)'
    BY <2>1, <2>2, <2>3, <2>4 DEF AskInv, Asked, Verified, Closes
  <2> QED
    BY <2>1, <2>3, <2>5
<1>2. ASSUME NEW h \in Calls, NEW input \in {"nothing", "resend", "right", "wrong"},
             Submit2fa(h, input)
      PROVE  Goal
  <2>1. /\ flow = "open" /\ call[h].at = "idle" /\ UNCHANGED <<cl, held, removal>>
        /\ held # NoClient
    BY <1>0, <1>2, SecondLeaves DEF Submit2fa
  <2>2. removal = NoClient /\ Asked(held)
    BY <2>1 DEF PromptInv, AskInv, Verified
  <2>3. CASE UNCHANGED call /\ Show("2fa", CodeInvalid)
    <3>1. form'.why = CodeInvalid /\ CodeInvalid # Ok
      BY <2>1, <2>3, Shows, ErrorsAreErrors
    <3>2. AskInv(h)'
      BY <2>1, <2>2, <2>3, <3>1 DEF AskInv, Asked, Verified, Closes
    <3> QED
      BY <2>1, <2>2, <3>2
  <2>4. CASE /\ call'[h].at \in {"send", "submit"} /\ call'[h].on = held
             /\ call'[h].job = "pending"
    <3>1. AskInv(h)'
      BY <2>1, <2>2, <2>4 DEF AskInv, Asked, Verified, Closes
    <3> QED
      BY <2>1, <2>2, <3>1
  <2>5. CASE input = "nothing"
    BY <1>0, <1>2, <2>3, <2>5 DEF Submit2fa
  <2>6. CASE input # "nothing"
    <3>1. held \in Clients
      BY <2>1 DEF TypeOK
    <3>2. \/ call' = [call EXCEPT ![h] = Awaits(h, "send", held)]
          \/ /\ input \in {"right", "wrong"}
             /\ call' = [call EXCEPT ![h] = [Awaits(h, "submit", held) EXCEPT !.code = input]]
      BY <1>2, <2>1, <2>6 DEF Submit2fa
    <3>3. CASE call' = [call EXCEPT ![h] = Awaits(h, "send", held)]
      BY <2>4, <3>1, <3>3, Awaiting
    <3>4. CASE input \in {"right", "wrong"}
               /\ call' = [call EXCEPT ![h] = [Awaits(h, "submit", held) EXCEPT !.code = input]]
      BY <2>4, <3>1, <3>4, AwaitingWithCode
    <3> QED
      BY <3>2, <3>3, <3>4
  <2> QED
    BY <2>5, <2>6
<1>3. ASSUME NEW h \in Calls, RunJob(h)  PROVE Goal
  <2> DEFINE c == call[h].on
  <2>1. /\ UNCHANGED <<flow, held, removal, form>> /\ c \in Clients
        /\ \A z \in Clients \ {c} : cl'[z] = cl[z]
        /\ call[h].at \in {"setup", "send", "submit"} /\ call'[h].at = call[h].at
        /\ call[h].job = "pending" /\ call'[h].job = "done" /\ call'[h].on = c
        /\ call[h].at = "setup" /\ call'[h].res = Mfa => cl'[c].st = "challenge"
    BY <1>3, JobLeaves DEF RunJob
  <2>2. /\ call[h].at = "send" \/ (call[h].at = "submit" /\ call'[h].res # Ok)
             => cl'[c].st = cl[c].st
        /\ call[h].at = "send" /\ call'[h].res = Ok => cl'[c].sent
    BY <1>3, JobAnswers
  <2>3. /\ removal = NoClient /\ (held # NoClient => Asked(held))
        /\ call[h].at \in {"send", "submit"} => held = c
        /\ call[h].at = "setup" => c # held
    BY <2>1 DEF PromptInv, AskInv, Verified, IInv, CallInv
  <2>4. held # NoClient => held \in Clients
    BY DEF TypeOK
  <2>5. CASE call[h].at = "setup"
    <3>1. held # NoClient => cl'[held] = cl[held]
      BY <2>1, <2>3, <2>4, <2>5
    <3>2. AskInv(h)'
      BY <2>1, <2>3, <2>5, <3>1 DEF AskInv, Asked, Verified, Closes
    <3> QED
      BY <2>1, <2>3, <3>2
  <2>6. CASE call[h].at \in {"send", "submit"}
    <3>1. AskInv(h)'
      BY <2>1, <2>2, <2>3, <2>6, NoClientIsNone DEF AskInv, Asked, Verified, Closes
    <3> QED
      BY <2>1, <2>3, <3>1
  <2> QED
    BY <2>1, <2>5, <2>6
<1>4. ASSUME NEW h \in Calls, RunClose(h)  PROVE Goal
  <2> DEFINE c == call[h].on
  <2>1. /\ UNCHANGED <<flow, held, removal, form>> /\ c \in Clients
        /\ \A z \in Clients \ {c} : cl'[z] = cl[z]
        /\ Closes(h) /\ call'[h].at = call[h].at
        /\ call'[h].on = c /\ call'[h].mine = call[h].mine
    BY <1>4, CloseRuns, Shuts DEF Closes
  <2>2. removal = NoClient /\ AskInv(h)
    BY <2>1 DEF PromptInv
  <2>3. held # NoClient => held \in Clients \ {c}
    BY <2>1, <2>2 DEF AskInv, TypeOK
  <2>4. call[h].at = "replace" => call[h].mine \in Clients \ {c}
    BY <2>1, CallTypes DEF IInv, CallInv
  <2>5. AskInv(h)'
    BY <2>1, <2>2, <2>3, <2>4 DEF AskInv, Asked, Verified, Closes
  <2> QED
    BY <2>1, <2>2, <2>5
<1>5. ASSUME NEW h \in Calls, ResumeSetup(h)  PROVE Goal
  <2> DEFINE c == call[h].on
  <2>1. /\ call[h].at = "setup" /\ call[h].job = "done" /\ c \in Clients
        /\ UNCHANGED <<flow, removal, cl, form>> /\ c # held
    BY <1>5, SetupResumes DEF IInv, CallInv
  <2>2. removal = NoClient /\ AskInv(h)
    BY <2>1 DEF PromptInv
  <2>3. CASE call[h].res = Mfa /\ Begin(h, c)
    <3>1. Asked(c)
      BY <2>1, <2>2, <2>3 DEF AskInv
    <3>2. /\ call'[h].job = "pending"
          /\ \/ held' = c /\ call'[h].at = "send" /\ call'[h].on = c
             \/ /\ held' = NoClient /\ held # NoClient
                /\ call'[h].at = "replace" /\ call'[h].on = held /\ call'[h].mine = c
      BY <2>1, <2>3, Begins
    <3>3. AskInv(h)'
      BY <2>1, <3>1, <3>2 DEF AskInv, Asked, Verified, Closes
    <3> QED
      BY <2>1, <2>2, <3>3
  <2>4. CASE UNCHANGED held /\ call'[h].at = "discard" /\ call'[h].on = c
    <3>1. AskInv(h)'
      BY <2>1, <2>2, <2>4 DEF AskInv, Asked, Verified, Closes
    <3> QED
      BY <2>1, <2>2, <3>1
  <2> QED
    BY <1>5, <2>3, <2>4, SetupResumes
<1>6. ASSUME NEW h \in Calls, ResumeReplace(h)  PROVE Goal
  <2>1. /\ UNCHANGED <<flow, removal, cl, form>> /\ call[h].at = "replace"
        /\ held' = call[h].mine /\ call'[h].at = "send" /\ call'[h].on = call[h].mine
        /\ call'[h].job = "pending"
    BY <1>6, ReplaceResumes
  <2>2. removal = NoClient /\ Asked(call[h].mine)
    BY <2>1 DEF PromptInv, AskInv
  <2>3. AskInv(h)'
    BY <2>1, <2>2 DEF AskInv, Asked, Verified, Closes
  <2> QED
    BY <2>1, <2>2, <2>3
<1>7. ASSUME NEW h \in Calls, ResumeSend(h)  PROVE Goal
  <2>1. /\ call[h].at = "send" /\ call[h].job = "done" /\ call[h].on # NoClient
        /\ UNCHANGED <<flow, held, removal, cl>> /\ call'[h].at = "idle"
    BY <1>7, SendResumes, CallTypes, NoClientIsNone
  <2>2. removal = NoClient /\ AskInv(h)
    BY <2>1 DEF PromptInv
  <2>3. form'.why = call[h].res
    BY <1>7, <2>1, Shows DEF ResumeSend
  <2>4. AskInv(h)'
    BY <2>1, <2>2, <2>3 DEF AskInv, Asked, Verified, Closes
  <2> QED
    BY <2>1, <2>2, <2>4
<1>8. ASSUME NEW h \in Calls, ResumeSubmit(h)  PROVE Goal
  <2>1. /\ call[h].at = "submit" /\ call[h].job = "done" /\ call[h].on # NoClient
        /\ UNCHANGED <<flow, removal, cl>>
    BY <1>8, SubmitResumes, CallTypes, NoClientIsNone
  <2>2. removal = NoClient /\ AskInv(h) /\ held # NoClient
    BY <2>1 DEF PromptInv, AskInv
  <2>3. CASE /\ call[h].res # Ok /\ UNCHANGED held /\ Return(h)
             /\ Show("2fa", call[h].res)
    <3>1. form'.why = call[h].res /\ call'[h].at = "idle"
      BY <2>1, <2>3, Shows, Returned
    <3>2. AskInv(h)'
      BY <2>1, <2>2, <2>3, <3>1 DEF AskInv, Asked, Verified, Closes
    <3> QED
      BY <2>1, <2>2, <3>2
  <2>4. CASE held' = NoClient /\ call'[h].at = "finish" /\ call'[h].on = held
    <3>1. AskInv(h)'
      BY <2>1, <2>2, <2>4 DEF AskInv, Verified, Closes
    <3> QED
      BY <2>1, <2>2, <3>1
  <2>5. CASE call[h].res # Ok
    BY <1>8, <2>3, <2>5 DEF ResumeSubmit
  <2>6. CASE call[h].res = Ok
    <3>1. /\ held' = NoClient /\ held \in Clients
          /\ call' = [call EXCEPT ![h] = [Awaits(h, "finish", held) EXCEPT !.data = Gives(held)]]
      BY <1>8, <2>2, <2>6 DEF ResumeSubmit, TypeOK
    <3>2. Gives(held) \in Saved
      BY <3>1, GivesTypes
    <3> QED
      BY <2>4, <3>1, <3>2, AwaitingWithData
  <2> QED
    BY <2>5, <2>6
<1>9. ASSUME NEW h \in Calls, ResumeFinish(h)  PROVE Goal
  BY <1>0, <1>9, FinishResumes, SaveLeaves
<1>10. ASSUME NEW h \in Calls, ResumeDiscard(h)  PROVE Goal
  <2>1. /\ call[h].at = "discard" /\ ~Save(call[h].data) /\ call[h].res # Ok
        /\ Show("first", call[h].res) /\ UNCHANGED <<flow, held, removal, cl>>
        /\ call'[h].at = "idle"
    BY <1>0, <1>10, DiscardResumes, SaveLeaves DEF ResumeDiscard
  <2>2. removal = NoClient /\ AskInv(h)
    BY <2>1 DEF PromptInv
  <2>3. form'.step = "first"
    BY <2>1, Shows
  <2>4. AskInv(h)'
    BY <2>1, <2>2, <2>3 DEF AskInv, Asked, Verified, Closes
  <2> QED
    BY <2>1, <2>2, <2>4
<1>11. CASE Abandon
  BY <1>0, <1>11 DEF Abandon
<1>12. CASE RunRemoval
  BY <1>12 DEF RunRemoval, PromptInv
<1>13. CASE UNCHANGED vars
  BY <1>13 DEF vars, PromptInv, AskInv, Asked, Verified, Closes
<1> QED
  BY <1>1, <1>2, <1>3, <1>4, <1>5, <1>6, <1>7, <1>8, <1>9, <1>10, <1>11, <1>12, <1>13
     DEF Next, Resume

\* When the steps of a flow come one after the other, whatever is abandoned in between,
\* the form tells the truth: a failure of the service asks nobody for another password,
\* a wrong password is called one, and who is asked for a code is asked for the one of a
\* challenged client that is held, sent unless the form says otherwise.
THEOREM FormIsHonest ==
  ASSUME SingleCall  PROVE Spec => []HonestPrompt
<1>1. Init => KeyInv /\ PromptInv
  <2> SUFFICES ASSUME Init  PROVE KeyInv /\ PromptInv
    OBVIOUS
  <2>1. form.key = "none" /\ form.why = Ok /\ form.step = "first" /\ held = NoClient
        /\ removal = NoClient
    BY DEF Init
  <2>2. \A h \in Calls : call[h].at = "idle"
    BY IdleTypes DEF Init
  <2> QED
    BY <2>1, <2>2 DEF KeyInv, PromptInv, AskInv, Verified, Closes
<1>2. TypeOK /\ IInv /\ [Next]_vars => IInv'
  BY SingleCall, FlowStep
<1>3. TypeOK /\ IInv /\ KeyInv /\ PromptInv /\ [Next]_vars => KeyInv' /\ PromptInv'
  BY SingleCall, KeyStep, PromptStep DEF PromptInv
<1>4. TypeOK /\ KeyInv /\ PromptInv => HonestPrompt
  <2> SUFFICES ASSUME TypeOK, KeyInv, PromptInv  PROVE HonestPrompt
    OBVIOUS
  <2>1. form.why \in Ends /\ ~Transient(Ok) /\ Ok \notin WrongPassword
    BY ErrorsAreErrors DEF TypeOK, Transient, Ok, End
  <2>2. /\ Transient(form.why) => form.key \notin RequireReauth \cup {"invalid_auth"}
        /\ form.why \in WrongPassword => form.key \in RequireReauth
    <3>1. CASE form.why = Ok
      BY <2>1, <3>1
    <3>2. CASE form.why # Ok
      <4>1. form.key = ErrorBase(form.why)
        BY <3>2 DEF KeyInv
      <4> QED
        BY <2>1, <4>1, KeysAreHonest
    <3> QED
      BY <3>1, <3>2
  <2>3. FlowIsQuiet /\ form.step = "2fa" =>
          /\ held # NoClient /\ cl[held].st = "challenge"
          /\ form.why = Ok => cl[held].sent
    <3> SUFFICES ASSUME FlowIsQuiet, form.step = "2fa"
                 PROVE  /\ held # NoClient /\ cl[held].st = "challenge"
                        /\ form.why = Ok => cl[held].sent
      OBVIOUS
    <3>1. PICK h \in Calls : call[h].at = "idle" /\ AskInv(h)
      BY SingleCall DEF SingleCall, FlowIsQuiet, PromptInv
    <3> QED
      BY <3>1 DEF AskInv, Asked, Verified
  <2> QED
    BY <2>2, <2>3 DEF HonestPrompt
<1> QED
  BY <1>1, <1>2, <1>3, <1>4, FlowInit, TypeCorrect, PTL DEF Spec

-----------------------------------------------------------------------------
(* Every step comes back to its form, and leaves nothing open.             *)

\* What is left of a step: the jobs it may still wait for, three at most, and
\* whether it waits for one now.
JobsLeft(at) ==
  CASE at = "idle" -> 0
    [] at = "setup" -> 3
    [] at \in {"replace", "submit"} -> 2
    [] OTHER -> 1
LeftOf(k) == 2 * JobsLeft(k.at) + (IF k.job = "pending" THEN 1 ELSE 0)
Nearer(h) == LeftOf(call'[h]) < LeftOf(call[h])

LEMMA JobsLeftAt ==
  /\ JobsLeft("idle") = 0 /\ JobsLeft("setup") = 3 /\ JobsLeft("replace") = 2
  /\ JobsLeft("submit") = 2 /\ JobsLeft("send") = 1 /\ JobsLeft("discard") = 1
  /\ JobsLeft("finish") = 1
BY DEF JobsLeft

\* A job that ends, and a step that is resumed and has fewer of them to wait for.
LEMMA JobEnds ==
  ASSUME TypeOK, NEW h \in Calls, call[h].job = "pending", call'[h].job = "done",
         call'[h].at = call[h].at
  PROVE  Nearer(h)
<1>1. JobsLeft(call[h].at) \in Nat
  BY CallTypes, JobsLeftAt
<1> QED
  BY <1>1 DEF Nearer, LeftOf

LEMMA GoesOn ==
  ASSUME NEW h \in Calls, call[h].job = "done",
         JobsLeft(call[h].at) \in Nat, JobsLeft(call'[h].at) \in Nat,
         JobsLeft(call'[h].at) < JobsLeft(call[h].at)
  PROVE  Nearer(h)
BY DEF Nearer, LeftOf

LEMMA StepGetsOn ==
  ASSUME TypeOK, NEW h \in Calls, RunJob(h) \/ RunClose(h) \/ Resume(h)
  PROVE  Nearer(h) /\ \A g \in Calls \ {h} : call'[g] = call[g]
<1>1. CASE RunJob(h)
  BY <1>1, JobLeaves, JobEnds
<1>2. CASE RunClose(h)
  BY <1>2, CloseRuns, JobEnds
<1>3. CASE ResumeSetup(h)
  <2>1. /\ call[h].at = "setup" /\ call[h].job = "done"
        /\ call'[h].at \in {"send", "replace", "discard"}
        /\ \A g \in Calls \ {h} : call'[g] = call[g]
    BY <1>3, SetupResumes, Begins
  <2> QED
    BY <2>1, JobsLeftAt, GoesOn
<1>4. CASE ResumeReplace(h)
  BY <1>4, ReplaceResumes, JobsLeftAt, GoesOn
<1>5. CASE ResumeSend(h)
  BY <1>5, SendResumes, JobsLeftAt, GoesOn
<1>6. CASE ResumeSubmit(h)
  BY <1>6, SubmitResumes, JobsLeftAt, GoesOn
<1>7. CASE ResumeFinish(h)
  BY <1>7, FinishResumes, JobsLeftAt, GoesOn
<1>8. CASE ResumeDiscard(h)
  BY <1>8, DiscardResumes, JobsLeftAt, GoesOn
<1> QED
  BY <1>1, <1>2, <1>3, <1>4, <1>5, <1>6, <1>7, <1>8 DEF Resume

\* Nothing else moves a step that is under way: forms are submitted by a step that
\* begins, and removals close a client.
LEMMA OthersLeaveIt ==
  ASSUME TypeOK, [Next]_vars, NEW h \in Calls, call[h].at # "idle", call'[h] # call[h]
  PROVE  RunJob(h) \/ RunClose(h) \/ Resume(h)
<1>1. ASSUME NEW g \in Calls, NEW p \in Passwords, SubmitFirst(g, p)  PROVE FALSE
  BY <1>1, FirstLeaves
<1>2. ASSUME NEW g \in Calls, NEW input \in {"nothing", "resend", "right", "wrong"},
             Submit2fa(g, input)
      PROVE  FALSE
  BY <1>2, SecondLeaves
<1>3. ASSUME NEW g \in Calls, RunJob(g) \/ RunClose(g) \/ Resume(g)  PROVE g = h
  BY <1>3, StepGetsOn
<1>4. ~Abandon /\ ~RunRemoval /\ ~UNCHANGED vars
  BY DEF Abandon, RunRemoval, vars
<1> QED
  BY <1>1, <1>2, <1>3, <1>4 DEF Next

\* A step of the flow waits for three jobs at most. Each job that ends and each await
\* that is resumed brings it nearer to its end, and neither another step nor the
\* removal of the flow sets it back.
StepsMoveOn ==
  [][\A h \in Calls : call[h].at # "idle" =>
       /\ call'[h] = call[h] \/ Nearer(h)
       /\ RunJob(h) \/ RunClose(h) \/ Resume(h) => Nearer(h)]_vars

\* For any number of steps that overlap, and whatever fails or is abandoned: validate_input,
\* _mfa_begin, the resend and _async_finish_2fa all come back to a form or an entry.
THEOREM StepsGetOn == Spec => StepsMoveOn
<1>1. TypeOK /\ [Next]_vars =>
        \A h \in Calls : call[h].at # "idle" =>
          /\ call'[h] = call[h] \/ Nearer(h)
          /\ RunJob(h) \/ RunClose(h) \/ Resume(h) => Nearer(h)
  BY StepGetsOn, OthersLeaveIt
<1> QED
  BY <1>1, TypeCorrect, PTL DEF Spec, StepsMoveOn

\* Who answers for a client that is open: the flow, its removal, the login, the step that
\* closes it, or the one that keeps it as soon as its predecessor is closed.
Answers(h, c) ==
  \/ call[h].at = "setup" /\ call[h].on = c
  \/ ClosesIt(h, c)
  \/ call[h].at = "replace" /\ call[h].mine = c
OpenAt(c) == cl[c].st \notin {"unused", "closed"}
AnswerInv ==
  \A c \in Clients : OpenAt(c) => c \in {held, removal} \/ \E h \in Calls : Answers(h, c)

LEMMA DismissAnswers ==
  ASSUME OpenInv, Dismiss, NEW c \in Clients, c \in {held, removal}
  PROVE  c \in {held', removal'}
BY NoClientIsNone DEF OpenInv, Dismiss

\* A step that is at its form, or has a code on its way, answers for nobody; one whose
\* close has ended, for its successor at most.
LEMMA AnswersNot ==
  ASSUME NEW h \in Calls, NEW c \in Clients, Answers(h, c)
  PROVE  /\ call[h].at \in {"setup", "discard", "replace", "finish"}
         /\ call[h].job = "done" => call[h].at \in {"setup", "replace"}
BY DEF Answers, ClosesIt, Closes

LEMMA AnswerStep ==
  ASSUME TypeOK, IInv, OwnerInv, AnswerInv, SingleCall, [Next]_vars
  PROVE  AnswerInv'
<1> \A g, h \in Calls : g = h
  BY DEF SingleCall
<1>1. ASSUME NEW h \in Calls, NEW p \in Passwords, SubmitFirst(h, p)  PROVE AnswerInv'
  <2>1. call[h].at = "idle" /\ \A c \in Clients : ~Answers(h, c)
    BY <1>1, FirstLeaves, AnswersNot
  <2>2. CASE Dismiss /\ UNCHANGED <<call, cl>>
    BY <2>1, <2>2, DismissAnswers DEF AnswerInv, OpenAt, OwnerInv
  <2>3. ASSUME UNCHANGED <<flow, held, removal>>, NEW z \in Clients,
               \A c \in Clients \ {z} : cl'[c] = cl[c], call'[h].at = "setup", call'[h].on = z
        PROVE  AnswerInv'
    BY <2>1, <2>3 DEF AnswerInv, OpenAt, Answers
  <2> QED
    BY <1>1, <2>2, <2>3, FirstLeaves
<1>2. ASSUME NEW h \in Calls, NEW input \in {"nothing", "resend", "right", "wrong"},
             Submit2fa(h, input)
      PROVE  AnswerInv'
  <2>1. UNCHANGED cl /\ \A c \in Clients : ~Answers(h, c)
    BY <1>2, SecondLeaves, AnswersNot
  <2>2. Dismiss \/ UNCHANGED <<held, removal>>
    BY <1>2, SecondLeaves
  <2> QED
    BY <2>1, <2>2, DismissAnswers DEF AnswerInv, OpenAt, OwnerInv
<1>3. ASSUME NEW h \in Calls, RunJob(h)  PROVE AnswerInv'
  <2> DEFINE on == call[h].on
  <2>1. /\ on \in Clients /\ UNCHANGED <<held, removal>>
        /\ \A z \in Clients \ {on} : cl'[z] = cl[z]
        /\ call[h].at \in {"setup", "send", "submit"} /\ call'[h].at = call[h].at
        /\ call'[h].on = on
        /\ call[h].at # "setup" => (cl'[on].st = "closed" <=> cl[on].st = "closed")
        /\ cl[on].st # "unused"
    BY <1>3, JobLeaves DEF RunJob, IInv, CallInv
  <2> SUFFICES ASSUME NEW c \in Clients, OpenAt(c)'
               PROVE  c \in {held', removal'} \/ \E g \in Calls : Answers(g, c)'
    BY DEF AnswerInv
  <2>2. CASE call[h].at = "setup" /\ c = on
    BY <2>1, <2>2 DEF Answers
  <2>3. CASE ~(call[h].at = "setup" /\ c = on)
    <3>1. OpenAt(c)
      BY <2>1, <2>3 DEF OpenAt
    <3>2. c \in {held, removal} \/ Answers(h, c)
      BY <3>1 DEF AnswerInv
    <3>3. ~Answers(h, c)
      BY <2>1, <2>3, AnswersNot DEF Answers, ClosesIt, Closes
    <3> QED
      BY <2>1, <3>2, <3>3
  <2> QED
    BY <2>2, <2>3
<1>4. ASSUME NEW h \in Calls, RunClose(h)  PROVE AnswerInv'
  <2> DEFINE on == call[h].on
  <2>1. /\ on \in Clients /\ UNCHANGED <<held, removal>> /\ cl'[on].st = "closed"
        /\ \A z \in Clients \ {on} : cl'[z] = cl[z]
        /\ Closes(h) /\ call'[h].at = call[h].at /\ call'[h].mine = call[h].mine
    BY <1>4, CloseRuns, Shuts DEF Closes
  <2> SUFFICES ASSUME NEW c \in Clients, OpenAt(c)'
               PROVE  c \in {held', removal'} \/ \E g \in Calls : Answers(g, c)'
    BY DEF AnswerInv
  <2>2. c # on /\ OpenAt(c)
    BY <2>1 DEF OpenAt
  <2>3. c \in {held, removal} \/ Answers(h, c)
    BY <2>2 DEF AnswerInv
  <2>4. Answers(h, c) => Answers(h, c)'
    BY <2>1, <2>2 DEF Answers, ClosesIt, Closes
  <2> QED
    BY <2>1, <2>3, <2>4
<1>5. ASSUME NEW h \in Calls, ResumeSetup(h)  PROVE AnswerInv'
  <2> DEFINE on == call[h].on
  <2>1. /\ call[h].at = "setup" /\ on \in Clients /\ UNCHANGED <<removal, cl>>
    BY <1>5, SetupResumes
  <2> SUFFICES ASSUME NEW c \in Clients, OpenAt(c)'
               PROVE  c \in {held', removal'} \/ \E g \in Calls : Answers(g, c)'
    BY DEF AnswerInv
  <2>2. c \in {held, removal, on}
    <3>1. c \in {held, removal} \/ Answers(h, c)
      BY <2>1 DEF AnswerInv, OpenAt
    <3> QED
      BY <2>1, <3>1 DEF Answers, ClosesIt, Closes
  <2>3. CASE Begin(h, on)
    BY <2>1, <2>2, <2>3, Begins, NoClientIsNone DEF Answers, ClosesIt, Closes
  <2>4. CASE /\ UNCHANGED held /\ call'[h].at = "discard" /\ call'[h].on = on
             /\ call'[h].job = "pending"
    BY <2>1, <2>2, <2>4 DEF Answers, ClosesIt, Closes
  <2> QED
    BY <1>5, <2>3, <2>4, SetupResumes
<1>6. ASSUME NEW h \in Calls, ResumeReplace(h)  PROVE AnswerInv'
  <2>1. /\ call[h].at = "replace" /\ call[h].job = "done" /\ UNCHANGED <<removal, cl>>
        /\ held' = call[h].mine /\ held = NoClient
    BY <1>6, ReplaceResumes DEF IInv, CallInv
  <2>2. \A c \in Clients : Answers(h, c) => c = held'
    BY <2>1 DEF Answers, ClosesIt
  <2> QED
    BY <2>1, <2>2, NoClientIsNone DEF AnswerInv, OpenAt
<1>7. ASSUME NEW h \in Calls, ResumeSend(h)  PROVE AnswerInv'
  <2>1. UNCHANGED <<held, removal, cl>> /\ \A c \in Clients : ~Answers(h, c)
    BY <1>7, SendResumes, AnswersNot
  <2> QED
    BY <2>1 DEF AnswerInv, OpenAt
<1>8. ASSUME NEW h \in Calls, ResumeSubmit(h)  PROVE AnswerInv'
  <2>1. UNCHANGED <<removal, cl>> /\ \A c \in Clients : ~Answers(h, c)
    BY <1>8, SubmitResumes, AnswersNot
  <2>2. CASE UNCHANGED held
    BY <2>1, <2>2 DEF AnswerInv, OpenAt
  <2>3. CASE call'[h].at = "finish" /\ call'[h].on = held /\ call'[h].job = "pending"
    <3>1. \A c \in Clients : c = held => Answers(h, c)'
      BY <2>3 DEF Answers, ClosesIt, Closes
    <3> QED
      BY <2>1, <3>1 DEF AnswerInv, OpenAt
  <2> QED
    BY <1>8, <2>2, <2>3, SubmitResumes
<1>9. ASSUME NEW h \in Calls, ResumeFinish(h)  PROVE AnswerInv'
  <2>1. UNCHANGED cl /\ Dismiss /\ \A c \in Clients : ~Answers(h, c)
    BY <1>9, FinishResumes, SaveLeaves, AnswersNot
  <2> QED
    BY <2>1, DismissAnswers DEF AnswerInv, OpenAt, OwnerInv
<1>10. ASSUME NEW h \in Calls, ResumeDiscard(h)  PROVE AnswerInv'
  <2>1. UNCHANGED cl /\ \A c \in Clients : ~Answers(h, c)
    BY <1>10, DiscardResumes, AnswersNot
  <2>2. Dismiss \/ UNCHANGED <<held, removal>>
    BY <1>10, DiscardResumes, SaveLeaves
  <2> QED
    BY <2>1, <2>2, DismissAnswers DEF AnswerInv, OpenAt, OwnerInv
<1>11. CASE Abandon
  <2>1. Dismiss /\ UNCHANGED <<call, cl>>
    BY <1>11 DEF Abandon
  <2>2. \A g \in Calls, c \in Clients : Answers(g, c)' <=> Answers(g, c)
    BY <2>1 DEF Answers, ClosesIt, Closes
  <2> QED
    BY <2>1, <2>2, DismissAnswers DEF AnswerInv, OpenAt, OwnerInv
<1>12. CASE RunRemoval
  <2>1. /\ removal \in Clients /\ cl'[removal].st = "closed" /\ UNCHANGED <<held, call>>
        /\ \A z \in Clients \ {removal} : cl'[z] = cl[z]
    BY <1>12, Shuts DEF RunRemoval, TypeOK
  <2>2. \A g \in Calls, c \in Clients : Answers(g, c)' <=> Answers(g, c)
    BY <2>1 DEF Answers, ClosesIt, Closes
  <2> QED
    BY <2>1, <2>2 DEF AnswerInv, OpenAt
<1>13. CASE UNCHANGED vars
  BY <1>13 DEF vars, AnswerInv, OpenAt, Answers, ClosesIt, Closes
<1> QED
  BY <1>1, <1>2, <1>3, <1>4, <1>5, <1>6, <1>7, <1>8, <1>9, <1>10, <1>11, <1>12, <1>13
     DEF Next, Resume

\* When every step has come back and a removal has ended, the only client that is open is
\* the one that a flow still there holds for its code.
OnlyTheHeldIsOpen ==
  removal = NoClient /\ (\A h \in Calls : call[h].at = "idle") =>
    \A c \in Clients : OpenAt(c) => flow = "open" /\ c = held

\* What flow_abandoned refutes holds of a flow that is not removed while a form is being
\* validated: wrong passwords, failures, challenges given up for another login, codes
\* verified for a flow that is gone, none leaves a client, its loop and its thread behind.
THEOREM NothingIsLeftOpen ==
  ASSUME SingleCall, AbandonedInValidation = FALSE
  PROVE  Spec => [](OnlyTheHeldIsOpen /\ UnfinishedIsClosed)
<1>1. Init => OwnerInv /\ AnswerInv
  <2> SUFFICES ASSUME Init  PROVE OwnerInv /\ AnswerInv
    OBVIOUS
  <2>1. /\ flow = "open" /\ held = NoClient /\ removal = NoClient
        /\ \A c \in Clients : cl[c].st = "unused"
    BY DEF Init, Unused
  <2>2. \A h \in Calls : call[h].at = "idle"
    BY IdleTypes DEF Init
  <2> QED
    BY <2>1, <2>2 DEF OwnerInv, OpenInv, LoginInv, Closes, AnswerInv, OpenAt
<1>2. TypeOK /\ IInv /\ [Next]_vars => IInv'
  BY SingleCall, FlowStep
<1>3. TypeOK /\ IInv /\ OwnerInv /\ [Next]_vars => OwnerInv'
  BY SingleCall, AbandonedInValidation = FALSE, OwnerStep
<1>4. TypeOK /\ IInv /\ OwnerInv /\ AnswerInv /\ [Next]_vars => AnswerInv'
  BY SingleCall, AnswerStep
<1>5. TypeOK /\ OwnerInv /\ AnswerInv => OnlyTheHeldIsOpen /\ UnfinishedIsClosed
  <2> SUFFICES ASSUME TypeOK, OwnerInv, AnswerInv, removal = NoClient,
                      \A h \in Calls : call[h].at = "idle", NEW c \in Clients, OpenAt(c)
               PROVE  flow = "open" /\ c = held
    BY DEF OnlyTheHeldIsOpen, UnfinishedIsClosed, OpenAt
  <2>1. c = held
    BY NoClientIsNone, AnswersNot DEF AnswerInv
  <2> QED
    BY <2>1, NoClientIsNone DEF OwnerInv, OpenInv
<1> QED
  BY <1>1, <1>2, <1>3, <1>4, <1>5, FlowInit, TypeCorrect, PTL DEF Spec

=============================================================================
