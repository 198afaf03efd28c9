----------------------------- MODULE ProgramStart -----------------------------
(***************************************************************************)
(* Choosing and starting a program.  On a washer or dryer the select and   *)
(* the option entities only buffer a choice (select.py,                    *)
(* program_options.py), and the button "Start program" applies it to the   *)
(* startProgram command and sends that (button.py); on a fridge the select *)
(* sends at once (async_send_program).  Choosing a program swaps the       *)
(* active command for the one of that category.                            *)
(*                                                                         *)
(* Entities run on Home Assistant's loop; a press waits on an executor     *)
(* thread for the client's _lifecycle_lock, which is not first come first  *)
(* served, and runs on the hon_loop.  From the lookup of the command to    *)
(* its POST there is no await: Run is one step.  The executor's return to  *)
(* the press is a step of its own.                                         *)
(***************************************************************************)
EXTENDS Commands

CONSTANTS
  Presses,        \* presses of the button, or picks on the fridge, at the same time
  Numbers,        \* the options that are number entities
  Switches,       \* the options that are switches; the rest are selects
  MaxEdits, MaxPresses, MaxFaults, MaxReloads   \* bounds

ASSUME PressAssumption ==
  /\ "" \notin Names
  /\ Numbers \subseteq Options /\ Switches \subseteq Options /\ Numbers \cap Switches = {}
ASSUME PressBoundsAssumption ==
  MaxEdits \in Nat /\ MaxPresses \in Nat /\ MaxFaults \in Nat /\ MaxReloads \in Nat

NoName  == ""
NoEntry == <<>>
\* An option in the buffer.  chosenFor is history: the program pending at the time.
Buffered == [key : Options, value : Codes, chosenFor : Names \cup {NoName}]
Sent     == [program : Programs, values : Settings]

VARIABLES
  fridge,   \* is it a fridge?
  pending,  \* PROGRAM_PENDING_STORE: the program chosen and not yet started
  options,  \* PROGRAM_PENDING_OPTIONS, in the order of the dict
  active,   \* the category appliance.commands["startProgram"] is
  state,    \* the parameters of each category
  phase,    \* of each press: "idle", "queued", "sending", "accepted" or "failed"
  wanted,   \* its pending_program, or the fridge's program_code
  chosen,   \* its pending_options
  previous, \* original_command of the fridge's
  stale,    \* its appliance belongs to a session that is closed
  bundle,   \* what it has posted
  last,     \* the last command in the cloud's history
  edits, presses, faults, reloads,
  unsure,   \* history: the cloud may have taken a command that failed here
  overtaken, \* history: the presses during which another program was chosen
  hurried   \* history: that has ever happened

stores   == <<pending, options>>
engine   == <<active, state>>
pressVar == <<phase, wanted, chosen, previous, stale, bundle>>
budgets  == <<edits, presses, faults, reloads>>
crossing == <<overtaken, hurried>>
history  == <<unsure, crossing>>
vars     == <<fridge, stores, engine, pressVar, last, budgets, history>>

TypeOK ==
  /\ fridge \in BOOLEAN
  /\ pending \in Names \cup {NoName} /\ options \in Seq(Buffered)
  /\ active \in Names /\ state \in [Programs -> States]
  /\ \A p \in Programs : DOMAIN state[p] = Exposed(p)
  /\ phase \in [Presses -> {"idle", "queued", "sending", "accepted", "failed"}]
  /\ wanted \in [Presses -> Names \cup {NoName}] /\ chosen \in [Presses -> Seq(Buffered)]
  /\ previous \in [Presses -> Names] /\ stale \in [Presses -> BOOLEAN]
  /\ bundle \in [Presses -> Sent \cup {NoEntry}] /\ last \in Sent \cup {NoEntry}
  /\ \A j \in Presses : phase[j] \in {"sending", "accepted"} => bundle[j] # NoEntry
  /\ \A h, i \in DOMAIN options : options[h].key = options[i].key => h = i
  /\ edits \in 0 .. MaxEdits /\ presses \in 0 .. MaxPresses
  /\ faults \in 0 .. MaxFaults /\ reloads \in 0 .. MaxReloads
  /\ unsure \in BOOLEAN /\ hurried \in BOOLEAN
  /\ overtaken \subseteq Presses /\ (overtaken # {} => hurried)

\* The appliance has been loaded, with no command in the cloud's history.
Init ==
  /\ fridge \in BOOLEAN
  /\ pending = NoName /\ options = <<>>
  /\ active = FirstProgram /\ state = WithFavourites
  /\ phase = [j \in Presses |-> "idle"] /\ wanted = [j \in Presses |-> NoName]
  /\ chosen = [j \in Presses |-> <<>>] /\ previous = [j \in Presses |-> FirstProgram]
  /\ stale = [j \in Presses |-> FALSE] /\ bundle = [j \in Presses |-> NoEntry]
  /\ last = NoEntry
  /\ edits = 0 /\ presses = 0 /\ faults = 0 /\ reloads = 0
  /\ unsure = FALSE /\ overtaken = {} /\ hurried = FALSE

InFlight(j) == phase[j] # "idle"
Fault == faults < MaxFaults /\ faults' = faults + 1

-----------------------------------------------------------------------------
(* The entities.                                                           *)

\* The presses that have read what was pending go on with that.
Overtakes(n) ==
  LET late == IF pending = n THEN {} ELSE {j \in Presses : InFlight(j)}
  IN  overtaken' = overtaken \cup late /\ hurried' = (hurried \/ late # {})

\* Mutant: the options of the program before stay in the buffer.
Mutant_Choose(n) ==
  /\ ~fridge
  /\ edits < MaxEdits /\ edits' = edits + 1
  /\ pending' = n
  /\ Overtakes(n)
  /\ UNCHANGED <<fridge, options, engine, pressVar, last, presses, faults, reloads, unsure>>

\* HonProgramSelect.async_select_option.
Choose(n) ==
  /\ ~fridge
  /\ edits < MaxEdits /\ edits' = edits + 1
  /\ pending' = n
  /\ Overtakes(n)
  /\ options' = IF pending = n THEN options ELSE <<>>
  /\ UNCHANGED <<fridge, engine, pressVar, last, presses, faults, reloads, unsure>>

\* available_settings: the variant of an option with the most values, over all programs.
Richest(k) ==
  LET settable == {p \in Programs : k \in Exposed(p) /\ Schema[p][k].kind # "fixed"}
      size(p)  == Cardinality(WithFavourites[p][k].allowed)
  IN  IF settable = {} THEN {}
      ELSE WithFavourites[CHOOSE p \in settable : \A q \in settable : size(q) <= size(p)][k].allowed

\* What the entity found when it was created, by which a select lists its options.
\* No entity is created for an option with less than two values.
Listed(k) == IF Cardinality(Richest(k)) < 2 THEN {} ELSE Richest(k)

\* A switch knows two values: off is 0, or the lowest, on is the next.
OnOff(k) ==
  {c \in Listed(k) : Cardinality({d \in Listed(k) : d < c}) < 2}

\* A number goes by its range in the active program, if that has one.
LiveRange(k) ==
  LET p == Base(active)
  IN  IF k \in Exposed(p) /\ Schema[p][k].kind = "range" THEN state[p][k].allowed
      ELSE Listed(k)

\* What the entity of an option lets the user set.
Offered(k) ==
  IF Listed(k) = {} THEN {}
  ELSE IF k \in Numbers THEN LiveRange(k)
  ELSE IF k \in Switches THEN OnOff(k)
  ELSE Listed(k)

\* Mutant: an option chosen twice is in the buffer twice.
Mutant_Put(os, o) == Append(os, o)

\* A dict keeps the place of a key that is written again.
Put(os, o) ==
  IF \E i \in DOMAIN os : os[i].key = o.key
  THEN [i \in DOMAIN os |-> IF os[i].key = o.key THEN o ELSE os[i]]
  ELSE Append(os, o)

\* HonProgramOptionEntity._buffer, by a select, a switch or a number.
Buffer(k, v) ==
  /\ ~fridge
  /\ edits < MaxEdits /\ edits' = edits + 1
  /\ v \in Offered(k)
  /\ options' = Put(options, [key |-> k, value |-> v, chosenFor |-> pending])
  /\ UNCHANGED <<fridge, pending, engine, pressVar, last, presses, faults, reloads, history>>

-----------------------------------------------------------------------------
(* A press.                                                                *)

\* A press or a pick leaves Home Assistant's loop, with copies of what it has read.
Queue(j, n, os) ==
  /\ phase[j] = "idle"
  /\ presses < MaxPresses /\ presses' = presses + 1
  /\ phase' = [phase EXCEPT ![j] = "queued"]
  /\ wanted' = [wanted EXCEPT ![j] = n]
  /\ chosen' = [chosen EXCEPT ![j] = os]
  /\ stale' = [stale EXCEPT ![j] = FALSE]
  /\ overtaken' = overtaken \ {j}
  /\ UNCHANGED <<fridge, stores, engine, previous, bundle, last, edits, faults, reloads, unsure,
                 hurried>>

\* HonCommandButton.async_press, up to the executor.
Press(j) == ~fridge /\ Queue(j, pending, options)

\* HonRefProgramSelect.async_select_option, another option than off.
Pick(j, n) == fridge /\ Queue(j, n, <<>>)

Turn(j) == phase[j] = "queued" /\ \A i \in Presses : phase[i] # "sending"

\* The category the command is of, once the program parameter has been set.
Target(j) == IF wanted[j] = NoName THEN active ELSE wanted[j]

\* apply_pending_options: an option the program does not have is skipped.
Overlay(p, os) ==
  LET set == Kept(os, {i \in DOMAIN os : os[i].key \in Exposed(p)})
  IN  Assign(p, state[p], [i \in DOMAIN set |-> Set(set[i].key, set[i].value)])

Values(c) == [k \in DOMAIN c |-> c[k].value]

\* The POST is on its way.
Posted(j, p, c) ==
  /\ phase' = [phase EXCEPT ![j] = "sending"]
  /\ bundle' = [bundle EXCEPT ![j] = [program |-> p, values |-> Values(c)]]

\* Mutant: what was looked up before the swap is what is sent.
Mutant_Run(j) ==
  LET p == Base(active)
      r == Overlay(p, chosen[j])
  IN  /\ ~fridge /\ Turn(j) /\ ~stale[j]
      /\ active' = Target(j)
      /\ state' = [state EXCEPT ![p] = r.state]
      /\ IF r.ok THEN Posted(j, p, r.state)
                 ELSE phase' = [phase EXCEPT ![j] = "failed"] /\ UNCHANGED bundle
      /\ UNCHANGED <<fridge, stores, wanted, chosen, previous, stale, last, budgets, history>>

\* The button's _inner, up to the POST: swap, look up again, overlay the options.  A
\* value that is refused raises, and leaves the swap and the assignments made so far.
Run(j) ==
  LET p == Base(Target(j))
      r == Overlay(p, chosen[j])
  IN  /\ ~fridge /\ Turn(j) /\ ~stale[j]
      /\ active' = Target(j)
      /\ state' = [state EXCEPT ![p] = r.state]
      /\ IF r.ok THEN Posted(j, p, r.state)
                 ELSE phase' = [phase EXCEPT ![j] = "failed"] /\ UNCHANGED bundle
      /\ UNCHANGED <<fridge, stores, wanted, chosen, previous, stale, last, budgets, history>>

\* async_send_program's _inner, up to the POST: remember the command and swap it.
SendProgram(j) ==
  LET p == Base(wanted[j])
  IN  /\ fridge /\ Turn(j) /\ ~stale[j]
      /\ previous' = [previous EXCEPT ![j] = active]
      /\ active' = wanted[j]
      /\ Posted(j, p, state[p])
      /\ UNCHANGED <<fridge, stores, state, wanted, chosen, stale, last, budgets, history>>

\* A command of an appliance whose session was closed meanwhile cannot be sent.
RunStale(j) ==
  /\ Turn(j) /\ stale[j]
  /\ phase' = [phase EXCEPT ![j] = "failed"]
  /\ UNCHANGED <<fridge, stores, engine, wanted, chosen, previous, stale, bundle, last, budgets, history>>

\* The cloud takes the command.
Accepted(j) ==
  /\ phase[j] = "sending"
  /\ phase' = [phase EXCEPT ![j] = "accepted"]
  /\ last' = bundle[j]
  /\ UNCHANGED <<fridge, stores, engine, wanted, chosen, previous, stale, bundle, budgets, history>>

\* Mutant: the command the swap replaced is not put back.
Mutant_Fails(j) ==
  /\ phase[j] = "sending" /\ Fault
  /\ phase' = [phase EXCEPT ![j] = "failed"]
  /\ \/ UNCHANGED <<last, unsure>>
     \/ last' = bundle[j] /\ unsure' = TRUE
  /\ UNCHANGED <<fridge, stores, engine, wanted, chosen, previous, stale, bundle, edits, presses, reloads, crossing>>

\* It raises, whether the cloud has taken it or not.  Only the fridge's puts the
\* command back; the parameters of the one it leaves never changed.
Fails(j) ==
  /\ phase[j] = "sending" /\ Fault
  /\ phase' = [phase EXCEPT ![j] = "failed"]
  /\ \/ UNCHANGED <<last, unsure>>
     \/ last' = bundle[j] /\ unsure' = TRUE
  /\ active' = IF fridge THEN previous[j] ELSE active
  /\ UNCHANGED <<fridge, stores, state, wanted, chosen, previous, stale, bundle, edits, presses, reloads, crossing>>

\* The 60 s cap: CancelledError is no Exception, nothing is put back.
TimesOut(j) ==
  /\ phase[j] = "sending" /\ Fault
  /\ phase' = [phase EXCEPT ![j] = "failed"]
  /\ UNCHANGED last \/ last' = bundle[j]
  /\ unsure' = TRUE
  /\ UNCHANGED <<fridge, stores, engine, wanted, chosen, previous, stale, bundle, edits, presses, reloads, crossing>>

\* What the press has sent has the option, with this value.
Holds(sent, o) == \E i \in DOMAIN sent : sent[i].key = o.key /\ sent[i].value = o.value

\* The options that are not, or no longer, what the press has sent.
Left(os, sent) == Kept(os, {i \in DOMAIN os : ~Holds(sent, os[i])})

\* The locals of the press are gone.
Forgotten(j) ==
  /\ wanted' = [wanted EXCEPT ![j] = NoName] /\ chosen' = [chosen EXCEPT ![j] = <<>>]
  /\ previous' = [previous EXCEPT ![j] = FirstProgram]
  /\ bundle' = [bundle EXCEPT ![j] = NoEntry]

\* Back on Home Assistant's loop.  After a success the program is dropped whatever it
\* is by now, and the options that are still the ones sent; after a failure nothing.
Returns(j) ==
  /\ phase[j] \in {"accepted", "failed"}
  /\ phase' = [phase EXCEPT ![j] = "idle"]
  /\ IF phase[j] = "accepted" /\ ~fridge
       THEN /\ pending' = IF wanted[j] # NoName THEN NoName ELSE pending
            /\ options' = Left(options, chosen[j])
       ELSE UNCHANGED stores
  /\ Forgotten(j)
  /\ UNCHANGED <<fridge, engine, stale, last, budgets, history>>

-----------------------------------------------------------------------------

\* The commands are loaded again: on the same appliance, as a poll falls back to, or
\* on a new one after a re-login.  Either holds the lock.
Reload(closed) ==
  /\ \A j \in Presses : phase[j] # "sending"
  /\ reloads < MaxReloads /\ reloads' = reloads + 1
  /\ active' = FirstProgram
  /\ state' = Recovered(IF last = NoEntry THEN <<>> ELSE last.values)
  /\ stale' = [j \in Presses |-> stale[j] \/ (closed /\ phase[j] = "queued")]
  /\ UNCHANGED <<fridge, stores, phase, wanted, chosen, previous, bundle, last, edits, presses,
                 faults, history>>

Next ==
  \/ \E n \in Names : Choose(n)
  \/ \E k \in Options : \E v \in Offered(k) : Buffer(k, v)
  \/ \E j \in Presses :
       \/ \E n \in Names : Pick(j, n)
       \/ Press(j) \/ Run(j) \/ SendProgram(j)
       \/ RunStale(j) \/ Accepted(j) \/ Fails(j) \/ TimesOut(j) \/ Returns(j)
  \/ \E closed \in BOOLEAN : Reload(closed)

Spec == Init /\ [][Next]_vars

-----------------------------------------------------------------------------
(* Properties.                                                             *)

Posts(j) == phase[j] = "queued" /\ phase'[j] = "sending"
RuledOn(p, k) == \E i \in DOMAIN Rules[p] : Rules[p][i].target = k

\* A start sends the program chosen and, of the options chosen, those the program has,
\* unless a rule of the program has the last word on them.
StartCarriesTheChoice ==
  [][\A j \in Presses : Posts(j) =>
       LET b == bundle'[j]
       IN  /\ b.program = Base(Target(j))
           /\ \A i \in DOMAIN chosen[j] :
                LET o == chosen[j][i]
                IN  o.key \in DOMAIN b.values /\ ~RuledOn(b.program, o.key)
                      => b.values[o.key] = o.value]_vars

\* A press that has a program to start sends only options that were chosen for it; one
\* that has none repeats the active program, with options chosen for that one or for none.
\* (The second half says nothing of a reload, which makes the first program the active
\* one, nor once a program was chosen during a press: its options may outlive it, which
\* is the race of README section 5.)
OptionsStayWithTheirProgram ==
  [][\A j \in Presses : Posts(j) =>
       \A i \in DOMAIN chosen[j] :
         LET for == chosen[j][i].chosenFor
         IN  /\ wanted[j] # NoName => for = wanted[j]
             /\ reloads = 0 /\ ~hurried => for \in {NoName, active'}]_vars

\* A press returns after its command was accepted.
Succeeds(j) == phase[j] = "accepted" /\ phase'[j] = "idle"
Sends(b, o) ==
  o.key \in DOMAIN b.values /\ ~RuledOn(b.program, o.key) => b.values[o.key] = o.value

\* A choice is dropped only for another one, or by a press that has sent it and was
\* accepted: a start that fails, or that runs while the user changes an option, loses
\* nothing.  Only a program chosen during a press may be dropped by that press.
NoChoiceIsDropped ==
  [][/\ pending # NoName /\ pending' = NoName =>
          \E j \in Presses :
            Succeeds(j) /\ (bundle[j].program = Base(pending) \/ j \in overtaken)
     /\ pending' \in {pending, NoName} =>
          \A i \in DOMAIN options :
            \/ \E h \in DOMAIN options' : options'[h].key = options[i].key
            \/ \E j \in Presses : Succeeds(j) /\ Sends(bundle[j], options[i])]_vars

\* A choice of the user ends up in a command that was accepted.
ChoiceIsHonoured == StartCarriesTheChoice /\ NoChoiceIsDropped

\* A command never contradicts the rules of its program: where the conditions of one
\* hold, an enum has the value it fixes.
RulesAreObeyed ==
  \A j \in Presses : phase[j] = "sending" =>
    LET b == bundle[j]
    IN  \A i \in DOMAIN Rules[b.program] :
          LET r == Rules[b.program][i]
          IN  /\ r.by = "fixed" /\ r.target \in DOMAIN b.values
              /\ Schema[b.program][r.target].kind = "enum"
              /\ \A k \in DOMAIN r.when : k \in DOMAIN b.values /\ b.values[k] = r.when[k]
              => b.values[r.target] = r.to

\* As long as every answer arrives, a fridge's active program is the one the cloud has
\* taken last: a refused one leaves no trace.
FridgeFollowsTheCloud ==
  fridge /\ ~unsure /\ reloads = 0 /\ (\A j \in Presses : phase[j] # "sending")
    => Base(active) = IF last = NoEntry THEN FirstProgram ELSE last.program
===============================================================================
