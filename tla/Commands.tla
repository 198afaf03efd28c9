------------------------------- MODULE Commands -------------------------------
(***************************************************************************)
(* The engine's commands as pure operators: the parameters of              *)
(* client/engine/parameter, the rules of client/engine/rules.py that tie   *)
(* them together, and how client/engine/command_loader.py builds the       *)
(* programs (categories) of one command.                                   *)
(*                                                                         *)
(* A program is a function from the parameters it exposes to their state:  *)
(* the value and the values the setter accepts.  Assigning a parameter     *)
(* fires its rules, which assign others; an assignment that is refused     *)
(* raises through all of it and leaves what was done so far.               *)
(***************************************************************************)
EXTENDS Naturals, Sequences, FiniteSets, SequencesExt

CONSTANTS
  Programs,      \* the categories of the command
  FirstProgram,  \* the one the loader makes the command
  Keys,          \* the parameters, in the order of the dict (a sequence)
  Schema,        \* for each program, what it exposes: [kind, choice, default]
  Rules,         \* for each program, its rules, by order of their trigger
  Favourites,    \* saved by the user: [of, data], by name
  MaxCode        \* bound: values are codes up to this one

Codes    == 0 .. MaxCode
Options  == {Keys[i] : i \in DOMAIN Keys}
Names    == Programs \cup DOMAIN Favourites
Base(n)  == IF n \in Programs THEN n ELSE Favourites[n].of
Exposed(p) == DOMAIN Schema[p]

ASSUME ProgramsAssumption ==
  /\ MaxCode \in Nat
  /\ FirstProgram \in Programs /\ Programs \cap DOMAIN Favourites = {}
  /\ \A f \in DOMAIN Favourites : Favourites[f].of \in Programs
  /\ \A p \in Programs :
       /\ Exposed(p) \subseteq Options
       /\ \A k \in Exposed(p) : Schema[p][k].kind = "fixed" \/ Schema[p][k].default \in Schema[p][k].choice

\* Values of some of the parameters.
Settings == UNION {[ks -> Codes] : ks \in SUBSET Options}
Rule     == [by : {"fixed", "enum"}, first : Options, when : Settings, target : Options, to : Codes,
             allow : SUBSET Codes]

ASSUME SchemaAssumption ==
  /\ IsFiniteSet(Programs) /\ IsFiniteSet(DOMAIN Favourites) /\ Keys \in Seq(Options)
  /\ \A f \in DOMAIN Favourites : Favourites[f].data \in Settings
  /\ \A p \in Programs :
       /\ Rules[p] \in Seq(Rule)
       /\ \A k \in Exposed(p) :
            /\ Schema[p][k].kind \in {"fixed", "enum", "range"}
            /\ Schema[p][k].default \in Codes /\ Schema[p][k].choice \subseteq Codes

\* The elements of a sequence at these positions, in their order.
Kept(s, positions) ==
  LET kept[n \in 0 .. Len(s)] ==
        IF n = 0 THEN <<>>
        ELSE IF n \in positions THEN Append(kept[n - 1], s[n]) ELSE kept[n - 1]
  IN  kept[Len(s)]

-----------------------------------------------------------------------------
(* One assignment and what it sets off.                                    *)

\* What is still to do: assign value to key, by request ("set") or by a rule that
\* fixes it ("fixed") or restricts it to allow ("enum"), if the parameters in given
\* have these values by then.
Set(k, v) == [by |-> "set", key |-> k, value |-> v, allow |-> {}, given |-> <<>>]
Action(r, given) ==
  [by |-> r.by, key |-> r.target, value |-> r.to, allow |-> r.allow, given |-> given]

\* Mutant: only the first condition of a rule is its trigger.
Mutant_Triggered(p, k, v) ==
  LET due == Kept(Rules[p], {i \in DOMAIN Rules[p] : Rules[p][i].first = k /\ Rules[p][i].when[k] = v})
  IN  [i \in DOMAIN due |->
         Action(due[i], [j \in DOMAIN due[i].when \ {k} |-> due[i].when[j]])]

\* The rules that value v of k triggers.  Every condition of a rule is a trigger, with
\* the others as extras (_duplicate_for_extra_conditions).
Triggered(p, k, v) ==
  LET met(r) == k \in DOMAIN r.when /\ r.when[k] = v
      due    == Kept(Rules[p], {i \in DOMAIN Rules[p] : met(Rules[p][i])})
  IN  [i \in DOMAIN due |->
         Action(due[i], [j \in DOMAIN due[i].when \ {k} |-> due[i].when[j]])]

\* No chain of rules leads from an option back to it: the target of a rule is less deep
\* than each of its conditions.
RulesAreAcyclic ==
  \A p \in Programs : \E depth \in [Options -> 0 .. Len(Keys)] :
    \A i \in DOMAIN Rules[p] : \A k \in DOMAIN Rules[p][i].when :
      depth[Rules[p][i].target] < depth[k]

\* The rules never want two things at once: where one fixes an enum, any other for the
\* same enum fixes the same value or has a condition that contradicts one of the first.
\* Besides, the loader notices each such rule, for not all its conditions are ranges, and
\* a rule that offers a choice proposes one of it.
FixesEnum(p, r) == r.by = "fixed" /\ r.target \in Exposed(p) /\ Schema[p][r.target].kind = "enum"
RulesAreConsistent ==
  \A p \in Programs : \A i \in DOMAIN Rules[p] :
    LET r == Rules[p][i]
    IN  /\ r.by = "enum" => r.to \in r.allow
        /\ FixesEnum(p, r) =>
             /\ \E k \in DOMAIN r.when : k \in Exposed(p) => Schema[p][k].kind # "range"
             /\ \A h \in DOMAIN Rules[p] :
                  LET s == Rules[p][h]
                  IN  s.target = r.target =>
                        \/ s.by = "fixed" /\ s.to = r.to
                        \/ \E k \in DOMAIN r.when \cap DOMAIN s.when : r.when[k] # s.when[k]

\* _extra_rules_matches; a target the program does not have is left alone, and only
\* an enum can be restricted.
Applies(p, c, a) ==
  /\ \A j \in DOMAIN a.given : j \in DOMAIN c /\ c[j].value = a.given[j]
  /\ a.key \in DOMAIN c
  /\ a.by = "enum" => Schema[p][a.key].kind = "enum"

Between(S) == {n \in Codes : \E lo, hi \in S : lo <= n /\ n <= hi}

\* The values the setter accepts once a rule has prepared the assignment: a fixed enum
\* keeps this value only, and nothing gives the others back; a range widens.  (The
\* code then assigns a fixed enum twice, with the same effect.)
Allowed(p, c, a) ==
  CASE a.by = "fixed" /\ Schema[p][a.key].kind = "enum"  -> {a.value}
    [] a.by = "fixed" /\ Schema[p][a.key].kind = "range" -> Between(c[a.key].allowed \cup {a.value})
    [] a.by = "enum" -> a.allow
    [] OTHER -> c[a.key].allowed

\* The setters: an enum and a range refuse what is not allowed, a fixed parameter
\* takes anything.
Accepts(p, k, allowed, v) == Schema[p][k].kind = "fixed" \/ v \in allowed

\* What the setter makes of an assignment: a value that is refused leaves the old one.
Taken(p, c, a) == Accepts(p, a.key, Allowed(p, c, a), a.value)
After(p, c, a) ==
  [c EXCEPT ![a.key] = [value   |-> IF Taken(p, c, a) THEN a.value ELSE c[a.key].value,
                        allowed |-> Allowed(p, c, a)]]

States == UNION {[ks -> [value : Codes, allowed : SUBSET Codes]] : ks \in SUBSET Options}
Todo   == [by : {"set", "fixed", "enum"}, key : Options, value : Codes, allow : SUBSET Codes, given : Settings]
Work   == [program : Programs, state : States, todo : Seq(Todo)]

\* The work once its first assignment is done: what that triggers comes before the
\* next one, depth first, as the callbacks of check_trigger do.
Onwards(w) ==
  LET p == w.program
      a == Head(w.todo)
  IN  IF Applies(p, w.state, a)
        THEN [program |-> p, state |-> After(p, w.state, a),
              todo |-> Triggered(p, a.key, a.value) \o Tail(w.todo)]
        ELSE [w EXCEPT !.todo = Tail(w.todo)]

Refused(w) ==
  LET a == Head(w.todo)
  IN  Applies(w.program, w.state, a) /\ ~Taken(w.program, w.state, a)

\* What a list of assignments leads to.
Outcome[w \in Work] ==
  IF w.todo = <<>> THEN [ok |-> TRUE, state |-> w.state]
  ELSE IF Refused(w) THEN [ok |-> FALSE, state |-> After(w.program, w.state, Head(w.todo))]
  ELSE Outcome[Onwards(w)]

Assign(p, c, todo) == Outcome[[program |-> p, state |-> c, todo |-> todo]]

\* with suppress(ValueError), for each parameter of the command that data names.
Restored(p, c, data) ==
  LET restored[n \in 0 .. Len(Keys)] ==
        IF n = 0 THEN c
        ELSE IF Keys[n] \in DOMAIN data
               THEN Assign(p, restored[n - 1], <<Set(Keys[n], data[Keys[n]])>>).state
               ELSE restored[n - 1]
  IN  restored[Len(Keys)]

-----------------------------------------------------------------------------
(* HonCommandLoader.                                                       *)

\* A HonCommand: the parameters at their defaults, then the rules whose conditions
\* these meet.  A range holds a number, which add_trigger never finds equal to the
\* string of a condition: a range alone sets nothing off here.
Loaded(p) ==
  LET initial == [k \in Exposed(p) |-> [value |-> Schema[p][k].default, allowed |-> Schema[p][k].choice]]
      met(r)  == \E k \in DOMAIN r.when \cap Exposed(p) : Schema[p][k].kind # "range"
      due     == Kept(Rules[p], {i \in DOMAIN Rules[p] : met(Rules[p][i])})
  IN  Assign(p, initial, [i \in DOMAIN due |-> Action(due[i], due[i].when)]).state

\* _add_favourites: the copy of the base command is shallow, so the favourite and its
\* program share their parameters, and the program takes the favourite's values.
Favoured(p) ==
  LET names == SetToSeq({f \in DOMAIN Favourites : Favourites[f].of = p})
      favoured[n \in 0 .. Len(names)] ==
        IF n = 0 THEN Loaded(p) ELSE Restored(p, favoured[n - 1], Favourites[names[n]].data)
  IN  favoured[Len(names)]
WithFavourites == [p \in Programs |-> Favoured(p)]

\* _recover_last_command_states: the category of the last command is set on the dict
\* of commands that is about to be replaced, so its values go to the first program.
Recovered(last) ==
  [WithFavourites EXCEPT ![FirstProgram] = Restored(FirstProgram, @, last)]
===============================================================================
