---------------------------- MODULE MCProgramStart ----------------------------
(* A small instance of ProgramStart for TLC. *)
EXTENDS ProgramStart

CONSTANTS j1, j2   \* presses, as model values

\* Cotton has two rules: economy with a delayed start means the lower temperature, and
\* no economy gives the choice of temperature back.  Wool has one temperature and no
\* economy.
MCPrograms == {"cotton", "wool"}
MCKeys     == <<"delay", "eco", "temp">>
Choice(ks, d, c) == [kind |-> ks, default |-> d, choice |-> c]
MCSchema ==
  [cotton |-> [delay |-> Choice("range", 0, 0 .. 1), eco |-> Choice("enum", 0, {0, 1}),
               temp |-> Choice("enum", 3, {2, 3})],
   wool   |-> [delay |-> Choice("range", 0, 0 .. 2), temp |-> Choice("fixed", 2, {})]]
MCRules ==
  [cotton |-> << [by |-> "fixed", first |-> "delay", when |-> [delay |-> 1, eco |-> 1],
                  target |-> "temp", to |-> 2, allow |-> {}],
               [by |-> "enum", first |-> "eco", when |-> [eco |-> 0],
                  target |-> "temp", to |-> 3, allow |-> {2, 3}] >>,
   wool   |-> <<>>]
MCFavourites == [mine |-> [of |-> "wool", data |-> [delay |-> 1]]]

\* What the proofs suppose of the rules.
ASSUME MCAssumption == RulesAreAcyclic /\ RulesAreConsistent
===============================================================================
