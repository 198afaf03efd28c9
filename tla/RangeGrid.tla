------------------------------ MODULE RangeGrid ------------------------------
(***************************************************************************)
(* HonParameterRange (parameter/range.py) and the number entities that     *)
(* write to it (number.py).  A range is [min, max] with a step; a value is *)
(* on its grid when it is min + i * step for some i, as near as floating   *)
(* point can tell.                                                         *)
(*                                                                         *)
(* Numbers are integers, in a unit small enough for rounding errors to     *)
(* show: every min + i * step that is computed may be up to Noise off,     *)
(* while what the schema and the user write are multiples of Resolution.   *)
(***************************************************************************)
EXTENDS Integers

CONSTANTS
  Schemas,      \* the ranges a schema may declare
  Numbers,      \* what is asked for: all kinds of numbers
  One,          \* the number 1, in units
  Resolution,   \* the last decimal anybody writes
  Noise,        \* the rounding error of a computed grid point
  Whole,        \* a quotient this near to a whole number passes for one: 1 / Whole off
  MaxValues     \* _MAX_RANGE_VALUES, the end of a list of values

Range == [min : Int, max : Int, step : Int]

Abs(x) == IF x < 0 THEN -x ELSE x
Larger(x, y)  == IF x < y THEN y ELSE x
Smaller(x, y) == IF x < y THEN x ELSE y

\* The step property: a step that is not declared is 1.
Step(r) == IF r.step = 0 THEN One ELSE r.step

\* _grid_eps: it grows with the numbers, up to a quarter of the step. (The 1e-9 of the
\* code is one unit for every One here.)
Magnitude(r) == Larger(Larger(One, Abs(r.min)), Larger(Abs(r.max), Abs(Step(r))))

Eps(r) == Smaller(Magnitude(r) \div One, Step(r) \div 4)

Multiple(x) == x % Resolution = 0
WellFormed(r) ==
  /\ Multiple(r.min) /\ Multiple(r.max) /\ Multiple(Step(r))
  /\ Step(r) > 0 =>
       Noise <= Eps(r) /\ Eps(r) + Noise < Resolution /\ 4 * Noise < Step(r)

\* What the user and the schema write down.
Written == {v \in Numbers : Multiple(v)}

ASSUME UnitsAssumption ==
  /\ One \in Nat \ {0} /\ Resolution \in Nat \ {0} /\ Whole \in Nat \ {0}
  /\ Noise \in Nat /\ MaxValues \in Nat
ASSUME SchemasAssumption == Schemas \subseteq {r \in Range : WellFormed(r)}
ASSUME NumbersAssumption == Numbers \subseteq Int

VARIABLES
  range,    \* min, max and step as they are now
  value,
  at,       \* "idle", or where _grid_count is: "down" | "up"
  n,        \* its counter
  listed    \* how many values it found, or NotListed

gridVars == <<range, value, at, n, listed>>

NotListed == -1

GridTypeOK ==
  /\ range \in Range
  /\ value \in Int
  /\ at \in {"idle", "down", "up"}
  /\ n \in Nat
  /\ listed \in -1 .. MaxValues

-----------------------------------------------------------------------------
Errors == -Noise .. Noise
Point(r, i) == r.min + i * Step(r)

\* The nearest index. (Halfway between two either will do: it is on neither.)
Nearest(r, v) ==
  LET i == (v - r.min) \div Step(r)
  IN  IF 2 * (v - Point(r, i)) <= Step(r) THEN i ELSE i + 1

\* Mutant: the code from before, which wants no remainder at all.
Mutant_OnGrid(r, v, e) ==
  /\ r.min <= v /\ v <= r.max
  /\ Step(r) > 0 => (v + e - r.min) % Step(r) = 0

\* _on_grid, where the grid point it computes is off by e. There is no grid to be on
\* when the step is negative.
OnGrid(r, v, e) ==
  /\ r.min <= v /\ v <= r.max
  /\ Step(r) > 0 => Abs(Point(r, Nearest(r, v)) + e - v) <= Eps(r)

\* What _set_attributes reads.
Reload ==
  /\ at = "idle"
  /\ range' \in Schemas
  /\ value' \in Written
  /\ listed' = NotListed
  /\ UNCHANGED <<at, n>>

\* The setter: anything off the grid raises, and nothing changes.
Set(v) ==
  /\ at = "idle"
  /\ \E e \in Errors : value' = IF OnGrid(range, v, e) THEN v ELSE value
  /\ UNCHANGED <<range, at, n, listed>>

\* A rule's fixed value (_apply_fixed): the range is stretched to hold it, and its grid
\* begins at the new min from then on. The setter may refuse it all the same.
Fix(v) ==
  LET wider == IF v < range.min THEN [range EXCEPT !.min = v]
               ELSE [range EXCEPT !.max = Larger(@, v)]
  IN  /\ at = "idle" /\ Multiple(v)
      /\ WellFormed(wider)
      /\ range' = wider /\ listed' = NotListed
      /\ \E e \in Errors : value' = IF OnGrid(wider, v, e) THEN v ELSE value
      /\ UNCHANGED <<at, n>>

\* HonProgramOptionNumber has its own look at the grid, once it has a range: the
\* quotient must be whole to 1e-6, a tolerance that grows with the step and not with the
\* numbers. (What it takes it keeps as it is, and ProgramStart sets it at Start.)
IsRange(r) == r.min <= r.max /\ Step(r) > 0
EntityTakes(r, v) ==
  /\ r.min <= v /\ v <= r.max
  /\ Abs(Point(r, Nearest(r, v)) - v) * Whole < Step(r)

-----------------------------------------------------------------------------
(* _grid_count: a quotient that may be one off, put right by two loops.    *)

Limit(r) == r.max + Eps(r)

StartCount ==
  /\ at = "idle" /\ listed = NotListed
  /\ IF Step(range) <= 0
       THEN listed' = Smaller(1, MaxValues) /\ UNCHANGED <<at, n>>
       ELSE /\ \E e \in {-1, 0, 1} :
                 n' = Larger(0, (Limit(range) - range.min) \div Step(range) + 1 + e)
            /\ at' = "down"
            /\ UNCHANGED listed
  /\ UNCHANGED <<range, value>>

\* Mutant: it counts down past zero, where a range is upside down.
Mutant_Down ==
  /\ at = "down"
  /\ \E e \in Errors :
       IF Point(range, n - 1) + e > Limit(range)
         THEN n' = n - 1 /\ UNCHANGED at
         ELSE at' = "up" /\ UNCHANGED n
  /\ UNCHANGED <<range, value, listed>>

Down ==
  /\ at = "down"
  /\ \E e \in Errors :
       IF n > 0 /\ Point(range, n - 1) + e > Limit(range)
         THEN n' = n - 1 /\ UNCHANGED at
         ELSE at' = "up" /\ UNCHANGED n
  /\ UNCHANGED <<range, value, listed>>

Up ==
  /\ at = "up"
  /\ \E e \in Errors :
       IF Point(range, n) + e <= Limit(range)
         THEN n' = n + 1 /\ UNCHANGED <<at, listed>>
         ELSE at' = "idle" /\ listed' = Smaller(n, MaxValues) /\ n' = 0
  /\ UNCHANGED <<range, value>>

-----------------------------------------------------------------------------
GridInit ==
  /\ range \in Schemas /\ value \in Written
  /\ at = "idle" /\ n = 0 /\ listed = NotListed

GridNext ==
  \/ Reload \/ StartCount \/ Down \/ Up
  \/ \E v \in Numbers : Set(v) \/ Fix(v)

GridSpec == GridInit /\ [][GridNext]_gridVars

-----------------------------------------------------------------------------
(* Properties.                                                             *)

\* The grid as the documentation of the class means it, without any rounding.
OnExactGrid(r, v) ==
  r.min <= v /\ v <= r.max /\ (Step(r) > 0 => (v - r.min) % Step(r) = 0)

\* Whatever rules have stretched the range to, the setter takes a number that anybody
\* writes if and only if it is on the grid; so does the option entity, unless the step is
\* so large that its tolerance reaches the last decimal written (numbers with more
\* decimals it may keep although the setter will refuse them at Start); anything else
\* the setter takes is a rounding error away from such a number, so no two of them are
\* confused; and the values it lists are exactly those it takes.
GridIsHonoured ==
  /\ \A v \in Numbers, e \in Errors :
       /\ Multiple(v) => (OnGrid(range, v, e) <=> OnExactGrid(range, v))
       /\ Multiple(v) /\ IsRange(range) /\ Step(range) <= Resolution * Whole =>
            (EntityTakes(range, v) <=> OnGrid(range, v, e))
       /\ OnGrid(range, v, e) /\ Step(range) > 0 =>
            2 * Abs(Point(range, Nearest(range, v)) - v) < Step(range)
  /\ listed \notin {NotListed, MaxValues} /\ Step(range) > 0 =>
       \A v \in Written :
         OnExactGrid(range, v) <=>
           v >= range.min /\ (v - range.min) % Step(range) = 0
             /\ (v - range.min) \div Step(range) < listed
=============================================================================
