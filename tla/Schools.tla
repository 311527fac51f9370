---------------------------------- MODULE Schools ----------------------------------
(***********************************************************************************)
(* What a side's deployed mages are worth to its schools, resolved once at battle  *)
(* start (sim/resonance.py, sim/schools.py, sim/energy.py).  Multipliers are       *)
(* percentages and durations are tenths of a second.                               *)
(***********************************************************************************)
EXTENDS Integers, Sequences, FiniteSets, FiniteSetsExt

CONSTANTS School, Meter,
          Curve,       \* per resonance: the percentages [gain, pace]; the last entry covers the rest
          EnergyRule,  \* school -> meter -> rate, 0 where the rule has no such source
          TickRate     \* ticks per second

ASSUME CurveAssumption == /\ Curve \in Seq([gain : Nat \ {0}, pace : Nat \ {0}])
                          /\ Curve # <<>>
ASSUME RateAssumption == TickRate \in Nat \ {0}

\* A dual-school mage counts for both of its schools.  mages: the schools of each
\* mage a side deployed, in world order.
CountResonance(mages) == [sc \in School |-> Cardinality({n \in DOMAIN mages : sc \in mages[n]})]

\* Past the end of the curve: its last step.
ResonanceStep(count) == Curve[Min({count, Len(Curve) - 1}) + 1]
SideMultipliers(mages) == [sc \in School |-> ResonanceStep(CountResonance(mages)[sc])]

\* Python's round(n / d): to the nearest, the even one of two as near.
Rounded(n, d) ==
  LET low == n \div d
      rest == 2 * (n % d)
  IN  IF rest < d \/ (rest = d /\ low % 2 = 0) THEN low ELSE low + 1
ToTicks(tenths, percent) == Max({1, Rounded(tenths * percent * TickRate, 1000)})

\* A mage rebuilds at the pace of the better of its schools; 0 tenths is no pace at all.
ResummonPace(tenths, schools, table) ==
  IF tenths = 0 THEN 0 ELSE ToTicks(tenths, Min({table[sc].pace : sc \in schools}))

\* A unit charges by the best rate per meter of its schools, and their best multiplier.
RuleFor(schools) == [m \in Meter |-> Max({EnergyRule[sc][m] : sc \in schools})]
MultiplierFor(schools, table) == Max({table[sc].gain : sc \in schools})
====================================================================================
