-------------------------------- MODULE Judgement --------------------------------
(***********************************************************************************)
(* What a unit makes of an action it might take: sim/ai/scoring.py over            *)
(* situation.py, threat.py and positioning.py, read off the field as observe.py    *)
(* sees it.  The field is one lane; scores, factors and what threatens are         *)
(* thousandths, and divisions round down.                                          *)
(***********************************************************************************)
EXTENDS Temper

CONSTANTS
  SideOf, TroopOf,   \* per unit
  Ability,           \* ability -> [self, range, dash, radius]
  TicksPerSecond,
  Minded,            \* the units with behaviour attached
  Post,              \* per unit: the station its order gives it
  None

ASSUME RateAssumption == TicksPerSecond \in Nat \ {0}

VARIABLES
  place, hp,         \* per unit
  energised,         \* per unit: has it the energy its ability costs
  mind,              \* per unit: UnitAi, [kind, target, goal, chase, recovery]
  assigned           \* per troop: its TroopCoordination

Gap(p, q) == IF p < q THEN q - p ELSE p - q
Towards(p, q, d) == IF d >= Gap(p, q) THEN q ELSE IF p < q THEN p + d ELSE p - d
\* The point at a distance from p on the line to q, or beyond q.
PointAlong(p, q, d) == IF p = q THEN p ELSE IF p < q THEN p + d ELSE p - d
Distance(u, v) == Gap(place[u], place[v])

Living == {u \in Unit : hp[u] > 0}
Enemies(u) == {v \in Living : SideOf[v] # SideOf[u]}
Allies(u) == {v \in Living : SideOf[v] = SideOf[u] /\ v # u}
TroopAllies(u) == {v \in Allies(u) : TroopOf[v] = TroopOf[u]}
AssignmentsOf(u) == {a \in assigned[TroopOf[u]] : a.unit = u}

CanMove(u) == Card[u].speed > 0
CanAttack(u) == Card[u].damage > 0
Reach(u) == Card[u].reach
UsefulRange(u) == (Reach(u) * 9) \div 10
Stride(u) == Card[u].speed \div TicksPerSecond
Health(u) == Greater(hp[u], 1)

------------------------------------------------------------------------------------
(* threat.py: who could hurt a unit that goes from p to q, and how much of it.      *)

Within(gap, v) == gap <= Reach(v)
Imminence(gap, v, closing) ==
  LET slack == gap - Reach(v)
      approach == Card[v].speed + closing
  IN  IF slack <= 0 THEN 1000 ELSE IF approach <= 0 THEN 0 ELSE (2000 * approach) \div (2 * approach + slack)
Exposed(gap, v, closing) ==
  IF ~Within(gap, v) THEN Imminence(gap, v, closing) \div 2
  ELSE IF Reach(v) = 0 THEN 1000 ELSE 1000 - (500 * gap) \div Reach(v)
Incoming(v, p, q) ==
  LET before == Gap(p, place[v])
      after == Gap(q, place[v])
      weight == Exposed(after, v, (before - after) * TicksPerSecond)
  IN  Card[v].damage * (IF Within(before, v) THEN Greater(weight, Exposed(before, v, 0)) ELSE weight)
Pressure(u, p, q) == MapThenSumSet(LAMBDA v : Incoming(v, p, q), Enemies(u)) \div Health(u)
Pressing(u) == {v \in Enemies(u) : Incoming(v, place[u], place[u]) > 0}

------------------------------------------------------------------------------------
(* An action is [kind, target, goal]; what the factors say of it.                   *)

Moving == {"advance", "withdraw", "retreat"}
Hunted(c) == c.target # Nobody
AbilityOf(u) == Ability[Card[u].ability]
DashOf(u) == IF Card[u].ability = None THEN None ELSE AbilityOf(u).dash
DashLength(u, v) == Lesser(DashOf(u).far, Distance(u, v) - DashOf(u).short)

After(u, c) ==
  CASE c.kind \in Moving ->
         Towards(place[u], c.goal, IF c.kind = "withdraw" THEN Stride(u) \div 2 ELSE Stride(u))
    [] c.kind = "cast" /\ Hunted(c) /\ DashOf(u) # None /\ DashLength(u, c.target) > 0 ->
         Towards(place[u], place[c.target], DashLength(u, c.target))
    [] OTHER -> place[u]

StationTolerance == 24
BeyondPost(gap) == IF gap <= 0 THEN 0 ELSE (1000 * gap * gap) \div (gap + StationTolerance)
ObjectiveProgress(u, c, p) ==
  IF c.kind \notin Moving \/ Stride(u) = 0 THEN 0
  ELSE (BeyondPost(Gap(place[u], Post[u])) - BeyondPost(Gap(p, Post[u]))) \div Stride(u)

Scale(n, factor) == (n * factor) \div 1000
DashValue(u, v) ==
  LET total == Reach(u) + Reach(v)
      denial == IF total = 0 THEN 0 ELSE (2000 * Reach(v)) \div total - 1000
  IN  1000 + Scale(600, Clamp(denial, 0, 1000))
AbilityPremium == 1300
AbilityMultiplier(u, v) ==
  IF DashOf(u) = None THEN AbilityPremium
  ELSE IF Distance(u, v) <= Reach(u) \/ DashLength(u, v) <= 0 THEN 500
  ELSE DashValue(u, v)
AreaSuitability(u) ==
  LET radius == IF AbilityOf(u).radius = None THEN Reach(u) ELSE AbilityOf(u).radius
      covered == Cardinality({v \in Enemies(u) : Distance(u, v) <= radius})
  IN  Scale(Lesser(1000, 500 * covered), AbilityPremium)

Suitability(u, v) ==
  LET harm == Card[u].damage + Card[v].damage
  IN  500 + (IF Card[u].damage >= hp[v] THEN 300 ELSE 0)
          + (100 * (Card[v].life - hp[v])) \div Card[v].life
          + (IF harm > 0 THEN (100 * Card[v].damage) \div harm ELSE 0)
TargetSuitability(u, c) ==
  CASE c.kind = "cast" /\ ~Hunted(c) -> AreaSuitability(u)
    [] ~Hunted(c) \/ c.kind \in {"hold", "retreat"} -> 0
    [] c.kind = "cast" -> Scale(Suitability(u, c.target), AbilityMultiplier(u, c.target))
    [] c.kind \in {"attack", "withdraw"} -> Suitability(u, c.target)
    [] OTHER -> Suitability(u, c.target) \div 2

SupportRadius == 60
AllySupport(u, p) ==
  LET near == {v \in Allies(u) : Gap(p, place[v]) <= SupportRadius}
  IN  Lesser(1000, (1000 * (Cardinality(near) + Cardinality(near \cap TroopAllies(u)))) \div 3)

Raw(u, c, p, f) == Clamp(CASE f = "objective_progress" -> ObjectiveProgress(u, c, p)
                           [] f = "target_suitability" -> TargetSuitability(u, c)
                           [] f = "danger" -> -Pressure(u, place[u], p)
                           [] f = "ally_support" -> AllySupport(u, p), -1000, 1000)

------------------------------------------------------------------------------------
(* situation.py: when a personality's rule has something to say.                    *)

Threatens(v, u) == CanAttack(v) /\ Distance(v, u) <= Reach(v)
Centre(us) == MapThenSumSet(LAMBDA v : place[v], us) \div Cardinality(us)
Supported(u, p, influence) == \E v \in TroopAllies(u) : Gap(p, place[v]) <= influence
LeavesAllies(u, p, influence) ==
  /\ TroopAllies(u) # {}
  /\ LET away == Gap(p, Centre(TroopAllies(u)))
     IN  away > influence /\ away > Gap(place[u], Centre(TroopAllies(u)))
Holds(context, u, c, p, influence) ==
  CASE context = "committing" -> c.kind \in {"attack", "cast"}
    [] context = "closing" -> c.kind = "advance" /\ Hunted(c)
    [] context = "holding" -> c.kind = "hold"
    [] context = "ally-threatened" ->
         Hunted(c) /\ \E v \in TroopAllies(u) : Threatens(c.target, v) /\ Distance(u, v) <= influence
    [] context = "assigned" -> Hunted(c) /\ \E a \in AssignmentsOf(u) : a.target = c.target
    [] context = "supported" -> Supported(u, p, influence)
    [] context = "isolated" -> ~Supported(u, p, influence)
    [] context = "leaves-allies" -> LeavesAllies(u, p, influence)
    [] context = "vulnerable-target" ->
         Hunted(c) /\ (Card[u].damage >= hp[c.target] \/ 2 * hp[c.target] <= Card[c.target].life)

Speaks(rule, u, c, p) == /\ rule.actions = {} \/ c.kind \in rule.actions
                         /\ Holds(rule.when, u, c, p, rule.influence)
                         /\ \A context \in rule.unless : ~Holds(context, u, c, p, rule.influence)
ContextualWeights(u, c, p) ==
  LET speaking == {r \in Behavior[u].rules : Speaks(r.rule, u, c, p)}
  IN  [f \in Factor |-> ClampWeight(Behavior[u].weights[f]
         + MapThenSumSet(LAMBDA r : Scaled(Of(r.rule.weights, f), r.strength), speaking))]

\* The weighted mean of the factors.
Score(u, c) ==
  LET p == After(u, c)
      weights == ContextualWeights(u, c, p)
      total == MapThenSumSet(LAMBDA f : weights[f], Factor)
  IN  IF total = 0 THEN 0
      ELSE MapThenSumSet(LAMBDA f : weights[f] * Raw(u, c, p, f), Factor) \div total
====================================================================================
