---------------------------------- MODULE Temper ----------------------------------
(***********************************************************************************)
(* What a unit prefers, settled once when it joins the battle: sim/ai/profiles.py  *)
(* over sim/ai/contour.py and factors.py, as attach.py composes them.  Weights,    *)
(* strengths and defender counts are hundredths, ranks are thousandths.  Units are *)
(* numbered in the order of their ids; 0 is nobody.  Tie-breaking jitter, which no  *)
(* profile of the program sets (decide.py:87), is left out.                        *)
(***********************************************************************************)
EXTENDS Integers, FiniteSets, FiniteSetsExt, Sequences

CONSTANTS
  Unit,         \* the units of the battle
  Card,         \* unit -> [type, mage, damage, reach, speed, life, ability]
  Catalog,      \* the cards there are
  Leaders,      \* unit -> the mages of its troop
  Trait,        \* tag -> [weights, requires]
  Personality,  \* tag -> [strength, weights, rules, coordination, requires]
  Profile,      \* type -> [weights, traits]
  Override,     \* unit -> [adds, removes]
  Refs          \* mage -> personality tag -> strength, or Standard for the tag's own

Standard == -1
Nobody == 0
Factor == {"objective_progress", "target_suitability", "danger", "ally_support"}
Kinds == <<"advance", "attack", "cast", "withdraw", "retreat", "hold">>
Context == {"committing", "closing", "holding", "ally-threatened", "assigned", "supported", "isolated",
            "leaves-allies", "vulnerable-target"}
MaxWeight == 400
MaxStrength == 200
MaxInfluence == 190

Lesser(a, b) == IF a < b THEN a ELSE b
Greater(a, b) == IF a < b THEN b ELSE a
Clamp(n, low, high) == Greater(low, Lesser(high, n))
ClampWeight(n) == Clamp(n, 0, MaxWeight)
Magnitude(n) == IF n < 0 THEN -n ELSE n
Of(weights, f) == IF f \in DOMAIN weights THEN weights[f] ELSE 0

\* capabilities.py supports: reach is under 32 units for melee.
Supports(card, capability) ==
  CASE capability = "move" -> card.speed > 0
    [] capability \in {"attack", "melee_attack"} -> card.damage > 0
    [] capability = "ranged_attack" -> card.damage > 0 /\ card.reach >= 32

EffectiveTraits(u) ==
  LET type == Card[u].type
      given == IF type \in DOMAIN Profile THEN Profile[type].traits ELSE {}
  IN  IF u \in DOMAIN Override THEN (given \cup Override[u].adds) \ Override[u].removes ELSE given

\* Every mage of the troop that holds a tag adds its strength, up to the ceiling.
Holders(u, tag) == {m \in Leaders[u] : m \in DOMAIN Refs /\ tag \in DOMAIN Refs[m]}
Tags(u) == {tag \in DOMAIN Personality : Holders(u, tag) # {}}
Given(m, tag) == IF Refs[m][tag] = Standard THEN Personality[tag].strength ELSE Refs[m][tag]
Strength(u, tag) == Lesser(MaxStrength, MapThenSumSet(LAMBDA m : Given(m, tag), Holders(u, tag)))
Scaled(n, strength) == (n * strength) \div 100

------------------------------------------------------------------------------------
(* What the library must say for a battle to begin: index_library and the          *)
(* capabilities resolve_behavior asserts.                                          *)

DeltasOK(weights) == \A f \in DOMAIN weights : f \in Factor /\ Magnitude(weights[f]) <= MaxWeight
StrengthOK(n) == n \in 0..MaxStrength
RuleOK(rule) ==
  /\ {rule.when} \cup rule.unless \subseteq Context
  /\ rule.when \notin rule.unless
  /\ \A kind \in rule.actions : \E n \in DOMAIN Kinds : Kinds[n] = kind
  /\ DOMAIN rule.weights # {} /\ DeltasOK(rule.weights)
  /\ rule.influence \in 1..MaxInfluence
CoordinationOK(c) == /\ Magnitude(c.guard) <= 120 /\ Magnitude(c.leash) <= 120
                     /\ Magnitude(c.tenths) <= 40 /\ Magnitude(c.defenders) <= 200
SaysNothing(p) == /\ DOMAIN p.weights = {} /\ p.rules = <<>>
                  /\ \A f \in DOMAIN p.coordination : p.coordination[f] = 0
LibraryOK ==
  /\ \A tag \in DOMAIN Trait : DeltasOK(Trait[tag].weights)
  /\ \A tag \in DOMAIN Personality :
       LET p == Personality[tag] IN
       /\ DeltasOK(p.weights) /\ StrengthOK(p.strength) /\ CoordinationOK(p.coordination)
       /\ \A n \in DOMAIN p.rules : RuleOK(p.rules[n])
       /\ ~SaysNothing(p)
  /\ \A type \in DOMAIN Profile :
       /\ \E card \in Catalog : card.type = type
       /\ \A f \in DOMAIN Profile[type].weights : f \in Factor /\ Profile[type].weights[f] \in 0..MaxWeight
       /\ Profile[type].traits \subseteq DOMAIN Trait
  /\ \A u \in DOMAIN Override : /\ u \in Unit
                                /\ Override[u].adds \cup Override[u].removes \subseteq DOMAIN Trait
                                /\ Override[u].adds \cap Override[u].removes = {}
  /\ \A m \in DOMAIN Refs : /\ m \in Unit /\ Card[m].mage
                            /\ DOMAIN Refs[m] \subseteq DOMAIN Personality
                            /\ \A tag \in DOMAIN Refs[m] : StrengthOK(Refs[m][tag]) \/ Refs[m][tag] = Standard
  /\ \A u \in Unit : /\ \A tag \in EffectiveTraits(u) : \A c \in Trait[tag].requires : Supports(Card[u], c)
                     /\ \A tag \in Tags(u) : \A c \in Personality[tag].requires : Supports(Card[u], c)
ASSUME LibraryAssumption == LibraryOK

------------------------------------------------------------------------------------
(* contour.py: what a card's own numbers make of it, ranked within the catalog.     *)

Rank(value, values) ==
  LET low == Min(values)
      high == Max(values)
  IN  IF high <= low THEN 500 ELSE Clamp(((value - low) * 1000) \div (high - low), 0, 1000)
Swing(rank) == (75 * rank) \div 1000
DerivedWeights(card) ==
  LET durability == Rank(card.life, {c.life : c \in Catalog})
      mobility == Rank(card.speed, {c.speed : c \in Catalog})
      reach == Rank(card.reach, {c.reach : c \in Catalog})
      force == Rank(card.damage, {c.damage : c \in Catalog})
      evasiveness == (Greater(0, mobility - durability) * (1000 - durability)) \div 1000
      solidity == Greater(0, durability - mobility)
  IN  [f \in Factor |-> ClampWeight(100 +
         CASE f = "objective_progress" -> Swing(mobility - 500)
           [] f = "target_suitability" -> Swing(2 * (force - 500))
           [] f = "danger" -> Swing(evasiveness + Greater(0, reach - 500)) - Swing(solidity)
           [] f = "ally_support" -> Swing(500 - durability))]

\* The profile's weight where it has one, else the derived one; then the traits' and the
\* personalities' shifts.
Base(u) == [f \in Factor |->
  LET type == Card[u].type
      own == type \in DOMAIN Profile /\ f \in DOMAIN Profile[type].weights
  IN  IF own THEN Profile[type].weights[f] ELSE DerivedWeights(Card[u])[f]]
Behavior == [u \in Unit |->
  [weights |-> [f \in Factor |-> ClampWeight(
      Base(u)[f] + MapThenSumSet(LAMBDA tag : Of(Trait[tag].weights, f), EffectiveTraits(u))
                 + MapThenSumSet(LAMBDA tag : Scaled(Of(Personality[tag].weights, f), Strength(u, tag)), Tags(u)))],
   rules |-> UNION {{[rule |-> Personality[tag].rules[n], strength |-> Strength(u, tag), tag |-> tag, place |-> n]
                       : n \in DOMAIN Personality[tag].rules} : tag \in Tags(u)}]]
====================================================================================
