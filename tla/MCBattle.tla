--------------------------------- MODULE MCBattle ---------------------------------
(* Constants of Battle for TLC: a mage with a wall and a hound against a pushing  *)
(* mage with a hound, on a lane short enough that they meet on the second tick.   *)
EXTENDS Battle, Schools

MCCard(damage, reach, speed, rest, ability, blocks) ==
  [damage |-> damage, reach |-> reach, speed |-> speed, cooldown |-> rest, ability |-> ability,
   emplaced |-> blocks > 0, blocks |-> blocks]
FullKit == [adept |-> MCCard(1, 6, 2, 2, "nova", 0), sage |-> MCCard(1, 6, 2, 2, "nova", 0), wall |-> MCCard(0, 0, 0, 1, "seep", 2),
            hound |-> MCCard(1, 2, 3, 1, "pounce", 0), ram |-> MCCard(2, 2, 3, 1, "kindle", 0)]
MCType == DOMAIN FullKit
MCBare == [t \in MCType |-> Unequipped(FullKit[t])]
MCKit == {FullKit[t] : t \in MCType} \cup {MCBare[t] : t \in MCType}
MCCatalog == [adept |-> [kind |-> "mage", life |-> 3, support |-> 2],
              sage |-> [kind |-> "mage", life |-> 3, support |-> 2],
              wall |-> [kind |-> "summon", life |-> 2, support |-> 0],
              hound |-> [kind |-> "summon", life |-> 1, support |-> 0],
              ram |-> [kind |-> "summon", life |-> 2, support |-> 0]]
Member(t, n, type, station) ==
  [troop |-> t, ordinal |-> n, kind |-> MCCatalog[type].kind, type |-> type, station |-> station,
   kit |-> FullKit[type]]
MCOpening == <<Member("n0", 0, "adept", 2), Member("n0", 1, "wall", 6), Member("n0", 2, "hound", 5),
               Member("s0", 0, "sage", 14), Member("s0", 1, "ram", 12), Member("s0", 2, "hound", 11)>>
MCTroop == {"n0", "s0"}
MCSideOf == [n0 |-> "north", s0 |-> "south"]
\* What the one mage of each side is worth to the schools of its fellows.
MCSchool == {"fire", "artifice", "necromancy", "neutral"}
Step_(gain, pace) == [gain |-> gain, pace |-> pace]
MCCurve == <<Step_(100, 100), Step_(75, 135), Step_(85, 120), Step_(100, 100), Step_(115, 90)>>
MCEnergyRule ==
  LET trickle == [elapsed |-> 1, dealt |-> 0, taken |-> 0, lost |-> 0]
  IN  [fire |-> [trickle EXCEPT !.dealt = 1], artifice |-> [trickle EXCEPT !.elapsed = 2],
       necromancy |-> [trickle EXCEPT !.lost = 2], neutral |-> trickle]
SchoolsOf == [adept |-> {"fire", "necromancy"}, sage |-> {"fire"}, wall |-> {"artifice"},
              hound |-> {"fire", "artifice"}, ram |-> {"neutral"}]
Table(s) == SideMultipliers(<<SchoolsOf[IF s = "north" THEN "adept" ELSE "sage"]>>)
Tenths == [t \in MCType |-> CASE t = "adept" -> 8 [] t = "sage" -> 15 [] OTHER -> 0]
MCPace == [t \in MCTroop |-> [ty \in MCType |-> ResummonPace(Tenths[ty], SchoolsOf[ty], Table(MCSideOf[t]))]]
MCEnergyRate == [t \in MCType |-> RuleFor(SchoolsOf[t])]
MCEnergyMultiplier == [s \in Side |-> [t \in MCType |-> MultiplierFor(SchoolsOf[t], Table(s))]]
MCTroopRank == [n0 |-> 0, s0 |-> 1]
MCBasePlace == [north |-> 0, south |-> 16]
MCHotspot == [W |-> <<6, 10>>]
MCPushing == [n0 |-> FALSE, s0 |-> TRUE]
Blast(r, a, m, b) == [kind |-> "damage", radius |-> r, amount |-> a, vsMage |-> m, vsBase |-> b]
MCAbility ==
  [nova |-> [cost |-> 200, origin |-> "target",
             effects |-> <<Blast(1, 1, 2, 1),
                           [kind |-> "burn", radius |-> 1, rate |-> 1, ticks |-> 2, vsMage |-> 1, spread |-> 1]>>],
   pounce |-> [cost |-> 200, origin |-> "target",
               effects |-> <<[kind |-> "dash", far |-> 6, short |-> 1],
                             [kind |-> "knockback", radius |-> 2, distance |-> 3]>>],
   kindle |-> [cost |-> 200, origin |-> "self",
               effects |-> <<[kind |-> "refill", radius |-> 4, amount |-> 200]>>],
   seep |-> [cost |-> 300, origin |-> "self",
             effects |-> <<[kind |-> "ground", radius |-> 2, rate |-> 1, ticks |-> 2, vsMage |-> 2]>>]]
MCSpells == <<<<Blast(3, 2, 1, 2), [kind |-> "ground", radius |-> 2, rate |-> 1, ticks |-> 1, vsMage |-> 1]>>>>
MCMoods ==
  LET Mind(a, h) == [adept |-> a, sage |-> a, wall |-> "cast", hound |-> h, ram |-> "attack"]
  IN  {Mind("cast", "advance"), Mind("withdraw", "cast"), Mind("cast", "cast"),
       [Mind("retreat", "attack") EXCEPT !["wall"] = "hold", !["ram"] = "cast"]}
====================================================================================
