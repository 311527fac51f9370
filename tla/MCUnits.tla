---------------------------------- MODULE MCUnits ----------------------------------
(* Constants of Units for TLC: an adept and its hound, against a hound that comes   *)
(* and goes in front of them and a sprite behind it, at half a second a tick and    *)
(* the content's numbers.  The ram is only in the catalog that ranks are read off.  *)
EXTENDS Units, Samples

CardOf(type, mage, life, damage, reach, speed, ability) ==
  [type |-> type, mage |-> mage, life |-> life, damage |-> damage, reach |-> reach, speed |-> speed,
   ability |-> ability]
Adept == CardOf("adept", TRUE, 55, 7, 90, 26, None)
Hound == CardOf("hound", FALSE, 70, 11, 16, 62, "pounce")
Ram == CardOf("ram", FALSE, 120, 16, 18, 38, None)
Sprite == CardOf("sprite", FALSE, 40, 9, 70, 44, None)
MCCatalog == {Adept, Hound, Ram, Sprite}
MCCard == <<Adept, Hound, Hound, Sprite>>
MCUnit == DOMAIN MCCard
MCMinded == {1, 2}
MCLeaders == [u \in MCUnit |-> IF u \in MCMinded THEN {1} ELSE {u}]
MCRefs == [m \in {1} |-> [protective |-> Standard, opportunistic |-> Standard]]
MCOverride == [u \in {2} |-> [adds |-> {"aggressive"}, removes |-> {"dutiful"}]]
MCSideOf == [u \in MCUnit |-> IF u \in MCMinded THEN "north" ELSE "south"]
MCTroopOf == [u \in MCUnit |-> IF u \in MCMinded THEN "n0" ELSE "s0"]
MCLeader == [n0 |-> 1]
MCAbility == [pounce |-> [self |-> FALSE, range |-> 70, dash |-> [far |-> 60, short |-> 12], radius |-> 18]]
MCPost == <<20, 40, 0, 0>>
MCStart == <<20, 40, 121, 170>>
MCBasePlace == [north |-> 0, south |-> 300]
MCPushing == [u \in MCUnit |-> FALSE]
MCHaunt == <<0, 0, <<90, 214>>, <<170, 170>>>>
MCWounds == <<{0}, {}, {8}, {}>>
====================================================================================
