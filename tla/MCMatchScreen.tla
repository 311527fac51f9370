--------------------------- MODULE MCMatchScreen ---------------------------
(* Constants of MatchScreen for TLC: a slice of the starter mirror in which one *)
(* of the summons runs out and a spell is stranded when its mage leaves.  It     *)
(* opens as the mirror does, each mage leading one troop, or as the server's     *)
(* fixtures do, one mage leading them all under the server's own orders.         *)
EXTENDS MatchScreen

Fire == {"fire"}
CardOf(kind, schools) == [kind |-> kind, schools |-> schools]
MCContent ==
  [mages |-> {"emberwright", "ashenWarden", "kindler"}, mageCap |-> 2, lanes |-> <<"W", "E">>,
   capacity |-> [emberwright |-> 2, ashenWarden |-> 2, kindler |-> 2],
   tags |-> [emberwright |-> {"Evocation"}, ashenWarden |-> {"Guardian"}, kindler |-> {"Summoner"}],
   entourage |-> [emberwright |-> <<"emberHound", "emberHound">>, ashenWarden |-> <<"cinderBulwark">>,
                  kindler |-> <<"emberHound", "emberHound">>],
   summons |-> {"emberHound", "cinderBulwark"},
   cost |-> [emberHound |-> 1, cinderBulwark |-> 2],
   owned |-> [emberHound |-> 3, cinderBulwark |-> 1],
   schools |-> [x \in {"emberwright", "ashenWarden", "kindler", "emberHound", "cinderBulwark"} |-> Fire],
   spells |-> {"fireball", "cinderVeil", "scorch"},
   needs |-> [fireball |-> [kind |-> "signature", mage |-> "emberwright"],
              cinderVeil |-> [kind |-> "tag", tag |-> "Guardian"],
              scorch |-> [kind |-> "always"]],
   catalog |-> [x \in {"emberwright", "ashenWarden", "kindler", "emberHound", "cinderBulwark"} |->
                  CardOf(IF x \in {"emberHound", "cinderBulwark"} THEN "summon" ELSE "mage", Fire)]]
MCMirrorOpening ==
  [troops |-> <<[mage |-> "emberwright", summons |-> <<"emberHound", "emberHound">>, order |-> Hold("W")],
                [mage |-> "ashenWarden", summons |-> <<"cinderBulwark">>, order |-> DefendBase]>>,
   slots |-> <<"fireball", "cinderVeil">>]
MCServerOpening ==
  [troops |-> <<[mage |-> "emberwright", summons |-> <<"emberHound">>, order |-> HoldZone("W")],
                [mage |-> "emberwright", summons |-> <<"emberHound">>, order |-> PushEnemyBase]>>,
   slots |-> <<"fireball", NoSpell>>]
MCOpeningPlans == {MCMirrorOpening, MCServerOpening}
MCSpellCost == [fireball |-> 2, cinderVeil |-> 1, scorch |-> 1]
MCScenarios == {[claimFails |-> "no", dropAt |-> 0], [claimFails |-> "no", dropAt |-> 2],
                [claimFails |-> "forNow", dropAt |-> 0], [claimFails |-> "forGood", dropAt |-> 0]}
=============================================================================
