---------------------------------- MODULE Samples ----------------------------------
(***********************************************************************************)
(* The behaviour the opening content ships with: sim/ai/fixtures.py.               *)
(***********************************************************************************)
EXTENDS Integers, Sequences

Weighs(objective, target, danger, support) ==
  [objective_progress |-> objective, target_suitability |-> target, danger |-> danger, ally_support |-> support]
Shifts(objective, target, danger, support) ==
  LET all == Weighs(objective, target, danger, support)
  IN  [f \in {g \in DOMAIN all : all[g] # 0} |-> all[f]]
TraitOf(weights, requires) == [weights |-> weights, requires |-> requires]
SampleTraits ==
  [aggressive |-> TraitOf(Shifts(0, 100, -50, 0), {"attack"}),
   wary |-> TraitOf(Shifts(0, -25, 100, 0), {}),
   dutiful |-> TraitOf(Shifts(125, -50, 0, 0), {}),
   packMinded |-> TraitOf(Shifts(0, 0, 0, 125), {}),
   skirmisher |-> TraitOf(Shifts(0, 0, 75, 50), {"ranged_attack", "move"})]

GuardInfluence == 90
Rule(when, weights, influence) ==
  [when |-> when, weights |-> weights, influence |-> influence, actions |-> {}, unless |-> {}]
Habit(guard, leash, tenths, defenders) ==
  [guard |-> guard, leash |-> leash, tenths |-> tenths, defenders |-> defenders]
Tag(rules, coordination) ==
  [strength |-> 100, weights |-> <<>>, rules |-> rules, coordination |-> coordination, requires |-> {}]
SamplePersonalities ==
  [reckless |-> Tag(<<Rule("committing", Shifts(0, 50, -100, 0), 60),
                      Rule("closing", Shifts(0, 0, -60, 0), 60)>>, Habit(0, 30, -5, 0)),
   protective |-> Tag(<<Rule("ally-threatened", Shifts(0, 100, -50, 0), GuardInfluence),
                        Rule("assigned", Shifts(0, 75, 0, 0), 60),
                        Rule("leaves-allies", Shifts(0, 0, 0, 150), GuardInfluence)>>, Habit(40, 0, 5, 100)),
   opportunistic |-> Tag(<<Rule("vulnerable-target", Shifts(0, 125, -25, 0), 60),
                           Rule("isolated", Shifts(0, 0, 75, 0), 60)>>, Habit(-20, 0, -10, 0)),
   methodical |-> Tag(<<Rule("supported", Shifts(50, 50, 0, 0), 60),
                        Rule("isolated", Shifts(0, 0, 50, 125), 60),
                        Rule("leaves-allies", Shifts(0, 0, 0, 100), 60)>>, Habit(10, 0, 20, 0))]

ProfileOf(weights, trait) == [weights |-> weights, traits |-> trait]
SampleProfiles ==
  [adept |-> ProfileOf(Weighs(100, 75, 150, 100), {"wary"}),
   hound |-> ProfileOf(Weighs(75, 150, 75, 100), {"aggressive", "packMinded"}),
   sprite |-> ProfileOf(Weighs(100, 100, 125, 75), {"skirmisher"}),
   ram |-> ProfileOf(Weighs(150, 100, 50, 50), {"dutiful"})]
====================================================================================
