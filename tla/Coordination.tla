-------------------------------- MODULE Coordination --------------------------------
(***********************************************************************************)
(* Who in a troop is asked to answer which threat: sim/ai/coordination.py.         *)
(***********************************************************************************)
EXTENDS Judgement, Folds

CONSTANT Leader   \* troop -> a mage of it, whose habits are the troop's

\* compose_profile: the baseline and the shifts of every tag, within bounds.
Shift(t, field) ==
  MapThenSumSet(LAMBDA tag : Scaled(Personality[tag].coordination[field], Strength(Leader[t], tag)), Tags(Leader[t]))
Guard(t) == Clamp(40 + Shift(t, "guard"), 0, MaxInfluence)
Rope(t) == Clamp(70 + Shift(t, "leash"), 0, MaxInfluence)
Window(t) == (Clamp(15 + Shift(t, "tenths"), 0, 60) * TicksPerSecond + 5) \div 10
Defenders(t) == Clamp(100 + Shift(t, "defenders"), 0, 300) \div 100

Members(t) == {u \in Living : TroopOf[u] = t}
Led(t) == Leaders[Leader[t]] \cap Living \cap Minded # {}
\* At most half of the living members, rounded down.
Budget(t) == Lesser(Defenders(t), Cardinality(Members(t)) \div 2)

UnderThreat(t, v, u) == CanAttack(v) /\ Distance(v, u) <= Reach(v) + Guard(t)

\* Mages first, then the more hurt.
NeedierThan(u, v) ==
  LET hurt == hp[u] * Card[v].life
      other == hp[v] * Card[u].life
  IN  IF Card[u].mage # Card[v].mage THEN Card[u].mage
      ELSE hurt < other \/ (hurt = other /\ u < v)
Neediest(us) == {u \in us : \A v \in us \ {u} : NeedierThan(u, v)}

\* An enemy that threatens somebody, and the neediest it threatens.
Needs(t) == {need \in [target : UNION {Enemies(u) : u \in Members(t)}, protecting : Members(t)] :
               need.protecting \in Neediest({u \in Members(t) : UnderThreat(t, need.target, u)})}
MoreUrgent(n, m) == IF n.protecting = m.protecting THEN n.target < m.target
                    ELSE NeedierThan(n.protecting, m.protecting)

CanReach(t, u, v) == Distance(u, v) <= Reach(u) + (IF CanMove(u) THEN Rope(t) ELSE 0)
EligibleFor(t, u, need) == /\ CanAttack(u) /\ u # need.protecting
                           /\ UnderThreat(t, need.target, need.protecting)
                           /\ CanReach(t, u, need.target)

\* slip: an assignment outlives the need it answered
SlipStands(t, a) == a.age + 1 < Window(t) /\ a.unit \in Members(t)
\* Still needed, within its window, by a defender that still can.
Stands(t, a) ==
  LET need == [target |-> a.target, protecting |-> a.protecting]
  IN  need \in Needs(t) /\ a.age + 1 < Window(t) /\ a.unit \in Members(t) /\ EligibleFor(t, a.unit, need)
Kept(t) == LET standing == {a \in assigned[t] : Stands(t, a)}
           IN  {[a EXCEPT !.age = @ + 1] :
                  a \in {b \in standing : Cardinality({c \in standing : c.unit < b.unit}) < Budget(t)}}

Free(t, need, given) == {u \in Members(t) : EligibleFor(t, u, need) /\ \A a \in given : a.unit # u}
Closest(us, v) == {u \in us : \A w \in us \ {u} : Distance(u, v) < Distance(w, v) \/ (Distance(u, v) = Distance(w, v) /\ u < w)}
Answer(t, given, need) ==
  IF Cardinality(given) >= Budget(t) \/ \E a \in given : a.target = need.target THEN given
  ELSE given \cup {[unit |-> u, target |-> need.target, protecting |-> need.protecting, age |-> 0]
                     : u \in Closest(Free(t, need, given), need.target)}
\* coordinate: what still stands, then the rest of the needs in their order of urgency.
LeastUrgent(needs) == CHOOSE n \in needs : \A m \in needs \ {n} : MoreUrgent(m, n)
Coordinated(t) ==
  IF ~Led(t) THEN {}
  ELSE MapThenFoldSet(LAMBDA need, given : Answer(t, given, need), Kept(t), LAMBDA need : need, LeastUrgent, Needs(t))
====================================================================================
