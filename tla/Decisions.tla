--------------------------------- MODULE Decisions ---------------------------------
(***********************************************************************************)
(* What a unit may do and which of it it does: sim/ai/candidates.py, pursuit.py    *)
(* and decide.py.  An action is [kind, target, goal]; goal is 0 where the action   *)
(* has no destination.  A chase counts its age in decisions.                       *)
(***********************************************************************************)
EXTENDS Judgement

CONSTANTS
  BasePlace,  \* per side: where its base stands
  Pushing     \* per unit: is its order to push the enemy base

Leash == 96
TimeoutTicks == 3 * TicksPerSecond
PatienceTicks == TicksPerSecond
RecoveryTicks == 2 * TicksPerSecond
SwitchMargin == 20
MovementThreshold == 60
GiveGround == 64

Opposing(s) == IF s = "north" THEN "south" ELSE "north"
Action(kind, target, goal) == [kind |-> kind, target |-> target, goal |-> goal]
Hold(u) == Action("hold", Nobody, place[u])
InReach(u, v) == Distance(u, v) <= Reach(u)
ChaseOf(u) == mind[u].chase
Chasing(u, v) == ChaseOf(u) # None /\ ChaseOf(u).target = v

------------------------------------------------------------------------------------
(* Whom a unit may go after (pursuit.py, candidates.py _answerable).                *)

StandoffAt(u, v) == PointAlong(place[v], place[u], UsefulRange(u))
Anchor(u) == IF ChaseOf(u) = None THEN place[u] ELSE ChaseOf(u).origin
WorthChasing(u, v) == InReach(u, v) \/ (CanMove(u) /\ Gap(Anchor(u), StandoffAt(u, v)) <= Leash)
\* slip: a recovering unit may be drawn off again
SlipEligible(u) == {v \in Enemies(u) : WorthChasing(u, v)}
Eligible(u) == {v \in Enemies(u) : WorthChasing(u, v) /\ (mind[u].recovery > 0 => InReach(u, v))}

Nearest(u) == {v \in Enemies(u) : \A w \in Enemies(u) \ {v} :
                 Distance(u, v) < Distance(u, w) \/ (Distance(u, v) = Distance(u, w) /\ v < w)}
Answerable(u) ==
  Eligible(u) \cap ({a.target : a \in AssignmentsOf(u)} \cup {v \in Enemies(u) : Chasing(u, v)} \cup Nearest(u))

------------------------------------------------------------------------------------
(* The actions on offer (candidates.py).                                            *)

OffLimits(u, p) == ~Pushing[u] /\ p = BasePlace[Opposing(SideOf[u])]
GoTo(kind, target, u, p) == IF OffLimits(u, p) THEN {} ELSE {Action(kind, target, p)}

StationActions(u) == IF place[u] = Post[u] THEN {} ELSE GoTo("advance", Nobody, u, Post[u])

\* The line to stand on: between the threat and whom the unit is to protect, else its
\* nearest ally, else its post.
Protected(u, v) ==
  LET named == {a.protecting : a \in AssignmentsOf(u)} \cap Allies(u)
      near == {w \in Allies(u) : \A x \in Allies(u) \ {w} :
                 Distance(v, w) < Distance(v, x) \/ (Distance(v, w) = Distance(v, x) /\ w < x)}
  IN  IF named # {} THEN {place[w] : w \in named}
      ELSE IF near # {} THEN {place[w] : w \in near} ELSE {Post[u]}
ApproachActions(u) ==
  IF ~CanAttack(u) THEN {}
  ELSE UNION {GoTo("advance", v, u, StandoffAt(u, v))
                \cup UNION {GoTo("advance", v, u, PointAlong(place[v], p, UsefulRange(u)))
                              : p \in {q \in Protected(u, v) : PointAlong(place[v], q, UsefulRange(u)) # place[u]}}
              : v \in {w \in Answerable(u) : ~InReach(u, w)}}

ClosingIn(v, gap) == gap <= Reach(v) + Card[v].speed
WithdrawActions(u) ==
  IF ~CanAttack(u) THEN {}
  ELSE {Action("withdraw", v, StandoffAt(u, v)) :
          v \in {w \in Answerable(u) : /\ Reach(u) > Reach(w)
                                       /\ Distance(u, w) < UsefulRange(u)
                                       /\ ClosingIn(w, Distance(u, w))}}
RetreatActions(u) ==
  LET from == Centre(Pressing(u))
  IN  IF Pressure(u, place[u], place[u]) < 250 \/ Pressing(u) = {} THEN {}
      ELSE IF from = place[u] THEN {}
      ELSE GoTo("retreat", Nobody, u, PointAlong(from, place[u], Gap(from, place[u]) + GiveGround))

CastActions(u) ==
  IF Card[u].ability = None \/ ~energised[u] THEN {}
  ELSE IF AbilityOf(u).self THEN {Action("cast", Nobody, 0)}
  ELSE {Action("cast", v, 0) : v \in {w \in Enemies(u) : Distance(u, w) <= AbilityOf(u).range}}

Candidates(u) ==
  {Hold(u)} \cup CastActions(u)
    \cup (IF CanMove(u) THEN StationActions(u) \cup ApproachActions(u) \cup WithdrawActions(u) \cup RetreatActions(u)
          ELSE {})
    \cup (IF CanAttack(u) THEN {Action("attack", v, 0) : v \in {w \in Enemies(u) : InReach(u, w)}} ELSE {})

------------------------------------------------------------------------------------
(* One of them (decide.py).  Ties go to the first in the order of candidates.py.    *)
(* Each step gives the set of what it may choose, which has one member.             *)

Rung(c) == CHOOSE n \in DOMAIN Kinds : Kinds[n] = c.kind
Precedes(c, d) == \/ Rung(c) < Rung(d)
                  \/ Rung(c) = Rung(d) /\ c.target < d.target
                  \/ Rung(c) = Rung(d) /\ c.target = d.target /\ c.goal <= d.goal
First(cs) == {c \in cs : \A d \in cs : Precedes(c, d)}

\* The candidates with what they score: cs in what follows.
Weighed(u) == {[kind |-> c.kind, target |-> c.target, goal |-> c.goal, score |-> Score(u, c)] : c \in Candidates(u)}
Winners(cs) ==
  LET best == Max({c.score : c \in cs})
  IN  First({c \in cs : c.score = best})

\* The first of the incumbents, unless the choice is better by more than the margin.
Steady(chosen, incumbents) ==
  IF chosen \in incumbents \/ incumbents = {} THEN {chosen}
  ELSE {IF chosen.score > c.score + SwitchMargin THEN chosen ELSE c : c \in First(incumbents)}
Committed(u, released, cs) == {c \in cs : ~released /\ Chasing(u, c.target)}
Usual(u, cs) == {c \in cs : c.kind = mind[u].kind /\ c.target = mind[u].target}
WorthMoving(u, cs, chosen) ==
  LET holding == CHOOSE c \in cs : c.kind = "hold"
  IN  IF chosen.kind \in Moving /\ chosen.score - holding.score < MovementThreshold THEN holding ELSE chosen

\* release_reason: the quarry is gone, the unit strayed too far, gained too little or took
\* too long.
Outworn(u) ==
  LET chase == ChaseOf(u)
      age == chase.age + 1
      gap == Distance(u, chase.target)
      strayed == Gap(chase.origin, place[u]) > Leash
      idle == age >= PatienceTicks /\ 10 * (chase.opening - gap) < chase.opening
  IN  \/ chase.target \notin Enemies(u)
      \/ ~InReach(u, chase.target) /\ (strayed \/ idle)
      \/ age >= TimeoutTicks
Released(u) == ChaseOf(u) # None /\ Outworn(u)

Chosen(u) ==
  LET cs == Weighed(u)
      held == UNION {Steady(c, Committed(u, Released(u), cs)) : c \in Winners(cs)}
      steady == UNION {Steady(c, Usual(u, cs)) : c \in held}
  IN  {WorthMoving(u, cs, c) : c \in steady}

Chase(target, age, origin, opening) ==
  [target |-> target, age |-> age, origin |-> origin, opening |-> opening]
ASSUME NoneAssumption == None \notin [target : Unit, age : Nat, origin : Int, opening : Int]
\* slip: every decision to go after somebody starts a chase of its own
SlipChaseAfter(u, c) ==
  IF Released(u) \/ c.kind # "advance" \/ ~Hunted(c) THEN None
  ELSE Chase(c.target, 0, place[u], Distance(u, c.target))
\* _commit: what is left of a chase, or the chase begun.
ChaseAfter(u, c) ==
  IF Released(u) \/ c.kind # "advance" \/ ~Hunted(c) THEN None
  ELSE IF Chasing(u, c.target) THEN Chase(c.target, ChaseOf(u).age + 1, ChaseOf(u).origin, ChaseOf(u).opening)
  ELSE Chase(c.target, 0, place[u], Distance(u, c.target))
RecoveryAfter(u) == IF Released(u) THEN RecoveryTicks ELSE Greater(0, mind[u].recovery - 1)
MindAfter(u, c) == [kind |-> c.kind, target |-> c.target, goal |-> c.goal,
                    chase |-> ChaseAfter(u, c), recovery |-> RecoveryAfter(u)]
====================================================================================
