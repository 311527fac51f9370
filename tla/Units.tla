---------------------------------- MODULE Units ----------------------------------
(***********************************************************************************)
(* Ticks of a battle as its units decide them: phases/decision.py, and what its    *)
(* decisions come to in movement and abilities.  In a tick every troop is          *)
(* coordinated, then every unit with behaviour decides, in the order of the world, *)
(* then they act on it.                                                            *)
(*                                                                                 *)
(* The rest of the battle is the Field action: opponents without behaviour walk as *)
(* they like, somebody is hurt, gauges fill.                                       *)
(***********************************************************************************)
EXTENDS Decisions, Coordination

CONSTANTS
  Start,         \* per unit: where it begins
  Haunt,         \* per unit without behaviour: the two ends of the ground it keeps to
  Wounds,        \* per unit: the lives it may be brought down to
  BaseRadius,
  MaxCharges     \* bound: how often a gauge fills in a run

ASSUME RosterAssumption ==
  /\ IsFiniteSet(Unit) /\ Unit \subseteq Nat \ {Nobody} /\ Minded \subseteq Unit
  /\ \A u \in Unit : /\ Card[u].mage \in BOOLEAN /\ Card[u].life \in Nat \ {0} /\ Wounds[u] \subseteq Nat
                      /\ Card[u].speed \in Nat /\ Card[u].reach \in Nat
                      /\ Card[u].ability \in DOMAIN Ability \cup {None}
  /\ \A a \in DOMAIN Ability : Ability[a].dash # None => Ability[a].dash \in [far : Nat, short : Nat]
ASSUME HabitsAssumption ==
  /\ IsFiniteSet(DOMAIN Personality)
  /\ \A tag \in DOMAIN Personality :
       Personality[tag].coordination \in [{"guard", "leash", "tenths", "defenders"} -> Int]
ASSUME GroundAssumption ==
  /\ Start \in [Unit -> Int] /\ Post \in [Unit -> Int]
  /\ BasePlace \in [{"north", "south"} -> Int] /\ BaseRadius \in Nat
  /\ \A u \in Unit \ Minded : Haunt[u] \in Int \X Int

VARIABLES
  stage, todo,
  charges,       \* how often one has
  ended, \* history: decisions since a chase last ended short of its quarry, up to RecoveryTicks, and was it a bound
  run    \* history: whom a unit goes after without a break, for how many decisions, from where

aiVars == <<mind, assigned>>
history == <<ended, run>>
vars == <<place, hp, energised, aiVars, stage, todo, charges, history>>

Troop == DOMAIN Leader
Stray == Unit \ Minded
Blank == [kind |-> None, target |-> Nobody, goal |-> 0, chase |-> None, recovery |-> 0]
LongAgo == [ticks |-> RecoveryTicks, bound |-> FALSE]
NoRun == [target |-> Nobody, ticks |-> 0, from |-> 0]

Init ==
  /\ place = Start
  /\ hp = [u \in Unit |-> Card[u].life]
  /\ energised = [u \in Unit |-> FALSE]
  /\ mind = [u \in Minded |-> Blank]
  /\ assigned = [t \in Troop |-> {}]
  /\ stage = "coordinate" /\ todo = {} /\ charges = 0
  /\ ended = [u \in Minded |-> LongAgo]
  /\ run = [u \in Minded |-> NoRun]

Coordinate ==
  /\ stage = "coordinate"
  /\ assigned' = [t \in Troop |-> Coordinated(t)]
  /\ stage' = "decide" /\ todo' = Minded \cap Living
  /\ UNCHANGED <<place, hp, energised, mind, charges, history>>

------------------------------------------------------------------------------------
EndsShort(u, m) ==
  /\ ChaseOf(u) # None
  /\ m.chase = None \/ ~Chasing(u, m.chase.target)
  /\ ChaseOf(u).target \in Enemies(u) /\ ~InReach(u, ChaseOf(u).target)
EndedAfter(u, m) ==
  IF Released(u) \/ EndsShort(u, m) THEN [ticks |-> 0, bound |-> Released(u)]
  ELSE IF ended[u].ticks + 1 < RecoveryTicks THEN [ticks |-> ended[u].ticks + 1, bound |-> ended[u].bound]
  ELSE LongAgo
RunAfter(u, c) ==
  IF c.kind # "advance" \/ ~Hunted(c) THEN NoRun
  ELSE IF run[u].target = c.target THEN [run[u] EXCEPT !.ticks = Lesser(@ + 1, TimeoutTicks + 2)]
  ELSE [target |-> c.target, ticks |-> 1, from |-> place[u]]

Decide(u) ==
  /\ stage = "decide" /\ \A v \in todo : u <= v
  /\ todo' = todo \ {u}
  /\ stage' = IF todo' = {} THEN "act" ELSE stage
  /\ \E c \in Chosen(u) :
       /\ mind' = [mind EXCEPT ![u] = MindAfter(u, c)]
       /\ ended' = [ended EXCEPT ![u] = EndedAfter(u, MindAfter(u, c))]
       /\ run' = [run EXCEPT ![u] = RunAfter(u, c)]
  /\ UNCHANGED <<place, hp, energised, assigned, charges>>

NothingDecided == /\ stage = "decide" /\ todo = {}
                  /\ stage' = "act"
                  /\ UNCHANGED <<place, hp, energised, aiVars, todo, charges, history>>

------------------------------------------------------------------------------------
(* Acting: movement.py, then the dash of whoever casts one.                         *)

Slack(u) ==
  LET rims == {Distance(u, v) - UsefulRange(u) : v \in Enemies(u)}
                \cup {Gap(place[u], BasePlace[Opposing(SideOf[u])]) - BaseRadius}
      ahead == {d \in rims : d > 0}
  IN  IF ahead = {} THEN Stride(u) ELSE Min(ahead)
WalkTo(u) ==
  LET step == IF mind[u].kind = "withdraw" THEN Stride(u) \div 2 ELSE Stride(u)
  IN  Towards(place[u], mind[u].goal, Lesser(step, Slack(u)))
Casts(u) == hp[u] > 0 /\ mind[u].kind = "cast"

Act ==
  /\ stage = "act"
  /\ place' = [u \in Unit |->
       IF u \notin Minded \cap Living THEN place[u]
       ELSE IF mind[u].kind \in Moving THEN WalkTo(u)
       ELSE IF Casts(u) THEN After(u, [kind |-> "cast", target |-> mind[u].target])
       ELSE place[u]]
  /\ energised' = [u \in Unit |-> energised[u] /\ ~(u \in Minded /\ Casts(u))]
  /\ stage' = "field"
  /\ UNCHANGED <<hp, aiVars, todo, charges, history>>

------------------------------------------------------------------------------------
(* The rest of a tick.  Who falls leaves the field, and a troop without a living    *)
(* mage dissolves (removal.py).                                                     *)

Roam(v, way) == Clamp(place[v] + way * Stride(v), Haunt[v][1], Haunt[v][2])
Hurt == {hp} \cup UNION {{[hp EXCEPT ![u] = w] : w \in {x \in Wounds[u] : x < hp[u]}} : u \in Living}
Standing(lives) == {u \in Unit : lives[u] > 0 /\ \E m \in Leaders[u] : lives[m] > 0}

Field ==
  /\ stage = "field"
  /\ \E ways \in [Stray \cap Living -> {-1, 1}], lives \in Hurt,
        full \in SUBSET {u \in Living \cap Minded : Card[u].ability # None /\ ~energised[u]} :
       LET here == Standing(lives) IN
       /\ hp' = [u \in Unit |-> IF u \in here THEN lives[u] ELSE 0]
       /\ place' = [u \in Unit |-> IF u \notin here THEN 0
                                   ELSE IF u \in Stray THEN Roam(u, ways[u]) ELSE place[u]]
       /\ charges' = charges + Cardinality(full) /\ charges' <= MaxCharges
       /\ energised' = [u \in Unit |-> u \in here /\ (energised[u] \/ u \in full)]
       /\ mind' = [u \in Minded |-> IF u \in here THEN mind[u] ELSE Blank]
       /\ ended' = [u \in Minded |-> IF u \in here THEN ended[u] ELSE LongAgo]
       /\ run' = [u \in Minded |-> IF u \in here THEN run[u] ELSE NoRun]
  /\ stage' = "coordinate"
  /\ UNCHANGED <<assigned, todo>>

Next == Coordinate \/ (\E u \in todo : Decide(u)) \/ NothingDecided \/ Act \/ Field
Spec == Init /\ [][Next]_vars

------------------------------------------------------------------------------------
Begins(u) == /\ mind'[u].chase # None
             /\ ChaseOf(u) = None \/ ChaseOf(u).target # mind'[u].chase.target

(* pursuit.py, "recovery": a unit whose chase a bound ended goes after nobody until  *)
(* RecoveryTicks decisions later, whoever its troop names for it.                    *)
RecoveryIsServed == [][\A u \in Minded : Begins(u) => ~ended[u].bound]_vars

(* pursuit.py, the leash and the timeout: however often it changes its mind on the   *)
(* way, a unit goes after one opponent without a break for no longer than the        *)
(* timeout allows, and that takes it no further than the leash from where it began.  *)
OneChaseIsBounded ==
  \A u \in Minded \cap Living : run[u] # NoRun =>
    /\ run[u].ticks <= TimeoutTicks + 1
    /\ Gap(run[u].from, place[u]) <= Leash + Stride(u)

(* coordination.py: once a troop is coordinated no unit answers two threats and no   *)
(* threat is answered twice, no unit is asked to protect itself, at most half of     *)
(* those living are committed, each to a threat that is still one, and with hands    *)
(* left a threat goes unanswered only if nobody free can answer it.                  *)
HelpIsWellSpent ==
  stage \in {"decide", "act"} => \A t \in Troop :
    LET given == assigned[t] IN
    /\ \A a, b \in given : a # b => a.unit # b.unit /\ a.target # b.target
    /\ 2 * Cardinality(given) <= Cardinality(Members(t))
    /\ \A a \in given : /\ a.unit \in Members(t) \ {a.protecting}
                        /\ [target |-> a.target, protecting |-> a.protecting] \in Needs(t)
    /\ Cardinality(given) < Budget(t) /\ Led(t) =>
         \A need \in Needs(t) : (\A a \in given : a.target # need.target) => Free(t, need, given) = {}

(* pursuit.py:85, "how long after a chase ends before this unit may start another":  *)
(* whatever ended it short of its quarry, a chase is followed by none for as long.   *)
ChasesAreSpaced == [][\A u \in Minded : Begins(u) => ended[u].ticks >= RecoveryTicks]_vars
====================================================================================
