------------------------- MODULE AuthoritativeRound -------------------------
(***************************************************************************)
(* One round in progress: api/app/match/round.py (AuthoritativeRound) over *)
(* the stepwise battle of api/app/sim/run_battle.py (BattleRunner).        *)
(*                                                                         *)
(* A seat's cast is accepted or refused between two ticks; an accepted one *)
(* is queued for the next tick, charged to the seat's spell pool and given *)
(* a place in the round's order of casts.  A step advances the battle one  *)
(* tick, lands what is due, accrues energy and decides whether the round   *)
(* has ended.  What a tick of the battle does to the bases, the score and  *)
(* the armies is a nondeterministic choice here, within what the           *)
(* simulation's phases allow.                                              *)
(*                                                                         *)
(* Spell ids and locations are numbers: their ranks in the two orders the  *)
(* code compares them by.  Energy is counted in units of one tick's gain   *)
(* (the code's 0.2), so every amount here is whole.                        *)
(***************************************************************************)
EXTENDS Integers, Sequences, FiniteSets, SequencesExt

CONSTANTS
  CommandId,       \* the ids clients give their commands
  Spell,           \* spell ids, as ranks in string order
  Spot,            \* places a cast may name, as ranks of (x, y)
  OnMap,           \* the places inside the map
  Cost,            \* what each spell charges the pool
  StartingEnergy,  \* session.py's starting_energy
  EnergyCap,       \* ENERGY_CAP
  EnergyPerTick,   \* ENERGY_PER_SECOND * seconds_per_tick
  StaleTicks,      \* STALE_COMMAND_TICKS
  TickLimit,       \* max_ticks(sim_config), the tick a battle stops at
  MaxHp,           \* a base's max_hp on the map
  MaxDamage,       \* bound: what one base can lose in one tick
  LanePoints,      \* bound: what both lanes together pay in one tick
  ScoreThreshold   \* SCORE_THRESHOLD

ASSUME SpellAssumption ==
  /\ Spell \subseteq Nat /\ Spot \subseteq Nat /\ OnMap \subseteq Spot
  /\ Cost \in [Spell -> Nat]

ASSUME EnergyAssumption ==
  /\ StartingEnergy \in Nat
  /\ EnergyCap \in Nat
  /\ EnergyPerTick \in Nat

ASSUME BattleAssumption ==
  /\ StaleTicks \in Nat
  /\ TickLimit \in Nat \ {0}
  /\ MaxHp \in Nat \ {0}
  /\ MaxDamage \in Nat
  /\ LanePoints \in Nat
  /\ ScoreThreshold \in Nat \ {0}

-----------------------------------------------------------------------------

Side == {"north", "south"}
NoSide == "nobody"

Opposing(s) == IF s = "north" THEN "south" ELSE "north"

Least(a, b) == IF a <= b THEN a ELSE b
Greatest(a, b) == IF a >= b THEN a ELSE b

(* RoundEnding: why the round stopped and who won it.  *)
Ending == [kind : {"roundComplete"}, winner : Side \cup {NoSide},
           reason : {"zoneControl", "annihilation", "timeUp"}]
          \cup [kind : {"baseDestroyed"}, winner : Side \cup {NoSide},
                reason : {"none"}]
NoEnding == [kind |-> "none", winner |-> NoSide, reason |-> "none"]

RoundComplete(w, r) == [kind |-> "roundComplete", winner |-> w, reason |-> r]
BaseDestroyed(w) == [kind |-> "baseDestroyed", winner |-> w, reason |-> "none"]

(* A cast as it arrives (CastCommand).  `tick` is where the client was      *)
(* looking; 0 is what the parser fills in when the client sent none.        *)
Command == [id : CommandId, spell : Spell, at : Spot, tick : 0..TickLimit]

(* SpellInjection: what the battle is asked to land, and when.              *)
SpellInjection == [tick : Nat, spell : Spell, side : Side, at : Spot]

(* ResolvedCast: an accepted cast, with the tick and the order it was given.*)
Resolved == [id : CommandId, spell : Spell, side : Side, at : Spot,
             tick : Nat, order : Nat]

VARIABLES
  tick,        \* world.tick
  hp,          \* world.bases[side].hp
  score,       \* world.zone_score
  living,      \* does the side still have a unit on the field
  pending,     \* world.pending_spells, sorted
  landed,      \* the spellCast events so far: the injection and its tick
  stopped,     \* BattleRunner.stopped
  equipped,    \* _loadouts: the spells each seat brought to the round
  generated,   \* SeatEnergy.generated
  spent,       \* SeatEnergy.spent
  casts,       \* _casts, in order of acceptance
  nextOrder,   \* _next_order
  ending       \* _ending

worldVars == <<tick, hp, score, living, pending, landed, stopped>>
poolVars == <<generated, spent>>
roundVars == <<worldVars, equipped, poolVars, casts, nextOrder, ending>>

-----------------------------------------------------------------------------
(* The pool: start + generated - spent, never a running balance.            *)

OpeningEnergy == Least(StartingEnergy, EnergyCap)

Current(s) == OpeningEnergy + generated[s] - spent[s]

Accrued(s) ==
  generated[s] + Least(EnergyPerTick, Greatest(0, EnergyCap - Current(s)))

BrokeMayCast(s, sp) == TRUE  \* slip: the balance is not looked at
CanAfford(s, sp) == Current(s) >= Cost[sp]

Charge(s, sp) == spent' = [spent EXCEPT ![s] = @ + Cost[sp]]

-----------------------------------------------------------------------------
(* The queue of spells waiting for their tick.                              *)

SideRank(s) == IF s = "north" THEN 0 ELSE 1

(* injection_order: tick, then spell, then side, then place.                *)
Precedes(a, b) ==
  \/ a.tick < b.tick
  \/ a.tick = b.tick /\ a.spell < b.spell
  \/ a.tick = b.tick /\ a.spell = b.spell /\ SideRank(a.side) < SideRank(b.side)
  \/ /\ a.tick = b.tick /\ a.spell = b.spell /\ a.side = b.side
     /\ a.at < b.at

(* The tick an accepted cast is scheduled on: the next, whatever the client *)
(* named.                                                                   *)
TargetTick == tick + 1

(* inject: bisect_right, so equals keep the order they arrived in.          *)
InjectAtEnd(queue, inj) == Append(queue, inj)  \* slip: arrival order
InjectOnce(queue, inj) ==  \* slip: an equal entry is taken for a duplicate
  IF inj \in ToSet(queue) THEN queue ELSE Append(queue, inj)
Inject(queue, inj) ==
  LET notAfter == {i \in DOMAIN queue : ~Precedes(inj, queue[i])}
  IN  InsertAt(queue, Cardinality(notAfter) + 1, inj)

(* How many entries the spells phase takes off the front at tick t.         *)
DueCount(queue, t) ==
  CHOOSE n \in 0..Len(queue) :
    /\ \A i \in 1..n : queue[i].tick <= t
    /\ n < Len(queue) => queue[n + 1].tick > t

-----------------------------------------------------------------------------
(* Deciding the ending, in the code's order of precedence.                  *)

(* A tie has no leader.                                                     *)
Ahead(f) == IF f["north"] > f["south"] THEN "north"
            ELSE IF f["south"] > f["north"] THEN "south"
            ELSE NoSide

(* _outcome_on_score: the score, then what the bases have left.             *)
OutcomeOnScore(sc, bases) ==
  IF Ahead(sc) # NoSide THEN Ahead(sc) ELSE Ahead(bases)

(* Both bases down is nobody's match.                                       *)
BaseEndingFirstFound(fallen) ==  \* slip: the first base found down loses
  BaseDestroyed(IF "north" \in fallen THEN "south" ELSE "north")
BaseEndingFallenWins(fallen) ==  \* slip: the fallen side for its opponent
  IF fallen = Side THEN BaseDestroyed(NoSide)
  ELSE BaseDestroyed(CHOOSE s \in fallen : TRUE)
BaseEnding(fallen) ==
  IF fallen = Side THEN BaseDestroyed(NoSide)
  ELSE BaseDestroyed(Opposing(CHOOSE s \in fallen : TRUE))

(* Both sides swept is nobody's round.                                      *)
Annihilation(gone) ==
  IF gone = Side THEN RoundComplete(NoSide, "annihilation")
  ELSE RoundComplete(Opposing(CHOOSE s \in gone : TRUE), "annihilation")

TimeIsUpLate(t) == t > TickLimit  \* slip: off by one
TimeIsUp(t) == t >= TickLimit

(* _decide_ending *)
DecideEnding(t, bases, sc, alive) ==
  LET fallen == {s \in Side : bases[s] <= 0}
      gone   == {s \in Side : ~alive[s]}
      leader == Ahead(sc)
  IN  IF fallen # {} THEN BaseEnding(fallen)
      ELSE IF gone # {} THEN Annihilation(gone)
      ELSE IF leader # NoSide /\ sc[leader] >= ScoreThreshold
      THEN RoundComplete(leader, "zoneControl")
      ELSE IF TimeIsUp(t)
      THEN RoundComplete(OutcomeOnScore(sc, bases), "timeUp")
      ELSE NoEnding

-----------------------------------------------------------------------------
(* The round opens on the bases it is handed, with both pools at the        *)
(* starting energy and an empty queue.                                      *)
OpenRound(bases, loadouts) ==
  /\ tick' = 0
  /\ hp' = bases
  /\ score' = [s \in Side |-> 0]
  /\ living' = [s \in Side |-> TRUE]
  /\ pending' = << >>
  /\ landed' = << >>
  /\ stopped' = FALSE
  /\ equipped' = loadouts
  /\ generated' = [s \in Side |-> 0]
  /\ spent' = [s \in Side |-> 0]
  /\ casts' = << >>
  /\ nextOrder' = 1
  /\ ending' = NoEnding

RoundInit(bases, loadouts) ==
  /\ tick = 0
  /\ hp = bases
  /\ score = [s \in Side |-> 0]
  /\ living = [s \in Side |-> TRUE]
  /\ pending = << >>
  /\ landed = << >>
  /\ stopped = FALSE
  /\ equipped = loadouts
  /\ generated = [s \in Side |-> 0]
  /\ spent = [s \in Side |-> 0]
  /\ casts = << >>
  /\ nextOrder = 1
  /\ ending = NoEnding

(* _is_stale: too far from the world's tick either way, unless unstated.    *)
IsStale(t) == t > 0 /\ (tick - t > StaleTicks \/ t - tick > StaleTicks)

(* The first reason to refuse a cast, or "none".                            *)
RefusalWhileOver(s, c) ==  \* slip: an ended round still takes casts
  IF c.spell \in equipped[s] /\ CanAfford(s, c.spell) THEN "none"
  ELSE "notEnoughEnergy"
Refusal(s, c) ==
  IF ending # NoEnding THEN "roundOver"
  ELSE IF IsStale(c.tick) THEN "stale"
  ELSE IF c.spell \notin equipped[s] THEN "notEquipped"
  ELSE IF c.at \notin OnMap THEN "outOfBounds"
  ELSE IF ~CanAfford(s, c.spell) THEN "notEnoughEnergy"
  ELSE "none"

(* cast, the accepting path.  Nothing else in the round changes: the        *)
(* refusing paths return before anything is assigned.                       *)
AcceptCast(s, c) ==
  /\ Refusal(s, c) = "none"
  /\ pending' = Inject(pending, [tick |-> TargetTick, spell |-> c.spell,
                                 side |-> s, at |-> c.at])
  /\ Charge(s, c.spell)
  /\ casts' = Append(casts, [id |-> c.id, spell |-> c.spell, side |-> s,
                             at |-> c.at, tick |-> TargetTick,
                             order |-> nextOrder])
  /\ nextOrder' = nextOrder + 1
  /\ UNCHANGED <<tick, hp, score, living, landed, stopped, equipped,
                 generated, ending>>

(* BattleRunner.finished *)
Finished == stopped \/ tick >= TickLimit

(* step_battle: the tick advances, what is due lands, and the phases do     *)
(* what they do to the bases, the score and the armies.  A base loses at    *)
(* most what it has; a lane pays only a side with a mage alive; removal     *)
(* sweeps the dead and nobody wiped out comes back within the round.        *)
BattleTick(damage, points, survivors) ==
  LET t == tick + 1
      n == DueCount(pending, t)
  IN  /\ tick' = t
      /\ hp' = [s \in Side |-> Greatest(0, hp[s] - damage[s])]
      /\ living' = [s \in Side |-> s \in survivors]
      /\ score' = [s \in Side |-> score[s] + points[s]]
      /\ landed' = landed \o [i \in 1..n |-> [spell |-> pending[i], on |-> t]]
      /\ pending' = SubSeq(pending, n + 1, Len(pending))

(* BattleRunner.step after the tick: a base down or a side swept stops it.  *)
StopRunner ==
  stopped' = (\/ \E s \in Side : hp'[s] <= 0
              \/ \E s \in Side : ~living'[s])

(* step: the runner's tick, the accrual, and the decision.                  *)
Step(damage, points, survivors) ==
  /\ ending = NoEnding
  /\ IF Finished
     THEN UNCHANGED worldVars
     ELSE BattleTick(damage, points, survivors) /\ StopRunner
  /\ generated' = [s \in Side |-> Accrued(s)]
  /\ ending' = DecideEnding(tick', hp', score', living')
  /\ UNCHANGED <<equipped, spent, casts, nextOrder>>

(* What one tick may do: any damage and any survivors, and the lanes pay    *)
(* LanePoints at most between them, to sides that have a mage standing.     *)
TickDamage == [Side -> 0..MaxDamage]
TickSurvivors == SUBSET {s \in Side : living[s]}
TickPoints(survivors) ==
  {p \in [Side -> 0..LanePoints] :
     /\ p["north"] + p["south"] <= LanePoints
     /\ \A s \in Side : p[s] > 0 => s \in survivors}

SomeStep ==
  \E damage \in TickDamage, survivors \in TickSurvivors :
    \E points \in TickPoints(survivors) : Step(damage, points, survivors)

SomeCast == \E s \in Side, c \in Command : AcceptCast(s, c)

-----------------------------------------------------------------------------
(* A round on its own, for checking and proving about it without the match  *)
(* around it.  Refused casts change nothing, so they are not steps.  The    *)
(* clock calls step until the round is over: weak fairness of SomeStep.     *)

CONSTANT Loadouts  \* the loadouts a round may open with

ASSUME LoadoutAssumption == Loadouts \subseteq [Side -> SUBSET Spell]

Init ==
  \E bases \in [Side -> 1..MaxHp], loadouts \in Loadouts :
    RoundInit(bases, loadouts)

Next == SomeStep \/ SomeCast

Spec == Init /\ [][Next]_roundVars
FairSpec == Spec /\ WF_roundVars(SomeStep)

-----------------------------------------------------------------------------
(* The type of every variable of a round.                                   *)
RoundTypeOK ==
  /\ tick \in 0..TickLimit
  /\ hp \in [Side -> 0..MaxHp]
  /\ score \in [Side -> Nat]
  /\ living \in [Side -> BOOLEAN]
  /\ pending \in Seq(SpellInjection)
  /\ landed \in Seq([spell : SpellInjection, on : Nat])
  /\ stopped \in BOOLEAN
  /\ equipped \in [Side -> SUBSET Spell]
  /\ generated \in [Side -> Nat]
  /\ spent \in [Side -> Nat]
  /\ casts \in Seq(Resolved)
  /\ nextOrder \in Nat
  /\ ending \in Ending \cup {NoEnding}

(* A cast the server accepted is charged for; none may be left waiting when *)
(* the round is decided, because nothing steps the battle after that.       *)
(* round.py targets the next tick and refuses once ended, and both matter.  *)
NothingLeftWaiting == ending # NoEnding => pending = << >>

(* A spell lands on the very tick its seat was told, never a tick late:     *)
(* inject must not take a tick whose spells phase has already run.          *)
LandsOnItsTick == \A i \in DOMAIN landed : landed[i].on = landed[i].spell.tick

(* Spells land in injection_order whatever order they were accepted in, so  *)
(* two seats casting on one tick are not settled by network arrival.        *)
LandingOrder ==
  \A i, j \in DOMAIN landed :
    i < j => ~Precedes(landed[j].spell, landed[i].spell)

(* Every accepted cast is in the queue or has landed, exactly once, and     *)
(* nothing else is: two equal casts are two landings.                       *)
Asked(c) == [tick |-> c.tick, spell |-> c.spell, side |-> c.side, at |-> c.at]
EveryCastLandsOnce ==
  \A k \in DOMAIN casts :
    LET x == Asked(casts[k])
    IN  Cardinality({i \in DOMAIN casts : Asked(casts[i]) = x})
          = Cardinality({i \in DOMAIN pending : pending[i] = x})
            + Cardinality({i \in DOMAIN landed : landed[i].spell = x})

(* The count the two queues must keep with the round's list of casts.       *)
CastsAccountedFor == Len(landed) + Len(pending) = Len(casts)

(* The pool never goes below zero and never above the cap, whatever was     *)
(* cast and however long the round ran.                                     *)
PoolWithinCap == \A s \in Side : Current(s) \in 0..EnergyCap

(* The decision treats the two sides alike: on the mirrored field it is the *)
(* mirrored decision.  A double fall or an exact tie goes to nobody, not to *)
(* the side the code happens to look at first.                              *)
Mirror(f) == [s \in Side |-> f[Opposing(s)]]
MirrorEnding(e) ==
  [e EXCEPT !.winner = IF @ = NoSide THEN NoSide ELSE Opposing(@)]
SidesAreAlike ==
  DecideEnding(tick, Mirror(hp), Mirror(score), Mirror(living))
    = MirrorEnding(DecideEnding(tick, hp, score, living))

(* The runner's own stopping rule and the round's never part: a stopped     *)
(* runner no longer ticks, so a round still open on it would never end.     *)
RunnerStopsWithRound == (stopped \/ tick >= TickLimit) => ending # NoEnding

(* A base that fell decides the match, whatever else the tick did: no other *)
(* ending is ever recorded over a fallen base, and no winner's base fell.   *)
FallenBaseDecides ==
  /\ (\E s \in Side : hp[s] = 0) <=> ending.kind = "baseDestroyed"
  /\ ending.winner \in Side => hp[ending.winner] > 0

(* Once decided, a round is frozen: no tick, no cast and no charge.         *)
EndedRoundIsFrozen == [][ending = NoEnding]_roundVars

(* A round comes to its end.                                                *)
RoundEnds == <>(ending # NoEnding)

=============================================================================
