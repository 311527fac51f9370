---------------------------------- MODULE Battle ----------------------------------
(***********************************************************************************)
(* One battle, tick by tick, through the eleven phases of sim/phases in the order  *)
(* of TICK_PHASES (sim/run_battle.py step_battle).  A phase that walks the units   *)
(* takes one step per unit, in world order; an ability or a spell takes one step   *)
(* per effect (sim/resolution.py).  The resummon and removal phases are Troops'.   *)
(*                                                                                 *)
(* The field is one lane: a place is a distance along it.  Amounts are integers.   *)
(* What units decide is a mood per side, taken up anew on DecisionTicks.           *)
(***********************************************************************************)
EXTENDS Troops, SequencesExt

CONSTANTS
  SideOf,         \* troop -> side
  TroopRank,      \* troop -> its rank in the order of ids
  Width, BasePlace, Footprint, BaseHp,   \* the lane, and per side its base
  Zone, Hotspot, Points,                 \* zones: the hotspot's ends, points per tick
  Pushing,                               \* troop -> is it under pushEnemyBase
  Ability, Spells,                       \* catalogs: cost, origin, reach and effects; effects
  EnergyRate, EnergyMultiplier,          \* type -> meter -> rate; side -> type -> percentage
  Moods, DecisionTicks,                  \* what units may have a mind to, and when it may change
  Spot, MaxSpells,                       \* where spells may be aimed, how many are cast
  TickLimit,
  None

Side == {"north", "south"}
Opposing(s) == IF s = "north" THEN "south" ELSE "north"
Meters == {"elapsed", "dealt", "taken", "lost"}
NoMeters == [m \in Meters |-> 0]
NoCast == [side |-> None]

\* A unit's card; 0 blocks is no barricade.
UnitCard == [damage : Nat, reach : Nat, speed : Nat, cooldown : Nat, blocks : Nat,
          ability : DOMAIN Ability \cup {None}, emplaced : BOOLEAN]
Effects ==
  [kind : {"dash"}, far : Nat, short : Nat]
  \cup [kind : {"damage"}, radius : Nat, amount : Nat, vsMage : Nat, vsBase : Nat]
  \cup [kind : {"burn"}, radius : Nat, rate : Nat, ticks : Nat, vsMage : Nat, spread : Nat]
  \cup [kind : {"ground"}, radius : Nat, rate : Nat, ticks : Nat, vsMage : Nat]
  \cup [kind : {"knockback"}, radius : Nat, distance : Nat]
  \cup [kind : {"refill"}, radius : Nat, amount : Nat]

ASSUME LaneAssumption ==
  /\ Width \in Nat /\ Footprint \in Nat /\ BaseHp \in Nat /\ BasePlace \in [Side -> Int]
  /\ Station \subseteq Int /\ Spot \subseteq Int
ASSUME SidesAssumption ==
  /\ SideOf \in [Troop -> Side] /\ TroopRank \in [Troop -> Nat]
  /\ \A t, other \in Troop : TroopRank[t] = TroopRank[other] => t = other
ASSUME CardAssumption ==
  /\ Kit \subseteq UnitCard
  /\ Ability \in [DOMAIN Ability -> [cost : Nat, origin : {"self", "target"}, effects : Seq(Effects)]]
  /\ Spells \in [DOMAIN Spells -> Seq(Effects)]
\* blocking.py: no barricade can be tunnelled through, at any speed the game reaches.
ASSUME StrideAssumption == \A k, wall \in Kit : wall.blocks > 0 => k.speed < 2 * wall.blocks

VARIABLES
  stage,    \* the phase among those before resummon
  body,     \* per unit: place, goal, intent, target, energy, meters, burn
  cooldown, \* per unit: cooldown_remaining
  mood,     \* per side
  hazards,  \* world.hazards: number -> burning ground, numbered in the order it was laid
  base,     \* world.bases[side].hp
  score,    \* world.zone_score
  holders,  \* world.zone_holders
  pending,  \* world.pending_spells
  cast,     \* the Cast being resolved, with the effects still to come
  told      \* history: what the events said: defeats per unit, who dissolved, base losses

battleVars == <<stage, body, cooldown, mood, hazards, base, score, holders, pending, cast, told>>
vars == <<troopVars, battleVars>>
worldVars == <<hazards, base, score, holders, pending>>

SideOfUnit(u) == SideOf[units[u].troop]
Card(u) == units[u].kit
\* What _refill leaves out when it builds a unit from its type.
Unequipped(kit) == [kit EXCEPT !.ability = None, !.emplaced = FALSE, !.blocks = 0]
Gap(p, q) == IF p < q THEN q - p ELSE p - q
Least(a, b) == IF a < b THEN a ELSE b
Most(a, b) == IF a < b THEN b ELSE a
Clip(p) == Most(0, Least(Width, p))
Towards(p, q, d) == IF d >= Gap(p, q) THEN q ELSE IF p < q THEN p + d ELSE p - d
PlaceOf(u) == body[u].place
Distance(u, v) == Gap(PlaceOf(u), PlaceOf(v))
Foes(u) == {v \in OnField : SideOfUnit(v) # SideOfUnit(u) /\ IsAlive(v)}
IdBefore(u, v) == \/ TroopRank[units[u].troop] < TroopRank[units[v].troop]
                  \/ (units[u].troop = units[v].troop /\ units[u].ordinal < units[v].ordinal)

Newcomer(p) == [place |-> p, goal |-> p, intent |-> None, target |-> None, energy |-> 0, meters |-> NoMeters, burn |-> None]

Init ==
  /\ TroopInit
  /\ stage = "decision"
  /\ body = [u \in OnField |-> Newcomer(Clip(Opening[u].station))]
  /\ cooldown = [u \in OnField |-> 0]
  /\ mood \in [Side -> Moods]
  /\ hazards = <<>>
  /\ base = [s \in Side |-> BaseHp]
  /\ score = [s \in Side |-> 0]
  /\ holders = [z \in Zone |-> None]
  /\ pending = <<>>
  /\ cast = NoCast
  /\ told = [defeats |-> [u \in OnField |-> 0], dissolved |-> {}, base |-> [s \in Side |-> 0]]

------------------------------------------------------------------------------------
(* The frame of a tick. *)

Acting(s) == phase = "acting" /\ stage = s /\ cast = NoCast
TroopsRest == UNCHANGED <<tick, phase, fieldVars, slots, ordinals, timer, idleAt>>
Turn(s, u) == Acting(s) /\ IsNext(u) /\ todo' = todo \ {u} /\ UNCHANGED stage /\ TroopsRest
\* Phase s is through; the next one gives these their turn.
Pass(s, next, turns) == /\ Acting(s) /\ todo = {}
                        /\ stage' = next /\ todo' = turns
                        /\ TroopsRest

Swept(s) == \A u \in OnField : SideOfUnit(u) # s
Finished == \E s \in Side : base[s] = 0 \/ Swept(s)

StartTick ==
  /\ tick < TickLimit /\ ~Finished
  /\ NextTick
  /\ stage' = "decision"
  /\ UNCHANGED <<body, cooldown, mood, worldVars, cast, told>>

\* A spell joins the queue of the next tick, in the order of injection_order.
SpellKey(i) == <<i.spell, IF i.side = "north" THEN 0 ELSE 1, i.place>>
KeyLeq(a, b) == \/ a[1] < b[1]
                \/ a[1] = b[1] /\ a[2] < b[2]
                \/ a[1] = b[1] /\ a[2] = b[2] /\ a[3] <= b[3]
Injected(i) == LET ahead == {k \in DOMAIN pending : KeyLeq(SpellKey(pending[k]), SpellKey(i))}
               IN  InsertAt(pending, Cardinality(ahead) + 1, i)

Inject(s, n, p) ==
  /\ phase = "rest" /\ tick < TickLimit /\ ~Finished
  /\ Len(pending) < MaxSpells
  /\ pending' = Injected([spell |-> n, side |-> s, place |-> p])
  /\ UNCHANGED <<troopVars, stage, body, cooldown, mood, hazards, base, score, holders, cast, told>>

------------------------------------------------------------------------------------
(* Deciding.  The orders phase sends everybody to its station; the decision phase  *)
(* gives whoever lives an intent, and a destination if the intent moves.           *)

Nearest(u, limit) ==
  LET near == {v \in Foes(u) : Distance(u, v) <= limit}
  IN  IF near = {} THEN None
      ELSE CHOOSE v \in near : \A w \in near \ {v} :
             \/ Distance(u, v) < Distance(u, w)
             \/ (Distance(u, v) = Distance(u, w) /\ IdBefore(v, w))

Decided(u, mind) ==
  LET kind == mind[units[u].type]
      home == BasePlace[SideOfUnit(u)]
      away == BasePlace[Opposing(SideOfUnit(u))]
  IN  [body[u] EXCEPT !.intent = kind,
                      !.target = IF kind \in {"attack", "cast"} THEN Nearest(u, Width) ELSE None,
                      !.goal = CASE kind = "advance" -> away
                                 [] kind \in {"withdraw", "retreat"} -> home
                                 [] OTHER -> Clip(units[u].station)]

Decide ==
  /\ mood' \in [Side -> Moods] /\ (tick \notin DecisionTicks => mood' = mood)
  /\ Pass("decision", "movement", OnField)
  /\ body' = [u \in OnField |-> IF IsAlive(u) THEN Decided(u, mood'[SideOfUnit(u)]) ELSE body[u]]
  /\ UNCHANGED <<hp, cooldown, worldVars, cast, told>>

------------------------------------------------------------------------------------
(* Movement. *)

Moving == {"advance", "withdraw", "retreat"}
\* Who the unit would strike: its intended target if that still stands in reach.
Acquire(u, limit) ==
  LET b == body[u] IN
  IF b.intent = "retreat" THEN None
  ELSE IF b.intent = "attack" /\ b.target \in Foes(u) /\ Distance(u, b.target) <= limit THEN b.target
  ELSE Nearest(u, limit)

Standoff(u) == (Card(u).reach * 9) \div 10
\* The longest step that crosses into nobody's standoff the unit is outside of.
Slack(u) ==
  LET foes == {Distance(u, v) - Standoff(u) : v \in Foes(u)}
      plate == Gap(PlaceOf(u), BasePlace[Opposing(SideOfUnit(u))]) - Footprint
      room == {d \in foes \cup {plate} : d > 0}
  IN  IF room = {} THEN Width ELSE Min(room)

\* A step that would end inside an opponent's barricade is cut short at its edge.
ClampToBlockers(u, p) ==
  LET step == Gap(PlaceOf(u), p)
      met == {v \in Foes(u) : /\ Card(v).blocks > 0
                              /\ Gap(p, PlaceOf(v)) < Card(v).blocks
                              /\ Distance(u, v) >= Card(v).blocks}
      caps == {Distance(u, v) - Card(v).blocks : v \in met} \cup {step}
  IN  Towards(PlaceOf(u), p, Min(caps))

MayWalk(u) == /\ IsAlive(u) /\ Card(u).speed > 0
              /\ \/ body[u].intent \in Moving
                 \/ body[u].intent = None /\ Acquire(u, Card(u).reach) = None
\* slip: the standoff is not kept
SlipStride(u) == Card(u).speed
Stride(u) == LET speed == Card(u).speed
             IN  Least(IF body[u].intent = "withdraw" THEN speed \div 2 ELSE speed, Slack(u))

Move(u) ==
  /\ Turn("movement", u)
  /\ body' = IF MayWalk(u)
             THEN [body EXCEPT ![u].place =
                     ClampToBlockers(u, Towards(PlaceOf(u), body[u].goal, Stride(u)))]
             ELSE body
  /\ UNCHANGED <<hp, cooldown, mood, worldVars, cast, told>>

Moved == /\ Pass("movement", "energy", {})
         /\ UNCHANGED <<hp, body, cooldown, mood, worldVars, cast, told>>

------------------------------------------------------------------------------------
(* Energy: what happened since the last tick is paid into the gauge, up to the cost *)
(* of the ability, and the meters start anew.                                       *)

Gain(u, meters) ==
  MapThenSumSet(LAMBDA m : meters[m] * EnergyRate[units[u].type][m], Meters)
    * EnergyMultiplier[SideOfUnit(u)][units[u].type]

Charged(u) ==
  LET earned == [body[u].meters EXCEPT !["elapsed"] = @ + 1]
  IN  [body[u] EXCEPT !.energy = Least(@ + Gain(u, earned), Ability[Card(u).ability].cost),
                      !.meters = NoMeters]

Charge ==
  /\ Pass("energy", "spells", {})
  /\ body' = [u \in OnField |->
               IF IsAlive(u) /\ Card(u).ability # None THEN Charged(u) ELSE body[u]]
  /\ UNCHANGED <<hp, cooldown, mood, worldVars, cast, told>>

------------------------------------------------------------------------------------
(* Spells and abilities: what sets a cast going. *)

LandSpell ==
  /\ Acting("spells") /\ pending # <<>>
  /\ LET i == Head(pending)
     IN  cast' = [side |-> i.side, origin |-> i.place, caster |-> None, target |-> None,
                  follows |-> FALSE, effects |-> Spells[i.spell]]
  /\ pending' = Tail(pending)
  /\ TroopsRest
  /\ UNCHANGED <<todo, hp, stage, body, cooldown, mood, hazards, base, score, holders, told>>

SpellsLanded == /\ pending = <<>>
                /\ Pass("spells", "abilities", OnField)
                /\ UNCHANGED <<hp, body, cooldown, mood, worldVars, cast, told>>

\* FollowsIntent.aim: a unit casts when it means to, at a target that still stands.
MayCast(u) ==
  LET a == Ability[Card(u).ability]
  IN  /\ IsAlive(u) /\ Card(u).ability # None
      /\ body[u].energy >= a.cost
      /\ body[u].intent = "cast"
      /\ a.origin = "self" \/ body[u].target \in Foes(u)

CastAbility(u) ==
  /\ Turn("abilities", u)
  /\ IF MayCast(u)
     THEN LET a == Ability[Card(u).ability]
              self == a.origin = "self"
          IN  /\ body' = [body EXCEPT ![u].energy = 0]
              /\ cast' = [side |-> SideOfUnit(u), caster |-> u, follows |-> self,
                          origin |-> IF self THEN PlaceOf(u) ELSE PlaceOf(body[u].target),
                          target |-> IF self THEN None ELSE body[u].target,
                          effects |-> a.effects]
     ELSE UNCHANGED <<body, cast>>
  /\ UNCHANGED <<hp, cooldown, mood, worldVars, told>>

AbilitiesCast == /\ Pass("abilities", "combat", OnField)
                 /\ UNCHANGED <<hp, body, cooldown, mood, worldVars, cast, told>>

------------------------------------------------------------------------------------
(* What a blow does, whoever deals it: life, meters, and the defeat reported. *)

NoLoss == [s \in Side |-> 0]
\* slip: overkill is not cut off at zero
SlipLeft(life, wound) == life - wound
Left(life, wound) == Most(0, life - wound)
\* Victims lose the life wounds says and bases what losses says; the dealer, if it
\* lives, is credited; who falls is reported once.
Strike(wounds, losses, dealer, credit) ==
  LET hit == DOMAIN wounds
      down == {v \in hit : wounds[v] >= hp[v]}
  IN  /\ hp' = [u \in OnField |-> IF u \in hit THEN Left(hp[u], wounds[u]) ELSE hp[u]]
      /\ base' = [s \in Side |-> base[s] - losses[s]]
      /\ body' = [u \in OnField |->
                   CASE u \in hit -> [body[u] EXCEPT !.meters["taken"] = @ + wounds[u]]
                     [] u = dealer /\ IsAlive(u) -> [body[u] EXCEPT !.meters["dealt"] = @ + credit]
                     [] OTHER -> body[u]]
      /\ told' = [told EXCEPT !.defeats = [u \in DOMAIN @ |-> IF u \in down THEN @[u] + 1 ELSE @[u]],
                              !.base = [s \in Side |-> @[s] + losses[s]]]
Total(wounds) == MapThenSumSet(LAMBDA v : wounds[v], DOMAIN wounds)

\* slip: the dead are hit again
SlipCaught(side, centre, radius) ==
  {v \in OnField : SideOfUnit(v) # side /\ Gap(centre, PlaceOf(v)) <= radius}
Caught(side, centre, radius) ==
  {v \in OnField : SideOfUnit(v) # side /\ IsAlive(v) /\ Gap(centre, PlaceOf(v)) <= radius}
AgainstUnit(amount, bonus, v) == IF units[v].kind = "mage" THEN amount * bonus ELSE amount

------------------------------------------------------------------------------------
(* Resolving a cast: one step per effect. *)

Effect == Head(cast.effects)
Resolving(kind) == /\ cast # NoCast /\ cast.effects # <<>> /\ Effect.kind = kind
                   /\ TroopsRest /\ UNCHANGED <<todo, stage, cooldown, mood, score, holders, pending>>
Done == cast' = [cast EXCEPT !.effects = Tail(@)]

CastDone == /\ cast # NoCast /\ cast.effects = <<>>
            /\ cast' = NoCast
            /\ UNCHANGED <<troopVars, stage, body, cooldown, mood, worldVars, told>>

Dash ==
  /\ Resolving("dash")
  /\ LET c == cast.caster
         step == Least(Effect.far, Distance(c, cast.target) - Effect.short)
         to == Towards(PlaceOf(c), PlaceOf(cast.target), step)
     IN  IF c = None \/ cast.target = None THEN UNCHANGED body /\ Done
         ELSE IF Card(c).emplaced \/ step <= 0 THEN UNCHANGED body /\ Done
         ELSE /\ body' = [body EXCEPT ![c].place = to]
              /\ cast' = [cast EXCEPT !.effects = Tail(@), !.origin = IF cast.follows THEN to ELSE @]
  /\ UNCHANGED <<hp, hazards, base, told>>

AreaDamage ==
  /\ Resolving("damage")
  /\ LET e == Effect
         foe == Opposing(cast.side)
         wounds == [v \in Caught(cast.side, cast.origin, e.radius) |-> AgainstUnit(e.amount, e.vsMage, v)]
         reaches == Gap(cast.origin, BasePlace[foe]) <= e.radius
         loss == IF reaches THEN Least(base[foe], e.amount * e.vsBase) ELSE 0
     IN  Strike(wounds, [NoLoss EXCEPT ![foe] = loss], cast.caster, Total(wounds))
  /\ Done
  /\ UNCHANGED hazards

\* A unit carries one burn: the stronger of the two on each axis.
Lit(burn, e) ==
  IF burn = None THEN [rate |-> e.rate, left |-> e.ticks, vsMage |-> e.vsMage]
  ELSE [rate |-> Most(burn.rate, e.rate), left |-> Most(burn.left, e.ticks),
        vsMage |-> Most(burn.vsMage, e.vsMage)]

Burn ==
  /\ Resolving("burn")
  /\ LET e == Effect
         caught == Caught(cast.side, cast.origin, e.radius)
         spread == IF e.spread <= 0 THEN {}
                   ELSE UNION {Caught(cast.side, PlaceOf(v), e.spread) : v \in caught}
     IN  body' = [u \in OnField |-> IF u \in caught \cup spread
                                    THEN [body[u] EXCEPT !.burn = Lit(@, e)] ELSE body[u]]
  /\ Done
  /\ UNCHANGED <<hp, hazards, base, told>>

BurningGround ==
  /\ Resolving("ground")
  /\ hazards' = Extend(hazards, Max(DOMAIN hazards \cup {0}) + 1,
                       [side |-> cast.side, centre |-> cast.origin, radius |-> Effect.radius,
                        rate |-> Effect.rate, left |-> Effect.ticks, vsMage |-> Effect.vsMage])
  /\ Done
  /\ UNCHANGED <<hp, body, base, told>>

PushedFrom(origin, p, d) == IF p = origin THEN p ELSE Clip(IF p > origin THEN p + d ELSE p - d)

Knockback ==
  /\ Resolving("knockback")
  /\ LET pushed == {v \in Caught(cast.side, cast.origin, Effect.radius) : ~Card(v).emplaced}
     IN  body' = [u \in OnField |->
                   IF u \in pushed
                   THEN [body[u] EXCEPT !.place = PushedFrom(cast.origin, @, Effect.distance)]
                   ELSE body[u]]
  /\ Done
  /\ UNCHANGED <<hp, hazards, base, told>>

EnergyRefill ==
  /\ Resolving("refill")
  /\ LET allies == {v \in Caught(Opposing(cast.side), cast.origin, Effect.radius) :
                      Card(v).ability # None /\ v # cast.caster}
     IN  body' = [u \in OnField |->
                   IF u \in allies THEN [body[u] EXCEPT !.energy = @ + Effect.amount] ELSE body[u]]
  /\ Done
  /\ UNCHANGED <<hp, hazards, base, told>>

ApplyEffect == Dash \/ AreaDamage \/ Burn \/ BurningGround \/ Knockback \/ EnergyRefill

------------------------------------------------------------------------------------
(* Combat: one swing each, in list order; who fell earlier in the tick does not swing. *)

SwingsAtBase(u) == /\ Pushing[units[u].troop]
                   /\ LET foe == Opposing(SideOfUnit(u))
                      IN  base[foe] > 0 /\ Gap(PlaceOf(u), BasePlace[foe]) <= Card(u).reach + Footprint

Cooling(u) == Most(0, cooldown[u] - 1)
Target(u) == Acquire(u, Card(u).reach)
MaySwing(u) == IsAlive(u) /\ Cooling(u) = 0
\* A retreating unit declines every target, the base included.
Strikes(u) == MaySwing(u) /\ Target(u) # None
Hammers(u) == MaySwing(u) /\ Target(u) = None /\ body[u].intent # "retreat" /\ SwingsAtBase(u)

Swing(u) ==
  /\ Turn("combat", u)
  /\ LET foe == Opposing(SideOfUnit(u))
         dealt == Least(Card(u).damage, base[foe])
     IN  \/ /\ Strikes(u)
            /\ Strike([v \in {Target(u)} |-> Card(u).damage], NoLoss, u, Card(u).damage)
         \/ /\ Hammers(u)
            /\ Strike(<<>>, [NoLoss EXCEPT ![foe] = dealt], u, dealt)
         \/ /\ ~Strikes(u) /\ ~Hammers(u)
            /\ UNCHANGED <<hp, base, body, told>>
  /\ cooldown' = [cooldown EXCEPT ![u] = IF Strikes(u) \/ Hammers(u) THEN Card(u).cooldown
                                         ELSE IF IsAlive(u) THEN Cooling(u) ELSE @]
  /\ UNCHANGED <<mood, hazards, score, holders, pending, cast>>

Fought == /\ Pass("combat", "statuses", DOMAIN hazards)
          /\ UNCHANGED <<hp, body, cooldown, mood, worldVars, cast, told>>

------------------------------------------------------------------------------------
(* Statuses: the ground burns one hazard after the other, then the burning burn. *)

BurnTheGround(n) ==
  /\ Turn("statuses", n)
  /\ LET h == hazards[n]
     IN  Strike([v \in Caught(h.side, h.centre, h.radius) |-> AgainstUnit(h.rate, h.vsMage, v)],
                NoLoss, None, 0)
  /\ UNCHANGED <<cooldown, mood, hazards, score, holders, pending, cast>>

GroundBurnt ==
  /\ Pass("statuses", "burning", {})
  /\ hazards' = [n \in {k \in DOMAIN hazards : hazards[k].left > 1} |->
                   [hazards[n] EXCEPT !.left = @ - 1]]
  /\ UNCHANGED <<hp, body, cooldown, mood, base, score, holders, pending, cast, told>>

Waning(burn) == IF burn.left <= 1 THEN None ELSE [burn EXCEPT !.left = @ - 1]

BurnTheBurning ==
  /\ Pass("burning", "scoring", {})
  /\ LET wounds == [u \in {v \in OnField : body[v].burn # None /\ IsAlive(v)} |->
                     AgainstUnit(body[u].burn.rate, body[u].burn.vsMage, u)]
         down == {u \in OnField : IF u \in DOMAIN wounds THEN wounds[u] >= hp[u] ELSE ~IsAlive(u)}
     IN  /\ hp' = [u \in OnField |-> IF u \in DOMAIN wounds THEN Left(hp[u], wounds[u]) ELSE hp[u]]
         /\ body' = [u \in OnField |->
              IF u \in DOMAIN wounds
              THEN [body[u] EXCEPT !.meters["taken"] = @ + wounds[u],
                                   !.burn = IF u \in down THEN None ELSE Waning(@)]
              ELSE [body[u] EXCEPT !.burn = None]]
         /\ told' = [told EXCEPT !.defeats = [u \in DOMAIN @ |->
              IF u \in down /\ u \in DOMAIN wounds THEN @[u] + 1 ELSE @[u]]]
  /\ UNCHANGED <<cooldown, mood, worldVars, cast>>

------------------------------------------------------------------------------------
(* Scoring: a zone pays the only side with a living mage on its hotspot. *)

Holder(z) ==
  LET inside == {SideOfUnit(u) : u \in {v \in OnField : /\ IsAlive(v) /\ units[v].kind = "mage"
                                                        /\ Hotspot[z][1] <= PlaceOf(v)
                                                        /\ PlaceOf(v) < Hotspot[z][2]}}
  IN  IF Cardinality(inside) = 1 THEN CHOOSE s \in Side : s \in inside ELSE None

Score ==
  /\ Pass("scoring", "over", {})
  /\ holders' = [z \in Zone |-> Holder(z)]
  /\ score' = [s \in Side |-> score[s] + MapThenSumSet(LAMBDA z : Points, {z \in Zone : Holder(z) = s})]
  /\ UNCHANGED <<hp, body, cooldown, mood, hazards, base, pending, cast, told>>

------------------------------------------------------------------------------------
(* The last two phases are Troops'; here is what they do to the rest. *)

Resummon == /\ Acting("over") /\ BeginResummon
            /\ UNCHANGED battleVars

RebuildTurn(m) ==
  /\ Rebuild(m)
  /\ IF newest' # newest
     THEN /\ body' = Extend(body, newest', Newcomer(PlaceOf(m)))
          /\ cooldown' = Extend(cooldown, newest', 0)
          /\ told' = [told EXCEPT !.defeats = Extend(@, newest', 0)]
     ELSE UNCHANGED <<body, cooldown, told>>
  /\ UNCHANGED <<stage, mood, worldVars, cast>>

Removal == /\ BeginRemoval
          /\ UNCHANGED battleVars
LeaveSlotTurn(u) == /\ LeaveSlot(u)
                    /\ UNCHANGED battleVars

\* Those who stay feel the losses of their own troop.
Losses(t) == Cardinality({u \in Fallen : units[u].troop = t})
SweepField ==
  /\ Sweep
  /\ body' = [u \in Staying |-> [body[u] EXCEPT !.meters["lost"] = @ + Losses(units[u].troop)]]
  /\ cooldown' = Restrict(cooldown, Staying)
  /\ told' = [told EXCEPT !.dissolved = @ \cup Dissolving]
  /\ UNCHANGED <<stage, mood, worldVars, cast>>

------------------------------------------------------------------------------------
\* BattleRunner.finished: nothing more happens.
Stopped == /\ phase = "rest" /\ (Finished \/ tick >= TickLimit)
           /\ UNCHANGED vars

Next ==
  \/ StartTick \/ Stopped
  \/ \E s \in Side, n \in DOMAIN Spells, p \in Spot : Inject(s, n, p)
  \/ Decide
  \/ (\E u \in todo : Move(u)) \/ Moved
  \/ Charge
  \/ LandSpell \/ SpellsLanded
  \/ (\E u \in todo : CastAbility(u)) \/ AbilitiesCast
  \/ ApplyEffect \/ CastDone
  \/ (\E u \in todo : Swing(u)) \/ Fought
  \/ (\E n \in todo : BurnTheGround(n)) \/ GroundBurnt \/ BurnTheBurning
  \/ Score
  \/ Resummon
  \/ \E m \in todo : RebuildTurn(m)
  \/ Removal
  \/ \E u \in todo : LeaveSlotTurn(u)
  \/ SweepField

Spec == Init /\ [][Next]_vars

------------------------------------------------------------------------------------
(* events.py, the stream a client plays the battle from: every unit that was ever on the *)
(* field is standing, was reported defeated once, or left with its dissolved troop, and  *)
(* never two of these; bases have lost exactly what was reported.                        *)
StreamAccountsForAll ==
  /\ \A u \in 1..newest :
       /\ told.defeats[u] = (IF u \in told.dissolved \/ (u \in OnField /\ IsAlive(u)) THEN 0 ELSE 1)
       /\ u \in told.dissolved => u \notin OnField
  /\ \A s \in Side : base[s] >= 0 /\ base[s] + told.base[s] = BaseHp

(* movement.py standoff_slack: walking takes no unit from outside its standoff of a  *)
(* living opponent to inside it, and blocking.py: nor from outside a barricade to    *)
(* inside it, or past it.                                                            *)
Crosses(p, q, at, radius) ==
  /\ Gap(p, at) >= radius
  /\ \/ Gap(q, at) < radius
     \/ p < at /\ q > at
     \/ p > at /\ q < at
WalkingKeepsOff ==
  [][stage = "movement" =>
       \A u \in OnField \cap DOMAIN body' : \A v \in Foes(u) :
         LET p == PlaceOf(u) q == body'[u].place IN
         /\ ~(Gap(p, PlaceOf(v)) > Standoff(u) /\ Gap(q, PlaceOf(v)) < Standoff(u))
         /\ Card(v).blocks > 0 => ~Crosses(p, q, PlaceOf(v), Card(v).blocks)]_vars

(* units.py:44, world.py is_resummonable: an emplacement is never resummoned. *)
EmplacementsStayDown ==
  [][\A u \in DOMAIN units' \ OnField : \A o \in OpeningOf(units'[u].troop) :
       SlotOf(Opening[o]) = SlotOf(units'[u]) => ~Opening[o].kit.emplaced]_vars
====================================================================================
