---------------------------------- MODULE Troops ----------------------------------
(***********************************************************************************)
(* The troops of one battle: who stands on the field, what the fallen leave behind *)
(* and how mages raise it again (sim/phases/resummon.py, sim/phases/removal.py     *)
(* over the lists of sim/world.py).                                                *)
(*                                                                                 *)
(* A unit is known by its number in world order: units are listed in the order     *)
(* they came, so walking world.units, a troop's mage_ids or its summon_ids is      *)
(* walking ascending numbers.  Whatever happens to units before the resummon phase *)
(* is the one step Fight: any of them may lose any amount of life.  Battle puts    *)
(* the real phases in its place.                                                   *)
(***********************************************************************************)
EXTENDS Integers, Sequences, FiniteSets, Functions, FiniteSetsExt

CONSTANTS
  Troop,    \* world.troops
  Type,     \* the names of the unit type catalog
  Station,  \* formation offsets
  Kit,      \* what a unit can do: the fields of Unit the troops do not read
  Opening,  \* the units create_world makes, in world order
  Catalog,  \* per type: kind, life and support capacity
  Pace,     \* per troop and mage type: ticks to rebuild one slot, 0 for never
  Bare      \* per type: the kit a rebuilt unit gets

Number == 1..Len(Opening)
Kind == {"mage", "summon"}
Unit == [troop : Troop, ordinal : Nat, kind : Kind, type : Type, station : Station, kit : Kit]

OpeningOf(t) == {u \in Number : Opening[u].troop = t}
MagesOf(t) == {u \in OpeningOf(t) : Opening[u].kind = "mage"}
Mage == UNION {MagesOf(t) : t \in Troop}
\* The places of troop t: one for each summon it opened with.
Slot == [type : Type, station : Station]
SlotOf(unit) == [type |-> unit.type, station |-> unit.station]
Slots(t) == {SlotOf(Opening[u]) : u \in OpeningOf(t) \ MagesOf(t)}

ASSUME OpeningAssumption ==
  /\ Opening \in Seq(Unit)
  /\ \A u, v \in Number : /\ Opening[u].troop = Opening[v].troop
                          /\ SlotOf(Opening[u]) = SlotOf(Opening[v]) \/ Opening[u].ordinal = Opening[v].ordinal
                          => u = v
  /\ \A u \in Number : Opening[u].ordinal < Cardinality(OpeningOf(Opening[u].troop))
  /\ \A t \in Troop : MagesOf(t) # {}
ASSUME CatalogAssumption ==
  /\ Catalog \in [Type -> [kind : Kind, life : Nat \ {0}, support : Nat]]
  /\ \A u \in Number : Opening[u].kind = Catalog[Opening[u].type].kind
  /\ Bare \in [Type -> Kit]
ASSUME PaceAssumption == Pace \in [Troop -> [Type -> Nat]]

VARIABLES
  tick,       \* world.tick
  phase,      \* "rest" between ticks; the phases before resummon are all "acting"
  todo,       \* the units whose turn in the phase is still to come
  units,      \* world.units: number -> unit
  hp,         \* number -> life left
  newest,     \* the number last given
  mageIds,    \* Troop.mage_ids
  summonIds,  \* Troop.summon_ids
  slots,      \* Troop.dispelled_slots, oldest first
  ordinals,   \* Troop.next_unit_ordinal
  timer,      \* per mage: resummon_remaining
  idleAt      \* history: per mage, the last tick on which it raised or had nothing to raise

fieldVars == <<units, newest, mageIds, summonIds>>
troopVars == <<tick, phase, todo, units, hp, newest, mageIds, summonIds, slots, ordinals, timer, idleAt>>

OnField == DOMAIN units
IsAlive(u) == hp[u] > 0
\* The unit whose turn it is: world order.
IsNext(u) == u \in todo /\ \A v \in todo : u <= v

TroopInit ==
  /\ tick = 0
  /\ phase = "rest"
  /\ todo = {}
  /\ units = [u \in Number |-> Opening[u]]
  /\ hp = [u \in Number |-> Catalog[Opening[u].type].life]
  /\ newest = Len(Opening)
  /\ mageIds = [t \in Troop |-> MagesOf(t)]
  /\ summonIds = [t \in Troop |-> OpeningOf(t) \ MagesOf(t)]
  /\ slots = [t \in Troop |-> <<>>]
  /\ ordinals = [t \in Troop |-> Cardinality(OpeningOf(t))]
  /\ timer = [m \in Mage |-> 0]
  /\ idleAt = [m \in Mage |-> 0]

------------------------------------------------------------------------------------
(* What the earlier phases may do to the troops. *)

Wounded == /\ hp' \in [OnField -> Nat]
           /\ \A u \in OnField : hp'[u] <= hp[u]

\* step_battle begins another tick.
NextTick == /\ phase = "rest"
            /\ phase' = "acting"
            /\ tick' = tick + 1
            /\ UNCHANGED <<todo, hp, fieldVars, slots, ordinals, timer, idleAt>>

Fight == /\ phase = "acting"
         /\ Wounded
         /\ UNCHANGED <<tick, phase, fieldVars, slots, ordinals, timer, idleAt>>

------------------------------------------------------------------------------------
(* The resummon phase. *)

Living(S) == {u \in S : IsAlive(u)}
Capacity(t) == MapThenSumSet(LAMBDA u : Catalog[units[u].type].support, Living(mageIds[t]))
PaceOf(m) == Pace[units[m].troop][units[m].type]
HasWork(t) == slots[t] # <<>> /\ Cardinality(Living(summonIds[t])) < Capacity(t)

BeginResummon ==
  /\ phase = "acting"
  /\ phase' = "resummon"
  /\ todo' = {m \in UNION {Living(mageIds[t]) : t \in Troop} : PaceOf(m) > 0}
  /\ UNCHANGED <<tick, hp, fieldVars, slots, ordinals, timer, idleAt>>

\* slip: a rebuilt unit is numbered by the size of its troop
SlipRefilled(t) == LET slot == Head(slots[t])
                   IN  [troop |-> t, ordinal |-> Cardinality(summonIds[t]), kind |-> Catalog[slot.type].kind,
                        type |-> slot.type, station |-> slot.station, kit |-> Bare[slot.type]]
Extend(f, x, v) == [y \in DOMAIN f \cup {x} |-> IF y = x THEN v ELSE f[y]]

\* A slot's unit as _refill builds it, fields it leaves to their defaults included.
Refilled(t) == LET slot == Head(slots[t])
               IN  [troop |-> t, ordinal |-> ordinals[t], kind |-> Catalog[slot.type].kind,
                    type |-> slot.type, station |-> slot.station, kit |-> Bare[slot.type]]

\* The turn of mage m; the timer is armed on the first tick of work if it stands at zero.
Armed(m) == (IF timer[m] <= 0 THEN PaceOf(m) ELSE timer[m]) - 1
\* slip: a tick early
SlipReady(m) == Armed(m) <= 1
Ready(m) == Armed(m) <= 0

StayIdle(m) ==
  /\ ~HasWork(units[m].troop)
  /\ timer' = [timer EXCEPT ![m] = PaceOf(m)]
  /\ idleAt' = [idleAt EXCEPT ![m] = tick]
  /\ UNCHANGED <<hp, fieldVars, slots, ordinals>>

CountDown(m) ==
  /\ HasWork(units[m].troop)
  /\ ~Ready(m)
  /\ timer' = [timer EXCEPT ![m] = Armed(m)]
  /\ UNCHANGED <<hp, fieldVars, slots, ordinals, idleAt>>

\* slip: the last slot is taken off the list instead of the one refilled
SlipRemaining(t) == SubSeq(slots[t], 1, Len(slots[t]) - 1)
Remaining(t) == Tail(slots[t])

Raise(m) ==
  LET t == units[m].troop
      new == newest + 1
  IN  /\ HasWork(t)
      /\ Ready(m)
      /\ newest' = new
      /\ units' = Extend(units, new, Refilled(t))
      /\ hp' = Extend(hp, new, Catalog[Head(slots[t]).type].life)
      /\ timer' = [timer EXCEPT ![m] = PaceOf(m)]
      /\ idleAt' = [idleAt EXCEPT ![m] = tick]
      /\ summonIds' = [summonIds EXCEPT ![t] = @ \cup {new}]
      /\ slots' = [slots EXCEPT ![t] = Remaining(t)]
      /\ ordinals' = [ordinals EXCEPT ![t] = @ + 1]
      /\ UNCHANGED mageIds

Rebuild(m) ==
  /\ phase = "resummon"
  /\ IsNext(m)
  /\ todo' = todo \ {m}
  /\ StayIdle(m) \/ CountDown(m) \/ Raise(m)
  /\ UNCHANGED <<tick, phase>>

------------------------------------------------------------------------------------
(* The removal phase. *)

Fallen == {u \in OnField : ~IsAlive(u)}

BeginRemoval ==
  /\ phase = "resummon" /\ todo = {}
  /\ phase' = "removal"
  /\ todo' = {u \in Fallen : units[u].kind = "summon"}
  /\ UNCHANGED <<tick, hp, fieldVars, slots, ordinals, timer, idleAt>>

\* The first pass: a fallen summon leaves its slot to its troop.
LeaveSlot(u) ==
  /\ phase = "removal"
  /\ IsNext(u)
  /\ todo' = todo \ {u}
  /\ slots' = [slots EXCEPT ![units[u].troop] = Append(@, SlotOf(units[u]))]
  /\ UNCHANGED <<tick, phase, hp, fieldVars, ordinals, timer, idleAt>>

\* The rest: the fallen leave the field and the lists, and a troop that has just
\* lost its last mage dissolves.
\* slip: looks for troops whose list is empty before the lists are pruned
SlipBereft == {t \in Troop : mageIds[t] = {}}
Bereft == {t \in Troop : mageIds[t] # {} /\ mageIds[t] \subseteq Fallen}
Dissolving == {u \in OnField \ Fallen : units[u].troop \in Bereft /\ units[u].kind = "summon"}
Staying == OnField \ (Fallen \cup Dissolving)

Sweep ==
  /\ phase = "removal" /\ todo = {}
  /\ phase' = "rest"
  /\ units' = Restrict(units, Staying)
  /\ hp' = Restrict(hp, Staying)
  /\ mageIds' = [t \in Troop |-> mageIds[t] \ Fallen]
  /\ summonIds' = [t \in Troop |-> summonIds[t] \ (Fallen \cup Dissolving)]
  /\ UNCHANGED <<tick, todo, newest, slots, ordinals, timer, idleAt>>

------------------------------------------------------------------------------------
TroopNext ==
  \/ NextTick \/ Fight
  \/ BeginResummon \/ \E m \in todo : Rebuild(m)
  \/ BeginRemoval \/ \E u \in todo : LeaveSlot(u)
  \/ Sweep

TroopSpec == TroopInit /\ [][TroopNext]_troopVars

------------------------------------------------------------------------------------
(* Types of the troops' variables: numbers, lists and timers stay what world.py declares. *)
TroopTypeOK ==
  /\ tick \in Nat /\ newest \in Nat
  /\ phase \in {"rest", "acting", "resummon", "removal"}
  /\ OnField \subseteq 1..newest /\ units \in [OnField -> Unit]
  /\ hp \in [OnField -> Nat]
  /\ mageIds \in [Troop -> SUBSET OnField] /\ summonIds \in [Troop -> SUBSET OnField]
  /\ slots \in [Troop -> Seq(Slot)]
  /\ ordinals \in [Troop -> Nat]
  /\ timer \in [Mage -> Nat] /\ idleAt \in [Mage -> Nat]

(* removal.py: the lists of a troop name exactly the units it has on the field. *)
ListsMatchField ==
  \A t \in Troop :
    /\ mageIds[t] = {u \in OnField : units[u].troop = t /\ units[u].kind = "mage"}
    /\ summonIds[t] = {u \in OnField : units[u].troop = t /\ units[u].kind = "summon"}

\* Who lives in slot s of troop t: a summon that has not left it to the troop yet.
Dwells(u, t, s) == /\ u \in summonIds[t] /\ SlotOf(units[u]) = s
                   /\ phase = "removal" /\ ~IsAlive(u) => u \in todo
Dispelled(i, t, s) == i \in DOMAIN slots[t] /\ slots[t][i] = s

\* The places of troop t, each lived in once or dispelled once.
Accounted(t) ==
  /\ \A u \in summonIds[t] : SlotOf(units[u]) \in Slots(t)
  /\ \A i \in DOMAIN slots[t] : slots[t][i] \in Slots(t)
  /\ \A s \in Slots(t) :
       /\ \A u, v \in summonIds[t] : Dwells(u, t, s) /\ Dwells(v, t, s) => u = v
       /\ \A i, j \in DOMAIN slots[t] : Dispelled(i, t, s) /\ Dispelled(j, t, s) => i = j
       /\ ~ \E u \in summonIds[t], i \in DOMAIN slots[t] : Dwells(u, t, s) /\ Dispelled(i, t, s)
       /\ mageIds[t] # {} => \/ \E u \in summonIds[t] : Dwells(u, t, s)
                             \/ \E i \in DOMAIN slots[t] : Dispelled(i, t, s)

(* Conservation of slots (resummon.py, removal.py, design doc 4.5): every place a troop *)
(* opened with is lived in once or dispelled once, never both and never twice, and none *)
(* is lost while the troop has a mage on its list.  No other place ever comes up.       *)
SlotsAccounted == \A t \in Troop : Accounted(t)

(* The troop bond (removal.py _dissolve, design doc 4.6): a summon is on the field only *)
(* while its own troop has a mage; and between ticks everybody on the field lives.      *)
BondHolds ==
  /\ \A u \in OnField : units[u].kind = "summon" => mageIds[units[u].troop] # {}
  /\ phase = "rest" => \A u \in OnField : IsAlive(u)

(* world.py Troop.next_unit_ordinal: a rebuilt summon never takes an id that is in use or *)
(* was used before.                                                                       *)
IdsAreFresh ==
  \A u, v \in OnField : /\ units[u].ordinal < ordinals[units[u].troop]
                        /\ units[u].troop = units[v].troop /\ units[u].ordinal = units[v].ordinal => u = v

(* resummon.py "every N seconds": a mage raises one unit, exactly its pace after it last *)
(* raised or last had nothing to raise.  In particular nobody returns on the tick it     *)
(* fell, and an idle mage banks no time.                                                 *)
RebuildsKeepPace ==
  [][newest' # newest => \E m \in todo \ todo' : /\ IsAlive(m)
                                                /\ newest' = newest + 1
                                                /\ tick = idleAt[m] + PaceOf(m)]_troopVars

------------------------------------------------------------------------------------
(* What the above rests on. *)

\* Kinds come from the catalog; only opening mages are mages; whose turn it is.
TurnsInOrder ==
  /\ \A u \in OnField : /\ units[u].kind = Catalog[units[u].type].kind
                        /\ units[u].kind = "mage" => u \in Mage
  /\ phase # "rest" => tick >= 1
  /\ phase = "resummon" => \A m \in todo : m \in OnField /\ units[m].kind = "mage" /\ IsAlive(m) /\ PaceOf(m) > 0
  /\ phase = "removal" => \A u \in todo : u \in OnField /\ units[u].kind = "summon" /\ ~IsAlive(u)

\* The last tick on which m had its turn.
LastTurn(m) == IF phase \in {"rest", "removal"} \/ (phase = "resummon" /\ m \notin todo) THEN tick ELSE tick - 1
\* A mage's timer stands at its pace less the turns since it was idle, but before its first turn.
TimersRun ==
  \A m \in OnField :
    units[m].kind = "mage" /\ IsAlive(m) /\ PaceOf(m) > 0 =>
      \/ timer[m] >= 1 /\ timer[m] = PaceOf(m) - (LastTurn(m) - idleAt[m])
      \/ LastTurn(m) = 0 /\ timer[m] = 0 /\ slots[units[m].troop] = <<>>

(* The inductive invariant of the troops: lists, ids, slots, the bond and the timers together. *)
TroopInv == TroopTypeOK /\ ListsMatchField /\ IdsAreFresh /\ SlotsAccounted /\ BondHolds
            /\ TurnsInOrder /\ TimersRun
====================================================================================
