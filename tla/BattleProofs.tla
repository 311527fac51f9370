------------------------------- MODULE BattleProofs -------------------------------
(***********************************************************************************)
(* What is proved of a battle, for any opening, catalog, pace, lane and moods.     *)
(* First the troops by themselves: TroopInv is inductive over TroopNext.  Then the *)
(* phases of the battle, one lemma each: a step of it is a step of the troops and  *)
(* keeps the shape of the world and the stream's accounts.  Last, the theorems.    *)
(***********************************************************************************)
EXTENDS Battle, FiniteSetTheorems, SequenceTheorems, WellFoundedInduction, TLAPS

------------------------------------------------------------------------------------
(* What the assumptions give. *)

LEMMA OpeningFacts ==
  /\ Len(Opening) \in Nat
  /\ \A u \in Number : /\ Opening[u] \in Unit
                       /\ Opening[u].troop \in Troop /\ Opening[u].ordinal \in Nat
                       /\ Opening[u].type \in Type /\ Opening[u].kind \in Kind
                       /\ SlotOf(Opening[u]) \in Slot
                       /\ Opening[u].kind = Catalog[Opening[u].type].kind
<1>1. Opening \in Seq(Unit)
  BY OpeningAssumption
<1>2. Len(Opening) \in Nat /\ \A u \in Number : Opening[u] \in Unit
  BY <1>1 DEF Number
<1> QED BY <1>2, CatalogAssumption DEF Unit, SlotOf, Slot

LEMMA OpeningSize == \A t \in Troop : Cardinality(OpeningOf(t)) \in Nat
<1> TAKE t \in Troop
<1>1. IsFiniteSet(1..Len(Opening))
  BY FS_Interval, OpeningFacts
<1>2. OpeningOf(t) \subseteq 1..Len(Opening)
  BY DEF OpeningOf, Number
<1> QED BY <1>1, <1>2, FS_Subset, FS_CardinalityType

LEMMA CatalogFacts ==
  \A ty \in Type : /\ Catalog[ty].kind \in Kind
                   /\ Catalog[ty].life \in Nat /\ Catalog[ty].life > 0
                   /\ Bare[ty] \in Kit
BY CatalogAssumption

(* A place is one a summon opened at. *)
LEMMA SlotFacts ==
  ASSUME NEW t \in Troop, NEW s \in Slots(t)
  PROVE  /\ s \in Slot /\ s.type \in Type /\ s.station \in Station
         /\ s = [type |-> s.type, station |-> s.station]
         /\ Catalog[s.type].kind = "summon"
<1>1. PICK u \in OpeningOf(t) \ MagesOf(t) : s = SlotOf(Opening[u])
  BY DEF Slots
<1>2. u \in Number /\ Opening[u].kind = "summon"
  BY <1>1, OpeningFacts DEF OpeningOf, MagesOf, Kind
<1>3. s \in Slot /\ s.type = Opening[u].type
  BY <1>1, <1>2, OpeningFacts DEF SlotOf
<1> QED BY <1>2, <1>3, OpeningFacts DEF Slot

------------------------------------------------------------------------------------
(* Facts of a state. *)

LEMMA StateFacts ==
  ASSUME TroopTypeOK, ListsMatchField
  PROVE  /\ \A u \in OnField : /\ units[u] \in Unit /\ hp[u] \in Nat
                               /\ units[u].troop \in Troop /\ units[u].type \in Type
                               /\ units[u].kind \in Kind /\ units[u].ordinal \in Nat
                               /\ PaceOf(u) \in Nat
                               /\ u \in Nat /\ u <= newest
         /\ \A t \in Troop : mageIds[t] \subseteq OnField /\ summonIds[t] \subseteq OnField
         /\ \A t \in Troop : \A u \in mageIds[t] : units[u].troop = t /\ units[u].kind = "mage"
         /\ \A t \in Troop : \A u \in summonIds[t] : units[u].troop = t /\ units[u].kind = "summon"
<1>1. \A u \in OnField : units[u] \in Unit /\ hp[u] \in Nat /\ u \in 1..newest
  BY DEF TroopTypeOK
<1>2. \A u \in OnField : units[u].troop \in Troop /\ units[u].type \in Type
                         /\ units[u].kind \in Kind /\ units[u].ordinal \in Nat
  BY <1>1 DEF Unit
<1>3. \A u \in OnField : PaceOf(u) \in Nat
  BY <1>2, PaceAssumption DEF PaceOf
<1> QED BY <1>1, <1>2, <1>3 DEF TroopTypeOK, ListsMatchField

------------------------------------------------------------------------------------
(* The opening. *)

LEMMA InitEstablishes == TroopInit => TroopInv
<1> SUFFICES ASSUME TroopInit PROVE TroopInv
  OBVIOUS
<1>0. OnField = Number /\ newest = Len(Opening) /\ phase = "rest"
      /\ \A u \in Number : units[u] = Opening[u]
  BY DEF TroopInit, OnField
<1>1. TroopTypeOK
  <2>1. Number \subseteq 1..newest /\ newest \in Nat
    BY <1>0, OpeningFacts DEF Number
  <2>2. units \in [Number -> Unit]
    BY OpeningFacts DEF TroopInit
  <2>3. hp \in [Number -> Nat]
    BY OpeningFacts, CatalogFacts DEF TroopInit
  <2>4. mageIds \in [Troop -> SUBSET Number] /\ summonIds \in [Troop -> SUBSET Number]
    BY DEF TroopInit, MagesOf, OpeningOf
  <2>5. ordinals \in [Troop -> Nat]
    BY OpeningSize DEF TroopInit
  <2>6. slots \in [Troop -> Seq(Slot)]
    BY DEF TroopInit
  <2> QED BY <1>0, <2>1, <2>2, <2>3, <2>4, <2>5, <2>6 DEF TroopInit, TroopTypeOK
<1>2. ListsMatchField
  BY <1>0, OpeningFacts DEF TroopInit, ListsMatchField, MagesOf, OpeningOf, Kind
<1>3. IdsAreFresh
  <2>1. \A u \in Number : Opening[u].ordinal < Cardinality(OpeningOf(Opening[u].troop))
    BY OpeningAssumption
  <2>2. \A u, v \in Number : Opening[u].troop = Opening[v].troop
                             /\ Opening[u].ordinal = Opening[v].ordinal => u = v
    BY OpeningAssumption
  <2> QED BY <1>0, <2>1, <2>2, OpeningFacts DEF TroopInit, IdsAreFresh
<1>4. SlotsAccounted
  <2> SUFFICES ASSUME NEW t \in Troop PROVE Accounted(t)
    BY DEF SlotsAccounted
  <2>1. slots[t] = <<>> /\ DOMAIN slots[t] = {} /\ summonIds[t] = OpeningOf(t) \ MagesOf(t)
    BY DEF TroopInit
  <2>2. \A u \in summonIds[t] : /\ u \in Number /\ units[u] = Opening[u] /\ Opening[u].troop = t
                                /\ SlotOf(units[u]) \in Slots(t)
    BY <1>0, <2>1 DEF Slots, OpeningOf
  <2>3. \A u, v \in summonIds[t] : SlotOf(units[u]) = SlotOf(units[v]) => u = v
    BY <2>2, OpeningAssumption
  <2>4. \A s \in Slots(t) : \E u \in summonIds[t] : SlotOf(units[u]) = s
    BY <2>1, <2>2 DEF Slots
  <2>5. \A u \in summonIds[t], s \in Slots(t) : Dwells(u, t, s) <=> SlotOf(units[u]) = s
    BY <1>0 DEF Dwells
  <2> QED BY <2>1, <2>2, <2>3, <2>4, <2>5 DEF Dispelled, Accounted
<1>5. BondHolds
  <2>1. \A t \in Troop : mageIds[t] # {}
    BY OpeningAssumption DEF TroopInit
  <2> QED BY <1>0, <2>1, OpeningFacts, CatalogFacts DEF BondHolds, TroopInit, IsAlive
<1>6. TurnsInOrder
  <2>1. \A u \in Number : Opening[u].kind = "mage" => u \in Mage
    BY OpeningFacts DEF Mage, MagesOf, OpeningOf
  <2> QED BY <1>0, <2>1, OpeningFacts DEF TurnsInOrder
<1>7. TimersRun
  <2> SUFFICES ASSUME NEW m \in OnField, units[m].kind = "mage"
               PROVE  LastTurn(m) = 0 /\ timer[m] = 0 /\ slots[units[m].troop] = <<>>
    BY DEF TimersRun
  <2>1. m \in Mage
    BY <1>0, <1>6 DEF TurnsInOrder
  <2> QED BY <1>0, <2>1, OpeningFacts DEF TroopInit, LastTurn
<1> QED BY <1>1, <1>2, <1>3, <1>4, <1>5, <1>6, <1>7 DEF TroopInv

------------------------------------------------------------------------------------
(* Steps that touch neither the field nor the slots: only whose turn it is, the     *)
(* clocks and the life of units change.                                             *)

(* Who is on which list, under which id, does not change with them. *)
LEMMA FieldUnchanged ==
  ASSUME TroopInv, UNCHANGED <<fieldVars, slots, ordinals>>,
         hp' \in [OnField -> Nat], tick' \in Nat, phase' \in {"rest", "acting", "resummon", "removal"},
         timer' \in [Mage -> Nat], idleAt' \in [Mage -> Nat]
  PROVE  /\ OnField' = OnField
         /\ TroopTypeOK' /\ ListsMatchField' /\ IdsAreFresh'
         /\ \A u : PaceOf(u)' = PaceOf(u)
<1> USE DEF fieldVars
<1>1. OnField' = OnField
  BY DEF OnField
<1>2. TroopTypeOK'
  BY <1>1 DEF TroopInv, TroopTypeOK
<1>3. ListsMatchField'
  BY <1>1 DEF TroopInv, ListsMatchField
<1>4. IdsAreFresh'
  BY <1>1 DEF TroopInv, IdsAreFresh
<1>5. \A u : PaceOf(u)' = PaceOf(u)
  BY DEF PaceOf
<1> QED BY <1>1, <1>2, <1>3, <1>4, <1>5

(* The accounts stand as long as the same summons dwell. *)
LEMMA AccountsUnchanged ==
  ASSUME TroopInv, UNCHANGED <<fieldVars, slots>>,
         \A t \in Troop : \A u \in summonIds[t] : \A s \in Slots(t) : Dwells(u, t, s)' <=> Dwells(u, t, s)
  PROVE  SlotsAccounted'
<1> USE DEF fieldVars
<1> SUFFICES ASSUME NEW t \in Troop PROVE Accounted(t)'
  BY DEF SlotsAccounted
<1>1. Accounted(t)
  BY DEF TroopInv, SlotsAccounted
<1>2. \A i, s : Dispelled(i, t, s)' <=> Dispelled(i, t, s)
  BY DEF Dispelled
<1>3. \A u \in summonIds'[t] : SlotOf(units'[u]) \in Slots(t)
  BY <1>1 DEF Accounted
<1>4. \A i \in DOMAIN slots'[t] : slots'[t][i] \in Slots(t)
  BY <1>1 DEF Accounted
<1>5. ASSUME NEW s \in Slots(t)
      PROVE  /\ \A u, v \in summonIds'[t] : Dwells(u, t, s)' /\ Dwells(v, t, s)' => u = v
             /\ \A i, j \in DOMAIN slots'[t] : Dispelled(i, t, s)' /\ Dispelled(j, t, s)' => i = j
             /\ ~ \E u \in summonIds'[t], i \in DOMAIN slots'[t] : Dwells(u, t, s)' /\ Dispelled(i, t, s)'
             /\ mageIds'[t] # {} => \/ \E u \in summonIds'[t] : Dwells(u, t, s)'
                                    \/ \E i \in DOMAIN slots'[t] : Dispelled(i, t, s)'
  BY <1>1, <1>2 DEF Accounted
<1> QED BY <1>3, <1>4, <1>5 DEF Accounted

LEMMA NextTickPreserves == TroopInv /\ NextTick => TroopInv'
<1> SUFFICES ASSUME TroopInv, NextTick PROVE TroopInv'
  OBVIOUS
<1> USE DEF NextTick, fieldVars
<1>0. TroopTypeOK /\ ListsMatchField
  BY DEF TroopInv
<1>1. OnField' = OnField /\ TroopTypeOK' /\ ListsMatchField' /\ IdsAreFresh' /\ \A u : PaceOf(u)' = PaceOf(u)
  BY <1>0, FieldUnchanged DEF TroopTypeOK
<1>2. SlotsAccounted'
  BY AccountsUnchanged DEF Dwells
<1>3. BondHolds'
  BY <1>1 DEF TroopInv, BondHolds
<1>4. TurnsInOrder'
  BY <1>0, <1>1 DEF TroopInv, TurnsInOrder, TroopTypeOK
<1>5. \A m : LastTurn(m)' = LastTurn(m)
  BY <1>0 DEF LastTurn, TroopTypeOK
<1>6. TimersRun'
  BY <1>1, <1>5 DEF TroopInv, TimersRun, IsAlive
<1> QED BY <1>1, <1>2, <1>3, <1>4, <1>6 DEF TroopInv

LEMMA FightPreserves == TroopInv /\ Fight => TroopInv'
<1> SUFFICES ASSUME TroopInv, Fight PROVE TroopInv'
  OBVIOUS
<1> USE DEF Fight, fieldVars
<1>0. TroopTypeOK /\ ListsMatchField
  BY DEF TroopInv
<1>1. OnField' = OnField /\ TroopTypeOK' /\ ListsMatchField' /\ IdsAreFresh' /\ \A u : PaceOf(u)' = PaceOf(u)
  BY <1>0, FieldUnchanged DEF TroopTypeOK, Wounded
<1>2. SlotsAccounted'
  BY AccountsUnchanged DEF Dwells
<1>3. BondHolds'
  BY <1>1 DEF TroopInv, BondHolds
<1>4. TurnsInOrder'
  BY <1>0, <1>1 DEF TroopInv, TurnsInOrder, TroopTypeOK
<1>5. \A u \in OnField : IsAlive(u)' => IsAlive(u)
  BY <1>0, <1>1 DEF Wounded, IsAlive, TroopTypeOK
<1>6. \A m : LastTurn(m)' = LastTurn(m)
  BY DEF LastTurn
<1>7. TimersRun'
  BY <1>1, <1>5, <1>6 DEF TroopInv, TimersRun
<1> QED BY <1>1, <1>2, <1>3, <1>4, <1>7 DEF TroopInv

LEMMA BeginResummonPreserves == TroopInv /\ BeginResummon => TroopInv'
<1> SUFFICES ASSUME TroopInv, BeginResummon PROVE TroopInv'
  OBVIOUS
<1> USE DEF BeginResummon, fieldVars
<1>0. TroopTypeOK /\ ListsMatchField
  BY DEF TroopInv
<1>1. OnField' = OnField /\ TroopTypeOK' /\ ListsMatchField' /\ IdsAreFresh' /\ \A u : PaceOf(u)' = PaceOf(u)
  BY <1>0, FieldUnchanged DEF TroopTypeOK
<1>2. SlotsAccounted'
  BY AccountsUnchanged DEF Dwells
<1>3. BondHolds'
  BY <1>1 DEF TroopInv, BondHolds
<1>4. \A u : IsAlive(u)' <=> IsAlive(u)
  BY DEF IsAlive
<1>5. \A m \in todo' : m \in OnField /\ units[m].kind = "mage" /\ IsAlive(m) /\ PaceOf(m) > 0
  BY <1>0, StateFacts DEF Living
<1>6. TurnsInOrder'
  BY <1>0, <1>1, <1>4, <1>5 DEF TroopInv, TurnsInOrder, TroopTypeOK
<1>7. \A m \in OnField : units[m].kind = "mage" /\ IsAlive(m) /\ PaceOf(m) > 0 => m \in todo'
  BY <1>0, StateFacts DEF Living, ListsMatchField
<1>8. \A m \in todo' : LastTurn(m)' = LastTurn(m)
  BY DEF LastTurn
<1>9. TimersRun'
  BY <1>1, <1>4, <1>7, <1>8 DEF TroopInv, TimersRun
<1> QED BY <1>1, <1>2, <1>3, <1>6, <1>9 DEF TroopInv

LEMMA BeginRemovalPreserves == TroopInv /\ BeginRemoval => TroopInv'
<1> SUFFICES ASSUME TroopInv, BeginRemoval PROVE TroopInv'
  OBVIOUS
<1> USE DEF BeginRemoval, fieldVars
<1>0. TroopTypeOK /\ ListsMatchField
  BY DEF TroopInv
<1>1. OnField' = OnField /\ TroopTypeOK' /\ ListsMatchField' /\ IdsAreFresh' /\ \A u : PaceOf(u)' = PaceOf(u)
  BY <1>0, FieldUnchanged DEF TroopTypeOK
<1>2. \A u : IsAlive(u)' <=> IsAlive(u)
  BY DEF IsAlive
<1>3. \A t \in Troop : \A u \in summonIds[t] : ~IsAlive(u) => u \in todo'
  BY <1>0, StateFacts DEF Fallen
<1>4. SlotsAccounted'
  BY <1>2, <1>3, AccountsUnchanged DEF Dwells
<1>5. BondHolds'
  BY <1>1 DEF TroopInv, BondHolds
<1>6. TurnsInOrder'
  BY <1>0, <1>1, <1>2 DEF TroopInv, TurnsInOrder, TroopTypeOK, Fallen
<1>7. \A m : LastTurn(m)' = LastTurn(m)
  BY DEF LastTurn
<1>8. TimersRun'
  BY <1>1, <1>2, <1>7 DEF TroopInv, TimersRun
<1> QED BY <1>1, <1>4, <1>5, <1>6, <1>8 DEF TroopInv

------------------------------------------------------------------------------------
(* A mage's turn in the resummon phase. *)

(* Whose turn it is, and what its timer says. *)
LEMMA TurnFacts ==
  ASSUME TroopInv, phase = "resummon", NEW m \in todo
  PROVE  /\ m \in OnField /\ m \in Mage /\ units[m].kind = "mage" /\ IsAlive(m)
         /\ units[m].troop \in Troop
         /\ PaceOf(m) \in Nat /\ PaceOf(m) > 0
         /\ tick \in Nat /\ tick >= 1 /\ idleAt[m] \in Nat /\ timer[m] \in Nat
         /\ HasWork(units[m].troop) =>
              /\ Armed(m) \in Nat
              /\ Armed(m) = PaceOf(m) - (tick - idleAt[m])
<1>0. TroopTypeOK /\ ListsMatchField /\ TurnsInOrder /\ TimersRun
  BY DEF TroopInv
<1>1. m \in OnField /\ units[m].kind = "mage" /\ IsAlive(m) /\ PaceOf(m) > 0 /\ m \in Mage
  BY <1>0 DEF TurnsInOrder
<1>2. PaceOf(m) \in Nat /\ units[m].troop \in Troop
  BY <1>0, <1>1, StateFacts
<1>3. tick \in Nat /\ tick >= 1 /\ idleAt[m] \in Nat /\ timer[m] \in Nat
  BY <1>0, <1>1 DEF TroopTypeOK, TurnsInOrder
<1>4. LastTurn(m) = tick - 1
  BY DEF LastTurn
<1>5. ASSUME HasWork(units[m].troop)
      PROVE  Armed(m) \in Nat /\ Armed(m) = PaceOf(m) - (tick - idleAt[m])
  <2>1. slots[units[m].troop] # <<>>
    BY <1>5 DEF HasWork
  <2>2. timer[m] >= 1 /\ timer[m] = PaceOf(m) - ((tick - 1) - idleAt[m])
    BY <1>0, <1>1, <1>4, <2>1 DEF TimersRun
  <2> QED BY <1>2, <1>3, <2>2 DEF Armed
<1> QED BY <1>1, <1>2, <1>3, <1>5

(* A mage that has had its turn without raising anybody. *)
LEMMA WaitPreserves ==
  ASSUME TroopInv, phase = "resummon", NEW m \in todo,
         todo' = todo \ {m}, UNCHANGED <<tick, phase, hp, fieldVars, slots, ordinals>>,
         timer' \in [Mage -> Nat], idleAt' \in [Mage -> Nat],
         \A n \in Mage \ {m} : timer'[n] = timer[n] /\ idleAt'[n] = idleAt[n],
         timer'[m] >= 1, timer'[m] = PaceOf(m) - (tick - idleAt'[m])
  PROVE  TroopInv'
<1> USE DEF fieldVars
<1>0. TroopTypeOK /\ ListsMatchField /\ TurnsInOrder
  BY DEF TroopInv
<1>1. OnField' = OnField /\ TroopTypeOK' /\ ListsMatchField' /\ IdsAreFresh' /\ \A u : PaceOf(u)' = PaceOf(u)
  BY <1>0, FieldUnchanged DEF TroopTypeOK
<1>2. \A u : IsAlive(u)' <=> IsAlive(u)
  BY DEF IsAlive
<1>3. SlotsAccounted'
  BY AccountsUnchanged DEF Dwells
<1>4. BondHolds'
  BY <1>1 DEF TroopInv, BondHolds
<1>5. TurnsInOrder'
  BY <1>0, <1>1, <1>2 DEF TurnsInOrder
<1>6. TimersRun'
  <2> SUFFICES ASSUME NEW n \in OnField, units[n].kind = "mage", IsAlive(n), PaceOf(n) > 0
               PROVE  \/ timer'[n] >= 1 /\ timer'[n] = PaceOf(n) - (LastTurn(n)' - idleAt'[n])
                      \/ LastTurn(n)' = 0 /\ timer'[n] = 0 /\ slots[units[n].troop] = <<>>
    BY <1>1, <1>2 DEF TimersRun
  <2>1. CASE n = m
    <3>1. LastTurn(n)' = tick
      BY <2>1 DEF LastTurn
    <3> QED BY <2>1, <3>1
  <2>2. CASE n # m
    <3>1. LastTurn(n)' = LastTurn(n)
      BY <2>2 DEF LastTurn
    <3>2. n \in Mage
      BY <1>0 DEF TurnsInOrder
    <3> QED BY <2>2, <3>1, <3>2 DEF TroopInv, TimersRun
  <2> QED BY <2>1, <2>2
<1> QED BY <1>1, <1>3, <1>4, <1>5, <1>6 DEF TroopInv

LEMMA StayIdlePreserves ==
  ASSUME TroopInv, NEW m \in todo, phase = "resummon", todo' = todo \ {m}, UNCHANGED <<tick, phase>>,
         StayIdle(m)
  PROVE  TroopInv'
<1> USE DEF StayIdle
<1>1. m \in Mage /\ PaceOf(m) \in Nat /\ PaceOf(m) > 0 /\ tick \in Nat
  BY TurnFacts
<1>2. timer \in [Mage -> Nat] /\ idleAt \in [Mage -> Nat]
  BY DEF TroopInv, TroopTypeOK
<1>3. timer' \in [Mage -> Nat] /\ idleAt' \in [Mage -> Nat]
  BY <1>1, <1>2
<1>4. \A n \in Mage \ {m} : timer'[n] = timer[n] /\ idleAt'[n] = idleAt[n]
  BY <1>2
<1>5. timer'[m] = PaceOf(m) /\ idleAt'[m] = tick
  BY <1>1, <1>2
<1>6. timer'[m] >= 1 /\ timer'[m] = PaceOf(m) - (tick - idleAt'[m])
  BY <1>1, <1>5
<1> QED BY <1>3, <1>4, <1>6, WaitPreserves DEF fieldVars

LEMMA CountDownPreserves ==
  ASSUME TroopInv, NEW m \in todo, phase = "resummon", todo' = todo \ {m}, UNCHANGED <<tick, phase>>,
         CountDown(m)
  PROVE  TroopInv'
<1> USE DEF CountDown
<1>1. /\ m \in Mage /\ PaceOf(m) \in Nat /\ tick \in Nat /\ idleAt[m] \in Nat
      /\ Armed(m) \in Nat /\ Armed(m) = PaceOf(m) - (tick - idleAt[m])
  BY TurnFacts
<1>2. timer \in [Mage -> Nat] /\ idleAt \in [Mage -> Nat]
  BY DEF TroopInv, TroopTypeOK
<1>3. timer' \in [Mage -> Nat] /\ timer'[m] = Armed(m)
  BY <1>1, <1>2
<1>4. \A n \in Mage \ {m} : timer'[n] = timer[n] /\ idleAt'[n] = idleAt[n]
  BY <1>2
<1>5. Armed(m) >= 1
  BY <1>1 DEF Ready
<1> QED BY <1>1, <1>2, <1>3, <1>4, <1>5, WaitPreserves DEF fieldVars

(* Taking the first of a sequence off. *)
LEMMA TailFacts ==
  ASSUME NEW S, NEW q \in Seq(S), q # <<>>
  PROVE  /\ Head(q) \in S /\ Head(q) = q[1] /\ 1 \in DOMAIN q
         /\ Tail(q) \in Seq(S)
         /\ \A i \in DOMAIN Tail(q) : i \in Nat /\ i + 1 \in DOMAIN q /\ Tail(q)[i] = q[i + 1]
         /\ \A i \in DOMAIN q : i # 1 => i \in Nat /\ i - 1 \in DOMAIN Tail(q) /\ Tail(q)[i - 1] = q[i]
<1>1. Len(q) \in Nat /\ Len(q) >= 1 /\ DOMAIN q = 1..Len(q)
  OBVIOUS
<1>2. Tail(q) \in Seq(S) /\ Len(Tail(q)) = Len(q) - 1 /\ DOMAIN Tail(q) = 1..(Len(q) - 1)
  BY <1>1
<1>3. \A i \in 1..(Len(q) - 1) : Tail(q)[i] = q[i + 1]
  BY <1>1
<1> QED BY <1>1, <1>2, <1>3

LEMMA RaisePreserves ==
  ASSUME TroopInv, NEW m \in todo, phase = "resummon", todo' = todo \ {m}, UNCHANGED <<tick, phase>>,
         Raise(m)
  PROVE  TroopInv'
<1>t. PICK t : t = units[m].troop
  OBVIOUS
<1>n. PICK new : new = newest + 1
  OBVIOUS
<1>r. PICK raised : raised = Refilled(t)
  OBVIOUS
<1>s. PICK slot : slot = Head(slots[t])
  OBVIOUS
<1>0. /\ TroopTypeOK /\ ListsMatchField /\ IdsAreFresh /\ SlotsAccounted /\ BondHolds
      /\ TurnsInOrder /\ TimersRun
  BY DEF TroopInv
<1>1. /\ m \in OnField /\ m \in Mage /\ units[m].kind = "mage" /\ t \in Troop
      /\ PaceOf(m) \in Nat /\ PaceOf(m) > 0 /\ tick \in Nat
  BY <1>t, TurnFacts
<1>2. /\ slots[t] \in Seq(Slot) /\ slots[t] # <<>> /\ newest \in Nat
      /\ ordinals[t] \in Nat
  BY <1>0, <1>1, <1>t DEF TroopTypeOK, Raise, HasWork
<1>3. slot \in Slots(t) /\ slot \in Slot /\ slot.type \in Type /\ slot.station \in Station
      /\ slot = [type |-> slot.type, station |-> slot.station] /\ Catalog[slot.type].kind = "summon"
  <2>1. slot = slots[t][1] /\ 1 \in DOMAIN slots[t]
    BY <1>2, <1>s, TailFacts
  <2>2. slot \in Slots(t)
    BY <1>0, <1>1, <2>1 DEF SlotsAccounted, Accounted
  <2> QED BY <1>1, <2>2, SlotFacts
<1>4. /\ raised \in Unit /\ raised.troop = t /\ raised.kind = "summon" /\ raised.ordinal = ordinals[t]
      /\ raised.type = slot.type /\ SlotOf(raised) = slot
  BY <1>1, <1>2, <1>3, <1>r, <1>s, CatalogFacts DEF Refilled, Unit, Kind, SlotOf
<1>5. Catalog[slot.type].life \in Nat /\ Catalog[slot.type].life > 0
  BY <1>3, CatalogFacts
<1>6. /\ new \in Nat /\ new \notin OnField /\ newest' = new
      /\ \A u \in OnField : u # new
  BY <1>0, <1>2, <1>t, <1>n DEF TroopTypeOK, Raise
<1>7. /\ OnField' = OnField \cup {new}
      /\ units'[new] = raised
      /\ \A u \in OnField : units'[u] = units[u]
      /\ units' \in [OnField \cup {new} -> Unit]
  <2>1. units' = Extend(units, new, raised)
    BY <1>t, <1>n, <1>r DEF Raise
  <2>2. units \in [DOMAIN units -> Unit]
    BY <1>0 DEF TroopTypeOK, OnField
  <2>3. /\ DOMAIN units' = DOMAIN units \cup {new}
        /\ units'[new] = raised
        /\ \A u \in DOMAIN units : u # new => units'[u] = units[u]
        /\ units' \in [DOMAIN units \cup {new} -> Unit]
    BY <1>4, <2>1, <2>2 DEF Extend
  <2> QED BY <1>6, <2>3 DEF OnField
<1>8. /\ hp' \in [OnField \cup {new} -> Nat] /\ hp'[new] > 0
      /\ \A u \in OnField : hp'[u] = hp[u]
  <2>1. hp' = Extend(hp, new, Catalog[slot.type].life)
    BY <1>t, <1>n, <1>s DEF Raise
  <2>2. hp \in [OnField -> Nat] /\ DOMAIN hp = OnField
    BY <1>0 DEF TroopTypeOK
  <2> QED BY <1>5, <1>6, <2>1, <2>2 DEF Extend
<1>9. /\ \A u \in OnField : IsAlive(u)' <=> IsAlive(u)
      /\ IsAlive(new)'
  BY <1>8 DEF IsAlive
<1>10. /\ mageIds' = mageIds
       /\ summonIds' \in [Troop -> SUBSET (OnField \cup {new})]
       /\ summonIds'[t] = summonIds[t] \cup {new}
       /\ \A r \in Troop : r # t => summonIds'[r] = summonIds[r]
       /\ \A r \in Troop : summonIds[r] \subseteq OnField
  BY <1>0, <1>1, <1>t, <1>n DEF TroopTypeOK, Raise
<1>11. /\ slots'[t] = Tail(slots[t]) /\ slots' \in [Troop -> Seq(Slot)]
       /\ \A r \in Troop : r # t => slots'[r] = slots[r]
  BY <1>0, <1>1, <1>2, TailFacts, <1>t DEF TroopTypeOK, Raise, Remaining
<1>12. /\ ordinals' \in [Troop -> Nat] /\ ordinals'[t] = ordinals[t] + 1
       /\ \A r \in Troop : r # t => ordinals'[r] = ordinals[r]
  BY <1>0, <1>1, <1>t DEF TroopTypeOK, Raise
<1>13. /\ timer' \in [Mage -> Nat] /\ idleAt' \in [Mage -> Nat]
       /\ timer'[m] = PaceOf(m) /\ idleAt'[m] = tick
       /\ \A n \in Mage \ {m} : timer'[n] = timer[n] /\ idleAt'[n] = idleAt[n]
  BY <1>0, <1>1, <1>t DEF TroopTypeOK, Raise
<1>14. /\ \A u \in OnField : /\ units[u].troop \in Troop /\ units[u].ordinal \in Nat
                             /\ u \in Nat /\ PaceOf(u) \in Nat
       /\ \A u \in OnField : PaceOf(u)' = PaceOf(u)
  BY <1>0, <1>7, StateFacts DEF PaceOf
<1>a. TroopTypeOK'
  <2>1. OnField' \subseteq 1..newest'
    BY <1>0, <1>2, <1>6, <1>7, <1>n DEF TroopTypeOK
  <2>2. mageIds' \in [Troop -> SUBSET OnField']
    BY <1>0, <1>7, <1>10 DEF TroopTypeOK
  <2> QED BY <1>0, <1>6, <1>7, <1>8, <1>10, <1>11, <1>12, <1>13, <2>1, <2>2 DEF TroopTypeOK
<1>b. ListsMatchField'
  <2> SUFFICES ASSUME NEW r \in Troop
               PROVE  /\ mageIds'[r] = {u \in OnField' : units'[u].troop = r /\ units'[u].kind = "mage"}
                      /\ summonIds'[r] = {u \in OnField' : units'[u].troop = r /\ units'[u].kind = "summon"}
    BY DEF ListsMatchField
  <2>1. /\ mageIds[r] = {u \in OnField : units[u].troop = r /\ units[u].kind = "mage"}
        /\ summonIds[r] = {u \in OnField : units[u].troop = r /\ units[u].kind = "summon"}
    BY <1>0 DEF ListsMatchField
  <2> QED BY <1>4, <1>6, <1>7, <1>10, <2>1
<1>c. IdsAreFresh'
  <2>1. \A u \in OnField : units[u].ordinal < ordinals[units[u].troop]
    BY <1>0 DEF IdsAreFresh
  <2>2. \A u \in OnField : units[u].ordinal < ordinals'[units[u].troop]
    BY <1>1, <1>2, <1>12, <1>14, <2>1
  <2>3. \A u \in OnField : units[u].troop = t => units[u].ordinal # ordinals[t]
    BY <1>2, <1>14, <2>1
  <2>4. raised.ordinal < ordinals'[raised.troop]
    BY <1>2, <1>4, <1>12
  <2>5. \A u, v \in OnField : units[u].troop = units[v].troop /\ units[u].ordinal = units[v].ordinal => u = v
    BY <1>0 DEF IdsAreFresh
  <2> QED BY <1>4, <1>7, <2>2, <2>3, <2>4, <2>5 DEF IdsAreFresh
<1>d. SlotsAccounted'
  <2> SUFFICES ASSUME NEW r \in Troop PROVE Accounted(r)'
    BY DEF SlotsAccounted
  <2>1. Accounted(r)
    BY <1>0 DEF SlotsAccounted
  <2>2. \A u \in summonIds[r] : \A s : Dwells(u, r, s)' <=> Dwells(u, r, s)
    BY <1>7, <1>9, <1>10 DEF Dwells
  <2>3. CASE r # t
    <3>1. \A i, s : Dispelled(i, r, s)' <=> Dispelled(i, r, s)
      BY <1>11, <2>3 DEF Dispelled
    <3>2. summonIds'[r] = summonIds[r] /\ slots'[r] = slots[r] /\ mageIds'[r] = mageIds[r]
      BY <1>10, <1>11, <2>3
    <3>3. \A u \in summonIds[r] : SlotOf(units'[u]) \in Slots(r)
      BY <1>7, <1>10, <2>1 DEF Accounted
    <3> QED BY <2>1, <2>2, <3>1, <3>2, <3>3 DEF Accounted
  <2>4. CASE r = t
    <3>1. \A s : Dwells(new, t, s)' <=> s = slot
      BY <1>4, <1>7, <1>9, <1>10 DEF Dwells
    <3>2. \A i \in DOMAIN Tail(slots[t]) : i \in Nat /\ i + 1 \in DOMAIN slots[t] /\ slots'[t][i] = slots[t][i + 1]
      BY <1>2, <1>11, TailFacts
    <3>3. \A i \in DOMAIN slots[t] : i # 1 =>
            i \in Nat /\ i - 1 \in DOMAIN slots'[t] /\ slots'[t][i - 1] = slots[t][i]
      BY <1>2, <1>11, TailFacts
    <3>4. 1 \in DOMAIN slots[t] /\ slots[t][1] = slot
      BY <1>2, TailFacts, <1>s
    <3>5. DOMAIN slots'[t] = DOMAIN Tail(slots[t]) /\ summonIds'[t] = summonIds[t] \cup {new}
      BY <1>10, <1>11
    <3>6. \A u \in summonIds'[t] : SlotOf(units'[u]) \in Slots(t)
      <4>1. \A u \in summonIds[t] : SlotOf(units[u]) \in Slots(t) /\ u \in OnField
        BY <1>1, <1>10, <2>1, <2>4 DEF Accounted
      <4> QED BY <1>3, <1>4, <1>7, <3>5, <4>1
    <3>7. \A i \in DOMAIN slots'[t] : slots'[t][i] \in Slots(t)
      BY <2>1, <2>4, <3>2, <3>5 DEF Accounted
    <3> SUFFICES ASSUME NEW s \in Slots(t)
                 PROVE  /\ \A u, v \in summonIds'[t] : Dwells(u, t, s)' /\ Dwells(v, t, s)' => u = v
                        /\ \A i, j \in DOMAIN slots'[t] : Dispelled(i, t, s)' /\ Dispelled(j, t, s)' => i = j
                        /\ ~ \E u \in summonIds'[t], i \in DOMAIN slots'[t] : Dwells(u, t, s)' /\ Dispelled(i, t, s)'
                        /\ mageIds'[t] # {} => \/ \E u \in summonIds'[t] : Dwells(u, t, s)'
                                               \/ \E i \in DOMAIN slots'[t] : Dispelled(i, t, s)'
      BY <2>4, <3>6, <3>7 DEF Accounted
    <3>8. /\ \A u, v \in summonIds[t] : Dwells(u, t, s) /\ Dwells(v, t, s) => u = v
          /\ \A i, j \in DOMAIN slots[t] : Dispelled(i, t, s) /\ Dispelled(j, t, s) => i = j
          /\ \A u \in summonIds[t], i \in DOMAIN slots[t] : ~(Dwells(u, t, s) /\ Dispelled(i, t, s))
          /\ mageIds[t] # {} => \/ \E u \in summonIds[t] : Dwells(u, t, s)
                                \/ \E i \in DOMAIN slots[t] : Dispelled(i, t, s)
      BY <2>1, <2>4 DEF Accounted
    <3>9. \A i \in DOMAIN slots'[t] : i + 1 \in DOMAIN slots[t] /\ i \in Nat
                                      /\ (Dispelled(i, t, s)' <=> Dispelled(i + 1, t, s))
      BY <3>2, <3>5 DEF Dispelled
    <3>10. Dispelled(1, t, s) <=> s = slot
      BY <3>4 DEF Dispelled
    <3>11. \A u, v \in summonIds'[t] : Dwells(u, t, s)' /\ Dwells(v, t, s)' => u = v
      BY <2>2, <2>4, <3>1, <3>4, <3>5, <3>8, <3>10
    <3>12. \A i, j \in DOMAIN slots'[t] : Dispelled(i, t, s)' /\ Dispelled(j, t, s)' => i = j
      <4> TAKE i, j \in DOMAIN slots'[t]
      <4> HAVE Dispelled(i, t, s)' /\ Dispelled(j, t, s)'
      <4>1. i + 1 = j + 1 /\ i \in Nat /\ j \in Nat
        BY <3>8, <3>9
      <4> QED BY <4>1
    <3>13. ASSUME NEW u \in summonIds'[t], NEW i \in DOMAIN slots'[t], Dwells(u, t, s)', Dispelled(i, t, s)'
           PROVE  FALSE
      <4>1. i + 1 \in DOMAIN slots[t] /\ Dispelled(i + 1, t, s) /\ i \in Nat /\ i \in DOMAIN Tail(slots[t])
        BY <3>5, <3>9, <3>13
      <4>2. CASE u = new
        <5>1. Dispelled(1, t, s)
          BY <3>1, <3>10, <3>13, <4>2
        <5>2. i + 1 = 1
          BY <3>4, <3>8, <4>1, <5>1
        <5>3. i >= 1
          BY <1>2, <4>1, TailFacts
        <5> QED BY <4>1, <5>2, <5>3
      <4>3. CASE u # new
        BY <2>2, <2>4, <3>5, <3>8, <3>13, <4>1, <4>3
      <4> QED BY <4>2, <4>3
    <3>14. ASSUME mageIds'[t] # {}
           PROVE  \/ \E u \in summonIds'[t] : Dwells(u, t, s)'
                  \/ \E i \in DOMAIN slots'[t] : Dispelled(i, t, s)'
      <4>1. CASE \E u \in summonIds[t] : Dwells(u, t, s)
        BY <2>2, <2>4, <3>5, <4>1
      <4>2. CASE \E i \in DOMAIN slots[t] : Dispelled(i, t, s)
        <5>1. PICK i \in DOMAIN slots[t] : Dispelled(i, t, s)
          BY <4>2
        <5>2. CASE i = 1
          BY <3>1, <3>5, <3>10, <5>1, <5>2
        <5>3. CASE i # 1
          <6>1. i - 1 \in DOMAIN slots'[t] /\ slots'[t][i - 1] = slots[t][i]
            BY <3>3, <5>3
          <6> QED BY <5>1, <6>1 DEF Dispelled
        <5> QED BY <5>2, <5>3
      <4> QED BY <1>10, <3>8, <3>14, <4>1, <4>2
    <3> QED BY <3>11, <3>12, <3>13, <3>14
  <2> QED BY <2>3, <2>4
<1>e. BondHolds'
  <2>1. mageIds[t] # {}
    BY <1>0, <1>1, <1>t DEF ListsMatchField
  <2> QED BY <1>0, <1>4, <1>7, <1>10, <2>1 DEF BondHolds
<1>f. TurnsInOrder'
  <2>1. \A u \in OnField' : /\ units'[u].kind = Catalog[units'[u].type].kind
                            /\ units'[u].kind = "mage" => u \in Mage
    BY <1>0, <1>3, <1>4, <1>7 DEF TurnsInOrder
  <2>2. \A n \in todo' : n \in OnField' /\ units'[n].kind = "mage" /\ IsAlive(n)' /\ PaceOf(n)' > 0
    BY <1>0, <1>7, <1>9, <1>14 DEF TurnsInOrder
  <2> QED BY <1>0, <2>1, <2>2 DEF TurnsInOrder
<1>g. TimersRun'
  <2> SUFFICES ASSUME NEW n \in OnField', units'[n].kind = "mage", IsAlive(n)', PaceOf(n)' > 0
               PROVE  \/ timer'[n] >= 1 /\ timer'[n] = PaceOf(n)' - (LastTurn(n)' - idleAt'[n])
                      \/ LastTurn(n)' = 0 /\ timer'[n] = 0 /\ slots'[units'[n].troop] = <<>>
    BY DEF TimersRun
  <2>0. n \in OnField /\ units[n].kind = "mage" /\ IsAlive(n) /\ PaceOf(n) > 0 /\ PaceOf(n)' = PaceOf(n)
        /\ units'[n].troop = units[n].troop /\ units[n].troop \in Troop
    BY <1>4, <1>7, <1>9, <1>14
  <2>1. CASE n = m
    <3>1. LastTurn(n)' = tick
      BY <2>1 DEF LastTurn
    <3> QED BY <1>1, <1>13, <2>0, <2>1, <3>1
  <2>2. CASE n # m
    <3>1. LastTurn(n)' = LastTurn(n)
      BY <2>2 DEF LastTurn
    <3>2. n \in Mage
      BY <1>0, <2>0 DEF TurnsInOrder
    <3>3. \/ timer[n] >= 1 /\ timer[n] = PaceOf(n) - (LastTurn(n) - idleAt[n])
          \/ LastTurn(n) = 0 /\ timer[n] = 0 /\ slots[units[n].troop] = <<>>
      BY <1>0, <2>0 DEF TimersRun
    <3>4. slots[units[n].troop] = <<>> => slots'[units[n].troop] = <<>>
      BY <1>2, <1>11, <2>0
    <3> QED BY <1>13, <2>0, <2>2, <3>1, <3>2, <3>3, <3>4
  <2> QED BY <2>1, <2>2
<1> QED BY <1>a, <1>b, <1>c, <1>d, <1>e, <1>f, <1>g DEF TroopInv

(* Adding one at the end of a sequence. *)
LEMMA AppendFacts ==
  ASSUME NEW S, NEW q \in Seq(S), NEW x \in S
  PROVE  /\ Append(q, x) \in Seq(S)
         /\ DOMAIN Append(q, x) = DOMAIN q \cup {Len(q) + 1}
         /\ Len(q) + 1 \notin DOMAIN q
         /\ Append(q, x)[Len(q) + 1] = x
         /\ \A i \in DOMAIN q : Append(q, x)[i] = q[i]
OBVIOUS

(* A summon that leaves its slot has lived in it: the place changes hands. *)
LEMMA LeaveSlotPreserves ==
  ASSUME TroopInv, NEW w \in todo, LeaveSlot(w)
  PROVE  TroopInv'
<1>t. PICK t : t = units[w].troop
  OBVIOUS
<1>s. PICK slot : slot = SlotOf(units[w])
  OBVIOUS
<1>e. PICK end : end = Len(slots[t]) + 1
  OBVIOUS
<1>0. /\ TroopTypeOK /\ ListsMatchField /\ IdsAreFresh /\ SlotsAccounted /\ BondHolds
      /\ TurnsInOrder /\ TimersRun
  BY DEF TroopInv
<1>1. /\ phase = "removal" /\ phase' = "removal" /\ tick' = tick /\ tick \in Nat /\ tick >= 1
      /\ todo' = todo \ {w}
      /\ UNCHANGED <<hp, fieldVars, ordinals, timer, idleAt>>
  BY <1>0 DEF LeaveSlot, TurnsInOrder, TroopTypeOK
<1>2. w \in OnField /\ units[w].kind = "summon" /\ ~IsAlive(w)
  BY <1>0, <1>1 DEF TurnsInOrder
<1>3. t \in Troop /\ w \in summonIds[t]
  BY <1>0, <1>2, <1>t, StateFacts DEF ListsMatchField
<1>4. slot \in Slots(t) /\ slot \in Slot /\ slots[t] \in Seq(Slot)
  BY <1>0, <1>3, <1>s, SlotFacts DEF SlotsAccounted, Accounted, TroopTypeOK
<1>5. /\ slots' \in [Troop -> Seq(Slot)] /\ slots'[t] = Append(slots[t], slot)
      /\ \A r \in Troop : r # t => slots'[r] = slots[r]
  BY <1>0, <1>3, <1>4, <1>s, <1>t DEF LeaveSlot, TroopTypeOK
<1>6. /\ DOMAIN slots'[t] = DOMAIN slots[t] \cup {end} /\ end \notin DOMAIN slots[t]
      /\ slots'[t][end] = slot /\ \A i \in DOMAIN slots[t] : slots'[t][i] = slots[t][i]
  BY <1>4, <1>5, <1>e, AppendFacts
<1>7. /\ OnField' = OnField /\ units' = units /\ mageIds' = mageIds /\ summonIds' = summonIds
      /\ \A u : PaceOf(u)' = PaceOf(u) /\ (IsAlive(u)' <=> IsAlive(u)) /\ LastTurn(u)' = LastTurn(u)
  BY <1>1 DEF fieldVars, OnField, PaceOf, IsAlive, LastTurn
<1>a. TroopTypeOK' /\ ListsMatchField' /\ IdsAreFresh'
  <2>1. TroopTypeOK'
    BY <1>0, <1>1, <1>5, <1>7 DEF TroopTypeOK, fieldVars
  <2>2. ListsMatchField' /\ IdsAreFresh'
    BY <1>0, <1>1, <1>7 DEF ListsMatchField, IdsAreFresh
  <2> QED BY <2>1, <2>2
<1>b. SlotsAccounted'
  <2> SUFFICES ASSUME NEW r \in Troop PROVE Accounted(r)'
    BY DEF SlotsAccounted
  <2>0. Accounted(r)
    BY <1>0 DEF SlotsAccounted
  <2>1. \A u, s : u # w => (Dwells(u, r, s)' <=> Dwells(u, r, s))
    BY <1>1, <1>7 DEF Dwells
  <2>2. CASE r # t
    <3>1. w \notin summonIds[r]
      BY <1>0, <1>t, <2>2, StateFacts
    <3>2. \A i, s : Dispelled(i, r, s)' <=> Dispelled(i, r, s)
      BY <1>5, <2>2 DEF Dispelled
    <3> QED BY <1>5, <1>7, <2>0, <2>1, <2>2, <3>1, <3>2 DEF Accounted
  <2>3. CASE r = t
    <3>1. \A s : ~ Dwells(w, t, s)' /\ (Dwells(w, t, s) <=> s = slot)
      BY <1>1, <1>2, <1>3, <1>7, <1>s DEF Dwells
    <3>2. \A i \in DOMAIN slots[t] : \A s : Dispelled(i, t, s)' <=> Dispelled(i, t, s)
      BY <1>6 DEF Dispelled
    <3>3. \A s : Dispelled(end, t, s)' <=> s = slot
      BY <1>6 DEF Dispelled
    <3>4. \A u \in summonIds'[t] : SlotOf(units'[u]) \in Slots(t)
      BY <1>7, <2>0, <2>3 DEF Accounted
    <3>5. \A i \in DOMAIN slots'[t] : slots'[t][i] \in Slots(t)
      BY <1>4, <1>6, <2>0, <2>3 DEF Accounted
    <3> SUFFICES ASSUME NEW s \in Slots(t)
                 PROVE  /\ \A u, v \in summonIds'[t] : Dwells(u, t, s)' /\ Dwells(v, t, s)' => u = v
                        /\ \A i, j \in DOMAIN slots'[t] : Dispelled(i, t, s)' /\ Dispelled(j, t, s)' => i = j
                        /\ ~ \E u \in summonIds'[t], i \in DOMAIN slots'[t] : Dwells(u, t, s)' /\ Dispelled(i, t, s)'
                        /\ mageIds'[t] # {} => \/ \E u \in summonIds'[t] : Dwells(u, t, s)'
                                               \/ \E i \in DOMAIN slots'[t] : Dispelled(i, t, s)'
      BY <2>3, <3>4, <3>5 DEF Accounted
    <3>6. /\ \A u, v \in summonIds[t] : Dwells(u, t, s) /\ Dwells(v, t, s) => u = v
          /\ \A i, j \in DOMAIN slots[t] : Dispelled(i, t, s) /\ Dispelled(j, t, s) => i = j
          /\ \A u \in summonIds[t], i \in DOMAIN slots[t] : ~(Dwells(u, t, s) /\ Dispelled(i, t, s))
          /\ mageIds[t] # {} => \/ \E u \in summonIds[t] : Dwells(u, t, s)
                                \/ \E i \in DOMAIN slots[t] : Dispelled(i, t, s)
      BY <2>0, <2>3 DEF Accounted
    <3>7. \A u, v \in summonIds'[t] : Dwells(u, t, s)' /\ Dwells(v, t, s)' => u = v
      BY <1>7, <2>1, <2>3, <3>1, <3>6
    <3>8. \A i, j \in DOMAIN slots'[t] : Dispelled(i, t, s)' /\ Dispelled(j, t, s)' => i = j
      BY <1>3, <1>6, <3>1, <3>2, <3>3, <3>6
    <3>9. ASSUME NEW u \in summonIds'[t], NEW i \in DOMAIN slots'[t], Dwells(u, t, s)', Dispelled(i, t, s)'
          PROVE  FALSE
      <4>1. u # w /\ u \in summonIds[t] /\ Dwells(u, t, s)
        BY <1>7, <2>1, <2>3, <3>1, <3>9
      <4>2. CASE i = end
        BY <1>3, <3>1, <3>3, <3>6, <3>9, <4>1, <4>2
      <4>3. CASE i # end
        BY <1>6, <3>2, <3>6, <3>9, <4>1, <4>3
      <4> QED BY <4>2, <4>3
    <3>10. ASSUME mageIds'[t] # {}
           PROVE  \/ \E u \in summonIds'[t] : Dwells(u, t, s)'
                  \/ \E i \in DOMAIN slots'[t] : Dispelled(i, t, s)'
      <4>1. CASE s = slot
        BY <1>6, <3>3, <4>1
      <4>2. CASE s # slot
        BY <1>6, <1>7, <2>1, <2>3, <3>1, <3>2, <3>6, <3>10, <4>2
      <4> QED BY <4>1, <4>2
    <3> QED BY <3>7, <3>8, <3>9, <3>10
  <2> QED BY <2>2, <2>3
<1>c. BondHolds'
  BY <1>0, <1>1, <1>7 DEF BondHolds
<1>d. TurnsInOrder'
  BY <1>0, <1>1, <1>7 DEF TurnsInOrder
<1>f. TimersRun'
  <2>1. \A n : LastTurn(n) = tick
    BY <1>1 DEF LastTurn
  <2> QED BY <1>0, <1>1, <1>7, <2>1 DEF TimersRun
<1> QED BY <1>a, <1>b, <1>c, <1>d, <1>f DEF TroopInv

(* Nobody is told of a place by the sweep: those who dwelt are those who live. *)
LEMMA SweepPreserves == TroopInv /\ Sweep => TroopInv'
<1> SUFFICES ASSUME TroopInv, Sweep PROVE TroopInv'
  OBVIOUS
<1>0. /\ TroopTypeOK /\ ListsMatchField /\ IdsAreFresh /\ SlotsAccounted /\ BondHolds
      /\ TurnsInOrder /\ TimersRun
  BY DEF TroopInv
<1>1. /\ phase = "removal" /\ todo = {} /\ phase' = "rest" /\ tick \in Nat
      /\ UNCHANGED <<tick, todo, newest, slots, ordinals, timer, idleAt>>
  BY <1>0 DEF Sweep, TroopTypeOK
<1>g. PICK stay : stay = Staying
  OBVIOUS
<1>2. stay \subseteq OnField /\ \A u \in stay : IsAlive(u)
  BY <1>g DEF Staying, Fallen
<1>3. /\ OnField' = stay
      /\ \A u \in stay : units'[u] = units[u] /\ hp'[u] = hp[u]
      /\ units' \in [stay -> Unit] /\ hp' \in [stay -> Nat]
  BY <1>0, <1>2, <1>g DEF Sweep, Restrict, OnField, TroopTypeOK
<1>4. \A u \in stay : PaceOf(u)' = PaceOf(u) /\ IsAlive(u)'
  BY <1>2, <1>3 DEF PaceOf, IsAlive
<1>5. \A t \in Troop : /\ mageIds'[t] = mageIds[t] \ Fallen
                       /\ summonIds'[t] = summonIds[t] \ (Fallen \cup Dissolving)
  BY DEF Sweep
<1>6. \A t \in Troop : /\ mageIds[t] \subseteq OnField /\ summonIds[t] \subseteq OnField
                       /\ \A u \in mageIds[t] : units[u].troop = t /\ units[u].kind = "mage"
                       /\ \A u \in summonIds[t] : units[u].troop = t /\ units[u].kind = "summon"
  BY <1>0, StateFacts
<1>7. \A t \in Troop : /\ mageIds'[t] = mageIds[t] \cap stay
                       /\ summonIds'[t] = summonIds[t] \cap stay
  BY <1>5, <1>6, <1>g DEF Staying, Dissolving
<1>8. \A t \in Troop : mageIds'[t] # {} => mageIds[t] # {} /\ t \notin Bereft
  BY <1>5 DEF Bereft
<1>9. \A u \in OnField : IsAlive(u) /\ units[u].troop \notin Bereft => u \in stay
  BY <1>g DEF Staying, Dissolving, Fallen
<1>a. TroopTypeOK'
  <2>1. mageIds' \in [Troop -> SUBSET stay] /\ summonIds' \in [Troop -> SUBSET stay]
    <3>1. /\ mageIds' = [t \in Troop |-> mageIds[t] \ Fallen]
          /\ summonIds' = [t \in Troop |-> summonIds[t] \ (Fallen \cup Dissolving)]
      BY DEF Sweep
    <3> QED BY <1>7, <3>1
  <2>2. stay \subseteq 1..newest
    BY <1>0, <1>2 DEF TroopTypeOK
  <2> QED BY <1>0, <1>1, <1>3, <2>1, <2>2 DEF TroopTypeOK
<1>b. ListsMatchField'
  BY <1>0, <1>2, <1>3, <1>7 DEF ListsMatchField
<1>c. IdsAreFresh'
  BY <1>0, <1>1, <1>2, <1>3 DEF IdsAreFresh
<1>d. SlotsAccounted'
  <2> SUFFICES ASSUME NEW t \in Troop PROVE Accounted(t)'
    BY DEF SlotsAccounted
  <2>0. Accounted(t)
    BY <1>0 DEF SlotsAccounted
  <2>1. \A u \in summonIds'[t] : u \in stay /\ u \in summonIds[t] /\ \A s : Dwells(u, t, s)' <=> Dwells(u, t, s)
    BY <1>1, <1>2, <1>3, <1>7 DEF Dwells
  <2>2. \A i, s : Dispelled(i, t, s)' <=> Dispelled(i, t, s)
    BY <1>1 DEF Dispelled
  <2>3. \A u \in summonIds[t], s \in Slots(t) : Dwells(u, t, s) /\ mageIds'[t] # {} => u \in summonIds'[t]
    BY <1>1, <1>6, <1>7, <1>8, <1>9 DEF Dwells
  <2>4. \A u \in summonIds'[t] : SlotOf(units'[u]) \in Slots(t)
    BY <1>3, <2>0, <2>1 DEF Accounted
  <2> SUFFICES ASSUME NEW s \in Slots(t)
               PROVE  /\ \A u, v \in summonIds'[t] : Dwells(u, t, s)' /\ Dwells(v, t, s)' => u = v
                      /\ \A i, j \in DOMAIN slots'[t] : Dispelled(i, t, s)' /\ Dispelled(j, t, s)' => i = j
                      /\ ~ \E u \in summonIds'[t], i \in DOMAIN slots'[t] : Dwells(u, t, s)' /\ Dispelled(i, t, s)'
                      /\ mageIds'[t] # {} => \/ \E u \in summonIds'[t] : Dwells(u, t, s)'
                                             \/ \E i \in DOMAIN slots'[t] : Dispelled(i, t, s)'
    BY <1>1, <2>0, <2>4 DEF Accounted
  <2>5. /\ \A u, v \in summonIds[t] : Dwells(u, t, s) /\ Dwells(v, t, s) => u = v
        /\ \A i, j \in DOMAIN slots[t] : Dispelled(i, t, s) /\ Dispelled(j, t, s) => i = j
        /\ ~ \E u \in summonIds[t], i \in DOMAIN slots[t] : Dwells(u, t, s) /\ Dispelled(i, t, s)
        /\ mageIds[t] # {} => \/ \E u \in summonIds[t] : Dwells(u, t, s)
                              \/ \E i \in DOMAIN slots[t] : Dispelled(i, t, s)
    BY <2>0 DEF Accounted
  <2>6. slots' = slots
    BY <1>1
  <2> QED BY <1>8, <2>1, <2>2, <2>3, <2>5, <2>6
<1>e. BondHolds'
  <2>1. \A u \in stay : units[u].kind = "summon" => mageIds'[units[u].troop] # {}
    <3> SUFFICES ASSUME NEW u \in stay, units[u].kind = "summon" PROVE mageIds'[units[u].troop] # {}
      OBVIOUS
    <3>1. units[u].troop \in Troop /\ mageIds[units[u].troop] # {}
      BY <1>0, <1>2, StateFacts DEF BondHolds
    <3>2. units[u].troop \notin Bereft
      BY <1>2, <1>g DEF Staying, Dissolving, Fallen
    <3> QED BY <1>5, <3>1, <3>2 DEF Bereft
  <2> QED BY <1>3, <1>4, <2>1 DEF BondHolds
<1>f. TurnsInOrder'
  BY <1>0, <1>1, <1>2, <1>3 DEF TurnsInOrder
<1>h. TimersRun'
  <2>1. \A n : LastTurn(n)' = LastTurn(n)
    BY <1>1 DEF LastTurn
  <2> QED BY <1>0, <1>1, <1>2, <1>3, <1>4, <2>1 DEF TimersRun
<1> QED BY <1>a, <1>b, <1>c, <1>d, <1>e, <1>f, <1>h DEF TroopInv

LEMMA RebuildPreserves == ASSUME TroopInv, NEW m \in todo, Rebuild(m) PROVE TroopInv'
BY StayIdlePreserves, CountDownPreserves, RaisePreserves DEF Rebuild

(* A step that changes nothing. *)
LEMMA StutterPreserves == TroopInv /\ UNCHANGED troopVars => TroopInv'
<1> SUFFICES ASSUME TroopInv, UNCHANGED troopVars PROVE TroopInv'
  OBVIOUS
<1>1. /\ UNCHANGED <<tick, phase, todo, hp, newest, fieldVars, slots, ordinals, timer, idleAt>>
      /\ UNCHANGED <<units, mageIds, summonIds>>
  BY DEF troopVars, fieldVars
<1>2. /\ OnField' = OnField
      /\ \A u : PaceOf(u)' = PaceOf(u) /\ (IsAlive(u)' <=> IsAlive(u)) /\ LastTurn(u)' = LastTurn(u)
      /\ \A t \in Troop : \A u, s : Dwells(u, t, s)' <=> Dwells(u, t, s)
  BY <1>1 DEF OnField, PaceOf, IsAlive, LastTurn, Dwells
<1>3. TroopTypeOK' /\ ListsMatchField' /\ IdsAreFresh'
  BY <1>1, <1>2 DEF TroopInv, TroopTypeOK, ListsMatchField, IdsAreFresh
<1>4. SlotsAccounted'
  BY <1>1, <1>2, AccountsUnchanged
<1>5. BondHolds' /\ TurnsInOrder' /\ TimersRun'
  BY <1>1, <1>2 DEF TroopInv, BondHolds, TurnsInOrder, TimersRun
<1> QED BY <1>3, <1>4, <1>5 DEF TroopInv

------------------------------------------------------------------------------------
(* What holds of every battle. *)

(* The invariant of the troops: lists, ids, slots, the bond and the rebuild timers. *)
THEOREM TroopInvariant == TroopSpec => []TroopInv
<1>1. TroopInit => TroopInv
  BY InitEstablishes
<1>2. TroopInv /\ [TroopNext]_troopVars => TroopInv'
  BY NextTickPreserves, FightPreserves, BeginResummonPreserves, BeginRemovalPreserves,
     RebuildPreserves, LeaveSlotPreserves, SweepPreserves, StutterPreserves DEF TroopNext
<1> QED BY <1>1, <1>2, PTL DEF TroopSpec

(* Every place of a troop that has a mage is lived in once or dispelled once: no summon *)
(* is lost by the passes of the removal phase, none is raised twice.                    *)
THEOREM PlacesAreConserved == TroopSpec => []SlotsAccounted
<1>1. TroopInv => SlotsAccounted
  BY DEF TroopInv
<1> QED BY <1>1, TroopInvariant, PTL

(* Summons never outlive the mages of their troop. *)
THEOREM SummonsFollowTheirMages == TroopSpec => []BondHolds
<1>1. TroopInv => BondHolds
  BY DEF TroopInv
<1> QED BY <1>1, TroopInvariant, PTL

(* A rebuilt summon's id was never used before. *)
THEOREM RebuiltIdsAreFresh == TroopSpec => []IdsAreFresh
<1>1. TroopInv => IdsAreFresh
  BY DEF TroopInv
<1> QED BY <1>1, TroopInvariant, PTL

(* A unit is raised by one living mage, exactly its pace after that mage last raised or idled. *)
THEOREM RebuildsTakeTheirTime == TroopSpec => RebuildsKeepPace
<1> DEFINE Paced == newest' # newest => \E m \in todo \ todo' : /\ IsAlive(m)
                                                               /\ newest' = newest + 1
                                                               /\ tick = idleAt[m] + PaceOf(m)
<1>1. ASSUME TroopInv, TroopNext, newest' # newest
      PROVE  \E m \in todo \ todo' : /\ IsAlive(m)
                                     /\ newest' = newest + 1
                                     /\ tick = idleAt[m] + PaceOf(m)
  <2>1. PICK m \in todo : Rebuild(m)
    BY <1>1 DEF TroopNext, NextTick, Fight, BeginResummon, BeginRemoval, LeaveSlot, Sweep, fieldVars
  <2>2. Raise(m) /\ phase = "resummon" /\ todo' = todo \ {m}
    BY <1>1, <2>1 DEF Rebuild, StayIdle, CountDown, fieldVars
  <2>3. newest' = newest + 1 /\ HasWork(units[m].troop) /\ Armed(m) <= 0
    BY <2>2 DEF Raise, Ready
  <2>4. /\ IsAlive(m) /\ PaceOf(m) \in Nat /\ tick \in Nat /\ idleAt[m] \in Nat
        /\ Armed(m) \in Nat /\ Armed(m) = PaceOf(m) - (tick - idleAt[m])
    BY <1>1, <2>2, <2>3, TurnFacts
  <2>5. tick = idleAt[m] + PaceOf(m)
    BY <2>3, <2>4
  <2> QED BY <2>2, <2>3, <2>4, <2>5
<1>2. TroopInv /\ [TroopNext]_troopVars => [Paced]_troopVars
  BY <1>1
<1> QED BY <1>2, TroopInvariant, PTL DEF TroopSpec, RebuildsKeepPace

------------------------------------------------------------------------------------
(* The battle over the troops. *)

Burning == [rate : Nat, left : Int, vsMage : Nat]
Hazard == [side : Side, centre : Int, radius : Nat, rate : Nat, left : Int, vsMage : Nat]
PendingSpell == [spell : DOMAIN Spells, side : Side, place : Spot]

IsBody(b) ==
  /\ DOMAIN b = {"place", "goal", "intent", "target", "energy", "meters", "burn"}
  /\ b.place \in Int /\ b.goal \in Int /\ b.burn \in Burning \cup {None}
BodiesKnown == DOMAIN body = OnField /\ \A u \in OnField : IsBody(body[u])

IsCast(c) ==
  /\ DOMAIN c = {"side", "origin", "caster", "target", "follows", "effects"}
  /\ c.side \in Side /\ c.origin \in Int /\ c.effects \in Seq(Effects)
  /\ c.caster \in OnField \cup {None} /\ c.target \in OnField \cup {None}
CastKnown == cast # NoCast => IsCast(cast) /\ phase = "acting" /\ stage \in {"spells", "abilities"}

\* Which phase is which, and who may have a turn in it.
StageOrder ==
  /\ phase # "acting" => stage \in {"decision", "over"}
  /\ phase = "acting" /\ stage \in {"movement", "abilities", "combat"} => todo \subseteq OnField
  /\ phase = "acting" /\ stage = "statuses" => todo \subseteq DOMAIN hazards

BattleTypes ==
  /\ BodiesKnown /\ CastKnown /\ StageOrder
  /\ hazards \in [DOMAIN hazards -> Hazard]
  /\ pending \in Seq(PendingSpell)

StreamInv ==
  /\ DOMAIN told = {"defeats", "dissolved", "base"}
  /\ DOMAIN told.defeats = 1..newest
  /\ base \in [Side -> Nat] /\ told.base \in [Side -> Int]
  /\ told.dissolved \subseteq 1..newest
  /\ StreamAccountsForAll

BattleInv == TroopInv /\ BattleTypes /\ StreamInv

------------------------------------------------------------------------------------
(* The operators on places, lives and bodies. *)

LEMMA SmallestIs ==
  ASSUME NEW S \in SUBSET Nat, S # {}
  PROVE  Min(S) \in S /\ \A y \in S : Min(S) <= y
<1> DEFINE Below == {p \in Nat \X Nat : p[1] < p[2]}
<1>1. IsWellFoundedOn(Below, Nat)
  BY NatLessThanWellFounded DEF OpToRel
<1> HIDE DEF Below
<1>2. PICK x \in S : \A y \in S : <<y, x>> \notin Below
  BY <1>1, WFMin
<1>3. ASSUME NEW y \in S PROVE x <= y
  <2>1. y < x => <<y, x>> \in Below
    BY DEF Below
  <2> QED BY <1>2, <2>1
<1> QED BY <1>3 DEF Min

LEMMA GapFacts ==
  ASSUME NEW p \in Int, NEW q \in Int
  PROVE  /\ Gap(p, q) \in Nat /\ Gap(p, q) = Gap(q, p)
         /\ Clip(p) \in Int
BY LaneAssumption DEF Gap, Clip, Most, Least

(* A stride ends on the line, no further than it is long. *)
LEMMA TowardsFacts ==
  ASSUME NEW p \in Int, NEW q \in Int, NEW d \in Nat
  PROVE  /\ Towards(p, q, d) \in Int
         /\ Gap(p, Towards(p, q, d)) <= d
         /\ p <= q => p <= Towards(p, q, d) /\ Towards(p, q, d) <= q
         /\ q <= p => q <= Towards(p, q, d) /\ Towards(p, q, d) <= p
BY DEF Towards, Gap

LEMMA TowardsAnywhere ==
  ASSUME NEW p \in Int, NEW q \in Int, NEW d \in Int
  PROVE  Towards(p, q, d) \in Int
BY DEF Towards, Gap

LEMMA PushedIs ==
  ASSUME NEW o \in Int, NEW p \in Int, NEW d \in Nat
  PROVE  PushedFrom(o, p, d) \in Int
<1>1. p + d \in Int /\ p - d \in Int
  OBVIOUS
<1> QED BY <1>1, GapFacts DEF PushedFrom

LEMMA SidesFacts ==
  /\ \A s \in Side : Opposing(s) \in Side /\ Opposing(s) # s /\ BasePlace[s] \in Int
  /\ BaseHp \in Nat
BY LaneAssumption DEF Side, Opposing

LEMMA LeftFacts ==
  ASSUME NEW life \in Nat, NEW wound \in Nat
  PROVE  Left(life, wound) \in Nat /\ Left(life, wound) <= life
         /\ (Left(life, wound) > 0 <=> ~(wound >= life))
BY DEF Left, Most

(* What a body is after one of its fields was set. *)
LEMMA BodySet ==
  ASSUME NEW b, IsBody(b)
  PROVE  /\ \A p \in Int : IsBody([b EXCEPT !.place = p])
         /\ \A e : IsBody([b EXCEPT !.energy = e])
         /\ \A m : IsBody([b EXCEPT !.meters = m])
         /\ \A x \in Burning \cup {None} : IsBody([b EXCEPT !.burn = x])
BY DEF IsBody

LEMMA NewcomerIs == ASSUME NEW p \in Int PROVE IsBody(Newcomer(p))
BY DEF Newcomer, IsBody

LEMMA KitIs ==
  ASSUME TroopTypeOK, NEW u \in OnField
  PROVE  /\ Card(u) \in UnitCard
         /\ Card(u).damage \in Nat /\ Card(u).reach \in Nat /\ Card(u).speed \in Nat /\ Card(u).blocks \in Nat
         /\ Card(u).ability \in DOMAIN Ability \cup {None}
         /\ SideOfUnit(u) \in Side /\ units[u].station \in Int
         /\ units[u].troop \in Troop /\ TroopRank[units[u].troop] \in Nat /\ units[u].ordinal \in Nat
<1>1. units[u] \in Unit
  BY DEF TroopTypeOK, OnField
<1>2. units[u].kit \in Kit /\ units[u].troop \in Troop /\ units[u].station \in Station /\ units[u].ordinal \in Nat
  BY <1>1 DEF Unit
<1>3. Card(u) \in UnitCard
  BY <1>2, CardAssumption DEF Card
<1> QED BY <1>2, <1>3, LaneAssumption, SidesAssumption DEF UnitCard, SideOfUnit

------------------------------------------------------------------------------------
(* Who is near, and who is hit. *)

LEMMA FoesAre ==
  ASSUME TroopTypeOK, BodiesKnown, NEW u \in OnField
  PROVE  /\ PlaceOf(u) \in Int
         /\ \A v \in Foes(u) : /\ v \in OnField /\ IsAlive(v) /\ hp[v] \in Nat /\ hp[v] > 0
                               /\ PlaceOf(v) \in Int /\ Distance(u, v) \in Nat
<1>1. \A v \in OnField : PlaceOf(v) \in Int /\ hp[v] \in Nat
  BY DEF BodiesKnown, IsBody, PlaceOf, TroopTypeOK
<1>2. \A v \in OnField : Distance(u, v) \in Nat
  BY <1>1, GapFacts DEF Distance
<1> QED BY <1>1, <1>2 DEF Foes, IsAlive

(* There is a nearest one: distances, ranks and ordinals tell units apart. *)
LEMMA NearestIs ==
  ASSUME TroopInv, BodiesKnown, NEW u \in OnField, NEW limit, Nearest(u, limit) # None
  PROVE  Nearest(u, limit) \in Foes(u) /\ Distance(u, Nearest(u, limit)) <= limit
<1> DEFINE near == {v \in Foes(u) : Distance(u, v) <= limit}
           Before(v, w) == \/ Distance(u, v) < Distance(u, w)
                           \/ (Distance(u, v) = Distance(u, w) /\ IdBefore(v, w))
<1>0. TroopTypeOK /\ IdsAreFresh
  BY DEF TroopInv
<1>1. near # {} /\ Nearest(u, limit) = CHOOSE v \in near : \A w \in near \ {v} : Before(v, w)
  BY DEF Nearest
<1>2. \A v \in near : /\ v \in OnField /\ Distance(u, v) \in Nat /\ units[v].troop \in Troop
                      /\ TroopRank[units[v].troop] \in Nat /\ units[v].ordinal \in Nat
  BY <1>0, FoesAre, KitIs
<1> DEFINE D == {Distance(u, v) : v \in near}
           d == Min(D)
           atD == {v \in near : Distance(u, v) = d}
           R == {TroopRank[units[v].troop] : v \in atD}
           r == Min(R)
           atR == {v \in atD : TroopRank[units[v].troop] = r}
           O == {units[v].ordinal : v \in atR}
           o == Min(O)
<1> HIDE DEF near
<1>3. D \in SUBSET Nat /\ D # {}
  BY <1>1, <1>2
<1>4. d \in D /\ \A v \in near : d <= Distance(u, v)
  <2>1. Min(D) \in D /\ \A y \in D : Min(D) <= y
    BY <1>3, SmallestIs
  <2> QED BY <2>1
<1> HIDE DEF d
<1>5. R \in SUBSET Nat /\ R # {}
  BY <1>2, <1>4
<1>6. r \in R /\ \A v \in atD : r <= TroopRank[units[v].troop]
  <2>1. Min(R) \in R /\ \A y \in R : Min(R) <= y
    BY <1>5, SmallestIs
  <2> QED BY <2>1
<1> HIDE DEF r
<1>7. O \in SUBSET Nat /\ O # {}
  BY <1>2, <1>6
<1>8. o \in O /\ \A v \in atR : o <= units[v].ordinal
  <2>1. Min(O) \in O /\ \A y \in O : Min(O) <= y
    BY <1>7, SmallestIs
  <2> QED BY <2>1
<1> HIDE DEF o
<1>9. PICK v \in atR : units[v].ordinal = o
  BY <1>8
<1>10. v \in near /\ Distance(u, v) = d /\ TroopRank[units[v].troop] = r
  OBVIOUS
<1>11. ASSUME NEW w \in near \ {v} PROVE Before(v, w)
  <2>1. d <= Distance(u, w) /\ Distance(u, w) \in Nat /\ Distance(u, v) \in Nat
    BY <1>2, <1>4, <1>10
  <2>2. CASE Distance(u, w) = d
    <3>1. r <= TroopRank[units[w].troop]
      BY <1>6, <2>2
    <3>2. CASE TroopRank[units[w].troop] = r
      <4>1. units[w].troop = units[v].troop
        BY <1>2, <1>10, <3>2, SidesAssumption
      <4>2. o <= units[w].ordinal
        BY <1>8, <2>2, <3>2
      <4>3. units[w].ordinal # units[v].ordinal
        BY <1>0, <1>2, <1>10, <4>1 DEF IdsAreFresh
      <4>4. units[v].ordinal < units[w].ordinal
        BY <1>2, <1>9, <1>10, <4>2, <4>3
      <4> QED BY <1>10, <2>2, <4>1, <4>4 DEF IdBefore
    <3>3. CASE TroopRank[units[w].troop] # r
      <4>1. TroopRank[units[v].troop] < TroopRank[units[w].troop]
        BY <1>2, <1>10, <3>1, <3>3
      <4> QED BY <1>10, <2>2, <4>1 DEF IdBefore
    <3> QED BY <3>2, <3>3
  <2>3. CASE Distance(u, w) # d
    <3>1. Distance(u, v) < Distance(u, w)
      BY <1>10, <2>1, <2>3
    <3> QED BY <3>1
  <2> QED BY <2>2, <2>3
<1>12. \E x \in near : \A w \in near \ {x} : Before(x, w)
  BY <1>10, <1>11
<1>13. Nearest(u, limit) \in near
  <2> HIDE DEF Before
  <2> QED BY <1>1, <1>12
<1> QED BY <1>13 DEF near

LEMMA AcquireIs ==
  ASSUME TroopInv, BodiesKnown, NEW u \in OnField, NEW limit, Acquire(u, limit) # None
  PROVE  Acquire(u, limit) \in Foes(u)
BY NearestIs DEF Acquire

LEMMA CaughtAre ==
  ASSUME TroopTypeOK, BodiesKnown, NEW side, NEW centre, NEW radius, NEW v \in Caught(side, centre, radius)
  PROVE  v \in OnField /\ IsAlive(v)
BY DEF Caught

LEMMA AgainstUnitIs ==
  ASSUME NEW amount \in Nat, NEW bonus \in Nat, NEW v
  PROVE  AgainstUnit(amount, bonus, v) \in Nat
BY DEF AgainstUnit

(* What a blow does: nobody is hit twice, and what is told of it is what it did. *)
Fells(wounds) == {v \in DOMAIN wounds : wounds[v] >= hp[v]}
LEMMA BlowsAreTold ==
  ASSUME TroopTypeOK, StreamInv,
         NEW wounds, DOMAIN wounds \subseteq OnField,
         \A v \in DOMAIN wounds : IsAlive(v) /\ wounds[v] \in Nat,
         hp' = [u \in OnField |-> IF u \in DOMAIN wounds THEN Left(hp[u], wounds[u]) ELSE hp[u]],
         DOMAIN told' = DOMAIN told, told'.dissolved = told.dissolved,
         told'.defeats = [u \in DOMAIN told.defeats |->
                            IF u \in Fells(wounds) THEN told.defeats[u] + 1 ELSE told.defeats[u]],
         UNCHANGED fieldVars,
         base' \in [Side -> Nat], told'.base \in [Side -> Int],
         \A s \in Side : base'[s] + told'.base[s] = BaseHp
  PROVE  Wounded /\ StreamInv'
<1>0. newest' = newest /\ OnField' = OnField /\ newest \in Nat /\ hp \in [OnField -> Nat]
  BY DEF fieldVars, OnField, TroopTypeOK
<1>1. \A u \in OnField : hp'[u] \in Nat /\ hp'[u] <= hp[u] /\ hp[u] \in Nat
  BY <1>0, LeftFacts
<1>2. Wounded
  BY <1>0, <1>1 DEF Wounded
<1>3. ASSUME NEW u \in 1..newest
      PROVE  told'.defeats[u] = (IF u \in told.dissolved \/ (u \in OnField /\ hp'[u] > 0) THEN 0 ELSE 1)
  <2>1. /\ told.defeats[u] = (IF u \in told.dissolved \/ (u \in OnField /\ hp[u] > 0) THEN 0 ELSE 1)
        /\ u \in told.dissolved => u \notin OnField
        /\ u \in DOMAIN told.defeats
    BY DEF StreamInv, StreamAccountsForAll, IsAlive
  <2>2. CASE u \in DOMAIN wounds
    <3>1. u \in OnField /\ hp[u] > 0 /\ hp'[u] = Left(hp[u], wounds[u]) /\ wounds[u] \in Nat /\ hp[u] \in Nat
      BY <1>0, <2>2 DEF IsAlive
    <3>2. hp'[u] > 0 <=> ~(wounds[u] >= hp[u])
      BY <3>1, LeftFacts
    <3>3. told.defeats[u] = 0 /\ u \notin told.dissolved
      BY <2>1, <3>1
    <3>4. u \in Fells(wounds) <=> wounds[u] >= hp[u]
      BY <2>2 DEF Fells
    <3>5. told'.defeats[u] = IF u \in Fells(wounds) THEN 1 ELSE 0
      BY <2>1, <3>3
    <3> QED BY <3>1, <3>2, <3>3, <3>4, <3>5
  <2>3. CASE u \notin DOMAIN wounds
    <3>1. u \notin Fells(wounds) /\ (u \in OnField => hp'[u] = hp[u])
      BY <2>3 DEF Fells
    <3>2. told'.defeats[u] = told.defeats[u]
      BY <2>1, <3>1
    <3> QED BY <2>1, <3>1, <3>2
  <2> QED BY <2>2, <2>3
<1>4. \A u \in told.dissolved : u \in 1..newest /\ u \notin OnField
  BY DEF StreamInv, StreamAccountsForAll
<1>5. StreamAccountsForAll'
  <2>1. \A s \in Side : base'[s] >= 0
    OBVIOUS
  <2> QED BY <1>0, <1>3, <1>4, <2>1 DEF StreamAccountsForAll, IsAlive
<1> QED BY <1>0, <1>2, <1>5 DEF StreamInv

(* Nothing that the stream is about. *)
LEMMA StreamQuiet ==
  ASSUME StreamInv, UNCHANGED <<fieldVars, hp, base, told>>
  PROVE  StreamInv'
BY DEF StreamInv, StreamAccountsForAll, fieldVars, OnField, IsAlive

LEMMA WoundedByNone ==
  ASSUME TroopTypeOK, hp' = hp
  PROVE  Wounded
BY DEF Wounded, TroopTypeOK

LEMMA StrikeIs ==
  ASSUME TroopTypeOK, BodiesKnown, StreamInv, UNCHANGED fieldVars,
         NEW wounds, DOMAIN wounds \subseteq OnField,
         \A v \in DOMAIN wounds : IsAlive(v) /\ wounds[v] \in Nat,
         NEW losses \in [Side -> Nat], \A s \in Side : losses[s] <= base[s],
         NEW dealer, NEW credit,
         Strike(wounds, losses, dealer, credit)
  PROVE  Wounded /\ BodiesKnown' /\ StreamInv'
<1>1. /\ hp' = [u \in OnField |-> IF u \in DOMAIN wounds THEN Left(hp[u], wounds[u]) ELSE hp[u]]
      /\ base' = [s \in Side |-> base[s] - losses[s]]
      /\ body' = [u \in OnField |->
                   CASE u \in DOMAIN wounds -> [body[u] EXCEPT !.meters["taken"] = @ + wounds[u]]
                     [] u = dealer /\ IsAlive(u) -> [body[u] EXCEPT !.meters["dealt"] = @ + credit]
                     [] OTHER -> body[u]]
      /\ told' = [told EXCEPT !.defeats = [u \in DOMAIN @ |-> IF u \in Fells(wounds) THEN @[u] + 1 ELSE @[u]],
                              !.base = [s \in Side |-> @[s] + losses[s]]]
  BY DEF Strike, Fells
<1>2. \A s \in Side : base[s] \in Nat /\ told.base[s] \in Int /\ base[s] + told.base[s] = BaseHp /\ losses[s] \in Nat
  BY DEF StreamInv, StreamAccountsForAll
<1>3. DOMAIN told = {"defeats", "dissolved", "base"} /\ DOMAIN told.base = Side
  BY DEF StreamInv
<1>4. /\ DOMAIN told' = DOMAIN told /\ told'.dissolved = told.dissolved
      /\ told'.defeats = [u \in DOMAIN told.defeats |->
                            IF u \in Fells(wounds) THEN told.defeats[u] + 1 ELSE told.defeats[u]]
      /\ told'.base = [s \in Side |-> told.base[s] + losses[s]]
  BY <1>1, <1>3
<1>5. /\ base' \in [Side -> Nat] /\ told'.base \in [Side -> Int]
      /\ \A s \in Side : base'[s] + told'.base[s] = BaseHp
  <2>1. \A s \in Side : base[s] - losses[s] \in Nat /\ told.base[s] + losses[s] \in Int
    BY <1>2
  <2>2. base' \in [Side -> Nat] /\ told'.base \in [Side -> Int]
    BY <1>1, <1>4, <2>1
  <2>3. ASSUME NEW s \in Side PROVE base'[s] + told'.base[s] = BaseHp
    <3>1. base'[s] = base[s] - losses[s] /\ told'.base[s] = told.base[s] + losses[s]
      BY <1>1, <1>4
    <3> QED BY <1>2, <3>1
  <2> QED BY <2>2, <2>3
<1>6. Wounded /\ StreamInv'
  BY <1>1, <1>4, <1>5, BlowsAreTold
<1>7. ASSUME NEW u \in OnField PROVE IsBody(body'[u])
  <2>1. IsBody(body[u])
    BY DEF BodiesKnown
  <2>2. \/ body'[u] = [body[u] EXCEPT !.meters["taken"] = @ + wounds[u]]
        \/ body'[u] = [body[u] EXCEPT !.meters["dealt"] = @ + credit]
        \/ body'[u] = body[u]
    BY <1>1
  <2>3. CASE body'[u] = [body[u] EXCEPT !.meters["taken"] = @ + wounds[u]]
    <3>1. body'[u] = [body[u] EXCEPT !.meters = [body[u].meters EXCEPT !["taken"] = @ + wounds[u]]]
      BY <2>3
    <3> QED BY <2>1, <3>1, BodySet
  <2>4. CASE body'[u] = [body[u] EXCEPT !.meters["dealt"] = @ + credit]
    <3>1. body'[u] = [body[u] EXCEPT !.meters = [body[u].meters EXCEPT !["dealt"] = @ + credit]]
      BY <2>4
    <3> QED BY <2>1, <3>1, BodySet
  <2> QED BY <2>1, <2>2, <2>3, <2>4
<1>8. OnField' = OnField /\ DOMAIN body' = OnField
  BY <1>1 DEF fieldVars, OnField
<1>9. BodiesKnown'
  BY <1>7, <1>8 DEF BodiesKnown, IsBody
<1> QED BY <1>6, <1>9

------------------------------------------------------------------------------------
(* The steps before resummon: each is one the troops may take while they fight. *)


(* A phase gives over to the next one. *)
LEMMA PassIs ==
  ASSUME BattleInv, NEW s, NEW next, NEW turns, Pass(s, next, turns),
         s # "spells" => pending' = pending,
         next \in {"movement", "abilities", "combat"} => turns \subseteq OnField,
         next = "statuses" => turns \subseteq DOMAIN hazards'
  PROVE  /\ phase = "acting" /\ phase' = "acting" /\ stage = s /\ stage' = next
         /\ cast = NoCast /\ todo = {} /\ todo' = turns
         /\ OnField' = OnField /\ StageOrder'
<1>1. /\ phase = "acting" /\ phase' = "acting" /\ stage = s /\ stage' = next
      /\ cast = NoCast /\ todo = {} /\ todo' = turns /\ units' = units
  BY DEF Pass, Acting, TroopsRest, fieldVars
<1> QED BY <1>1 DEF StageOrder, OnField

------------------------------------------------------------------------------------
(* Walking. *)

LEMMA StrideIs ==
  ASSUME TroopTypeOK, BodiesKnown, NEW u \in OnField
  PROVE  /\ Standoff(u) \in Nat /\ Stride(u) \in Nat
         /\ Stride(u) <= Card(u).speed
         /\ \A v \in Foes(u) : Distance(u, v) > Standoff(u) => Stride(u) <= Distance(u, v) - Standoff(u)
<1> DEFINE foes == {Distance(u, v) - Standoff(u) : v \in Foes(u)}
           plate == Gap(PlaceOf(u), BasePlace[Opposing(SideOfUnit(u))]) - Footprint
           room == {d \in foes \cup {plate} : d > 0}
<1>1. Standoff(u) \in Nat /\ Card(u).speed \in Nat /\ Card(u).reach \in Nat
  BY KitIs DEF Standoff
<1>2. plate \in Int
  <2>1. BasePlace[Opposing(SideOfUnit(u))] \in Int /\ PlaceOf(u) \in Int
    BY KitIs, SidesFacts, FoesAre
  <2>2. Gap(PlaceOf(u), BasePlace[Opposing(SideOfUnit(u))]) \in Nat
    BY <2>1, GapFacts
  <2> QED BY <2>2, LaneAssumption
<1>3. \A v \in Foes(u) : Distance(u, v) \in Nat
  BY FoesAre
<1>4. foes \subseteq Int
  BY <1>1, <1>3
<1> HIDE DEF plate
<1>5. room \in SUBSET Nat
  <2> HIDE DEF foes
  <2>1. ASSUME NEW x \in room PROVE x \in Nat
    <3>1. x \in Int /\ x > 0
      BY <1>2, <1>4
    <3> QED BY <3>1
  <2> HIDE DEF room
  <2> QED BY <2>1
<1>6. Slack(u) = IF room = {} THEN Width ELSE Min(room)
  BY DEF Slack, plate
<1>7. Slack(u) \in Nat
  <2>1. room # {} => Min(room) \in Nat
    BY <1>5, SmallestIs
  <2> QED BY <1>6, <2>1, LaneAssumption
<1>8. ASSUME NEW v \in Foes(u), Distance(u, v) > Standoff(u)
      PROVE  Slack(u) <= Distance(u, v) - Standoff(u)
  <2>1. Distance(u, v) - Standoff(u) \in room
    BY <1>1, <1>3, <1>8
  <2>2. \A y \in room : Min(room) <= y
    BY <1>5, <2>1, SmallestIs
  <2> QED BY <1>6, <2>1, <2>2
<1>9. Stride(u) \in Nat /\ Stride(u) <= Slack(u) /\ Stride(u) <= Card(u).speed
  <2> DEFINE pace == IF body[u].intent = "withdraw" THEN Card(u).speed \div 2 ELSE Card(u).speed
  <2>1. pace \in Nat /\ pace <= Card(u).speed
    BY <1>1
  <2>2. Stride(u) = Least(pace, Slack(u))
    BY DEF Stride
  <2> HIDE DEF pace
  <2> QED BY <1>1, <1>7, <2>1, <2>2 DEF Least
<1> QED
  <2>1. ASSUME NEW v \in Foes(u), Distance(u, v) > Standoff(u)
        PROVE  Stride(u) <= Distance(u, v) - Standoff(u)
    BY <1>1, <1>3, <1>7, <1>8, <1>9, <2>1
  <2> QED BY <1>1, <1>9, <2>1

(* A barricade shortens a step and never turns it. *)
LEMMA ClampIs ==
  ASSUME TroopTypeOK, BodiesKnown, NEW u \in OnField, NEW p \in Int
  PROVE  \E m \in Nat :
           /\ ClampToBlockers(u, p) = Towards(PlaceOf(u), p, m)
           /\ m <= Gap(PlaceOf(u), p)
           /\ \A v \in Foes(u) :
                Card(v).blocks > 0 /\ Gap(p, PlaceOf(v)) < Card(v).blocks /\ Distance(u, v) >= Card(v).blocks
                  => m <= Distance(u, v) - Card(v).blocks
<1> DEFINE step == Gap(PlaceOf(u), p)
           met == {v \in Foes(u) : /\ Card(v).blocks > 0
                                   /\ Gap(p, PlaceOf(v)) < Card(v).blocks
                                   /\ Distance(u, v) >= Card(v).blocks}
           caps == {Distance(u, v) - Card(v).blocks : v \in met} \cup {step}
<1>1. step \in Nat
  BY FoesAre, GapFacts
<1>2. \A v \in Foes(u) : Distance(u, v) \in Nat /\ Card(v).blocks \in Nat
  BY FoesAre, KitIs
<1>3. caps \in SUBSET Nat /\ caps # {}
  <2>1. \A v \in met : Distance(u, v) - Card(v).blocks \in Nat
    BY <1>2
  <2> HIDE DEF step, met
  <2> QED BY <1>1, <2>1
<1>4. Min(caps) \in Nat /\ \A y \in caps : Min(caps) <= y
  BY <1>3, SmallestIs
<1>5. ClampToBlockers(u, p) = Towards(PlaceOf(u), p, Min(caps))
  BY DEF ClampToBlockers
<1>6. Min(caps) <= step /\ \A v \in met : Min(caps) <= Distance(u, v) - Card(v).blocks
  <2> HIDE DEF step, met
  <2> QED BY <1>4
<1> HIDE DEF caps
<1> QED BY <1>4, <1>5, <1>6

(* A step of a walk: as long as the stride at most, and out of barricades. *)
LEMMA WalkIs ==
  ASSUME TroopTypeOK, BodiesKnown, NEW u \in OnField, NEW q,
         q = ClampToBlockers(u, Towards(PlaceOf(u), body[u].goal, Stride(u)))
  PROVE  /\ q \in Int
         /\ Gap(PlaceOf(u), q) <= Stride(u)
         /\ \A v \in Foes(u) : Card(v).blocks > 0 => ~Crosses(PlaceOf(u), q, PlaceOf(v), Card(v).blocks)
<1> DEFINE p == PlaceOf(u)
           to == Towards(p, body[u].goal, Stride(u))
<1>1. p \in Int /\ body[u].goal \in Int
  BY FoesAre DEF BodiesKnown, IsBody
<1>2. Stride(u) \in Nat /\ Stride(u) <= Card(u).speed /\ Card(u).speed \in Nat
  BY StrideIs, KitIs
<1>3. to \in Int /\ Gap(p, to) <= Stride(u)
  BY <1>1, <1>2, TowardsFacts
<1> HIDE DEF to
<1>4. PICK m \in Nat :
           /\ ClampToBlockers(u, to) = Towards(p, to, m)
           /\ m <= Gap(p, to)
           /\ \A v \in Foes(u) :
                Card(v).blocks > 0 /\ Gap(to, PlaceOf(v)) < Card(v).blocks /\ Distance(u, v) >= Card(v).blocks
                  => m <= Distance(u, v) - Card(v).blocks
  BY <1>3, ClampIs
<1>5. q = Towards(p, to, m)
  BY <1>4 DEF to
<1> HIDE DEF p
<1>6. /\ q \in Int /\ Gap(p, q) <= m
      /\ p <= to => p <= q /\ q <= to
      /\ to <= p => to <= q /\ q <= p
  BY <1>1, <1>3, <1>5, TowardsFacts
<1>7. Gap(p, q) <= Stride(u)
  <2>1. Gap(p, q) \in Nat /\ Gap(p, to) \in Nat
    BY <1>1, <1>3, <1>6, GapFacts
  <2> QED BY <1>2, <1>3, <1>4, <1>6, <2>1
<1>8. ASSUME NEW v \in Foes(u), Card(v).blocks > 0, Crosses(p, q, PlaceOf(v), Card(v).blocks)
      PROVE  FALSE
  <2> DEFINE at == PlaceOf(v)
             b == Card(v).blocks
  <2>1. at \in Int /\ b \in Nat /\ b > 0 /\ v \in OnField
    BY <1>8, FoesAre, KitIs
  <2>2. Card(u).speed < 2 * b
    <3>1. Card(u) \in Kit /\ Card(v) \in Kit
      BY <2>1 DEF Card, TroopTypeOK, Unit, OnField
    <3> QED BY <2>1, <3>1, StrideAssumption
  <2>3. Distance(u, v) = Gap(p, at)
    BY DEF Distance, p
  <2>4. Gap(to, at) < b /\ Gap(p, at) >= b => m <= Gap(p, at) - b
    BY <1>4, <2>1, <2>3
  <2>5. Crosses(p, q, at, b)
    BY <1>8
  <2> HIDE DEF at, b
  <2>6. Gap(p, to) < 2 * b
    <3>1. Gap(p, to) \in Nat
      BY <1>1, <1>3, GapFacts
    <3> QED BY <1>2, <1>3, <2>1, <2>2, <3>1
  <2>7. CASE p <= to
    BY <1>1, <1>3, <1>6, <2>1, <2>4, <2>5, <2>6, <2>7 DEF Crosses, Gap
  <2>8. CASE to <= p
    BY <1>1, <1>3, <1>6, <2>1, <2>4, <2>5, <2>6, <2>8 DEF Crosses, Gap
  <2> QED BY <1>1, <1>3, <2>7, <2>8
<1> QED BY <1>6, <1>7, <1>8 DEF p

------------------------------------------------------------------------------------
(* The phases up to the abilities. *)

LEMMA QuietStep ==
  ASSUME BattleInv, TroopsRest, phase = "acting", UNCHANGED <<hp, base, told>>
  PROVE  /\ Fight /\ StreamInv'
         /\ OnField' = OnField /\ phase' = "acting"
<1>1. TroopTypeOK /\ StreamInv
  BY DEF BattleInv, TroopInv
<1>2. OnField' = OnField /\ phase' = "acting" /\ UNCHANGED <<fieldVars, hp, base, told>>
  BY DEF TroopsRest, fieldVars, OnField
<1>3. Fight
  BY <1>1, WoundedByNone DEF TroopsRest, Fight
<1> QED BY <1>1, <1>2, <1>3, StreamQuiet

LEMMA InvParts ==
  ASSUME BattleInv
  PROVE  /\ TroopInv /\ TroopTypeOK /\ BodiesKnown /\ CastKnown /\ StageOrder /\ StreamInv
         /\ hazards \in [DOMAIN hazards -> Hazard] /\ pending \in Seq(PendingSpell)
BY DEF BattleInv, BattleTypes, TroopInv

LEMMA BodiesSame == ASSUME BodiesKnown, OnField' = OnField, body' = body PROVE BodiesKnown'
BY DEF BodiesKnown, IsBody

LEMMA BodiesNew ==
  ASSUME OnField' = OnField, DOMAIN body' = OnField, \A u \in OnField : IsBody(body'[u])
  PROVE  BodiesKnown'
BY DEF BodiesKnown, IsBody

LEMMA CastNone == ASSUME cast' = NoCast PROVE CastKnown'
BY DEF CastKnown, NoCast

LEMMA CastSame ==
  ASSUME CastKnown, OnField' = OnField, UNCHANGED <<cast, phase, stage>> PROVE CastKnown'
<1>1. IsCast(cast) => IsCast(cast)'
  BY DEF IsCast
<1>2. cast' # NoCast' => cast # NoCast
  BY DEF NoCast
<1> QED BY <1>1, <1>2 DEF CastKnown

LEMMA DecideIs == BattleInv /\ Decide => Fight /\ BattleTypes' /\ StreamInv'
<1> SUFFICES ASSUME BattleInv, Decide PROVE Fight /\ BattleTypes' /\ StreamInv'
  OBVIOUS
<1>1. /\ Pass("decision", "movement", OnField) /\ UNCHANGED <<hp, cooldown, worldVars, cast, told>>
      /\ body' = [u \in OnField |-> IF IsAlive(u) THEN Decided(u, mood'[SideOfUnit(u)]) ELSE body[u]]
  BY DEF Decide
<1>2. UNCHANGED <<hazards, base, pending, hp, cast, told>>
  BY <1>1 DEF worldVars
<1>3. phase = "acting" /\ cast = NoCast /\ OnField' = OnField /\ StageOrder' /\ TroopsRest
  BY <1>1, <1>2, PassIs DEF Pass
<1>4. Fight /\ StreamInv'
  BY <1>2, <1>3, QuietStep
<1>5. ASSUME NEW u \in OnField PROVE IsBody(body'[u])
  <2>1. IsBody(body[u]) /\ units[u].station \in Int /\ SideOfUnit(u) \in Side
    BY InvParts, KitIs DEF BodiesKnown
  <2>2. CASE body'[u] = body[u]
    BY <2>1, <2>2
  <2>3. CASE body'[u] = Decided(u, mood'[SideOfUnit(u)])
    <3> DEFINE mind == mood'[SideOfUnit(u)]
               kind == mind[units[u].type]
               home == BasePlace[SideOfUnit(u)]
               away == BasePlace[Opposing(SideOfUnit(u))]
               target == IF kind \in {"attack", "cast"} THEN Nearest(u, Width) ELSE None
               goal == CASE kind = "advance" -> away
                         [] kind \in {"withdraw", "retreat"} -> home
                         [] OTHER -> Clip(units[u].station)
    <3>1. Decided(u, mind) = [body[u] EXCEPT !.intent = kind, !.target = target, !.goal = goal]
      BY DEF Decided
    <3>2. home \in Int /\ away \in Int /\ Clip(units[u].station) \in Int
      BY <2>1, SidesFacts, GapFacts
    <3>3. goal \in Int
      <4> HIDE DEF home, away, kind
      <4> QED BY <3>2
    <3> HIDE DEF kind, target, goal
    <3> QED BY <2>1, <2>3, <3>1, <3>3 DEF IsBody
  <2> QED BY <1>1, <2>2, <2>3
<1>6. BodiesKnown'
  BY <1>1, <1>3, <1>5, BodiesNew
<1>7. CastKnown'
  BY <1>2, <1>3, CastNone
<1> QED BY <1>2, <1>3, <1>4, <1>6, <1>7, InvParts DEF BattleTypes

(* A phase that only gives over. *)
LEMMA PassesIs ==
  ASSUME BattleInv, Moved \/ SpellsLanded \/ AbilitiesCast \/ Fought
  PROVE  Fight /\ BattleTypes' /\ StreamInv'
<1>1. UNCHANGED <<hp, body, hazards, base, pending, cast, told>>
  BY DEF Moved, SpellsLanded, AbilitiesCast, Fought, worldVars
<1>2. \/ Pass("movement", "energy", {}) \/ Pass("spells", "abilities", OnField)
      \/ Pass("abilities", "combat", OnField) \/ Pass("combat", "statuses", DOMAIN hazards)
  BY DEF Moved, SpellsLanded, AbilitiesCast, Fought
<1>3. phase = "acting" /\ cast = NoCast /\ OnField' = OnField /\ StageOrder' /\ TroopsRest
  <2>1. CASE Pass("movement", "energy", {})
    BY <1>1, <2>1, PassIs DEF Pass
  <2>2. CASE Pass("spells", "abilities", OnField)
    BY <1>1, <2>2, PassIs DEF Pass
  <2>3. CASE Pass("abilities", "combat", OnField)
    BY <1>1, <2>3, PassIs DEF Pass
  <2>4. CASE Pass("combat", "statuses", DOMAIN hazards)
    BY <1>1, <2>4, PassIs DEF Pass
  <2> QED BY <1>2, <2>1, <2>2, <2>3, <2>4
<1>4. Fight /\ StreamInv'
  BY <1>1, <1>3, QuietStep
<1>5. BodiesKnown' /\ CastKnown'
  BY <1>1, <1>3, InvParts, BodiesSame, CastNone
<1> QED BY <1>1, <1>3, <1>4, <1>5, InvParts DEF BattleTypes

(* A unit's turn in one of the phases. *)
LEMMA TurnIs ==
  ASSUME BattleInv, NEW s, NEW u, Turn(s, u)
  PROVE  /\ phase = "acting" /\ phase' = "acting" /\ stage = s /\ stage' = s /\ cast = NoCast
         /\ TroopsRest /\ UNCHANGED fieldVars /\ OnField' = OnField
         /\ s \in {"movement", "abilities", "combat"} => u \in OnField
         /\ s = "statuses" => u \in DOMAIN hazards
         /\ DOMAIN hazards' = DOMAIN hazards => StageOrder'
<1>1. /\ phase = "acting" /\ phase' = "acting" /\ stage = s /\ stage' = s /\ cast = NoCast
      /\ TroopsRest /\ UNCHANGED fieldVars /\ todo' = todo \ {u} /\ u \in todo
  BY DEF Turn, Acting, TroopsRest, IsNext
<1>2. OnField' = OnField
  BY <1>1 DEF fieldVars, OnField
<1>3. StageOrder
  BY InvParts
<1> QED BY <1>1, <1>2, <1>3 DEF StageOrder

LEMMA MoveIs == ASSUME BattleInv, NEW u, Move(u) PROVE Fight /\ BattleTypes' /\ StreamInv'
<1>1. Turn("movement", u) /\ UNCHANGED <<hp, cooldown, mood, worldVars, cast, told>>
  BY DEF Move
<1>2. UNCHANGED <<hazards, base, pending, hp, cast, told>>
  BY <1>1 DEF worldVars
<1>3. phase = "acting" /\ UNCHANGED <<phase, stage>> /\ OnField' = OnField /\ StageOrder' /\ TroopsRest /\ u \in OnField
  BY <1>1, <1>2, TurnIs
<1>4. Fight /\ StreamInv'
  BY <1>2, <1>3, QuietStep
<1>5. BodiesKnown'
  <2> DEFINE q == ClampToBlockers(u, Towards(PlaceOf(u), body[u].goal, Stride(u)))
  <2>1. q \in Int
    BY <1>3, InvParts, WalkIs
  <2>2. body' = body \/ body' = [body EXCEPT ![u].place = q]
    BY DEF Move
  <2> HIDE DEF q
  <2>3. CASE body' = [body EXCEPT ![u].place = q]
    <3>1. DOMAIN body = OnField /\ \A v \in OnField : IsBody(body[v])
      BY InvParts DEF BodiesKnown
    <3>2. \A v \in OnField : body'[v] = IF v = u THEN [body[u] EXCEPT !.place = q] ELSE body[v]
      BY <2>3, <3>1
    <3>3. \A v \in OnField : IsBody(body'[v])
      BY <1>3, <2>1, <3>1, <3>2, BodySet
    <3> QED BY <1>3, <2>3, <3>1, <3>3, BodiesNew
  <2> QED BY <1>3, <2>2, <2>3, InvParts, BodiesSame
<1>6. CastKnown'
  BY <1>2, <1>3, InvParts, CastSame
<1> QED BY <1>2, <1>3, <1>4, <1>5, <1>6, InvParts DEF BattleTypes

LEMMA ChargeIs == BattleInv /\ Charge => Fight /\ BattleTypes' /\ StreamInv'
<1> SUFFICES ASSUME BattleInv, Charge PROVE Fight /\ BattleTypes' /\ StreamInv'
  OBVIOUS
<1>1. /\ Pass("energy", "spells", {}) /\ UNCHANGED <<hp, cooldown, mood, worldVars, cast, told>>
      /\ body' = [u \in OnField |-> IF IsAlive(u) /\ Card(u).ability # None THEN Charged(u) ELSE body[u]]
  BY DEF Charge
<1>2. UNCHANGED <<hazards, base, pending, hp, cast, told>>
  BY <1>1 DEF worldVars
<1>3. phase = "acting" /\ cast = NoCast /\ OnField' = OnField /\ StageOrder' /\ TroopsRest
  BY <1>1, <1>2, PassIs DEF Pass
<1>4. Fight /\ StreamInv'
  BY <1>2, <1>3, QuietStep
<1>5. ASSUME NEW u \in OnField PROVE IsBody(body'[u])
  <2>1. IsBody(body[u])
    BY InvParts DEF BodiesKnown
  <2>2. \E e : Charged(u) = [body[u] EXCEPT !.energy = e, !.meters = NoMeters]
    BY DEF Charged
  <2>3. PICK e : Charged(u) = [body[u] EXCEPT !.energy = e, !.meters = NoMeters]
    BY <2>2
  <2>4. IsBody(Charged(u))
    BY <2>1, <2>3 DEF IsBody
  <2> QED BY <1>1, <2>1, <2>4
<1>6. BodiesKnown'
  BY <1>1, <1>3, <1>5, BodiesNew
<1>7. CastKnown'
  BY <1>2, <1>3, CastNone
<1> QED BY <1>2, <1>3, <1>4, <1>6, <1>7, InvParts DEF BattleTypes

------------------------------------------------------------------------------------
(* Casts and their effects. *)

LEMMA LandSpellIs == BattleInv /\ LandSpell => Fight /\ BattleTypes' /\ StreamInv'
<1> SUFFICES ASSUME BattleInv, LandSpell PROVE Fight /\ BattleTypes' /\ StreamInv'
  OBVIOUS
<1> DEFINE i == Head(pending)
<1>1. /\ phase = "acting" /\ stage = "spells" /\ TroopsRest /\ pending # <<>>
      /\ UNCHANGED <<todo, hp, stage, body, hazards, base, told>>
      /\ pending' = Tail(pending)
      /\ cast' = [side |-> i.side, origin |-> i.place, caster |-> None, target |-> None,
                  follows |-> FALSE, effects |-> Spells[i.spell]]
  BY DEF LandSpell, Acting
<1>2. /\ Fight /\ StreamInv' /\ OnField' = OnField /\ phase' = "acting"
  BY <1>1, QuietStep
<1>3. i \in PendingSpell /\ pending' \in Seq(PendingSpell)
  <2>1. pending \in Seq(PendingSpell)
    BY InvParts
  <2> QED BY <1>1, <2>1
<1> HIDE DEF i
<1>4. i.side \in Side /\ i.place \in Int /\ Spells[i.spell] \in Seq(Effects)
  BY <1>3, LaneAssumption, CardAssumption DEF PendingSpell
<1>5. IsCast(cast)'
  BY <1>1, <1>4 DEF IsCast
<1>6. CastKnown' /\ StageOrder' /\ BodiesKnown'
  <2>1. StageOrder'
    BY <1>1, <1>2, InvParts DEF StageOrder
  <2> QED BY <1>1, <1>2, <1>5, <2>1, InvParts, BodiesSame DEF CastKnown
<1> QED BY <1>1, <1>2, <1>3, <1>6, InvParts DEF BattleTypes

LEMMA CastDoneIs == BattleInv /\ CastDone => UNCHANGED troopVars /\ BattleTypes' /\ StreamInv'
<1> SUFFICES ASSUME BattleInv, CastDone PROVE UNCHANGED troopVars /\ BattleTypes' /\ StreamInv'
  OBVIOUS
<1>1. cast' = NoCast /\ UNCHANGED troopVars /\ UNCHANGED <<stage, body, hazards, base, pending, told>>
  BY DEF CastDone, worldVars
<1>2. UNCHANGED <<phase, todo, hp, fieldVars>> /\ OnField' = OnField
  BY <1>1 DEF troopVars, fieldVars, OnField
<1>3. StreamInv'
  BY <1>1, <1>2, InvParts, StreamQuiet
<1>4. CastKnown' /\ StageOrder' /\ BodiesKnown'
  BY <1>1, <1>2, InvParts, BodiesSame, CastNone DEF StageOrder
<1> QED BY <1>1, <1>3, <1>4, InvParts DEF BattleTypes

LEMMA CastAbilityIs == ASSUME BattleInv, NEW u, CastAbility(u) PROVE Fight /\ BattleTypes' /\ StreamInv'
<1>1. Turn("abilities", u) /\ UNCHANGED <<hp, cooldown, mood, worldVars, told>>
  BY DEF CastAbility
<1>2. UNCHANGED <<hazards, base, pending, hp, told>>
  BY <1>1 DEF worldVars
<1>3. /\ phase = "acting" /\ UNCHANGED <<phase, stage>> /\ stage = "abilities"
      /\ OnField' = OnField /\ StageOrder' /\ TroopsRest /\ u \in OnField
  BY <1>1, <1>2, TurnIs
<1>4. Fight /\ StreamInv'
  BY <1>2, <1>3, QuietStep
<1>5. CASE UNCHANGED <<body, cast>>
  <2>1. BodiesKnown' /\ CastKnown'
    BY <1>3, <1>5, InvParts, BodiesSame, CastSame
  <2> QED BY <1>2, <1>3, <1>4, <2>1, InvParts DEF BattleTypes
<1>6. CASE MayCast(u) /\ ~UNCHANGED <<body, cast>>
  <2> DEFINE a == Ability[Card(u).ability]
             self == a.origin = "self"
             origin == IF self THEN PlaceOf(u) ELSE PlaceOf(body[u].target)
             target == IF self THEN None ELSE body[u].target
  <2>1. /\ body' = [body EXCEPT ![u].energy = 0]
        /\ cast' = [side |-> SideOfUnit(u), caster |-> u, follows |-> self, origin |-> origin,
                    target |-> target, effects |-> a.effects]
    BY <1>6 DEF CastAbility
  <2>2. Card(u).ability \in DOMAIN Ability /\ (self \/ body[u].target \in Foes(u))
    BY <1>3, <1>6, InvParts, KitIs DEF MayCast
  <2>3. a.effects \in Seq(Effects)
    BY <2>2, CardAssumption
  <2>4. origin \in Int /\ target \in OnField \cup {None} /\ SideOfUnit(u) \in Side
    BY <1>3, <2>2, InvParts, FoesAre, KitIs
  <2> HIDE DEF a, self, origin, target
  <2>5. IsCast(cast)'
    BY <1>3, <2>1, <2>3, <2>4 DEF IsCast
  <2>6. CastKnown'
    BY <1>3, <2>5 DEF CastKnown
  <2>7. BodiesKnown'
    <3>1. DOMAIN body = OnField /\ \A v \in OnField : IsBody(body[v])
      BY InvParts DEF BodiesKnown
    <3>2. \A v \in OnField : body'[v] = IF v = u THEN [body[u] EXCEPT !.energy = 0] ELSE body[v]
      BY <2>1, <3>1
    <3>3. \A v \in OnField : IsBody(body'[v])
      BY <1>3, <3>1, <3>2, BodySet
    <3> QED BY <1>3, <2>1, <3>1, <3>3, BodiesNew
  <2> QED BY <1>2, <1>3, <1>4, <2>6, <2>7, InvParts DEF BattleTypes
<1> QED BY <1>5, <1>6 DEF CastAbility

(* The effect whose turn it is, and the cast without it. *)
LEMMA ResolvingIs ==
  ASSUME BattleInv, NEW kind, Resolving(kind)
  PROVE  /\ phase = "acting" /\ phase' = "acting" /\ OnField' = OnField /\ UNCHANGED fieldVars
         /\ TroopsRest /\ UNCHANGED <<todo, stage, pending>>
         /\ IsCast(cast) /\ stage \in {"spells", "abilities"}
         /\ Effect \in Effects /\ Effect.kind = kind
         /\ Tail(cast.effects) \in Seq(Effects)
         /\ StageOrder'
         /\ Done => CastKnown'
<1>1. /\ TroopsRest /\ UNCHANGED <<todo, stage, pending>>
      /\ cast # NoCast /\ cast.effects # <<>> /\ Effect.kind = kind
  BY DEF Resolving
<1>2. IsCast(cast) /\ phase = "acting" /\ stage \in {"spells", "abilities"}
  BY <1>1, InvParts DEF CastKnown
<1>3. phase' = "acting" /\ OnField' = OnField /\ UNCHANGED fieldVars
  BY <1>1, <1>2 DEF TroopsRest, fieldVars, OnField
<1>4. Effect \in Effects /\ Tail(cast.effects) \in Seq(Effects)
  <2>1. cast.effects \in Seq(Effects)
    BY <1>2 DEF IsCast
  <2> HIDE DEF Effects
  <2> QED BY <1>1, <2>1 DEF Effect
<1>5. StageOrder'
  BY <1>1, <1>2, <1>3, InvParts DEF StageOrder
<1>6. ASSUME Done PROVE CastKnown'
  <2>1. cast' = [cast EXCEPT !.effects = Tail(cast.effects)]
    BY <1>6 DEF Done
  <2>2. IsCast(cast)'
    BY <1>2, <1>3, <1>4, <2>1 DEF IsCast
  <2> QED BY <1>1, <1>2, <1>3, <2>2 DEF CastKnown
<1> QED BY <1>1, <1>2, <1>3, <1>4, <1>5, <1>6

LEMMA DashIs == BattleInv /\ Dash => Fight /\ BattleTypes' /\ StreamInv'
<1> SUFFICES ASSUME BattleInv, Dash PROVE Fight /\ BattleTypes' /\ StreamInv'
  OBVIOUS
<1> DEFINE c == cast.caster
           step == Least(Effect.far, Distance(c, cast.target) - Effect.short)
           to == Towards(PlaceOf(c), PlaceOf(cast.target), step)
           origin == IF cast.follows THEN to ELSE cast.origin
<1>1. Resolving("dash") /\ UNCHANGED <<hp, hazards, base, told>>
  BY DEF Dash
<1>2. /\ phase = "acting" /\ phase' = "acting" /\ OnField' = OnField
      /\ TroopsRest /\ UNCHANGED <<todo, stage, pending>>
      /\ IsCast(cast) /\ stage \in {"spells", "abilities"}
      /\ Effect \in Effects /\ Effect.kind = "dash" /\ Tail(cast.effects) \in Seq(Effects)
      /\ StageOrder' /\ (Done => CastKnown')
  BY <1>1, ResolvingIs
<1>3. Fight /\ StreamInv'
  BY <1>1, <1>2, QuietStep
<1>4. \/ UNCHANGED body /\ Done
      \/ /\ c # None /\ cast.target # None
         /\ body' = [body EXCEPT ![c].place = to]
         /\ cast' = [cast EXCEPT !.effects = Tail(cast.effects), !.origin = origin]
  BY DEF Dash
<1>5. CASE UNCHANGED body /\ Done
  BY <1>1, <1>2, <1>3, <1>5, InvParts, BodiesSame DEF BattleTypes
<1>6. CASE /\ c # None /\ cast.target # None
           /\ body' = [body EXCEPT ![c].place = to]
           /\ cast' = [cast EXCEPT !.effects = Tail(cast.effects), !.origin = origin]
  <2>1. c \in OnField /\ cast.target \in OnField /\ cast.origin \in Int
    BY <1>2, <1>6 DEF IsCast
  <2>2. PlaceOf(c) \in Int /\ PlaceOf(cast.target) \in Int /\ Distance(c, cast.target) \in Nat
    BY <2>1, InvParts, FoesAre, GapFacts DEF Distance
  <2>3. Effect.far \in Nat /\ Effect.short \in Nat
    BY <1>2 DEF Effects
  <2>4. step \in Int
    BY <2>2, <2>3 DEF Least
  <2> HIDE DEF step
  <2>5. to \in Int
    BY <2>2, <2>4, TowardsAnywhere
  <2> HIDE DEF to
  <2>6. origin \in Int
    BY <2>1, <2>5
  <2> HIDE DEF origin, c
  <2>7. IsCast(cast)'
    BY <1>2, <1>6, <2>6 DEF IsCast
  <2>8. cast' # NoCast => IsCast(cast)' /\ phase' = "acting" /\ stage' \in {"spells", "abilities"}
    BY <1>2, <2>7
  <2>9. CastKnown'
    BY <2>8 DEF CastKnown, NoCast
  <2>10. BodiesKnown'
    <3>1. DOMAIN body = OnField /\ \A v \in OnField : IsBody(body[v])
      BY InvParts DEF BodiesKnown
    <3>2. \A v \in OnField : body'[v] = IF v = c THEN [body[c] EXCEPT !.place = to] ELSE body[v]
      BY <1>6, <3>1
    <3>3. \A v \in OnField : IsBody(body'[v])
      BY <2>1, <2>5, <3>1, <3>2, BodySet
    <3> QED BY <1>2, <1>6, <3>1, <3>3, BodiesNew
  <2> QED BY <1>1, <1>2, <1>3, <2>9, <2>10, InvParts DEF BattleTypes
<1> QED BY <1>4, <1>5, <1>6

LEMMA AreaDamageIs == BattleInv /\ AreaDamage => Fight /\ BattleTypes' /\ StreamInv'
<1> SUFFICES ASSUME BattleInv, AreaDamage PROVE Fight /\ BattleTypes' /\ StreamInv'
  OBVIOUS
<1> DEFINE e == Effect
           foe == Opposing(cast.side)
           wounds == [v \in Caught(cast.side, cast.origin, e.radius) |-> AgainstUnit(e.amount, e.vsMage, v)]
           reaches == Gap(cast.origin, BasePlace[foe]) <= e.radius
           loss == IF reaches THEN Least(base[foe], e.amount * e.vsBase) ELSE 0
           losses == [NoLoss EXCEPT ![foe] = loss]
<1>1. /\ Resolving("damage") /\ Done /\ UNCHANGED hazards
      /\ Strike(wounds, losses, cast.caster, Total(wounds))
  BY DEF AreaDamage
<1>2. /\ phase = "acting" /\ phase' = "acting" /\ OnField' = OnField /\ UNCHANGED fieldVars
      /\ TroopsRest /\ UNCHANGED pending
      /\ IsCast(cast) /\ Effect \in Effects /\ Effect.kind = "damage"
      /\ StageOrder' /\ CastKnown'
  BY <1>1, ResolvingIs
<1>3. e.amount \in Nat /\ e.vsMage \in Nat /\ e.vsBase \in Nat
  BY <1>2 DEF Effects
<1> HIDE DEF e
<1>4. DOMAIN wounds \subseteq OnField /\ \A v \in DOMAIN wounds : IsAlive(v) /\ wounds[v] \in Nat
  BY <1>3, InvParts, CaughtAre, AgainstUnitIs
<1>5. foe \in Side /\ \A s \in Side : base[s] \in Nat
  BY <1>2, SidesFacts, InvParts DEF IsCast, StreamInv
<1>6. loss \in Nat /\ loss <= base[foe]
  <2>1. e.amount * e.vsBase \in Nat
    BY <1>3
  <2> HIDE DEF reaches, foe
  <2> QED BY <1>5, <2>1 DEF Least
<1> HIDE DEF loss, foe, wounds
<1>7. losses \in [Side -> Nat] /\ \A s \in Side : losses[s] <= base[s]
  <2>1. losses = [s \in Side |-> IF s = foe THEN loss ELSE 0]
    BY <1>5 DEF NoLoss
  <2> HIDE DEF losses
  <2>2. ASSUME NEW s \in Side PROVE losses[s] \in Nat /\ losses[s] <= base[s]
    <3>1. CASE s = foe
      BY <1>6, <2>1, <3>1
    <3>2. CASE s # foe
      BY <1>5, <2>1, <3>2
    <3> QED BY <3>1, <3>2
  <2> QED BY <2>1, <2>2
<1> HIDE DEF losses
<1>8. Wounded /\ BodiesKnown' /\ StreamInv'
  BY <1>1, <1>2, <1>4, <1>7, InvParts, StrikeIs
<1>9. Fight
  BY <1>2, <1>8 DEF Fight, TroopsRest
<1> QED BY <1>1, <1>2, <1>8, <1>9, InvParts DEF BattleTypes

LEMMA LitIs ==
  ASSUME NEW burn \in Burning \cup {None}, NEW e, e \in Effects, e.kind = "burn"
  PROVE  Lit(burn, e) \in Burning
<1>1. e.rate \in Nat /\ e.ticks \in Nat /\ e.vsMage \in Nat
  BY DEF Effects
<1>2. CASE burn = None
  BY <1>1, <1>2 DEF Lit, Burning
<1>3. CASE burn # None
  <2>1. burn.rate \in Nat /\ burn.left \in Int /\ burn.vsMage \in Nat
    BY <1>3 DEF Burning
  <2>2. Most(burn.rate, e.rate) \in Nat /\ Most(burn.left, e.ticks) \in Int /\ Most(burn.vsMage, e.vsMage) \in Nat
    BY <1>1, <2>1 DEF Most
  <2> QED BY <1>3, <2>2 DEF Lit, Burning
<1> QED BY <1>2, <1>3

(* Effects that change bodies one by one, and hurt nobody. *)
LEMMA BodiesEffect ==
  ASSUME BattleInv, NEW kind, Resolving(kind), Done, UNCHANGED <<hp, hazards, base, told>>,
         DOMAIN body' = OnField,
         \A u \in OnField : \/ body'[u] = body[u]
                            \/ \E p \in Int : body'[u] = [body[u] EXCEPT !.place = p]
                            \/ \E x \in Burning : body'[u] = [body[u] EXCEPT !.burn = x]
                            \/ \E n : body'[u] = [body[u] EXCEPT !.energy = n]
  PROVE  Fight /\ BattleTypes' /\ StreamInv'
<1>1. /\ phase = "acting" /\ OnField' = OnField /\ TroopsRest /\ UNCHANGED pending
      /\ StageOrder' /\ CastKnown'
  BY ResolvingIs
<1>2. Fight /\ StreamInv'
  BY <1>1, QuietStep
<1>3. \A u \in OnField : IsBody(body[u])
  BY InvParts DEF BodiesKnown
<1>4. \A u \in OnField : IsBody(body'[u])
  BY <1>3, BodySet
<1>5. BodiesKnown'
  BY <1>1, <1>4, BodiesNew
<1> QED BY <1>1, <1>2, <1>5, InvParts DEF BattleTypes

LEMMA BurnIs == BattleInv /\ Burn => Fight /\ BattleTypes' /\ StreamInv'
<1> SUFFICES ASSUME BattleInv, Burn PROVE Fight /\ BattleTypes' /\ StreamInv'
  OBVIOUS
<1> DEFINE e == Effect
           caught == Caught(cast.side, cast.origin, e.radius)
           spread == IF e.spread <= 0 THEN {}
                     ELSE UNION {Caught(cast.side, PlaceOf(v), e.spread) : v \in caught}
           hit == caught \cup spread
<1>1. /\ Resolving("burn") /\ Done /\ UNCHANGED <<hp, hazards, base, told>>
      /\ body' = [u \in OnField |-> IF u \in hit THEN [body[u] EXCEPT !.burn = Lit(@, e)] ELSE body[u]]
  BY DEF Burn
<1>2. e \in Effects /\ e.kind = "burn"
  BY <1>1, ResolvingIs
<1> HIDE DEF e, hit
<1>3. ASSUME NEW u \in OnField
      PROVE  \/ body'[u] = body[u]
             \/ \E x \in Burning : body'[u] = [body[u] EXCEPT !.burn = x]
  <2>1. body[u].burn \in Burning \cup {None}
    BY InvParts DEF BodiesKnown, IsBody
  <2>2. Lit(body[u].burn, e) \in Burning
    BY <1>2, <2>1, LitIs
  <2> QED BY <1>1, <2>2
<1>4. DOMAIN body' = OnField
  BY <1>1
<1> QED BY <1>1, <1>3, <1>4, BodiesEffect

LEMMA KnockbackIs == BattleInv /\ Knockback => Fight /\ BattleTypes' /\ StreamInv'
<1> SUFFICES ASSUME BattleInv, Knockback PROVE Fight /\ BattleTypes' /\ StreamInv'
  OBVIOUS
<1> DEFINE pushed == {v \in Caught(cast.side, cast.origin, Effect.radius) : ~Card(v).emplaced}
<1>1. /\ Resolving("knockback") /\ Done /\ UNCHANGED <<hp, hazards, base, told>>
      /\ body' = [u \in OnField |->
                   IF u \in pushed THEN [body[u] EXCEPT !.place = PushedFrom(cast.origin, @, Effect.distance)]
                   ELSE body[u]]
  BY DEF Knockback
<1>2. Effect \in Effects /\ Effect.kind = "knockback" /\ cast.origin \in Int
  BY <1>1, ResolvingIs DEF IsCast
<1>3. Effect.distance \in Nat
  BY <1>2 DEF Effects
<1> HIDE DEF pushed
<1>4. ASSUME NEW u \in OnField
      PROVE  \/ body'[u] = body[u]
             \/ \E p \in Int : body'[u] = [body[u] EXCEPT !.place = p]
  <2>1. body[u].place \in Int
    BY InvParts DEF BodiesKnown, IsBody
  <2>2. PushedFrom(cast.origin, body[u].place, Effect.distance) \in Int
    BY <1>2, <1>3, <2>1, PushedIs
  <2> QED BY <1>1, <2>2
<1>5. DOMAIN body' = OnField
  BY <1>1
<1> QED BY <1>1, <1>4, <1>5, BodiesEffect

LEMMA EnergyRefillIs == BattleInv /\ EnergyRefill => Fight /\ BattleTypes' /\ StreamInv'
<1> SUFFICES ASSUME BattleInv, EnergyRefill PROVE Fight /\ BattleTypes' /\ StreamInv'
  OBVIOUS
<1> DEFINE allies == {v \in Caught(Opposing(cast.side), cast.origin, Effect.radius) :
                        Card(v).ability # None /\ v # cast.caster}
<1>1. /\ Resolving("refill") /\ Done /\ UNCHANGED <<hp, hazards, base, told>>
      /\ body' = [u \in OnField |->
                   IF u \in allies THEN [body[u] EXCEPT !.energy = @ + Effect.amount] ELSE body[u]]
  BY DEF EnergyRefill
<1> HIDE DEF allies
<1>2. ASSUME NEW u \in OnField
      PROVE  \/ body'[u] = body[u]
             \/ \E n : body'[u] = [body[u] EXCEPT !.energy = n]
  BY <1>1
<1>3. DOMAIN body' = OnField
  BY <1>1
<1> QED BY <1>1, <1>2, <1>3, BodiesEffect

LEMMA BurningGroundIs == BattleInv /\ BurningGround => Fight /\ BattleTypes' /\ StreamInv'
<1> SUFFICES ASSUME BattleInv, BurningGround PROVE Fight /\ BattleTypes' /\ StreamInv'
  OBVIOUS
<1> DEFINE h == [side |-> cast.side, centre |-> cast.origin, radius |-> Effect.radius,
                 rate |-> Effect.rate, left |-> Effect.ticks, vsMage |-> Effect.vsMage]
           n == Max(DOMAIN hazards \cup {0}) + 1
<1>1. /\ Resolving("ground") /\ Done /\ UNCHANGED <<hp, body, base, told>>
      /\ hazards' = Extend(hazards, n, h)
  BY DEF BurningGround
<1>2. /\ phase = "acting" /\ OnField' = OnField /\ TroopsRest /\ UNCHANGED pending
      /\ CastKnown' /\ StageOrder'
      /\ Effect \in Effects /\ Effect.kind = "ground" /\ cast.side \in Side /\ cast.origin \in Int
  BY <1>1, ResolvingIs DEF IsCast
<1>3. Fight /\ StreamInv' /\ BodiesKnown'
  BY <1>1, <1>2, QuietStep, InvParts, BodiesSame
<1>4. h \in Hazard
  <2>1. Effect.radius \in Nat /\ Effect.rate \in Nat /\ Effect.ticks \in Nat /\ Effect.vsMage \in Nat
    BY <1>2 DEF Effects
  <2> QED BY <1>2, <2>1 DEF Hazard
<1> HIDE DEF h, n
<1>5. hazards' \in [DOMAIN hazards' -> Hazard]
  <2>1. \A k \in DOMAIN hazards : hazards[k] \in Hazard
    BY InvParts
  <2> QED BY <1>1, <1>4, <2>1 DEF Extend
<1> QED BY <1>2, <1>3, <1>5, InvParts DEF BattleTypes

------------------------------------------------------------------------------------
(* Combat, statuses, scoring. *)

LEMMA SwingIs == ASSUME BattleInv, NEW u, Swing(u) PROVE Fight /\ BattleTypes' /\ StreamInv'
<1> DEFINE foe == Opposing(SideOfUnit(u))
           dealt == Least(Card(u).damage, base[foe])
           blow == [v \in {Target(u)} |-> Card(u).damage]
           losses == [NoLoss EXCEPT ![foe] = dealt]
<1>1. Turn("combat", u) /\ UNCHANGED <<mood, hazards, score, holders, pending, cast>>
  BY DEF Swing
<1>2. /\ phase = "acting" /\ UNCHANGED <<phase, stage>> /\ UNCHANGED fieldVars /\ OnField' = OnField
      /\ StageOrder' /\ TroopsRest /\ u \in OnField
  BY <1>1, TurnIs
<1>3. CastKnown'
  BY <1>1, <1>2, InvParts, CastSame
<1>4. Card(u).damage \in Nat /\ foe \in Side /\ base[foe] \in Nat /\ \A s \in Side : base[s] \in Nat
  BY <1>2, InvParts, KitIs, SidesFacts DEF StreamInv
<1>5. \/ Strikes(u) /\ Strike(blow, NoLoss, u, Card(u).damage)
      \/ Strike(<<>>, losses, u, dealt)
      \/ UNCHANGED <<hp, base, body, told>>
  BY DEF Swing
<1>6. Wounded /\ BodiesKnown' /\ StreamInv'
  <2>1. CASE Strikes(u) /\ Strike(blow, NoLoss, u, Card(u).damage)
    <3>1. Target(u) \in OnField /\ IsAlive(Target(u))
      BY <1>2, <2>1, InvParts, AcquireIs, FoesAre DEF Strikes, Target
    <3>2. DOMAIN blow \subseteq OnField /\ \A v \in DOMAIN blow : IsAlive(v) /\ blow[v] \in Nat
      BY <1>4, <3>1
    <3>3. NoLoss \in [Side -> Nat] /\ \A s \in Side : NoLoss[s] <= base[s]
      BY <1>4 DEF NoLoss
    <3> HIDE DEF blow
    <3> QED BY <1>2, <2>1, <3>2, <3>3, InvParts, StrikeIs
  <2>2. CASE Strike(<<>>, losses, u, dealt)
    <3>1. dealt \in Nat /\ dealt <= base[foe]
      <4> HIDE DEF foe
      <4> QED BY <1>4 DEF Least
    <3> HIDE DEF dealt, foe
    <3>2. losses = [s \in Side |-> IF s = foe THEN dealt ELSE 0]
      BY <1>4 DEF NoLoss
    <3> HIDE DEF losses
    <3>3. ASSUME NEW s \in Side PROVE losses[s] \in Nat /\ losses[s] <= base[s]
      <4>1. CASE s = foe
        BY <3>1, <3>2, <4>1
      <4>2. CASE s # foe
        BY <1>4, <3>2, <4>2
      <4> QED BY <4>1, <4>2
    <3>4. losses \in [Side -> Nat]
      BY <3>2, <3>3
    <3>5. DOMAIN <<>> = {}
      OBVIOUS
    <3> QED BY <1>2, <2>2, <3>3, <3>4, <3>5, InvParts, StrikeIs
  <2>3. CASE UNCHANGED <<hp, base, body, told>>
    BY <1>2, <2>3, InvParts, WoundedByNone, BodiesSame, StreamQuiet
  <2> QED BY <1>5, <2>1, <2>2, <2>3
<1>7. Fight
  BY <1>2, <1>6 DEF Fight, TroopsRest
<1> QED BY <1>1, <1>2, <1>3, <1>6, <1>7, InvParts DEF BattleTypes

LEMMA BurnTheGroundIs == ASSUME BattleInv, NEW n, BurnTheGround(n) PROVE Fight /\ BattleTypes' /\ StreamInv'
<1> DEFINE h == hazards[n]
           wounds == [v \in Caught(h.side, h.centre, h.radius) |-> AgainstUnit(h.rate, h.vsMage, v)]
<1>1. /\ Turn("statuses", n) /\ UNCHANGED <<mood, hazards, score, holders, pending, cast>>
      /\ Strike(wounds, NoLoss, None, 0)
  BY DEF BurnTheGround
<1>2. /\ phase = "acting" /\ UNCHANGED <<phase, stage>> /\ UNCHANGED fieldVars /\ OnField' = OnField
      /\ StageOrder' /\ TroopsRest /\ n \in DOMAIN hazards
  BY <1>1, TurnIs
<1>3. CastKnown'
  BY <1>1, <1>2, InvParts, CastSame
<1>4. h.rate \in Nat /\ h.vsMage \in Nat
  <2>1. h \in Hazard
    BY <1>2, InvParts
  <2> QED BY <2>1 DEF Hazard
<1> HIDE DEF h
<1>5. DOMAIN wounds \subseteq OnField /\ \A v \in DOMAIN wounds : IsAlive(v) /\ wounds[v] \in Nat
  BY <1>4, InvParts, CaughtAre, AgainstUnitIs
<1>6. NoLoss \in [Side -> Nat] /\ \A s \in Side : NoLoss[s] <= base[s]
  BY InvParts DEF NoLoss, StreamInv
<1> HIDE DEF wounds
<1>7. Wounded /\ BodiesKnown' /\ StreamInv'
  BY <1>1, <1>2, <1>5, <1>6, InvParts, StrikeIs
<1>8. Fight
  BY <1>2, <1>7 DEF Fight, TroopsRest
<1> QED BY <1>1, <1>2, <1>3, <1>7, <1>8, InvParts DEF BattleTypes

LEMMA GroundBurntIs == BattleInv /\ GroundBurnt => Fight /\ BattleTypes' /\ StreamInv'
<1> SUFFICES ASSUME BattleInv, GroundBurnt PROVE Fight /\ BattleTypes' /\ StreamInv'
  OBVIOUS
<1> DEFINE lasting == {k \in DOMAIN hazards : hazards[k].left > 1}
<1>1. /\ Pass("statuses", "burning", {})
      /\ hazards' = [n \in lasting |-> [hazards[n] EXCEPT !.left = @ - 1]]
      /\ UNCHANGED <<hp, body, base, pending, cast, told>>
  BY DEF GroundBurnt
<1>2. phase = "acting" /\ cast = NoCast /\ OnField' = OnField /\ StageOrder' /\ TroopsRest
  BY <1>1, PassIs DEF Pass
<1>3. Fight /\ StreamInv' /\ BodiesKnown' /\ CastKnown'
  BY <1>1, <1>2, QuietStep, InvParts, BodiesSame, CastNone
<1>4. hazards' \in [DOMAIN hazards' -> Hazard]
  <2>1. ASSUME NEW k \in DOMAIN hazards PROVE [hazards[k] EXCEPT !.left = @ - 1] \in Hazard
    <3>1. hazards[k] \in Hazard /\ hazards[k].left - 1 \in Int
      BY InvParts DEF Hazard
    <3> QED BY <3>1 DEF Hazard
  <2>2. \A k \in lasting : k \in DOMAIN hazards
    OBVIOUS
  <2> HIDE DEF lasting
  <2> QED BY <1>1, <2>1, <2>2
<1> QED BY <1>1, <1>2, <1>3, <1>4, InvParts DEF BattleTypes

LEMMA BurnTheBurningIs == BattleInv /\ BurnTheBurning => Fight /\ BattleTypes' /\ StreamInv'
<1> SUFFICES ASSUME BattleInv, BurnTheBurning PROVE Fight /\ BattleTypes' /\ StreamInv'
  OBVIOUS
<1> DEFINE wounds == [u \in {v \in OnField : body[v].burn # None /\ IsAlive(v)} |->
                        AgainstUnit(body[u].burn.rate, body[u].burn.vsMage, u)]
           down == {u \in OnField : IF u \in DOMAIN wounds THEN wounds[u] >= hp[u] ELSE ~IsAlive(u)}
<1>1. /\ Pass("burning", "scoring", {}) /\ UNCHANGED <<cooldown, mood, worldVars, cast>>
      /\ hp' = [u \in OnField |-> IF u \in DOMAIN wounds THEN Left(hp[u], wounds[u]) ELSE hp[u]]
      /\ body' = [u \in OnField |->
              IF u \in DOMAIN wounds
              THEN [body[u] EXCEPT !.meters["taken"] = @ + wounds[u],
                                   !.burn = IF u \in down THEN None ELSE Waning(@)]
              ELSE [body[u] EXCEPT !.burn = None]]
      /\ told' = [told EXCEPT !.defeats = [u \in DOMAIN @ |->
              IF u \in down /\ u \in DOMAIN wounds THEN @[u] + 1 ELSE @[u]]]
  BY DEF BurnTheBurning
<1>2. UNCHANGED <<hazards, base, pending, cast>>
  BY <1>1 DEF worldVars
<1>3. phase = "acting" /\ cast = NoCast /\ OnField' = OnField /\ StageOrder' /\ TroopsRest /\ UNCHANGED fieldVars
  <2>1. Pass("burning", "scoring", {})
    BY <1>1
  <2>2. phase = "acting" /\ cast = NoCast /\ OnField' = OnField /\ StageOrder'
    BY <1>2, <2>1, PassIs
  <2>3. TroopsRest
    BY <2>1 DEF Pass
  <2>4. UNCHANGED fieldVars
    BY <2>3 DEF TroopsRest
  <2> QED BY <2>2, <2>3, <2>4
<1>4. \A u \in OnField : /\ DOMAIN body[u] = {"place", "goal", "intent", "target", "energy", "meters", "burn"}
                         /\ IsBody(body[u]) /\ body[u].burn \in Burning \cup {None}
  BY InvParts DEF BodiesKnown, IsBody
<1>5. \A u \in DOMAIN wounds : /\ u \in OnField /\ IsAlive(u) /\ body[u].burn \in Burning
                               /\ wounds[u] \in Nat
  <2>1. ASSUME NEW u \in DOMAIN wounds
        PROVE  u \in OnField /\ IsAlive(u) /\ body[u].burn \in Burning
    BY <1>4
  <2>2. ASSUME NEW u \in DOMAIN wounds
        PROVE  wounds[u] \in Nat
    <3>1. body[u].burn.rate \in Nat /\ body[u].burn.vsMage \in Nat
      BY <2>1 DEF Burning
    <3>2. wounds[u] = AgainstUnit(body[u].burn.rate, body[u].burn.vsMage, u)
      OBVIOUS
    <3> QED BY <3>1, <3>2, AgainstUnitIs
  <2> QED BY <2>1, <2>2
<1> HIDE DEF wounds
<1>6. \A u : u \in Fells(wounds) <=> u \in down /\ u \in DOMAIN wounds
  BY <1>5 DEF Fells
<1> HIDE DEF down
<1>7. /\ DOMAIN told' = DOMAIN told /\ told'.dissolved = told.dissolved
      /\ told'.defeats = [u \in DOMAIN told.defeats |->
                            IF u \in Fells(wounds) THEN told.defeats[u] + 1 ELSE told.defeats[u]]
      /\ told'.base = told.base
  <2>1. DOMAIN told = {"defeats", "dissolved", "base"}
    BY InvParts DEF StreamInv
  <2>2. told' = [told EXCEPT !.defeats = [u \in DOMAIN told.defeats |->
                   IF u \in Fells(wounds) THEN told.defeats[u] + 1 ELSE told.defeats[u]]]
    BY <1>1, <1>6
  <2> QED BY <2>1, <2>2
<1>8. /\ base' \in [Side -> Nat] /\ told'.base \in [Side -> Int]
      /\ \A s \in Side : base'[s] + told'.base[s] = BaseHp
  BY <1>2, <1>7, InvParts DEF StreamInv, StreamAccountsForAll
<1>9. DOMAIN wounds \subseteq OnField /\ \A v \in DOMAIN wounds : IsAlive(v) /\ wounds[v] \in Nat
  BY <1>5
<1>10. Wounded /\ StreamInv'
  BY <1>1, <1>3, <1>7, <1>8, <1>9, InvParts, BlowsAreTold
<1>11. ASSUME NEW u \in OnField PROVE IsBody(body'[u])
  <2>1. CASE u \in DOMAIN wounds
    <3> DEFINE burn == IF u \in down THEN None ELSE Waning(body[u].burn)
               meters == [body[u].meters EXCEPT !["taken"] = @ + wounds[u]]
    <3>1. body'[u] = [body[u] EXCEPT !.meters = meters, !.burn = burn]
      BY <1>1, <2>1
    <3>2. burn \in Burning \cup {None}
      <4>1. [body[u].burn EXCEPT !.left = @ - 1] \in Burning
        <5>1. body[u].burn \in Burning /\ body[u].burn.left - 1 \in Int
          BY <1>5, <2>1 DEF Burning
        <5> QED BY <5>1 DEF Burning
      <4> QED BY <4>1 DEF Waning
    <3> HIDE DEF burn, meters
    <3> QED BY <1>4, <3>1, <3>2 DEF IsBody
  <2>2. CASE u \notin DOMAIN wounds
    <3>1. body'[u] = [body[u] EXCEPT !.burn = None]
      BY <1>1, <2>2
    <3> QED BY <1>4, <3>1, BodySet
  <2> QED BY <2>1, <2>2
<1>12. BodiesKnown' /\ CastKnown'
  BY <1>1, <1>2, <1>3, <1>11, BodiesNew, CastNone
<1>13. Fight
  BY <1>3, <1>10 DEF Fight, TroopsRest
<1> QED BY <1>2, <1>3, <1>10, <1>12, <1>13, InvParts DEF BattleTypes

LEMMA ScoreIs == BattleInv /\ Score => Fight /\ BattleTypes' /\ StreamInv'
<1> SUFFICES ASSUME BattleInv, Score PROVE Fight /\ BattleTypes' /\ StreamInv'
  OBVIOUS
<1>1. Pass("scoring", "over", {}) /\ UNCHANGED <<hp, body, hazards, base, pending, cast, told>>
  BY DEF Score
<1>2. phase = "acting" /\ cast = NoCast /\ OnField' = OnField /\ StageOrder' /\ TroopsRest
  BY <1>1, PassIs DEF Pass
<1>3. Fight /\ StreamInv' /\ BodiesKnown' /\ CastKnown'
  BY <1>1, <1>2, QuietStep, InvParts, BodiesSame, CastNone
<1> QED BY <1>1, <1>2, <1>3, InvParts DEF BattleTypes

------------------------------------------------------------------------------------
(* Between the ticks, and the phases that are the troops'. *)

LEMMA InjectedIs ==
  ASSUME NEW i \in PendingSpell, pending \in Seq(PendingSpell)
  PROVE  Injected(i) \in Seq(PendingSpell)
<1> DEFINE ahead == {k \in DOMAIN pending : KeyLeq(SpellKey(pending[k]), SpellKey(i))}
           n == Cardinality(ahead)
<1>1. n \in 0..Len(pending)
  <2>1. DOMAIN pending = 1..Len(pending) /\ Len(pending) \in Nat
    OBVIOUS
  <2>2. IsFiniteSet(1..Len(pending)) /\ Cardinality(1..Len(pending)) = Len(pending)
    BY <2>1, FS_Interval
  <2>3. ahead \subseteq 1..Len(pending)
    BY <2>1
  <2>4. Cardinality(ahead) <= Len(pending) /\ IsFiniteSet(ahead)
    BY <2>2, <2>3, FS_Subset
  <2>5. Cardinality(ahead) \in Nat
    BY <2>4, FS_CardinalityType
  <2> QED BY <2>1, <2>4, <2>5
<1> DEFINE at == n + 1
<1>2. Injected(i) = InsertAt(pending, at, i)
  BY Zenon DEF Injected
<1>a. at \in 1..(Len(pending) + 1)
  BY <1>1
<1> HIDE DEF n, ahead, at
<1> DEFINE l == SubSeq(pending, 1, at - 1)
           r == SubSeq(pending, at, Len(pending))
<1>3. Injected(i) = (l \o <<i>>) \o r
  BY <1>2 DEF InsertAt
<1>4. l \in Seq(PendingSpell) /\ r \in Seq(PendingSpell)
  BY <1>a
<1> HIDE DEF l, r
<1> QED BY <1>3, <1>4

LEMMA InjectIs ==
  ASSUME BattleInv, NEW s \in Side, NEW n \in DOMAIN Spells, NEW p \in Spot, Inject(s, n, p)
  PROVE  UNCHANGED troopVars /\ BattleTypes' /\ StreamInv'
<1> DEFINE i == [spell |-> n, side |-> s, place |-> p]
<1>1. /\ phase = "rest" /\ pending' = Injected(i)
      /\ UNCHANGED <<troopVars, stage, body, hazards, base, cast, told>>
  BY DEF Inject
<1>2. i \in PendingSpell
  BY DEF PendingSpell
<1>3. pending' \in Seq(PendingSpell)
  <2>1. pending \in Seq(PendingSpell)
    BY InvParts
  <2> HIDE DEF i
  <2> QED BY <1>1, <1>2, <2>1, InjectedIs
<1>4. /\ UNCHANGED <<phase, todo, hp>> /\ UNCHANGED fieldVars /\ OnField' = OnField
  BY <1>1 DEF troopVars, fieldVars, OnField
<1>5. BodiesKnown' /\ CastKnown' /\ StageOrder' /\ StreamInv'
  <2>1. StageOrder'
    BY <1>1, <1>4, InvParts DEF StageOrder
  <2> QED BY <1>1, <1>4, <2>1, InvParts, BodiesSame, CastSame, StreamQuiet
<1> QED BY <1>1, <1>3, <1>5, InvParts DEF BattleTypes

(* A step outside the acting phases that leaves bodies and stream alone. *)
LEMMA FrameIs ==
  ASSUME BattleInv, UNCHANGED <<units, newest, hp>>, UNCHANGED <<body, hazards, base, pending, cast, told>>,
         cast = NoCast,
         phase' = "acting" => stage' = "decision",
         phase' # "acting" => stage' \in {"decision", "over"}
  PROVE  BattleTypes' /\ StreamInv'
<1>1. OnField' = OnField
  BY DEF OnField
<1>2. StageOrder'
  BY DEF StageOrder
<1>3. StreamInv'
  BY <1>1, InvParts DEF StreamInv, StreamAccountsForAll, IsAlive
<1> QED BY <1>1, <1>2, <1>3, InvParts, BodiesSame, CastNone DEF BattleTypes

LEMMA StartTickIs == BattleInv /\ StartTick => NextTick /\ BattleTypes' /\ StreamInv'
<1> SUFFICES ASSUME BattleInv, StartTick PROVE NextTick /\ BattleTypes' /\ StreamInv'
  OBVIOUS
<1>1. NextTick /\ stage' = "decision" /\ UNCHANGED <<body, hazards, base, pending, cast, told>>
  BY DEF StartTick, worldVars
<1>2. phase = "rest" /\ phase' = "acting" /\ UNCHANGED <<units, newest, hp>>
  BY <1>1 DEF NextTick, fieldVars
<1>3. cast = NoCast
  BY <1>2, InvParts DEF CastKnown
<1> QED BY <1>1, <1>2, <1>3, FrameIs

LEMMA ResummonIs == BattleInv /\ Resummon => BeginResummon /\ BattleTypes' /\ StreamInv'
<1> SUFFICES ASSUME BattleInv, Resummon PROVE BeginResummon /\ BattleTypes' /\ StreamInv'
  OBVIOUS
<1>1. /\ BeginResummon /\ stage = "over" /\ cast = NoCast
      /\ UNCHANGED <<stage, body, hazards, base, pending, cast, told>>
  BY DEF Resummon, Acting, battleVars
<1>2. phase' = "resummon" /\ UNCHANGED <<units, newest, hp>>
  BY <1>1 DEF BeginResummon, fieldVars
<1> QED BY <1>1, <1>2, FrameIs

LEMMA RemovalIs == BattleInv /\ Removal => BeginRemoval /\ BattleTypes' /\ StreamInv'
<1> SUFFICES ASSUME BattleInv, Removal PROVE BeginRemoval /\ BattleTypes' /\ StreamInv'
  OBVIOUS
<1>1. BeginRemoval /\ UNCHANGED <<stage, body, hazards, base, pending, cast, told>>
  BY DEF Removal, battleVars
<1>2. phase = "resummon" /\ phase' = "removal" /\ UNCHANGED <<units, newest, hp>>
  BY <1>1 DEF BeginRemoval, fieldVars
<1>3. cast = NoCast /\ stage \in {"decision", "over"}
  BY <1>2, InvParts DEF CastKnown, StageOrder
<1> QED BY <1>1, <1>2, <1>3, FrameIs

LEMMA LeaveSlotTurnIs ==
  ASSUME BattleInv, NEW u, LeaveSlotTurn(u) PROVE LeaveSlot(u) /\ BattleTypes' /\ StreamInv'
<1>1. LeaveSlot(u) /\ UNCHANGED <<stage, body, hazards, base, pending, cast, told>>
  BY DEF LeaveSlotTurn, battleVars
<1>2. phase = "removal" /\ phase' = "removal" /\ UNCHANGED <<units, newest, hp>>
  BY <1>1 DEF LeaveSlot, fieldVars
<1>3. cast = NoCast /\ stage \in {"decision", "over"}
  BY <1>2, InvParts DEF CastKnown, StageOrder
<1> QED BY <1>1, <1>2, <1>3, FrameIs

(* Who is raised stands where its mage stands, and nothing was told of it yet. *)
LEMMA RebuildTurnIs ==
  ASSUME BattleInv, NEW m \in todo, RebuildTurn(m) PROVE Rebuild(m) /\ BattleTypes' /\ StreamInv'
<1>1. /\ Rebuild(m) /\ phase = "resummon" /\ phase' = "resummon"
      /\ UNCHANGED <<stage, hazards, base, pending, cast>>
  BY DEF RebuildTurn, Rebuild, worldVars
<1>2. cast = NoCast /\ stage \in {"decision", "over"}
  BY <1>1, InvParts DEF CastKnown, StageOrder
<1>3. newest \in Nat /\ OnField \subseteq 1..newest /\ hp \in [OnField -> Nat]
  BY InvParts DEF TroopTypeOK
<1>4. StageOrder' /\ CastKnown'
  BY <1>1, <1>2, CastNone DEF StageOrder
<1>5. CASE newest' = newest
  <2>1. UNCHANGED <<units, newest, hp>>
    <3>1. StayIdle(m) \/ CountDown(m)
      BY <1>1, <1>3, <1>5 DEF Rebuild, Raise
    <3> QED BY <3>1 DEF StayIdle, CountDown, fieldVars
  <2>2. UNCHANGED <<body, told>>
    BY <1>5 DEF RebuildTurn
  <2> QED BY <1>1, <1>2, <2>1, <2>2, FrameIs
<1>6. CASE newest' # newest
  <2> DEFINE new == newest + 1
             t == units[m].troop
             life == Catalog[Head(slots[t]).type].life
             there == Newcomer(PlaceOf(m))
  <2>1. Raise(m)
    BY <1>1, <1>6 DEF Rebuild, StayIdle, CountDown, fieldVars
  <2>2. newest' = new /\ hp' = Extend(hp, new, life) /\ HasWork(t) /\ units' = Extend(units, new, Refilled(t))
    BY <2>1 DEF Raise
  <2>3. body' = Extend(body, new, there) /\ told' = [told EXCEPT !.defeats = Extend(@, new, 0)]
    BY <1>6, <2>2 DEF RebuildTurn
  <2>4. m \in OnField /\ t \in Troop
    BY <1>1, InvParts, TurnFacts
  <2>5. life \in Nat /\ life > 0
    <3>1. slots[t] \in Seq(Slot) /\ slots[t] # <<>>
      BY <2>2, <2>4, InvParts DEF TroopTypeOK, HasWork
    <3>2. Head(slots[t]) \in Slot
      BY <3>1
    <3>3. Head(slots[t]).type \in Type
      BY <3>2 DEF Slot
    <3> QED BY <3>3, CatalogFacts
  <2>6. new \notin OnField /\ OnField' = OnField \cup {new}
    BY <1>3, <2>2 DEF Extend, OnField
  <2>7. IsBody(there)
    BY <2>4, InvParts, NewcomerIs DEF BodiesKnown, IsBody, PlaceOf
  <2> HIDE DEF life, there, t
  <2>8. /\ DOMAIN body' = OnField' /\ \A u \in OnField' : IsBody(body'[u])
    <3>1. DOMAIN body = OnField /\ \A u \in OnField : IsBody(body[u])
      BY InvParts DEF BodiesKnown
    <3>2. DOMAIN body' = OnField \cup {new}
      BY <2>3, <3>1 DEF Extend
    <3>3. \A u \in OnField \cup {new} : body'[u] = IF u = new THEN there ELSE body[u]
      BY <2>3, <3>1 DEF Extend
    <3> QED BY <2>6, <2>7, <3>1, <3>2, <3>3
  <2>9. BodiesKnown'
    BY <2>8 DEF BodiesKnown, IsBody
  <2>10. /\ \A u \in OnField : IsAlive(u)' <=> IsAlive(u)
         /\ hp'[new] > 0
    <3>1. hp'[new] = life /\ \A u \in OnField : hp'[u] = hp[u]
      BY <1>3, <2>2, <2>6 DEF Extend
    <3> QED BY <2>5, <3>1 DEF IsAlive
  <2>11. /\ DOMAIN told = {"defeats", "dissolved", "base"} /\ DOMAIN told.defeats = 1..newest
         /\ told.dissolved \subseteq 1..newest /\ told.base \in [Side -> Int] /\ base \in [Side -> Nat]
         /\ StreamAccountsForAll
    BY InvParts DEF StreamInv
  <2>12. /\ DOMAIN told' = DOMAIN told
         /\ told'.dissolved = told.dissolved /\ told'.base = told.base
         /\ told'.defeats = Extend(told.defeats, new, 0)
    BY <2>3, <2>11
  <2>13. 1..newest' = (1..newest) \cup {new} /\ new \notin 1..newest
    BY <1>3, <2>2
  <2>14. /\ DOMAIN told'.defeats = 1..newest' /\ told'.defeats[new] = 0
         /\ \A u \in 1..newest : told'.defeats[u] = told.defeats[u]
    BY <2>11, <2>12, <2>13 DEF Extend
  <2>15. StreamAccountsForAll'
    <3>1. \A s \in Side : base'[s] >= 0 /\ base'[s] + told'.base[s] = BaseHp
      BY <1>1, <2>11, <2>12 DEF StreamAccountsForAll
    <3>2. ASSUME NEW u \in 1..newest'
          PROVE  /\ told'.defeats[u] = (IF u \in told'.dissolved \/ (u \in OnField' /\ IsAlive(u)') THEN 0 ELSE 1)
                 /\ u \in told'.dissolved => u \notin OnField'
      <4>1. CASE u = new
        BY <2>6, <2>10, <2>11, <2>12, <2>13, <2>14, <4>1 DEF IsAlive
      <4>2. CASE u # new
        <5>1. u \in 1..newest
          BY <2>13, <4>2
        <5>2. /\ told.defeats[u] = (IF u \in told.dissolved \/ (u \in OnField /\ IsAlive(u)) THEN 0 ELSE 1)
              /\ u \in told.dissolved => u \notin OnField
          BY <2>11, <5>1 DEF StreamAccountsForAll
        <5>3. told'.defeats[u] = told.defeats[u] /\ (u \in OnField' <=> u \in OnField)
          BY <2>6, <2>14, <4>2, <5>1
        <5> QED BY <2>10, <2>12, <5>2, <5>3
      <4> QED BY <4>1, <4>2
    <3> QED BY <3>1, <3>2 DEF StreamAccountsForAll
  <2>16. StreamInv'
    BY <1>1, <1>3, <2>2, <2>11, <2>12, <2>14, <2>15 DEF StreamInv
  <2> QED BY <1>1, <1>4, <2>9, <2>16, InvParts DEF BattleTypes
<1> QED BY <1>5, <1>6

(* The sweep takes away the dead, reported before, and the dissolving, alive until now. *)
LEMMA SweepFieldIs == BattleInv /\ SweepField => Sweep /\ BattleTypes' /\ StreamInv'
<1> SUFFICES ASSUME BattleInv, SweepField PROVE Sweep /\ BattleTypes' /\ StreamInv'
  OBVIOUS
<1>1. /\ Sweep /\ phase = "removal" /\ phase' = "rest" /\ newest' = newest
      /\ UNCHANGED <<stage, hazards, base, pending, cast>>
      /\ body' = [u \in Staying |-> [body[u] EXCEPT !.meters["lost"] = @ + Losses(units[u].troop)]]
      /\ told' = [told EXCEPT !.dissolved = @ \cup Dissolving]
  BY DEF SweepField, Sweep, worldVars
<1>2. cast = NoCast /\ stage \in {"decision", "over"}
  BY <1>1, InvParts DEF CastKnown, StageOrder
<1>3. StageOrder' /\ CastKnown'
  BY <1>1, <1>2, CastNone DEF StageOrder
<1>4. /\ Staying = OnField \ (Fallen \cup Dissolving) /\ Fallen = {u \in OnField : ~IsAlive(u)}
      /\ Dissolving \subseteq OnField \ Fallen
  BY DEF Staying, Fallen, Dissolving
<1>5. OnField \subseteq 1..newest /\ newest \in Nat /\ DOMAIN hp = OnField
  BY InvParts DEF TroopTypeOK
<1>6. OnField' = Staying /\ \A u \in Staying : IsAlive(u)' <=> IsAlive(u)
  <2>1. units' = Restrict(units, Staying) /\ hp' = Restrict(hp, Staying)
    BY <1>1 DEF Sweep
  <2>2. DOMAIN Restrict(units, Staying) = Staying /\ \A u \in Staying : Restrict(hp, Staying)[u] = hp[u]
    BY DEF Restrict
  <2> QED BY <2>1, <2>2 DEF OnField, IsAlive
<1>7. BodiesKnown'
  <2>1. ASSUME NEW u \in Staying PROVE IsBody(body'[u])
    <3>1. IsBody(body[u])
      BY <1>4, InvParts DEF BodiesKnown
    <3>2. PICK x : x = [body[u].meters EXCEPT !["lost"] = @ + Losses(units[u].troop)]
      OBVIOUS
    <3>3. body'[u] = [body[u] EXCEPT !.meters = x]
      BY <1>1, <3>2
    <3> QED BY <3>1, <3>3, BodySet
  <2>2. DOMAIN body' = Staying
    BY <1>1
  <2> QED BY <1>6, <2>1, <2>2 DEF BodiesKnown, IsBody
<1>8. /\ DOMAIN told = {"defeats", "dissolved", "base"} /\ DOMAIN told.defeats = 1..newest
      /\ told.dissolved \subseteq 1..newest /\ told.base \in [Side -> Int] /\ base \in [Side -> Nat]
      /\ StreamAccountsForAll
  BY InvParts DEF StreamInv
<1>9. /\ DOMAIN told' = DOMAIN told /\ told'.dissolved = told.dissolved \cup Dissolving
      /\ told'.base = told.base /\ told'.defeats = told.defeats
  BY <1>1, <1>8
<1>10. StreamAccountsForAll'
  <2>1. \A s \in Side : base'[s] >= 0 /\ base'[s] + told'.base[s] = BaseHp
    BY <1>1, <1>8, <1>9 DEF StreamAccountsForAll
  <2>2. ASSUME NEW u \in 1..newest'
        PROVE  /\ told'.defeats[u] = (IF u \in told'.dissolved \/ (u \in OnField' /\ IsAlive(u)') THEN 0 ELSE 1)
               /\ u \in told'.dissolved => u \notin OnField'
    <3>1. /\ told.defeats[u] = (IF u \in told.dissolved \/ (u \in OnField /\ IsAlive(u)) THEN 0 ELSE 1)
          /\ u \in told.dissolved => u \notin OnField
      BY <1>1, <1>8 DEF StreamAccountsForAll
    <3> QED BY <1>4, <1>6, <1>9, <3>1
  <2> QED BY <2>1, <2>2 DEF StreamAccountsForAll
<1>11. StreamInv'
  BY <1>1, <1>4, <1>5, <1>8, <1>9, <1>10 DEF StreamInv
<1> QED BY <1>1, <1>3, <1>7, <1>11, InvParts DEF BattleTypes

------------------------------------------------------------------------------------
(* The battle as a whole. *)

LEMMA OpeningHolds == Init => BattleInv
<1> SUFFICES ASSUME Init PROVE BattleInv
  OBVIOUS
<1>1. TroopInv
  BY InitEstablishes DEF Init
<1>2. /\ OnField = Number /\ newest = Len(Opening) /\ phase = "rest" /\ Number = 1..newest
      /\ \A u \in OnField : IsAlive(u)
  BY <1>1 DEF Init, TroopInit, OnField, Number, TroopInv, BondHolds
<1>3. BodiesKnown
  <2>1. ASSUME NEW u \in OnField PROVE IsBody(Newcomer(Clip(Opening[u].station)))
    <3>1. Opening[u].station \in Int
      BY <1>2, OpeningFacts, LaneAssumption DEF Unit
    <3> QED BY <3>1, GapFacts, NewcomerIs
  <2> QED BY <2>1 DEF Init, BodiesKnown
<1>4. CastKnown /\ StageOrder
  BY <1>2 DEF Init, CastKnown, StageOrder
<1>5. hazards \in [DOMAIN hazards -> Hazard] /\ pending \in Seq(PendingSpell)
  BY DEF Init
<1>6. /\ DOMAIN told = {"defeats", "dissolved", "base"}
      /\ told.defeats = [u \in OnField |-> 0] /\ told.dissolved = {} /\ told.base = [s \in Side |-> 0]
      /\ base = [s \in Side |-> BaseHp]
  BY DEF Init
<1>7. StreamInv
  <2>1. base \in [Side -> Nat] /\ told.base \in [Side -> Int]
    BY <1>6, SidesFacts
  <2>2. \A s \in Side : base[s] >= 0 /\ base[s] + told.base[s] = BaseHp
    BY <1>6, SidesFacts
  <2> QED BY <1>2, <1>6, <2>1, <2>2 DEF StreamInv, StreamAccountsForAll
<1> QED BY <1>1, <1>3, <1>4, <1>5, <1>7 DEF BattleInv, BattleTypes

LEMMA StutterIs == BattleInv /\ UNCHANGED vars => UNCHANGED troopVars /\ BattleTypes' /\ StreamInv'
<1> SUFFICES ASSUME BattleInv, UNCHANGED vars PROVE UNCHANGED troopVars /\ BattleTypes' /\ StreamInv'
  OBVIOUS
<1>1. UNCHANGED troopVars /\ UNCHANGED <<stage, body, hazards, base, pending, cast, told>>
  BY DEF vars, battleVars
<1>2. UNCHANGED <<phase, todo, hp>> /\ UNCHANGED fieldVars /\ OnField' = OnField
  BY <1>1 DEF troopVars, fieldVars, OnField
<1>3. BodiesKnown' /\ CastKnown' /\ StageOrder' /\ StreamInv'
  <2>1. StageOrder'
    BY <1>1, <1>2, InvParts DEF StageOrder
  <2> QED BY <1>1, <1>2, <2>1, InvParts, BodiesSame, CastSame, StreamQuiet
<1> QED BY <1>1, <1>3, InvParts DEF BattleTypes

(* Every step of a battle is one of its troops, or nothing to them. *)
LEMMA EveryStep == BattleInv /\ [Next]_vars => [TroopNext]_troopVars /\ BattleTypes' /\ StreamInv'
<1> SUFFICES ASSUME BattleInv, [Next]_vars PROVE [TroopNext]_troopVars /\ BattleTypes' /\ StreamInv'
  OBVIOUS
<1>1. CASE Stopped \/ UNCHANGED vars
  BY <1>1, StutterIs DEF Stopped
<1>2. CASE \E s \in Side, n \in DOMAIN Spells, p \in Spot : Inject(s, n, p)
  BY <1>2, InjectIs
<1>3. CASE Decide \/ Charge \/ Score \/ GroundBurnt \/ BurnTheBurning
  BY <1>3, DecideIs, ChargeIs, ScoreIs, GroundBurntIs, BurnTheBurningIs DEF TroopNext
<1>4. CASE Moved \/ SpellsLanded \/ AbilitiesCast \/ Fought
  BY <1>4, PassesIs DEF TroopNext
<1>5. CASE \/ \E u \in todo : Move(u) \/ CastAbility(u) \/ Swing(u)
           \/ \E n \in todo : BurnTheGround(n)
  BY <1>5, MoveIs, CastAbilityIs, SwingIs, BurnTheGroundIs DEF TroopNext
<1>6. CASE LandSpell \/ CastDone
  BY <1>6, LandSpellIs, CastDoneIs DEF TroopNext
<1>7. CASE ApplyEffect
  BY <1>7, DashIs, AreaDamageIs, BurnIs, BurningGroundIs, KnockbackIs, EnergyRefillIs DEF ApplyEffect, TroopNext
<1>8. CASE StartTick \/ Resummon \/ Removal \/ SweepField
  BY <1>8, StartTickIs, ResummonIs, RemovalIs, SweepFieldIs DEF TroopNext
<1>9. CASE \E m \in todo : RebuildTurn(m)
  BY <1>9, RebuildTurnIs DEF TroopNext
<1>10. CASE \E u \in todo : LeaveSlotTurn(u)
  BY <1>10, LeaveSlotTurnIs DEF TroopNext
<1> QED BY <1>1, <1>2, <1>3, <1>4, <1>5, <1>6, <1>7, <1>8, <1>9, <1>10 DEF Next

LEMMA InvariantStep == BattleInv /\ [Next]_vars => BattleInv'
<1> SUFFICES ASSUME BattleInv, [Next]_vars PROVE BattleInv'
  OBVIOUS
<1>1. [TroopNext]_troopVars /\ BattleTypes' /\ StreamInv'
  BY EveryStep
<1>2. TroopInv'
  BY <1>1, InvParts, NextTickPreserves, FightPreserves, BeginResummonPreserves, BeginRemovalPreserves,
     RebuildPreserves, LeaveSlotPreserves, SweepPreserves, StutterPreserves DEF TroopNext
<1> QED BY <1>1, <1>2 DEF BattleInv

(* The invariant of a battle: its troops', the shape of bodies, casts, hazards and spells, *)
(* which phase is which, and that the stream accounts for everybody.                       *)
THEOREM BattleInvariant == Spec => []BattleInv
BY OpeningHolds, InvariantStep, PTL DEF Spec

(* A battle's troops are the abstract ones: eleven phases of combat, spells and abilities *)
(* do nothing to them that TroopSpec does not allow.                                      *)
THEOREM BattleIsOfTroops == Spec => TroopSpec
<1>1. Init => TroopInit
  BY DEF Init
<1>2. BattleInv /\ [Next]_vars => [TroopNext]_troopVars
  BY EveryStep
<1> QED BY <1>1, <1>2, BattleInvariant, PTL DEF Spec, TroopSpec

(* What is proved of the troops holds in every battle. *)
THEOREM BattleKeepsTroops == Spec => []SlotsAccounted /\ []BondHolds /\ []IdsAreFresh /\ RebuildsKeepPace
BY BattleIsOfTroops, PlacesAreConserved, SummonsFollowTheirMages, RebuiltIdsAreFresh, RebuildsTakeTheirTime, PTL

(* The event stream accounts for every unit that was ever on the field: standing, reported *)
(* defeated once, or gone with its dissolved troop; and for every point a base has lost.   *)
THEOREM StreamIsComplete == Spec => []StreamAccountsForAll
<1>1. BattleInv => StreamAccountsForAll
  BY DEF BattleInv, StreamInv
<1> QED BY <1>1, BattleInvariant, PTL

------------------------------------------------------------------------------------
(* Walking. *)

KeepsOff(u, v, p, q) ==
  /\ ~(Gap(p, PlaceOf(v)) > Standoff(u) /\ Gap(q, PlaceOf(v)) < Standoff(u))
  /\ Card(v).blocks > 0 => ~Crosses(p, q, PlaceOf(v), Card(v).blocks)

LEMMA NearerByTheStride ==
  ASSUME NEW p \in Int, NEW q \in Int, NEW at \in Int PROVE Gap(q, at) >= Gap(p, at) - Gap(p, q)
BY DEF Gap

LEMMA StandingKeepsOff ==
  ASSUME TroopTypeOK, BodiesKnown, NEW u \in OnField, NEW v \in Foes(u)
  PROVE  KeepsOff(u, v, PlaceOf(u), PlaceOf(u))
<1>1. PlaceOf(u) \in Int /\ PlaceOf(v) \in Int /\ v \in OnField
  BY FoesAre
<1>2. Card(v).blocks \in Nat /\ Standoff(u) \in Nat
  BY <1>1, KitIs, StrideIs
<1>3. Gap(PlaceOf(u), PlaceOf(v)) \in Nat
  BY <1>1, GapFacts
<1> QED BY <1>1, <1>2, <1>3 DEF KeepsOff, Crosses

LEMMA StrideKeepsOff ==
  ASSUME TroopTypeOK, BodiesKnown, NEW u \in OnField, NEW v \in Foes(u), NEW q,
         q = ClampToBlockers(u, Towards(PlaceOf(u), body[u].goal, Stride(u)))
  PROVE  KeepsOff(u, v, PlaceOf(u), q)
<1> DEFINE p == PlaceOf(u)
           at == PlaceOf(v)
<1>1. p \in Int /\ at \in Int /\ Distance(u, v) = Gap(p, at)
  BY FoesAre DEF Distance
<1>2. /\ q \in Int /\ Gap(p, q) <= Stride(u)
      /\ Card(v).blocks > 0 => ~Crosses(p, q, at, Card(v).blocks)
  BY WalkIs
<1>3. /\ Standoff(u) \in Nat /\ Stride(u) \in Nat
      /\ Distance(u, v) > Standoff(u) => Stride(u) <= Distance(u, v) - Standoff(u)
  BY StrideIs
<1>4. /\ Gap(q, at) >= Gap(p, at) - Gap(p, q)
      /\ Gap(q, at) \in Nat /\ Gap(p, at) \in Nat /\ Gap(p, q) \in Nat
  BY <1>1, <1>2, NearerByTheStride, GapFacts
<1>5. ~(Gap(p, at) > Standoff(u) /\ Gap(q, at) < Standoff(u))
  BY <1>1, <1>2, <1>3, <1>4
<1> QED BY <1>2, <1>5 DEF KeepsOff

(* While units walk, nothing but a stride moves anybody. *)
LEMMA OnlyStridesMove ==
  ASSUME BattleInv, [Next]_vars, stage = "movement"
  PROVE  body' = body \/ \E u \in todo : Move(u)
<1>1. phase = "acting" /\ cast = NoCast
  BY InvParts DEF StageOrder, CastKnown
<1>2. CASE UNCHANGED vars \/ Stopped \/ StartTick \/ \E s \in Side, n \in DOMAIN Spells, p \in Spot : Inject(s, n, p)
  BY <1>2 DEF vars, battleVars, Stopped, StartTick, Inject
<1>3. ~(Decide \/ Charge \/ Score \/ GroundBurnt \/ BurnTheBurning \/ LandSpell)
  BY <1>1 DEF Decide, Charge, Score, GroundBurnt, BurnTheBurning, LandSpell, Pass, Acting
<1>4. \A u : ~(CastAbility(u) \/ Swing(u) \/ BurnTheGround(u))
  BY <1>1 DEF CastAbility, Swing, BurnTheGround, Turn, Acting
<1>5. ~ApplyEffect /\ ~CastDone
  BY <1>1 DEF ApplyEffect, Dash, AreaDamage, Burn, BurningGround, Knockback, EnergyRefill, Resolving, CastDone
<1>6. CASE Moved \/ SpellsLanded \/ AbilitiesCast \/ Fought \/ Resummon
  BY <1>6 DEF Moved, SpellsLanded, AbilitiesCast, Fought, Resummon, battleVars
<1>7. ~Removal /\ ~SweepField /\ \A m : ~RebuildTurn(m) /\ ~LeaveSlotTurn(m)
  BY <1>1 DEF Removal, BeginRemoval, SweepField, Sweep, RebuildTurn, Rebuild, LeaveSlotTurn, LeaveSlot
<1> QED BY <1>2, <1>3, <1>4, <1>5, <1>6, <1>7 DEF Next

(* No stride takes a unit across its standoff of a living opponent, nor into or past a *)
(* barricade, whatever the speeds and places of the others.                            *)
THEOREM WalkersKeepOff == Spec => WalkingKeepsOff
<1>1. ASSUME BattleInv, [Next]_vars, stage = "movement",
             NEW u \in OnField \cap DOMAIN body', NEW v \in Foes(u)
      PROVE  KeepsOff(u, v, PlaceOf(u), body'[u].place)
  <2>0. TroopTypeOK /\ BodiesKnown /\ DOMAIN body = OnField
    BY <1>1, InvParts DEF BodiesKnown
  <2>1. CASE body' = body
    BY <1>1, <2>0, <2>1, StandingKeepsOff DEF PlaceOf
  <2>2. CASE \E w \in todo : Move(w)
    <3>1. PICK w \in todo : Move(w)
      BY <2>2
    <3> DEFINE q == ClampToBlockers(w, Towards(PlaceOf(w), body[w].goal, Stride(w)))
    <3>2. body' = body \/ body' = [body EXCEPT ![w].place = q]
      BY <3>1 DEF Move
    <3> HIDE DEF q
    <3>3. CASE body' = [body EXCEPT ![w].place = q] /\ w = u
      <4>1. IsBody(body[u])
        BY <1>1, <2>0 DEF BodiesKnown
      <4>2. body'[u].place = q
        BY <1>1, <2>0, <3>3, <4>1 DEF IsBody
      <4> QED BY <1>1, <2>0, <3>3, <4>2, StrideKeepsOff DEF q
    <3>4. CASE body' = body \/ (body' = [body EXCEPT ![w].place = q] /\ w # u)
      <4>1. body'[u] = body[u]
        BY <1>1, <2>0, <3>4
      <4> QED BY <1>1, <2>0, <4>1, StandingKeepsOff DEF PlaceOf
    <3> QED BY <3>2, <3>3, <3>4
  <2> QED BY <1>1, <2>1, <2>2, OnlyStridesMove
<1>2. BattleInv /\ [Next]_vars =>
        [stage = "movement" =>
          \A u \in OnField \cap DOMAIN body' : \A v \in Foes(u) :
            LET p == PlaceOf(u) q == body'[u].place IN
            /\ ~(Gap(p, PlaceOf(v)) > Standoff(u) /\ Gap(q, PlaceOf(v)) < Standoff(u))
            /\ Card(v).blocks > 0 => ~Crosses(p, q, PlaceOf(v), Card(v).blocks)]_vars
  BY <1>1 DEF KeepsOff
<1> QED BY <1>2, BattleInvariant, PTL DEF Spec, WalkingKeepsOff
====================================================================================
