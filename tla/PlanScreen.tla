----------------------------- MODULE PlanScreen -----------------------------
(***************************************************************************)
(* The plan phase on the client: client/src/plan/planReducer.ts behind the *)
(* buttons of plan/steps/*.tsx.                                            *)
(*                                                                         *)
(* The reducer holds the whole plan while the screen is mounted and hands  *)
(* it over at lock-in.  Every step can be opened from the hub, so which    *)
(* one is showing is not kept: a button that a step disables is a guard.   *)
(***************************************************************************)
EXTENDS Plans

CONSTANTS
  Content,      \* the round's content, as the server's roster_json hands it over
  OpeningPlans, \* the suggested plans a round may open with
  NoPlan        \* no plan screen is mounted

\* An order may stand in the plan as the client writes it or as the server sent it.
PlannedTroop == [mage : Content.mages, summons : Seq(Content.summons),
                 order : OrderChoices(Content) \cup LegalOrders(Content)]
PlanState == [troops : Seq(PlannedTroop), slots : [1..SpellSlots -> Content.spells \cup {NoSpell}]]

\* The content's values are of the client's types (plan/types.ts).
ASSUME PlanAssumption ==
  /\ OpeningPlans \subseteq PlanState /\ NoPlan \notin PlanState /\ NoSpell \notin Content.spells
  /\ Content.entourage \in [Content.mages -> Seq(Content.summons)]
  /\ Content.cost \in [Content.summons -> Nat] /\ Content.owned \in [Content.summons -> Nat]
  /\ Content.capacity \in [Content.mages -> Nat] /\ Content.mageCap \in Nat
  /\ Content.lanes \in Seq(Range(Content.lanes))

\* The two contents there are, the server's fixtures.py and the client's starter mirror,
\* have mages that support every summon (the reducer checks no schools), usual summons
\* that fit, and opening plans within the cap, the capacities and the pool; the server's
\* cards agree with the sim's (the mirror has no sim cards).  An opening plan may field
\* one mage in several troops: the server's gives its one mage all three.
ASSUME ContentAssumption ==
  /\ CardsAgree(Content)
  /\ \A m \in Content.mages, s \in Content.summons : Supports(Content.schools, m, s)
  /\ \A m \in Content.mages :
       Used(Content, [mage |-> m, summons |-> Content.entourage[m]]) =< Content.capacity[m]
  /\ \A opening \in OpeningPlans :
       /\ Len(opening.troops) =< Content.mageCap
       /\ Overloaded(Content, opening) = {} /\ Overdrawn(Content, opening) = {}

VARIABLE plan

-----------------------------------------------------------------------------
\* Troops

IsFielded(m) == \E t \in Range(plan.troops) : t.mage = m
AtMageCap == Len(plan.troops) >= Content.mageCap
\* The first of the mage's troops: what find returns.
PlaceOf(m) == Min({i \in DOMAIN plan.troops : plan.troops[i].mage = m})
TroopOf(m) == plan.troops[PlaceOf(m)]

\* slip: each of the default summons is checked against the pool on its own
GreedyEntourage(m) == SelectSeq(Content.entourage[m], LAMBDA s : Remaining(Content, plan, s) > 0)

\* The mage's usual summons, as far as the pool still has them.
EntourageFor(m) ==
  FoldLeft(LAMBDA got, s : IF Remaining(Content, plan, s) > Copies(got, s) THEN Append(got, s)
                           ELSE got,
           <<>>, Content.entourage[m])

FieldMage(m) ==
  /\ ~IsFielded(m) /\ ~AtMageCap
  /\ plan' = [plan EXCEPT !.troops =
                Append(@, [mage |-> m, summons |-> EntourageFor(m),
                           order |-> FirstFreeOrder(Content, plan)])]

\* Every troop of the mage goes.
Without(m, troops) ==
  FoldLeft(LAMBDA kept, t : IF t.mage = m THEN kept ELSE Append(kept, t), <<>>, troops)

UnfieldMage(m) ==
  /\ IsFielded(m)
  /\ plan' = [plan EXCEPT !.troops = Without(m, @)]

\* Every troop of the mage changes, each by itself: changed is what each would become.
MapTroop(m, changed) ==
  plan' = [plan EXCEPT !.troops =
             [i \in DOMAIN @ |-> IF @[i].mage = m THEN changed[i] ELSE @[i]]]

\* slip: room is any unsupported point, whatever the summon costs
AnyRoomFor(m, s) == Unsupported(Content, TroopOf(m)) > 0

RoomFor(m, s) == Content.cost[s] =< Unsupported(Content, TroopOf(m))

\* The pool and the room are looked at once, for the first troop of the mage; the
\* summon joins all of them.
AddSummon(m, s) ==
  /\ IsFielded(m) /\ Remaining(Content, plan, s) > 0 /\ RoomFor(m, s)
  /\ MapTroop(m, [i \in DOMAIN plan.troops |->
                      [plan.troops[i] EXCEPT !.summons = Append(@, s)]])

\* One of them goes from each troop, the first of its kind.
RemoveSummon(m, s) ==
  /\ IsFielded(m) /\ s \in Range(TroopOf(m).summons)
  /\ MapTroop(m, [i \in DOMAIN plan.troops |->
                      [plan.troops[i] EXCEPT !.summons = RemoveFirst(@, s)]])

-----------------------------------------------------------------------------
\* Orders and spells

\* The step is there only when there is more than one troop to tell apart.
SetOrder(m, order) ==
  /\ IsFielded(m) /\ Len(plan.troops) > 1
  /\ MapTroop(m, [i \in DOMAIN plan.troops |-> [plan.troops[i] EXCEPT !.order = order]])

\* A spell sits in one slot: equipping it in the other moves it.
EquipSpell(slot, spell) ==
  /\ Eligible(Content, plan, spell) /\ plan.slots[slot] # spell
  /\ plan' = [plan EXCEPT !.slots =
                [i \in DOMAIN @ |-> IF i = slot THEN spell
                                    ELSE IF @[i] = spell THEN NoSpell ELSE @[i]]]

ClearSpell(slot) ==
  /\ plan.slots[slot] # NoSpell
  /\ plan' = [plan EXCEPT !.slots[slot] = NoSpell]

Edit ==
  /\ plan # NoPlan
  /\ \/ \E m \in Content.mages : \/ FieldMage(m)
                                 \/ UnfieldMage(m)
                                 \/ \E s \in Content.summons : AddSummon(m, s) \/ RemoveSummon(m, s)
                                 \/ \E order \in OrderChoices(Content) : SetOrder(m, order)
     \/ \E slot \in 1..SpellSlots : \/ ClearSpell(slot)
                                    \/ \E spell \in Content.spells : EquipSpell(slot, spell)

-----------------------------------------------------------------------------
\* Properties

\* What the hub lets a player lock in, the server may refuse for three things only,
\* each with one cause.  An order it does not read is the client's own "hold"
\* (plan.py:55-66).  A mage over its capacity leads several troops, and a summon
\* over the pool stands in such a troop: the reducer checks one and changes them all
\* (planReducer.ts:94-108).  Nothing else that validate_plan or create_world refuses
\* gets past the hub: no slot whose mage left, no mage fielded once whose edits, in
\* any order, add up to too much, and no troop too many.
OnlyHoldsAndDoubles ==
  plan # NoPlan /\ CanLockIn(Content, plan) =>
    /\ \A i \in Unread(Content, plan) : plan.troops[i].order.kind = "hold"
    /\ Overloaded(Content, plan) \subseteq Repeated(plan)
    /\ \A s \in Overdrawn(Content, plan) :
         \E i \in Repeated(plan) : s \in Range(plan.troops[i].summons)
    /\ Unread(Content, plan) \cup Overloaded(Content, plan) = {} /\ Overdrawn(Content, plan) = {} =>
         Accepts(Content, plan) /\ Deploys(Content, ArmySetup(plan))
============================================================================
