------------------------------- MODULE Plans -------------------------------
(***************************************************************************)
(* What a plan means, on both sides of the wire: the screen's derivations  *)
(* and lock-in blockers (client/src/plan/derive.ts, match/fixtures/        *)
(* resolvePlan.ts), the server's validate_plan (api/app/match/plan.py) and *)
(* what create_world refuses (api/app/sim/world.py).                       *)
(*                                                                         *)
(* Operators only.  c is a round's content: the roster a plan draws on,    *)
(* the mage cap, the map's lanes and the sim's catalog of unit types.      *)
(***************************************************************************)
EXTENDS Integers, FiniteSets, SequencesExt

CONSTANT NoSpell      \* an empty slot: null on the wire

-----------------------------------------------------------------------------
\* Orders, as each side writes them: the client's "hold" names its zone, the
\* server's "holdZone" its zoneId, and the other two are the same.

Hold(z) == [kind |-> "hold", zone |-> z]
HoldZone(z) == [kind |-> "holdZone", zoneId |-> z]
DefendBase == [kind |-> "defendBase"]
PushEnemyBase == [kind |-> "pushEnemyBase"]

\* What the screen offers, and what the server reads: any other kind raises.
OrderChoices(c) == {Hold(z) : z \in Range(c.lanes)} \cup {DefendBase, PushEnemyBase}
LegalOrders(c) == {HoldZone(z) : z \in Range(c.lanes)} \cup {DefendBase, PushEnemyBase}

\* The client's default: the first lane no "hold" of its own names, then home.
FirstFreeOrder(c, plan) ==
  LET taken == {t.order.zone : t \in {u \in Range(plan.troops) : u.order.kind = "hold"}}
      free == {i \in DOMAIN c.lanes : c.lanes[i] \notin taken}
  IN  IF free = {} THEN DefendBase ELSE Hold(c.lanes[Min(free)])

-----------------------------------------------------------------------------
\* Counting a plan's summons

Copies(seq, s) == Cardinality({i \in DOMAIN seq : seq[i] = s})
\* Where a summon stands in the troops of a plan: which troop, and which of its own.
Draws(troops, s) ==
  {p \in UNION {{i} \X DOMAIN troops[i].summons : i \in DOMAIN troops} : troops[p[1]].summons[p[2]] = s}
Remaining(c, plan, s) == c.owned[s] - Cardinality(Draws(plan.troops, s))

Used(c, troop) == FoldLeft(LAMBDA sum, s : sum + c.cost[s], 0, troop.summons)
Unsupported(c, troop) == LET room == c.capacity[troop.mage] - Used(c, troop)
                         IN  IF room > 0 THEN room ELSE 0

-----------------------------------------------------------------------------
\* Spells

FieldedMages(c, plan) == {t.mage : t \in Range(plan.troops)} \cap c.mages

\* A signature spell needs its mage on the field, a tag spell any mage so tagged.
Eligible(c, plan, spell) ==
  LET need == c.needs[spell]
  IN  \/ need.kind = "always"
      \/ need.kind = "signature" /\ need.mage \in FieldedMages(c, plan)
      \/ need.kind = "tag" /\ \E m \in FieldedMages(c, plan) : need.tag \in c.tags[m]

Equipped(plan) == Range(plan.slots) \ {NoSpell}
Stranded(c, plan) == {s \in Equipped(plan) : ~Eligible(c, plan, s)}

\* The screen's blockers: nothing fielded, or a slot whose mage has gone.
CanLockIn(c, plan) == plan.troops # <<>> /\ Stranded(c, plan) = {}

\* What the round is fought with.
Loadout(c, plan) == {s \in Equipped(plan) : Eligible(c, plan, s)}

-----------------------------------------------------------------------------
\* The server's answer to a submitted plan (parse_plan, validate_plan)

SpellSlots == 2

Supports(schools, mage, summon) == schools[mage] \cap schools[summon] # {}

TroopIsLegal(c, troop) ==
  /\ troop.mage \in c.mages
  /\ troop.order \in LegalOrders(c)
  /\ Range(troop.summons) \subseteq c.summons
  /\ \A s \in Range(troop.summons) : Supports(c.schools, troop.mage, s)
  /\ Used(c, troop) =< c.capacity[troop.mage]

\* The roster is one multiset for the side: counted over the whole plan.
WithinPool(c, plan) ==
  \A t \in Range(plan.troops) : \A s \in Range(t.summons) : Remaining(c, plan, s) >= 0

Accepts(c, plan) ==
  /\ plan.troops # <<>> /\ Len(plan.troops) =< c.mageCap
  /\ \A t \in Range(plan.troops) : TroopIsLegal(c, t)
  /\ WithinPool(c, plan)
  /\ \A s \in Equipped(plan) : s \in c.spells /\ Eligible(c, plan, s)

-----------------------------------------------------------------------------
\* From an accepted plan to a world (to_army_setup, create_world)

ArmySetup(plan) ==
  [i \in DOMAIN plan.troops |->
     [id |-> i, order |-> plan.troops[i].order, mages |-> <<plan.troops[i].mage>>,
      summons |-> plan.troops[i].summons]]

\* Every roster entry names a unit type of the right kind (_expand).
Expands(c, entries, kind) ==
  \A id \in Range(entries) : id \in DOMAIN c.catalog /\ c.catalog[id].kind = kind

\* Support is mandatory and local, by the schools of the sim's own cards
\* (_assert_supported).
Supported(c, troop) ==
  /\ troop.mages # <<>>
  /\ \A s \in Range(troop.summons) : \E m \in Range(troop.mages) :
       c.catalog[m].schools \cap c.catalog[s].schools # {}

\* create_world raises nothing for this army.
Deploys(c, army) ==
  /\ \A i \in DOMAIN army :
       /\ army[i].order \in LegalOrders(c)
       /\ Expands(c, army[i].mages, "mage") /\ Expands(c, army[i].summons, "summon")
       /\ Supported(c, army[i])
  /\ \A i, j \in DOMAIN army : army[i].id = army[j].id => i = j

-----------------------------------------------------------------------------
\* What the server may refuse a plan for that the screen lets through

Unread(c, plan) == {i \in DOMAIN plan.troops : plan.troops[i].order \notin LegalOrders(c)}
Overloaded(c, plan) ==
  {i \in DOMAIN plan.troops : Used(c, plan.troops[i]) > c.capacity[plan.troops[i].mage]}
Overdrawn(c, plan) == {s \in c.summons : Remaining(c, plan, s) < 0}

\* The troops of a mage that leads another one too.
Repeated(plan) ==
  {i \in DOMAIN plan.troops :
     \E j \in DOMAIN plan.troops : j # i /\ plan.troops[j].mage = plan.troops[i].mage}

\* The plan layer's cards and the sim's tell the same story of kinds and schools.
CardsAgree(c) ==
  /\ \A m \in c.mages : m \in DOMAIN c.catalog /\ c.catalog[m].kind = "mage"
                        /\ c.catalog[m].schools = c.schools[m]
  /\ \A s \in c.summons : s \in DOMAIN c.catalog /\ c.catalog[s].kind = "summon"
                          /\ c.catalog[s].schools = c.schools[s]
============================================================================
