# Go-Forth: verification of the match, its battle and its client

Go-Forth is a two-player battle game. A Lobby sends two players to a match; each
plans an army in secret, the two armies fight by themselves while the players
cast spells from a limited pool of energy, and the bases keep their damage from
one round to the next. This directory holds TLA+ models of the server that plays
those matches, of the battle it simulates and what its units decide, and of the
client's side; the model checks TLC makes of them; and theorems about them that
TLAPS proves. Paths below are relative to `src/`.

- [The system](#the-system): its parts, their state, how they interact
- [The models](#the-models): which module stands for which code
- [The checks](#the-checks): what each run shows, its bounds, its fairness
- [The proofs](#the-proofs): what holds for every value of the constants
- [Where the code and its words differ](#where-the-code-and-its-words-differ)
- [What is not modelled](#what-is-not-modelled)
- [Plan](#plan)

## The system

| Part | Code | State it keeps | Operations |
|---|---|---|---|
| Round | `api/app/match/round.py` | the battle's runner, both energy pools, the accepted casts and their order, the ending | open, `cast`, `step`, `_decide_ending` |
| Battle runner | `api/app/sim/run_battle.py`, `sim/spells.py`, `sim/phases/` | the world: tick, bases, score, units, queue of spells | `inject`, `step` (eleven phases in a fixed order) |
| Troops | `api/app/sim/world.py`, `sim/phases/resummon.py`, `removal.py` | a troop's lists of mages and summons, its dispelled slots, its next ordinal, the mages' rebuild timers | raise a summon, sweep the fallen, dissolve a troop |
| Unit AI | `api/app/sim/ai/`, `sim/phases/decision.py` | per unit: its intent, its chase, its recovery; per troop: who is to answer which threat | compose a profile, coordinate, decide |
| Match session | `api/app/match/session.py` | phase, round number, rounds won, carried base damage, plans and locks, tick count of the phase, result | `lock_in`, `cast`, `tick`, `abandon`, `result_report`, `report_to_lobby` |
| Command ledger | `api/app/match/commands.py` | per seat, the answers given, by command id, oldest first | `find`, `record` with eviction |
| Run recorder | `api/app/match/run_record.py` | the plans, casts, endings and bases of every round | `open_round`, `cast`, `close_round`, `finish`; `replay_run` |
| Session clock | `api/app/match/clock.py` | a task and its deadline | `start`, `stop`, `_run` |
| Hub | `api/app/match/hub.py` | listeners by match | `subscribe`, unsubscribe, `publish` |
| Sockets | `api/app/ws.py` | the session and side a socket acts for, the push in flight | `subscribe`, `lockIn`, `cast`, `close` |
| Game service | `api/app/service.py`, `routes.py` | sessions and clocks by match | provision, claim, resume, start and stop clocks, persist, finish |
| Repository | `api/app/repository.py`, `pg_repository.py` | matches, seats, results, run records | upsert, claim, record, mark |
| Plan validation | `api/app/match/plan.py` | none | `validate_plan`, `default_plan`, `resolve_loadout`, `to_army_setup` |
| Lobby | `api/app/lobby/` | none | tokens, provisioning payloads, seat bindings, the report call |
| Plan screen | `client/src/plan/planReducer.ts`, `derive.ts`, the steps | the draft plan | field a mage, add a summon, order, equip, lock in |
| Client session | `client/src/match/session.ts`, `fixtures/scriptedBattle.ts`, the battle screen | its view of the match, the battle it plays, casts in flight, timers | claim, lock in, tick, drop, recover, cast, finish, leave |

A **provision** from the Lobby makes a stored match and a live session. A **claim**
fills a seat and starts the match's clock. The **clock** calls `tick` at the
simulation's rate and publishes through the hub; every **socket** of the match then
pushes the snapshot of the seat it holds. A socket's `lockIn` and `cast` go to the
session directly, between two ticks. When `tick` brings the match to its end the
loop stops and the service persists the result, then the run record, then reports
to the Lobby. If `tick` raises, the clock abandons the match and finishes it the
same way.

Inside `tick` the **battle** runs its eleven phases over the units in the order they
came: orders and decisions first, then movement, energy, spells, abilities, combat, statuses,
scoring, resummon, removal. At this commit the **client** is not connected to the
server: its session is a fixture that plays a scripted battle, with the delays, drops
and refusals the real transport is to have.

The server is one asyncio process. A handler that does not `await` is atomic with
respect to every other; `tick`, `cast`, `lock_in` and `abandon` are all of that
kind, and the interleavings that matter are the orders in which they run. The
service's own handlers do await, on the repository and on the Lobby, and there
another handler may run between two steps of one.

### What is hard about it

- **Order.** Two seats cast on the same tick and the network decides whose message
  comes first. The result must not depend on it.
- **The moment a round ends.** A cast may arrive after the tick that decided the
  round and before the next phase. Refused late, it must not have been charged;
  accepted, it must land.
- **Two stopping rules.** The battle's runner stops itself and the round decides
  its own ending. If they part, the round stays open on a battle that has stopped.
- **Ties.** Both bases can fall on one tick, both armies can be swept, the score
  can be level: nobody must be favoured by the order the code looks at the sides.
- **Several rounds.** Base damage carries by hand, wins are counted by hand, and
  two profiles stop on two different counts. A mistake shows several rounds later.
- **Retries.** A client that lost its socket sends its cast again, perhaps in the
  next round. It must hear the first answer and be charged once.
- **Players who do nothing.** A player who never locks in must not hold the match;
  a seat nobody claimed must not be fought for.
- **Several requests at once.** Pushes and claims await the store; two of them may
  each act on what they read before the other wrote.
- **Several sockets.** A player who came back holds the new socket and, for a while,
  the dead one. Pushes run late, after the socket moved or closed.
- **Restarts.** The store survives and the sessions do not. Players come back with
  credentials the store knows and the new session does not.
- **Stalls.** A process held up for seconds must neither fast-forward a battle nor
  fall behind for good.
- **Lists kept by hand.** A fallen summon is in the field's list, its troop's list and
  a slot; three passes move it from one to the other, between other troops' turns.
- **Units that change their mind.** A chase has a leash, a timeout and a recovery, kept
  in three modules; a unit that turns away and back must not escape them.
- **Two judges of a plan.** The screen lets a player lock in, the server validates, the
  simulation builds the army; where they do not agree a player is stuck with a plan
  the screen calls ready.
- **A deaf client.** Timers go on firing while the connection is down, and a cast's
  answer may come after the drop that already answered it.
- **Failures.** The tick loop can fail at any tick, even one that has just ended
  the match; the finish path can fail between any two of its steps.

`PROJECT.json` lists each of these at the line where it bites, with the properties
that watch it.

## The models

| Module | Models | Notes |
|---|---|---|
| `AuthoritativeRound` | `round.py` over `run_battle.py`, `spells.py`, the spells phase | a round with its battle |
| `CommandLedger` | `commands.py` | operators on a seat's entries, no state of its own |
| `MatchSession` | `session.py`, with the recorder's writes | EXTENDS the two above: the session owns the round, the ledger and the recorder, and its actions call theirs |
| `GameService` | `service.py` over `repository.py` and `pg_repository.py`, the claim routes | one match with its stored row, its session and its clock; a session is only over or not |
| `SeatSockets` | `ws.py` over `hub.py` | the sockets of one match; the session is only a version number |
| `SessionClock` | `clock.py` | the loop against the wall clock; a session is only over or not |
| `Troops` | `resummon.py`, `removal.py` over the lists of `world.py` | who is on the field, what the fallen leave, how mages rebuild it |
| `Battle` | the eleven phases, `resolution.py`, `blocking.py` | EXTENDS `Troops`, whose `Fight` it replaces by the real phases |
| `Schools` | `resonance.py`, `schools.py`, `energy.py` | operators: a side's multipliers and paces |
| `Temper`, `Judgement`, `Decisions`, `Coordination`, `Units` | `sim/ai/`, `phases/decision.py` | each EXTENDS the one before it, `Coordination` `Judgement`: what a unit prefers, how it scores an action, which it takes, who a troop sends, and ticks of all that |
| `Samples` | `sim/ai/fixtures.py` | the behaviour the content ships with |
| `Plans` | `plan.py`, what `create_world` refuses, `derive.ts`, `resolvePlan.ts` | operators: a plan's meaning on both sides of the wire |
| `PlanScreen` | `planReducer.ts` behind the steps' buttons | EXTENDS `Plans` |
| `FixtureSession` | `session.ts`, `scriptedBattle.ts`, `clock.ts`, the battle screen's taps | the client's session and its timers |
| `MatchScreen` | `MatchScreen.tsx` | the two above, joined at lock-in |
| `MatchLifecycle` | nothing: an abstract specification | the life of a match as the players see it |
| `CastContract` | nothing: an abstract specification | what is promised of a command |
| `AuthoritativeRoundProofs`, `MatchSessionProofs`, `GameServiceProofs`, `SeatSocketsProofs`, `SessionClockProofs`, `BattleProofs`, `UnitsProofs`, `MatchScreenProofs` | nothing: proofs | theorems about the module each is named for; `BattleProofs` also about `Troops`, the last also about `Plans` |
| `MCAuthoritativeRound`, `MCMatchSession`, `MCGameService`, `MCSeatSockets`, `MCSessionClock`, `MCBattle`, `MCUnits`, `MCMatchScreen` | nothing: constants for TLC | |

The three modules around the session are not composed with it: what they need of a
match is whether it is over, and they let that happen at any tick. `MatchSession`
in turn takes its ticks in any number and its failure at any moment, which is more
than `SessionClock` gives it. The round takes any outcome of a tick, which is more
than `Battle` gives it; `Battle` takes any moods of its units at the ticks they may
change, and `Units` works out what they would be.

### AuthoritativeRound

State: `tick`, `hp`, `score`, `living`, `pending` are the world's; `stopped` is the
runner's flag; `landed` collects the `spellCast` events; `generated` and `spent`
are the two halves of each `SeatEnergy`; `casts`, `nextOrder`, `ending` and
`equipped` are the round's `_casts`, `_next_order`, `_ending` and `_loadouts`.

- `AcceptCast(s, c)` is `cast` on its accepting path. `Refusal` gives the first
  reason to refuse, in the code's order; the refusing paths assign nothing, so they
  are no step of the round (in `MatchSession` they are steps of the session, which
  answers and remembers). The cast is dated to the next tick whatever the client
  said, inserted in `injection_order`, and charged.
- `Step(damage, points, survivors)` is `step`: the runner's tick, the accrual of
  both pools, the decision. `BattleTick` is one tick of the simulation seen from
  the round: what is due leaves the queue, the bases lose some hit points, the
  score grows, some side may lose its last unit.

The simulation is a choice: any damage up to `MaxDamage` on each base, any points
up to `LanePoints` for sides that have somebody left to hold a lane, any subset of
the living armies surviving. Every tick the real phases can produce is among
these, so an invariant that holds here holds there; what the real battle can *not*
do is not claimed. Two facts of the phases are kept because properties lean on
them: damage to a base stops at zero, and nobody returns once a side is swept
(resummoning needs a living mage).

Numbers: spells and places are natural numbers, their ranks in the two orders
`injection_order` compares them by, because ties are what the order is about.
Energy is counted in units of one tick's gain (4.0 gained per second at 20 ticks per
second is 0.2), so all amounts are whole numbers and rounding does not arise.

### MatchSession

One action per handler: `Claim`, `LockIn`, `Cast` (with its four outcomes: an old
answer repeated, refused outside a battle, refused by the round, accepted), `Tick`
by phase, `Abandon`. `LockIn` of the second seat starts the battle in the same
action, as the code does, and so does the tick on which the plan phase's backstop
runs out. `FinishRound` is part of the battle tick that decided the round.

`phaseTicks` stops counting at the largest threshold it is compared with. When no
round stands (`hasRound` is false, `_round is None`), the round's variables hold an
unopened round's values. `record` is the run record as its writers fill it, and
`answers` the set of `castOutcome` messages sent so far: both are history the
properties read.

### GameService

`row`, `seats` and `results` are the store's tables for one match; `live` and `loop`
are the entries of `_sessions` and `_clocks`; `requests` holds the handlers in
flight. A handler is one action per awaited call: `PushRead`, `PushUpsert`,
`PushSession` are `ensure_match_from_assignment`; `ClaimRead`, `ClaimSeat`,
`ClaimLand` are both claims with the route's `start_clock` (they differ in who may
claim and in how the seat is chosen). The clock's task ticks and then takes the
finish path step by step in the order of `FinishPath`; a write of it may fail
(`StoreFails`), which ends the task, since nothing catches it. `Restart` forgets
all but the store. The Lobby may lose a report, or the server its answer; without
the service token the report is turned down. The Postgres store does not keep that
token and the memory store does: `StoresToken` says which is modelled.

A player id is a number, minted from the count of taken seats, which is fresh
because seats are never given up. A result is the number of the play it was written
in: the n-th life of the process.

### SeatSockets

`listeners` is the hub's list for the match, `pushes` counts the push tasks of a
socket, and `shown` is the last state it was sent: the version of the match and
the seat it was projected for. `Subscribe` is the whole of `subscribe` for a seat
the player holds, on a fresh socket or one that already holds a seat. `RunPush`
reads the match and the socket's seat when it runs, as `push_state` does. A send
queues its bytes without waiting, so that pushes leave in the order they ran; a
socket whose buffers are full is not modelled.

### SessionClock

Time counts parts of an interval. `Turn` is the loop from its condition to the
sleep or to the tick, `Wake` the end of the sleep with whatever held the process
up, `Tick` a tick with the time it takes, ending the match, failing, or both.
`madeUp` counts the late ticks since the loop last slept: a history variable.
`Stop` is the cancellation of a sleeping task.

### Troops, Battle, Schools

A unit is its number in world order, which only grows, so that walking a list of the
world is walking ascending numbers. `mageIds`, `summonIds`, `slots`, `ordinals` and
`timer` are the lists of `Troop` and `resummon_remaining`; `idleAt` is history.
`Rebuild(m)` is a mage's turn in the resummon phase: idle, counting down, or raising
the oldest slot's unit with the fields `_refill` gives it and the defaults for those it
does not. Removal is `LeaveSlot` per fallen summon, then `Sweep`: the fallen leave the
field and the lists, and the summons of a troop that lost its last mage with them.
In `Troops` the other phases are one step, `Fight`, which takes any life from anybody.

`Battle` puts them in its place, a step per unit that walks or swings and per effect of
an ability or a spell. `body` holds what a unit carries (place, energy and its meters,
burn, intent), `hazards` the burning ground, `told` what the event stream reported.
The field is one lane and amounts are integers; multipliers are percentages. A decision
is a mood per side and type, taken up on `DecisionTicks`; a target is the nearest in
reach, ties by id; a withdrawing unit walks at half speed; an energy refill leaves its
caster out. `Battle` implements `Troops`: the property `TroopSpec` of its run.

`Schools` resolves what a side's mages are worth to its schools, with Python's rounding
(half to even) of durations to ticks; `MCBattle` takes its paces and charge rates from it.

### The unit AI

Units are numbered in the order of their ids, on one lane. Weights are hundredths,
scores, factors and ranks thousandths, and divisions round down where Python keeps a
fraction; a tick window rounds half up. Tie-breaking jitter is left out since no profile
sets it.

- `Temper`: `compose_profile`. Traits and personality tags a card does not support fall
  away, weights add up and are clamped, rules of a tag apply by their strength.
- `Judgement`: what a unit observes, which context it is in, what threatens it where, and
  the score of an action by the four factors.
- `Decisions`: `Candidates` is `candidates.py`, with whom a unit may go after
  (`Eligible`), where it may stand and fall back to; `Chosen` is `decide` with its
  margins; `MindAfter` is `_commit`, with `pursuit.py`'s reasons to release a chase.
- `Coordination`: what a troop needs, who may answer, whom it keeps and whom it adds, up
  to half of its living members.
- `Units`: a tick is `Coordinate`, then `Decide(u)` in world order, then `Act` (walking,
  dashes) and `Field`: opponents without behaviour walk as they like within `Haunt`,
  somebody is hurt, gauges fill. One side's units walk at once, since they do not look
  at each other when they do. Barricades are `Battle`'s.

`ended` (how long ago a chase ended short of its quarry, and whether a bound ended it)
and `run` (whom a unit goes after without a break, since when and from where) are
history variables.

### The client

`PlanScreen` has an action per tap the screen offers: `plan` is the reducer's state while
the screen is mounted. `FixtureSession` has one action per timer and per tap; `timers` are
the pending callbacks in the order they were set, since those due at one moment fire in
that order. `shown` is the snapshot on screen and `battle` where the scripted battle has
really got to. `MatchScreen` mounts the plan screen when an unlocked planning phase is
shown and forgets the plan at lock-in; of it the session keeps the spells.

An edit names a mage, and the reducer changes every troop of that mage: the checks look
at the first (`TroopOf`), `MapTroop` applies the change to each. A mage can lead
several troops because `OpeningPlans`, the suggested plans a round may open with, may
say so. There are two in the run: one like the client's starter mirror, a mage to a
troop, and one like the server's `opening_plan_json`, which has one mage and fields it in
every troop.

`Plans` has both judges of a plan: `CanLockIn` is the screen's, `Accepts` is
`parse_plan`'s reading of orders with `validate_plan`, `ArmySetup` is `to_army_setup` and
`Deploys` is what `create_world` does not refuse. Orders have two spellings, as in the
code: the client's `Hold` names a `zone` and is what the steps offer (`OrderChoices`), the
server's `HoldZone` names a `zoneId` and is all that it reads (`LegalOrders`). Nothing
converts one to the other, in the code or here; an opening plan from the server carries
the second kind and keeps it until the player gives another order.

### The two abstract specifications

`MatchLifecycle` is a match in four stages, with the rounds played and won, the bases as
each phase shows them and the ending of the match. A fight goes on while both bases stand
(`Batter`). One that fells a base is over on that tick, the match with it, for the side
still standing (`Storm`). One that ends on standing bases ends the match on the last round
of a demo or the round that gives a side its wins, and no other (`EndRound`). An ending is
never replaced. `MatchSession` implements it under the mapping in `Life`, in which the
bases are the round's while one stands and the carried ones otherwise, and the ending is
`matchResult`. `CastContract` says of a
command, a seat and an id, that it is decided once, that whatever is said of it
repeats the decision, and that it is charged exactly if accepted. `MatchSession`
implements it under the mapping in `Contract`, with the charges read off the run
record, as long as no id has been evicted from the ledger.

## The checks

`tlc -config <cfg> <module>`; each takes from a second to about two minutes.

| Run | Shows | Bounds, and why they are enough |
|---|---|---|
| `round` | both seats cast at will while every way a round ends comes up: `NothingLeftWaiting`, `LandingOrder`, `EveryCastLandsOnce`, `PoolWithinCap`, `SidesAreAlike`, `RunnerStopsWithRound`, `FallenBaseDecides`, `RoundEnds` | two spells, one seat with both; the pool is clipped at both ends; a place inside the map and one outside, a stale window of one tick, so every refusal happens; bases, score and limit so small that each ending is reached on its own and together with each other |
| `series` | a best of three: `BasesNeverRecover`, `LockedPlansStand`, `RecordIsAChain`, `RatedResultsAreEarned`, and the refinement `FollowsLifecycle`, which holds the match to its count of wins, to ending on the tick a base falls and not before, and to an ending that stands | three rounds (two wins and a draw, or three rounds with one each), one tick a round, bases of 2 losing one a tick so that a base falls in the second round; the loop may fail at any tick |
| `session_casts` | casts, retries and late retries: `RecordFollowsRound` and the refinement `KeepsContract` | two rounds of one tick, two ids a seat, energy for one cast a round: an id is retried in its own phase, after it, and in the next round |
| `service` | a match pushed by a Lobby, claimed with tokens and without, played over a restart: `SessionMatchesStore`, `SeatIsKept`, `SeatedMatchTicks`, `ToldIsStored`, `FinishedIsMarked` | two requests at once, of any kind, as often as they like; one seat reserved and one open; a token for each user's seat and one for a seat reserved for the other; one restart, so that a play before and a play after it exist |
| `sockets` | `HubHoldsTheSeated`, `ViewsAreOwn`, `CatchesUp` | three sockets on two seats, two subscriptions a seat (so one moves while another stays), two changes of the match |
| `clock` | `KeepsTime`, `OverIsFinished` | an interval of two units, two ticks made up, ticks of up to half an interval; stalls of none, part of a tick, exactly the limit, just beyond it and far beyond it; twelve intervals, so that stalls follow one another |
| `battle` | two troops fight: `SlotsAccounted`, `BondHolds`, `TroopInv`, `RebuildsKeepPace`, `WalkingKeepsOff`, `StreamAccountsForAll`, and that a battle is a run of `Troops` (`TroopSpec`) | a mage with a wall and a hound against a pushing mage with a ram and a hound, on a lane of 16 where they meet on the second tick; six ticks, one spell, one change of mind per side; lives and paces so small that units die, are rebuilt and die again, a troop dissolves and a base falls |
| `client` | a player from the plan to the result and round again: `OnlyHoldsAndDoubles`, `ToldIsTrue`, `LiveIsCurrent`, `StaleStaysPut`, `PlayedOut` | two opening plans, with and without a mage fielded twice; three mages of which two may be fielded, a summon that runs out, a spell stranded by losing its mage; delays that overlap (a cast takes longer than a tick, a drop longer than a cast); two casts, six ticks; runs with no fault, with a drop, and with a claim refused for now and for good |
| `units` | a mage and its hound think again every tick: `RecoveryIsServed`, `OneChaseIsBounded`, `HelpIsWellSpent` | the content's own cards, traits and personalities, at two ticks a second so that timeout, patience and recovery are six, two and four decisions; a bait that comes and goes in the hound's leash, an archer behind it, the mage's death, a dash |
| `replayed`, `emplacement`, `chases` | violations, see below | |

`CHECK_DEADLOCK FALSE` is set everywhere: a decided round, a finished match and a
match at the bound on rounds really stop, and so do a service with no request, a
room of closed sockets and a clock that is done. `Battle` and `Units` are checked for
deadlock: a stopped battle stutters (`Stopped`), and units never stop thinking.

Bounds that are not the code's: `MaxDamage` and `LanePoints` (what a tick may do),
`MaxRounds` (a series of drawn rounds is endless in the code; the model follows it
that far), `MaxRestarts`, `MaxVersion`, `MaxSubs`, `Horizon`, `MaxSpells`, `DecisionTicks` and
`Spot` (spells and changes of mind in a battle), `MaxCasts` (of the client),
`MaxCharges`, `Wounds` and `Haunt` (how often a gauge fills, how far a unit is hurt and
where opponents walk), and the small sets of
ids, spells, places, plans, callers and sockets. `StaleTicks`,
`TickLimit`, `EnergyCap`, `StartingEnergy`, `ScoreThreshold`, `Backstop`,
`RoundOverTicks`, `RoundsToWin`, `MaxEntries` are constants of the code given small
values.

Fairness: weak fairness of `SomeStep` in a round. The clock's loop calls `tick` until
the match is over and nothing the players do can hold it, since every handler runs to
its end. Players owe nothing: no fairness on casts. A match has none (`SessionSpec` is
a safety specification) and is not claimed to end: a seat may never be claimed, and the
drawn rounds of a series add to no count while the code plays on.

Around the session: weak fairness of the clock's task (`LoopStep` in
`GameService`, every step of the loop but `Stop` in `SessionClock`), of requests in
flight and of each socket's pushes (`RunPush`). All are tasks of the event loop,
which resumes whatever is ready. No fairness on arrivals, restarts, failures,
subscriptions or closes. On the client, weak fairness of time and of the timers that
are due, which the browser always fires; none on taps. `LoopStep` does not owe a match its end, which is
`MatchSession`'s matter: `FinishedIsMarked` starts from a match that is over.

Every property of a passing run has a mutant: a definition of the model changed
the way a slip in the code might change it (the operators commented `slip:`), under
which TLC finds that property violated.

## The proofs

What is proved holds for every value of the constants that satisfies the named `ASSUME`s
of the module concerned; TLC evaluates those in every run.

### The round

`AuthoritativeRoundProofs` proves the following of `AuthoritativeRound!Spec`, for
every set of ids, spells and places, all costs and energies, every length of
battle, every amount of damage and every score.

| Theorem | Statement |
|---|---|
| `RoundInvariant` | `Spec => []RoundInv` |
| `RoundTypeCorrect` | types |
| `CastsLandInTime` | `NothingLeftWaiting`, and `LandsOnItsTick`: a spell lands on the tick its seat was told |
| `CastsAllLand` | queue and landings number the casts; once the round is decided every cast has landed |
| `PoolStaysWithinCap` | `PoolWithinCap` |
| `RunnerAndRoundStopTogether` | `RunnerStopsWithRound` |
| `AFallenBaseDecides` | `FallenBaseDecides` |
| `DecisionFavoursNeitherSide` | `SidesAreAlike` |
| `DecidedRoundIsFrozen` | `EndedRoundIsFrozen`: no step, cast or charge after the decision |
| `SpellsLandInOrder` | `LandingOrder` |
| `EveryCastLandsExactlyOnce` | `EveryCastLandsOnce` |

The argument. `LandsOnItsTick` is not inductive: nothing in it says what the queue
holds when a tick comes. `RoundInv` adds that everything in the queue is due on the
next tick (`pending \in Seq(DueNext)`), which `AcceptCast` keeps because it dates a
cast to `tick + 1` and every tick keeps because it then empties the queue
(`TickEmptiesQueue`, from `AllDue`: when all entries are due, `DueCount` is the
queue's length). `RunnerStopsWithRound` is not inductive either: it needs the
ending to be what the field *now* decides (`ending = DecideEnding(...)`) and the
runner's flag to be exactly "a base or an army is gone". From those two,
`OpenBattle`: an undecided round stands on a battle that still runs, so a step of
the round is always a tick of the battle.

The lemmas on the decision stand on their own: `DecideEndingType` (it yields
nothing only while all stand and there is time), `DecideEndingWinner` (a fallen base
decides, and no winner's base fell), `DecisionMirrors` (the decision commutes with
exchanging the sides). `InjectShape` says what an
insertion puts where, `InjectKeepsOrder` that a queue in order stays so.

`LandingOrder` is about what has landed, and needs the queue itself to be sorted
(`OrderInv`): insertion keeps it so, and everything landed is dated no later than the
tick that has run, everything queued later. `EveryCastLandsOnce` counts. That a landing
is one of the accepted casts, and once only, is no more inductive than that; `CountInv`
is: of every spell there is, as many were asked for as are queued and landed together.
The counts are cardinalities of sets of positions, so that no induction over a sequence
is needed: an insertion, a landing and an accepted cast each move or add one position,
by a bijection of the positions before and after.

### The match

`MatchSessionProofs` proves the following of `SessionSpec`, for every map and battle, all
plans and loadouts, both profiles, any number of rounds and any bound of the ledger.

| Theorem | Statement |
|---|---|
| `SessionInvariant` | `SessionSpec => []SessionInv` |
| `SessionTypeCorrect` | types, the record's and the ledger's included |
| `TheRecordIsAChain` | `RecordIsAChain` |
| `TheRecordFollowsTheRound` | `RecordFollowsRound` |
| `ResultsAreEarned` | `RatedResultsAreEarned` |
| `NothingRefillsABase` | `BasesNeverRecover` |
| `ALockedPlanStands` | `LockedPlansStand` |
| `EveryMatchFollowsLifecycle` | `FollowsLifecycle`: the session implements `MatchLifecycle` |
| `CastsKeepContract` | `NothingForgotten => KeepsContract`: a session whose ledger forgets nothing implements `CastContract` |
| `RoomForAllRemembers` | a ledger with room for every command id forgets nothing |

The argument. A match is a sequence of rounds, and the round's own theorems are about one
that opens as `Init` opens it: on bases above nought. That the session's rounds do is the
one thing that joins the two modules (`StandingBases`, `OpenRoundKeepsInv`): a match goes on
only while `~Over`, and `FinishRound` lets it go on only if the round's ending was not a
fallen base, which by `AFallenBaseDecides` says that none fell. So `RoundInv` is an invariant
of the session too, and with it everything proved of a round.

The chain needs three more facts. `StageInv` says which phase has a round and on what its
bases stand; `RecordInv` that the record is as long as the rounds opened, that what its
last round left is what the next will open on (`LeftBy`), and that the wins are the number
of its endings (`WonIn`). Two lemmas carry it over the two things the recorder does:
`ChainGrows` for a round opened, `LastRewritten` for a cast or an ending written into the
last one. A result is earned by `ClosingInv`, which follows the winner `MatchEnding`
names to the count it was named for, or to the other side's base.

The refinement uses the same invariant. `OnlyTheBattleWears`: the bases shown change in a
battle's ticks and in nothing else, not when a round opens, ends or is given up. A tick
that leaves the round undecided is then `Batter` (`TickIsBatter`), with both bases
standing because an undecided round stands on such (`RoundInv`); one that decides it is
`Storm` or `EndRound` (`FinishIsEnding`), as `MatchEndingExact` has it: what `_match_ending`
answers for a base down, and for the count with both bases up. An ending stands because
no handler gets past its guard once the match is over, `abandon` included.

`KeepsContract` is false of the code as it is, for a ledger that is full forgets its
oldest answer; it is the promise of a session that forgets none. `NothingForgotten` says
so of the steps (an id answered stays answered), and `RoomForAllRemembers` that it holds
whenever a seat's ledger has room for all ids the match is sent. The invariant behind the
refinement, `OnceInv`, does not need it: a ledger has one entry for an id, and what was
charged for one is finite. With it a recorded answer is an entry appended
(`RecordedGrows`), so a command's verdict in the ledger never changes after it was given,
an answered id is repeated (`RetryRepeats`) and a new one decided (`AnswerDecides`).

### The battle and its troops

`BattleProofs` is first about the troops, for any opening army, catalog and pace, and whatever the fighting does:

| Theorem | Statement |
|---|---|
| `TroopInvariant` | `TroopSpec => []TroopInv` |
| `PlacesAreConserved` | `SlotsAccounted`: every place of a troop with a mage is lived in once or dispelled once |
| `SummonsFollowTheirMages` | `BondHolds`: no summon without a mage of its troop |
| `RebuiltIdsAreFresh` | `IdsAreFresh`: a rebuilt summon takes no id that was ever used |
| `RebuildsTakeTheirTime` | `RebuildsKeepPace`: a unit rises exactly a mage's pace after it last raised or idled |

The argument. That no place is lost needs to know, in the middle of the removal phase,
which of the fallen have left their slot already: `Dwells` counts a fallen summon as
living in its place as long as its turn is still to come (`todo`), and `LeaveSlot` moves
it from one to the other. It needs the lists to name exactly the units on the field
(`ListsMatchField`), for a unit missing from its troop's list would be counted nowhere,
and whose turns are left (`TurnsInOrder`), for a mage that is not on the field has no
troop to take a slot from. `RebuildsKeepPace` is about two steps many ticks apart: it
follows from `TimersRun`, that a living mage's timer stands at its pace less the turns
since it was idle. A timer that has never run is at zero, and then its troop has never
lost a summon, which is why arming it on the first tick of work gives no unit early.

Then about the battle, for any catalog of cards, abilities and spells, any lane, bases,
zones and moods, and any number of ticks:

| Theorem | Statement |
|---|---|
| `BattleInvariant` | `Spec => []BattleInv` |
| `BattleIsOfTroops` | `Spec => TroopSpec`: the battle implements the troops |
| `BattleKeepsTroops` | so `SlotsAccounted`, `BondHolds`, `IdsAreFresh` and `RebuildsKeepPace` hold of it |
| `StreamIsComplete` | `StreamAccountsForAll`: every unit ever fielded stands, fell and was reported once, or dissolved |
| `WalkersKeepOff` | `WalkingKeepsOff`: no stride crosses a standoff or a barricade |

The argument. A step of the eleven phases is `Fight` to the troops: it takes life from
units and touches no list (`StrikeIs` for blows, `QuietStep` for all that strikes nobody).
For that every blow must name a unit on the field and an amount that is one, so
`BattleInv` says what bodies, burns, hazards and pending spells are (`BattleTypes`), that
a cast is under way only in the two phases that make one (`CastKnown`), and that only
units on the field or hazards still burning have a turn (`StageOrder`). The stream's
account is inductive with the ranges of its counters: a blow reports whom it fells, and
only the living are struck (`BlowsAreTold`), so nobody is reported twice, though a swing, a
spell's blast, burning ground and a burn may each fell the same unit in one tick. A raised
unit has a number nothing was told of, and the sweep takes off those reported and adds
those it dissolves.

`WalkingKeepsOff` is geometry: a stride is no longer than the room to the nearest standoff
the unit is outside of (`StrideIs`), it is clamped to the edge of every barricade it would
end in (`ClampIs`), and by the triangle inequality it then ends outside. That it does not
jump over one needs `StrideAssumption`, that a card's step is shorter than a barricade is
wide. That is the assumption `blocking.py` states ("cannot be tunnelled through at any
speed this game reaches"); without it the theorem is false, of the code too. Which of the
foes is nearest is a `CHOOSE`, and that there is one to choose (`NearestIs`) needs ids to
be fresh: two units at one distance are told apart by rank and ordinal.

### The units

`UnitsProofs`, for every roster, library of behaviour, ground and rate of ticks, within what
`RosterAssumption`, `HabitsAssumption` and `GroundAssumption` say of the content (unit ids
are naturals, speeds and reaches are not negative, lives are positive, a habit shifts a
troop by a whole number, places are integers):

| Theorem | Statement |
|---|---|
| `RecoveryIsOwed` | `Spec => []UnitsInv`, on which the next rests |
| `NoChaseWhileRecovering` | `Spec => RecoveryIsServed` |
| `ChasesAreBounded` | `Spec => []OneChaseIsBounded` |
| `HelpIsSpentWell` | `Spec => []HelpIsWellSpent` |

`RecoveryIsServed` speaks of the history variable and the code of a
counter, and neither alone is inductive: `Owed` says that since a bound last ended a
chase the decisions made and the recovery left add up to `RecoveryTicks`. While that is
so nothing out of reach is `Eligible`, so no candidate advances on it, and one in reach
begins no chase. What an action scores does not come into it: `Score` is never expanded,
and the margins can only choose among the candidates (`ChosenIsWeighed`).

A chase has two bounds and the code checks them at different times. The timeout is
counted in the chase record, so `Running` ties the record to the run it belongs to: a
unit that goes after somebody has either a record of that target, as old as the run less
one decision, or none and a recovery to serve, for the one decision with which a bound
ended it. The leash is checked where the decision is made, against the place the unit
would stand at, not against where it is; `OnALead` is what that buys: wherever the
next stride takes it on its way to the goal it decided on, it is within the leash and a
stride of where it began. That holds of every unit that has decided and not yet moved,
and the ones that `Field` moves, kills or brings back are not among them. `TheLeashHolds`
is the geometry: between two places within the leash, every place is.

`HelpIsWellSpent` is about a fold over the needs in their order of urgency. The induction
is over the sets that fold goes through: `CoordinatedIsSettled` shows of every set of
needs that what is given when they are dealt with is `Sent` (within the budget, nobody
twice, each to a need there is) and `Settled` (no need among them that somebody free could
meet), by taking the least counterexample (`SmallestOfMany`, from the library's
well-founded relations) and removing the need that comes last. That one comes last
(`LeastUrgentIsOne`) is no matter of course: `NeedierThan` compares shares of life by
cross-multiplication, and that is transitive because lives are positive (`SharesAreOrdered`).
The community modules' folds are `CHOOSE`s of a recursive function; that there is one to
choose, so that they compute what they say, is `SumIsRecursive` and
`AnswersAreRecursive`, by the same argument. `Kept` holds assignments to their window
and the needs there are, so nothing kept is out of date (`KeptIsSent`); between
`Coordinate` and the units' acts nothing that was settled on moves or dies, which is why
the property is stated of those stages only.

### The client and its plan

`MatchScreenProofs`, for any timings, energies, scenarios and number of casts and ticks,
and any content within `ContentAssumption`:

| Theorem | Statement |
|---|---|
| `ScreenInvariant` | `Spec => []ScreenInv` |
| `AnswersAreTrue` | `ToldIsTrue` |
| `LiveShowsTheBattle` | `LiveIsCurrent` |
| `StalePictureStays` | `StaleStaysPut` |
| `HoldsAndDoublesAreRefused` | `OnlyHoldsAndDoubles` |
| `AcceptedPlansDeploy` | what `validate_plan` accepts, `create_world` builds |

The argument. A timer that comes does what its kind does, and the code asks little before
it does it; that it is right depends on when such a timer can be waiting. `Allowed` says
so: a tick waits only in a battle with no ending yet, a lock only while the screen is
locked, a recovery only over a battle or its result. It is inductive because `OneEach`
lets but one claim, one lock and one tick wait: a second one would come after the first
had moved the phase on. A drop empties the timers of casts in flight; those left may
still come, and find their command no longer in flight (`StillInFlight`), which is what
keeps an answer from being given twice or a lost cast from landing. `Phases` ties the
picture to the battle: only that of a connection that is down may be behind, and while it
is down nothing is delivered.

`AcceptedPlansDeploy`: if the plan cards and the simulation's cards of a
content agree on kinds and schools (`CardsAgree`), every plan `validate_plan` accepts is
an army `create_world` builds, whatever its length. So `_start_battle` meets no
`ValueError` from a plan that was locked in.

`HoldsAndDoublesAreRefused` is the other half, and says exactly how far the screen and the
server agree. What the hub lets a player lock in may be refused for three things: an order
that is not read, which is a `hold` in the client's words; a troop over its mage's capacity,
which is one of several that mage leads; and a summon drawn more often than owned, which
such a troop holds. Where none of the three is there, `validate_plan` accepts the plan and
`create_world` builds it. Its invariant is `TroopsTyped` and the cap, that the troops
whose mage leads no other (`Alone`) fit it, and that those troops between them stay within
the pool (`AloneDraws`). The last is inductive because an edit checks the pool against the
whole plan: doubles only make the check stricter for the rest. `ContentAssumption` is what
the edits take from the content and nothing asks at lock-in: that usual summons fit their
mage, that every mage supports every summon, that the plan cards and the simulation's
agree, and that an opening plan is within the cap, the capacities and the pool. Nothing is
assumed of how often it fields a mage.

Most of the proof is arithmetic over lists. A troop's use of its capacity is a fold over
its summons; `TroopHasTotals` unfolds it to running totals, from which adding one
(`UsedOfMore`) and taking one out of the middle (`UsedOfLess`) are read off without
another induction. The entourage of a newly fielded mage is a fold too, over the usual
summons and what the pool has left: `EntourageFits` follows both folds from prefix to
prefix (`StepByStep`), since what is taken never costs more than the usual summons up to
there; so is the list an unfielded mage leaves behind (`Without`). The pool counts places in the whole plan, `Draws`; that an edit draws no more is
an injection from the places after it to the places before (`DrawsNoMore`).

### The clock

`SessionClockProofs`, for every interval, limit and stall and every cost of a tick below
the interval: `TheClockKeepsTime` is `ClockSpec => []KeepsTime`. Its invariant ties how far
behind the loop is to how many late ticks it has run: each of them takes its cost from
what may be made up and gets an interval back (`Pays`), and where the loop stands
decides which of the two is still to come. The exact bound, `MaxCatchUp` intervals over
what a tick leaves of its interval, was found by proving it; one less is true of the
instance TLC had and false in general.

`TheEndIsReportedOnce` adds the types of the clock and what its `finished` callback, which
stores the result, is owed: it is called at most once, when the loop is done, and only of
a match that is over, by its rules or because its loop failed.

### The service

`GameServiceProofs`, for any requests in flight, users, seats, reservations, tokens and
restarts, with and without a Lobby, over a store that keeps the service token or not.

| Theorem | Statement |
|---|---|
| `ServiceTypeCorrect` | types; no player id beyond the number of seats is minted |
| `TheSessionMatchesTheStore` | `SessionMatchesStore` |
| `ATakenSeatIsKept` | `SeatIsKept`: no step changes a taken seat |
| `ASeatedMatchTicks` | `SeatedMatchTicks` |
| `ToldResultsAreStored` | `ToldIsStored` |

The invariant says what a request cut at its awaits may still rely on (`RequestInv`): one
that is to make the session finds the row; one that claims finds the session there and
names a seat; one that lands finds the seat under the player id it was given, and not
reserved for another. The last is what the row's lock in `claim_seat` is for: every other
claim that reaches the seat in between leaves it as it is (`ReturningKeepsTheSeat`).
`LoopInv` says the clock's task is past its last tick exactly when the match is over, and
`StoredInv` carries the persisted results over the record to the report. That the seat a
nameless caller is offered exists needs the least of a set of naturals (`LeastIsMember`),
which comes from the library's theorem on well-founded relations.

### The sockets

`SeatSocketsProofs`, for any finite set of sockets and any seats: `SocketTypeCorrect`,
`TheHubHoldsTheSeated` (`HubHoldsTheSeated`) and `ASocketShowsItsOwnSeat`
(`ViewsAreOwn`). The list without duplicates is what makes `list.remove` take out the one
listener of its socket (`ReleasedIsOut`), and that it holds none but the seated is what
keeps the next `append` from adding a second.

### What is only model-checked

All liveness, which is out of the prover's reach: `RoundEnds`, `FinishedIsMarked`,
`CatchesUp`, `OverIsFinished`, `PlayedOut`, and what the refinements promise beyond
safety. Every invariant the runs check is also proved.

## Where the code and its words differ

Three have a run:

- `replayed` (`FinishedStartsNothing` violated). `start_clock` says "A finished match
  starts nothing" and guards against "re-reporting a match the Lobby has already been
  told about"; the guard asks the session. After a restart the match the store has as
  finished gets a fresh session, in its first planning phase, and is played and
  reported again.
- `emplacement` (`EmplacementsStayDown` violated). `world.py` and `units.py` say that an
  emplacement is never resummoned; neither phase asks `is_resummonable`. The wall comes
  back, and without its ability, its emplacement and its blocking, which `_refill` does
  not carry over.
- `chases` (`ChasesAreSpaced` violated). `pursuit.py` says of the recovery "How long after
  a chase ends before this unit may start another"; only a chase that a bound ends starts
  one. A unit that turns to something else in mid-chase may go after the same bait at
  once, with new bounds.

The others were read off the models, without a run of their own:

- `MatchSession.cast` promises "Exactly one answer per command id, forever"; the ledger
  keeps at most `MAX_ENTRIES_PER_SEAT` ids per seat and then forgets the oldest, so a
  late enough retry is decided a second time.
- `persist_result` stores NULL for "nobody won" so that a history does not "read as a
  loss for both players"; but it counts every `baseDestroyed` ending as decisive, and
  when both bases fall on one tick there is such an ending with no winner: both players
  get `won = False`.
- `Seat.connected` is "Whether a socket is currently holding this seat"; the close of an
  old socket clears it under the newer one.
- The client's `cast` answers a cast in flight after the round's end and then shows the
  battle again (`session.ts:360`): the result is gone from the screen, and no timer is
  left to bring it back.
- `MAX_CATCH_UP_TICKS` is "Ticks the loop will run back to back to catch up after a
  stall"; the code bounds how far behind the loop may be, and ticks that themselves
  take time make it run more of them. `KeepsTime` states what does hold.
- `create_standalone_match` says "any arriving player may take an open one"; of two
  players who ask for any seat together, both are offered the same one, and the second
  is refused while the other is open.
- `ws.py` tells a client that "this credential does not hold a seat in this match, and
  no amount of retrying will change that"; after a restart it says so to the holder of
  a stored seat who comes before claiming again.
- `planReducer.ts` calls what it makes "a complete description of a locked-in plan — which
  is what the server will be handed". Its orders say `hold` and `zone`, where
  `plan.py:55-66` reads `holdZone` and `zoneId` and raises for anything else, so a plan with
  one lane held by the client's own choice is refused. Nothing hands it over at this
  commit.
- The reducer takes a mage for one troop, and the server's `opening_plan_json`, "one that
  would be accepted as-is", fields its one mage three times. `mapTroop` then changes all
  three on a check of the first: one tap on a cinder-hound takes the plan from three of
  them to six where four are owned, the hub still offers the lock-in, and `validate_plan`
  refuses it. `OnlyHoldsAndDoubles` says that this and the orders are all that gets past
  the screen; the run reaches both. A capacity exceeded in this way takes an opening
  plan whose troops of one mage differ, which neither side has: the theorem covers
  it, the run does not reach it.
- `report_to_lobby` logs that a failed report "will retry" (`session.py:772`); nothing calls
  it again. `FinishedIsMarked` does not see that: it asks that the row be marked with
  whatever the one report answered.
- `validate_plan` does not refuse a mage fielded twice or a spell equipped twice.
- The screen does not ask whether a mage's school supports a summon; every mage and summon
  there is belongs to the fire school.

## What is not modelled

- The plane: battle and units live on a lane. Two-dimensional geometry (going round a
  barricade, blast areas as discs) and floating point are out of TLC's reach; the
  amounts a property tells apart are integers.
- The whole battle with its units' minds: `Battle` takes moods, `Units` has opponents
  that walk at will. Behaviour attached to rebuilt units (`resolve_missing`), a barricade
  weighed as a target, jitter, the inspector's traces and behaviour put in words.
- Replaying a run record (`replay_run`): it runs the same battle again, and what it
  would show, that a battle is a function of its input, holds of any model without a
  choice in it.
- JSON layout, logging, diagnostics: nothing reads them back.
- Signature checks and payload parsing of `lobby/`: no state.
- Bans, resuming from a cookie, the read-only routes, and a socket that moves from one
  match to another.
- Exceptions inside a tick, other than their effect (`Abandon`).
- The client's rendering, hit testing and geometry, the units of its scripted battle, and
  the SQL schema.

## Plan

What is left, in order of importance, each with its runs and its proofs.

1. The client once its session speaks to the server: `FixtureSession` against
   `MatchSession` and `SeatSockets`.
2. `GameService`: resuming from a seat binding, and bans; a socket that moves from one
   match to another.
3. Units with behaviour on both sides, over `Battle`'s phases.
