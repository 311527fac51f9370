--------------------------- MODULE FixtureSession ---------------------------
(***************************************************************************)
(* The client's side of a match: client/src/match/session.ts (the fixture  *)
(* transport that stands in for the server at this commit), the scripted   *)
(* battle it plays (match/fixtures/scriptedBattle.ts), the timers they     *)
(* share (match/clock.ts) and the screens that send to it                  *)
(* (MatchScreen.tsx, battle/BattleScreen.tsx, CastBar.tsx).                *)
(*                                                                         *)
(* Everything happens on a timer or at a tap, and each is one action.      *)
(* Timers due at the same moment fire in the order they were set; a tap    *)
(* comes at any moment between.  Units, positions and zone scores are left *)
(* out: a tick may end the battle or not.                                  *)
(***************************************************************************)
EXTENDS Integers, FiniteSets, SequencesExt

CONSTANTS
  Scenarios,    \* the runs the demo offers: claimFails, dropAt (0 is never)
  Spell, SpellCost,
  NoneArmed, NoBattle, NoEnding,
  OpeningEnergy, EnergyGain, EnergyCap,
  ConnectTime, LockTime, CastTime, TickTime, DropTime,
  MaxTicks,
  MaxCasts      \* bound: casts a player sends in one run

ASSUME SessionAssumption ==
  /\ Scenarios \subseteq [claimFails : {"no", "forNow", "forGood"}, dropAt : Nat]
  /\ SpellCost \in [Spell -> Nat] /\ NoneArmed \notin Spell
  /\ {ConnectTime, LockTime, CastTime, TickTime, DropTime, MaxTicks} \subseteq Nat \ {0}
  /\ {OpeningEnergy, EnergyGain, EnergyCap, MaxCasts} \subseteq Nat

VARIABLES
  scenario,     \* the run being shown
  claimFails,   \* how the seat claim will fail, if it does
  connection,   \* view.connection.kind; the picture is stale unless it is live
  shown,        \* view.snapshot: its phase, and the battle or the ending it shows
  battle,       \* where the battle has really got to
  loadout,      \* the spells the locked plan takes into the round
  roundsWon,
  inFlight,     \* casts sent and not yet answered
  delivering,   \* deliveringSnapshots: do snapshots get through
  timers,       \* pending timers, in the order they were set
  armed,        \* the spell waiting for a target on the battle screen
  casts,        \* castCounter: commands of this run so far
  told          \* what the player was told of each command, in order

sessionVars == <<scenario, claimFails, connection, shown, battle, loadout, roundsWon,
                 inFlight, delivering, timers, armed, casts, told>>

-----------------------------------------------------------------------------

Sides == {"you", "them"}
Endings == [kind : {"baseDestroyed"}, winner : Sides]
           \cup [kind : {"roundComplete"}, winner : Sides \cup {"nobody"}]
Command == 1..MaxCasts
ScriptedState == [tick : Nat, energy : Int, casts : SUBSET Command, ending : Endings \cup {NoEnding}]

\* Nothing is told from a battle, and from an ending.
ASSUME NothingAssumption == NoBattle \notin ScriptedState /\ NoEnding \notin Endings

Blank == [phase |-> "none", battle |-> NoBattle, ending |-> NoEnding]
Planning == [Blank EXCEPT !.phase = "planning"]
LockedShot(b) == [phase |-> "locked", battle |-> b, ending |-> NoEnding]
BattleShot(b) == [phase |-> "battle", battle |-> b, ending |-> NoEnding]
ResultShot(ending) == [phase |-> "matchOver", battle |-> NoBattle, ending |-> ending]

OpeningBattle == [tick |-> 0, energy |-> OpeningEnergy, casts |-> {}, ending |-> NoEnding]

\* clock.after: the newest timer has the highest handle, and ties go by handle.
NewTimer(time, kind, cmd, spell) == [left |-> time, kind |-> kind, cmd |-> cmd, spell |-> spell]
Timer(time, kind) == NewTimer(time, kind, 0, NoneArmed)
IsDue(i) == timers[i].left = 0 /\ \A j \in 1..i - 1 : timers[j].left # 0
Others(i) == RemoveAt(timers, i)

\* A session just made: connecting, with its seat claim on the way.
Fresh(s) ==
  /\ scenario' = s /\ claimFails' = s.claimFails
  /\ connection' = "connecting" /\ shown' = Blank
  /\ battle' = NoBattle /\ loadout' = {} /\ roundsWon' = [side \in Sides |-> 0]
  /\ inFlight' = {} /\ delivering' = TRUE /\ timers' = <<Timer(ConnectTime, "connect")>>
  /\ armed' = NoneArmed /\ casts' = 0 /\ told' = [c \in Command |-> <<>>]

SessionInit ==
  /\ scenario \in Scenarios /\ claimFails = scenario.claimFails
  /\ connection = "connecting" /\ shown = Blank
  /\ battle = NoBattle /\ loadout = {} /\ roundsWon = [side \in Sides |-> 0]
  /\ inFlight = {} /\ delivering = TRUE /\ timers = <<Timer(ConnectTime, "connect")>>
  /\ armed = NoneArmed /\ casts = 0 /\ told = [c \in Command |-> <<>>]

Tell(commands, answer) ==
  told' = [c \in Command |-> IF c \in commands THEN Append(told[c], answer) ELSE told[c]]

\* slip: a snapshot is shown whether or not it got through
ShowAnyway(b, getsThrough) == shown' = BattleShot(b)

ShowBattle(b, getsThrough) == shown' = IF getsThrough THEN BattleShot(b) ELSE shown

-----------------------------------------------------------------------------
\* Timers

Elapse ==
  /\ timers # <<>> /\ \A i \in DOMAIN timers : timers[i].left > 0
  /\ timers' = [i \in DOMAIN timers |-> [timers[i] EXCEPT !.left = @ - 1]]
  /\ UNCHANGED <<scenario, claimFails, connection, shown, battle, loadout, roundsWon,
                 inFlight, delivering, armed, casts, told>>

\* The seat claim is answered: the planning phase, or the refusal.
SeatClaimed(i) ==
  /\ timers[i].kind = "connect" /\ timers' = Others(i)
  /\ IF claimFails = "no" THEN connection' = "live" /\ shown' = Planning
     ELSE connection' = "claimFailed" /\ shown' = shown
  /\ UNCHANGED <<scenario, claimFails, battle, loadout, roundsWon, inFlight, delivering,
                 armed, casts, told>>

\* The other seat locks in and the battle starts.
StartBattle(i) ==
  /\ timers[i].kind = "opponentLock"
  /\ battle' = OpeningBattle /\ ShowBattle(OpeningBattle, delivering)
  /\ timers' = Append(Others(i), Timer(TickTime, "tick"))
  /\ UNCHANGED <<scenario, claimFails, connection, loadout, roundsWon, inFlight, delivering,
                 armed, casts, told>>

\* One tick of the scripted battle: it must end on its last tick and may before.
Advance(b) ==
  LET charged == b.energy + EnergyGain
      next == [b EXCEPT !.tick = @ + 1,
                        !.energy = IF charged > EnergyCap THEN EnergyCap ELSE charged]
      on == IF next.tick >= MaxTicks THEN {} ELSE {NoEnding}
  IN  {[next EXCEPT !.ending = e] : e \in on \cup Endings}

\* finish(): the result replaces the battle whatever the connection was.
Finish(ending) ==
  /\ roundsWon' = IF ending.winner = "nobody" THEN roundsWon
                  ELSE [roundsWon EXCEPT ![ending.winner] = @ + 1]
  /\ delivering' = TRUE /\ connection' = "live" /\ shown' = ResultShot(ending)
  /\ armed' = NoneArmed

\* slip: a tick that drops the connection schedules no other
RecoveryOnly == <<Timer(DropTime, "recover")>>

\* The battle keeps running while the client is deaf to it.
DropTimers == <<Timer(DropTime, "recover"), Timer(TickTime, "tick")>>

\* maybeDropConnection(): deaf until the recovery, everything in flight refused.
DropConnection ==
  /\ delivering' = FALSE /\ connection' = "reconnecting" /\ shown' = shown
  /\ Tell(inFlight, "rejected") /\ inFlight' = {}

Tick(i) ==
  /\ timers[i].kind = "tick" /\ battle # NoBattle
  /\ battle' \in Advance(battle)
  /\ \/ /\ battle'.ending # NoEnding
        /\ Finish(battle'.ending) /\ timers' = Others(i)
        /\ UNCHANGED <<inFlight, told>>
     \/ /\ battle'.ending = NoEnding /\ battle'.tick = scenario.dropAt
        /\ DropConnection
        /\ timers' = Others(i) \o DropTimers
        /\ UNCHANGED <<roundsWon, armed>>
     \/ /\ battle'.ending = NoEnding /\ battle'.tick # scenario.dropAt
        /\ ShowBattle(battle', delivering)
        /\ timers' = Append(Others(i), Timer(TickTime, "tick"))
        /\ UNCHANGED <<roundsWon, armed, inFlight, told, delivering, connection>>
  /\ UNCHANGED <<scenario, claimFails, loadout, casts>>

\* slip: the connection comes back to the picture it left
RecoverOldPicture == shown

RecoveredPicture ==
  IF battle # NoBattle /\ battle.ending = NoEnding THEN BattleShot(battle) ELSE shown

\* The connection comes back, to wherever the battle has got to.
Recover(i) ==
  /\ timers[i].kind = "recover" /\ timers' = Others(i)
  /\ delivering' = TRUE /\ connection' = "live" /\ shown' = RecoveredPicture
  /\ UNCHANGED <<scenario, claimFails, battle, loadout, roundsWon, inFlight, armed, casts, told>>

\* applyCast(): the server's half of a cast, charged and recorded once.
Rejection(b, cmd, spell) ==
  IF b.ending # NoEnding THEN "roundOver"
  ELSE IF spell \notin loadout THEN "notEquipped"
  ELSE IF b.energy < SpellCost[spell] THEN "notEnoughEnergy"
  ELSE "none"

ApplyCast(b, cmd, spell) ==
  IF Rejection(b, cmd, spell) # "none" \/ cmd \in b.casts THEN b
  ELSE [b EXCEPT !.energy = @ - SpellCost[spell], !.casts = @ \cup {cmd}]

\* slip: a cast the disconnect has answered lands all the same
LandsAnyway(cmd) == TRUE

StillInFlight(cmd) == cmd \in inFlight

\* A cast's round trip is over.  One that the disconnect has answered lands nowhere.
CastLands(i) ==
  LET cmd == timers[i].cmd
      spell == timers[i].spell
  IN  /\ timers[i].kind = "cast" /\ timers' = Others(i)
      /\ \/ ~StillInFlight(cmd) /\ UNCHANGED <<inFlight, battle, told, shown>>
         \/ /\ StillInFlight(cmd)
            /\ inFlight' = inFlight \ {cmd}
            /\ battle' = ApplyCast(battle, cmd, spell)
            /\ Tell({cmd}, IF Rejection(battle, cmd, spell) = "none" THEN "accepted" ELSE "rejected")
            /\ ShowBattle(battle', delivering)
      /\ UNCHANGED <<scenario, claimFails, connection, loadout, roundsWon, delivering, armed, casts>>

\* A timer that is due, whichever it is; the seat claim opens the plan screen.
BattleTimer(i) == StartBattle(i) \/ Tick(i) \/ Recover(i) \/ CastLands(i)

-----------------------------------------------------------------------------
\* Taps

OnBattleScreen == shown.phase = "battle" /\ connection \in {"live", "reconnecting"}

\* lockIn(): the screen hands its plan over, and the other seat is waited for.
LockIn(spells) ==
  /\ connection = "live" /\ shown.phase = "planning"
  /\ loadout' = spells /\ battle' = OpeningBattle /\ shown' = LockedShot(OpeningBattle)
  /\ timers' = Append(timers, Timer(LockTime, "opponentLock"))
  /\ UNCHANGED <<scenario, claimFails, connection, roundsWon, inFlight, delivering, armed, casts, told>>

\* The cast bar: a spell the picture can pay for, while the picture is current.
Arm ==
  /\ OnBattleScreen /\ connection = "live"
  /\ \E s \in loadout : /\ armed # s /\ shown.battle.energy >= SpellCost[s]
                        /\ armed' = s
  /\ UNCHANGED <<scenario, claimFails, connection, shown, battle, loadout, roundsWon, inFlight,
                 delivering, timers, casts, told>>

CancelTarget ==
  /\ OnBattleScreen /\ armed # NoneArmed /\ armed' = NoneArmed
  /\ UNCHANGED <<scenario, claimFails, connection, shown, battle, loadout, roundsWon, inFlight,
                 delivering, timers, casts, told>>

\* The second tap.  A spell armed before the drop can still be aimed after it.
Cast ==
  /\ OnBattleScreen /\ armed # NoneArmed /\ casts < MaxCasts
  /\ armed' = NoneArmed /\ casts' = casts + 1
  /\ \/ connection # "live" /\ Tell({casts + 1}, "rejected") /\ UNCHANGED <<inFlight, timers>>
     \/ /\ connection = "live" /\ Tell({casts + 1}, "pending")
        /\ inFlight' = inFlight \cup {casts + 1}
        /\ timers' = Append(timers, NewTimer(CastTime, "cast", casts + 1, armed))
  /\ UNCHANGED <<scenario, claimFails, connection, shown, battle, loadout, roundsWon, delivering>>

\* retryClaim(): a failure that may be retried was transient, so the retry works.
RetryClaim ==
  /\ connection = "claimFailed" /\ claimFails = "forNow"
  /\ claimFails' = "no" /\ connection' = "connecting"
  /\ timers' = Append(timers, Timer(ConnectTime, "connect"))
  /\ UNCHANGED <<scenario, shown, battle, loadout, roundsWon, inFlight, delivering, armed, casts, told>>

\* The result screen's way back, when there is no lobby to link to.
Leave ==
  /\ shown.phase = "matchOver" /\ connection \notin {"claimFailed", "ended"}
  /\ connection' = "ended"
  /\ UNCHANGED <<scenario, claimFails, shown, battle, loadout, roundsWon, inFlight, delivering,
                 timers, armed, casts, told>>

\* dispose() and a new session: its timers go with the old one.
NewTest ==
  /\ connection \in {"claimFailed", "ended"} \/ shown.phase = "matchOver"
  /\ \E s \in Scenarios : Fresh(s)

-----------------------------------------------------------------------------
\* Properties

\* A command is answered at most once for good, and truly: what was accepted is in
\* the battle's record, and what was refused, by the drop of the connection
\* included, never gets there (session.ts:240-268, 344-361: no replay).
ToldIsTrue ==
  \A c \in Command :
    /\ told[c] \in {<<>>, <<"pending">>, <<"rejected">>, <<"pending", "accepted">>, <<"pending", "rejected">>}
    /\ (told[c] = <<"pending", "accepted">>) <=> (battle # NoBattle /\ c \in battle.casts)
    /\ (c \in inFlight) <=> (told[c] = <<"pending">>)

\* While the connection is live the battle on screen is the battle as it is, and it
\* comes back whole after a drop: nothing the client held is merged into it
\* (session.ts:258-268).
LiveIsCurrent ==
  connection = "live" /\ shown.phase = "battle" => shown.battle = battle

\* A client that has lost its connection keeps the last picture it was given until
\* it is live again: no snapshot, cast or tick of the battle reaches the screen
\* (session.ts:196-199, types.ts:139-145).
StaleStaysPut ==
  [][connection = "reconnecting" /\ connection' = "reconnecting" => shown' = shown]_sessionVars

\* A locked plan is played to its result, drop or no drop, and every cast sent is
\* answered or its run is over (session.ts:173-194, 271-308, 344-361).
PlayedOut ==
  /\ (shown.phase = "locked") ~> (shown.phase = "matchOver")
  /\ \A c \in Command : (told[c] = <<"pending">>) ~> (told[c] # <<"pending">>)
=============================================================================
