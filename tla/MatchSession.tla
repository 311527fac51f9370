---------------------------- MODULE MatchSession ----------------------------
(***************************************************************************)
(* A live match: api/app/match/session.py (MatchSession), with the round   *)
(* it is playing, the ledger of answered commands and the run record its   *)
(* RunRecorder builds (api/app/match/run_record.py).                       *)
(*                                                                         *)
(*   planning -> battle -> roundOver -> planning ... -> matchOver          *)
(*                                                                         *)
(* The session is driven by three callers: the Lobby claim that gives a    *)
(* seat its player, the seats' commands, and the clock.  Each handler runs *)
(* to its end without yielding, so each is one action.                     *)
(***************************************************************************)
EXTENDS AuthoritativeRound, CommandLedger

CONSTANTS
  Plan,           \* plans validate_plan accepts
  DefaultPlan,    \* default_plan(map_config)
  NoPlan,         \* a side with no entry in _RoundState.plans
  LoadoutOf,      \* resolve_loadout
  TestProfile,    \* policy.test_profile
  RoundsToWin,    \* policy.rounds_to_win
  RoundOverTicks, \* ROUND_OVER_TICKS
  Backstop,       \* PLANNING_BACKSTOP_TICKS
  MaxRounds       \* bound: no match is followed past this many rounds

ASSUME SessionAssumption ==
  /\ DefaultPlan \in Plan /\ NoPlan \notin Plan
  /\ LoadoutOf \in [Plan -> SUBSET Spell]
  /\ TestProfile \in BOOLEAN
  /\ RoundsToWin \in Nat \ {0}
  /\ RoundOverTicks \in Nat /\ Backstop \in Nat
  /\ MaxRounds \in Nat \ {0}

VARIABLES
  phase,        \* phase
  roundNumber,  \* round_number
  roundsWon,    \* rounds_won
  baseHp,       \* _base_hp, what the next round opens on
  phaseTicks,   \* _phase_ticks, counted no further than it is compared
  claimed,      \* the sides whose seat has a player_id
  plans,        \* _round_state.plans
  locked,       \* _round_state.locked
  hasRound,     \* _round is not None
  matchResult,  \* _match_result: the terminal ending and what it reports
  ledger,       \* _ledger
  record,       \* _recorder.record
  answers       \* the castOutcome messages sent to the seats so far

planVars == <<plans, locked>>
matchVars == <<roundNumber, roundsWon, baseHp, matchResult>>
commandVars == <<ledger, answers>>
vars == <<roundVars, phase, matchVars, phaseTicks, claimed, planVars,
          hasRound, commandVars, record>>

-----------------------------------------------------------------------------

Phase == {"planning", "battle", "roundOver", "matchOver"}

(* The match's terminal endings (wire.py, match_ending).                      *)
Terminal == [kind : {"baseDestroyed", "testComplete", "roundsWon", "abandoned"},
             winner : Side \cup {NoSide}]
Unfinished == [kind |-> "none", winner |-> NoSide]

NoLoadout == [s \in Side |-> {}]
LoadoutsOf(ps) == [s \in Side |-> LoadoutOf[ps[s]]]

(* plan_for: a seat that never locked in fields the default.                *)
Fielded(ps) == [s \in Side |-> IF ps[s] = NoPlan THEN DefaultPlan ELSE ps[s]]

FullySeated == claimed = Side

Over == phase = "matchOver"

(* What every snapshot shows as the bases: the live round's, else what the  *)
(* last one left.                                                           *)
ShownBases == IF hasRound THEN hp ELSE baseHp

(* _phase_ticks is compared with two thresholds and nothing else.           *)
Counted == Least(phaseTicks + 1, Greatest(Backstop, RoundOverTicks))

LastRound == Len(record.rounds)

-----------------------------------------------------------------------------
(* A claim puts a player on the seat (service.py, claim_with_lobby_token).  *)
Claim(s) ==
  /\ s \notin claimed
  /\ claimed' = claimed \cup {s}
  /\ UNCHANGED <<roundVars, phase, matchVars, phaseTicks, planVars, hasRound,
                 commandVars, record>>

(* Nothing refills a base: a round opens on what the last one left.         *)
OpeningOnFullBases == [s \in Side |-> MaxHp]  \* slip: every round a fresh base
OpeningBases == baseHp

(* _start_battle on the plans ps, the missing sides filled in.              *)
StartBattle(ps) ==
  /\ plans' = Fielded(ps)
  /\ OpenRound(OpeningBases, LoadoutsOf(Fielded(ps)))
  /\ hasRound' = TRUE
  /\ record' = [record EXCEPT !.rounds = Append(@,
                  [number |-> roundNumber, opened |-> OpeningBases,
                   plans |-> Fielded(ps), casts |-> << >>,
                   ending |-> NoEnding, left |-> OpeningBases])]
  /\ phase' = "battle"
  /\ phaseTicks' = 0

(* Locking is final for the round.                                          *)
MayLockAgain(s) == phase = "planning"  \* slip: a second lock replaces the first
MayLock(s) == phase = "planning" /\ ~locked[s]

(* lock_in with a plan it accepts; any refusal raises before it assigns.    *)
(* The second lock starts the battle in the same call.                      *)
LockIn(s, p) ==
  /\ s \in claimed
  /\ MayLock(s)
  /\ locked' = [locked EXCEPT ![s] = TRUE]
  /\ IF \A side \in Side : locked'[side]
     THEN StartBattle([plans EXCEPT ![s] = p])
     ELSE /\ plans' = [plans EXCEPT ![s] = p]
          /\ UNCHANGED <<roundVars, hasRound, record, phase, phaseTicks>>
  /\ UNCHANGED <<matchVars, claimed, commandVars>>

-----------------------------------------------------------------------------
(* Casts.                                                                   *)

Rejected(c, why, n) == [id |-> c.id, accepted |-> FALSE, reason |-> why,
                        round |-> n, tick |-> 0, order |-> 0]
Accepted(c) == [id |-> c.id, accepted |-> TRUE, reason |-> "none",
                round |-> roundNumber, tick |-> TargetTick, order |-> nextOrder]

(* to_message *)
Message(s, entry) == [to |-> s, id |-> entry.id, accepted |-> entry.accepted,
                      reason |-> entry.reason]

(* _answer: the ledger keeps the entry and the seat is sent it.             *)
Answer(s, entry) ==
  /\ ledger' = [ledger EXCEPT ![s] = Recorded(@, entry)]
  /\ answers' = answers \cup {Message(s, entry)}

(* An id already answered is answered again, and the round is not touched.  *)
Retry(s, c) ==
  /\ Answered(ledger[s], c.id)
  /\ answers' = answers \cup {Message(s, AnswerOf(ledger[s], c.id))}
  /\ UNCHANGED <<roundVars, ledger, record>>

(* Outside a battle nothing can be cast.                                    *)
CastOutsideBattle(s, c) ==
  /\ ~Answered(ledger[s], c.id)
  /\ phase # "battle"
  /\ Answer(s, Rejected(c, IF phase = "planning" THEN "wrongPhase"
                                                 ELSE "roundOver", 0))
  /\ UNCHANGED <<roundVars, record>>

CastRefused(s, c) ==
  /\ ~Answered(ledger[s], c.id)
  /\ phase = "battle"
  /\ Refusal(s, c) # "none"
  /\ Answer(s, Rejected(c, Refusal(s, c), roundNumber))
  /\ UNCHANGED <<roundVars, record>>

CastRecordedFirst(cast) ==  \* slip: the recorder stays on its first round
  [record EXCEPT !.rounds[1].casts = Append(@, cast)]
CastRecorded(cast) == [record EXCEPT !.rounds[LastRound].casts = Append(@, cast)]

(* The round takes the cast, the recorder writes it down, the seat hears.   *)
CastAccepted(s, c) ==
  /\ ~Answered(ledger[s], c.id)
  /\ phase = "battle"
  /\ AcceptCast(s, c)
  /\ record' = CastRecorded(casts'[Len(casts')])
  /\ Answer(s, Accepted(c))

(* cast *)
Cast(s, c) ==
  /\ s \in claimed
  /\ \/ Retry(s, c)
     \/ CastOutsideBattle(s, c)
     \/ CastRefused(s, c)
     \/ CastAccepted(s, c)
  /\ UNCHANGED <<phase, matchVars, phaseTicks, claimed, planVars, hasRound>>

-----------------------------------------------------------------------------
(* The clock.                                                               *)

BackstopDue == FullySeated /\ phaseTicks + 1 >= Backstop

(* tick, planning: the backstop starts a battle both seats are there for.   *)
PlanningTick ==
  /\ phase = "planning"
  /\ IF BackstopDue THEN StartBattle(plans)
     ELSE /\ phaseTicks' = Counted
          /\ UNCHANGED <<roundVars, plans, hasRound, record, phase>>
  /\ UNCHANGED <<matchVars, claimed, locked, commandVars>>

(* A drawn round is nobody's.                                               *)
Tally(e) ==
  IF e.winner = NoSide THEN roundsWon ELSE [roundsWon EXCEPT ![e.winner] = @ + 1]

(* A test profile ends on rounds played, a series on rounds won.            *)
PlayedOut == roundNumber >= RoundsToWin
HasWonLate(won, s) == won[s] > RoundsToWin  \* slip: off by one
HasWon(won, s) == won[s] >= RoundsToWin

CountEndingPlayed(e, won) ==  \* slip: a series, too, stops on rounds played
  IF PlayedOut
  THEN [kind |-> IF TestProfile THEN "testComplete" ELSE "roundsWon", winner |-> e.winner]
  ELSE Unfinished
CountEnding(e, won) ==
  IF TestProfile
  THEN IF PlayedOut THEN [kind |-> "testComplete", winner |-> e.winner]
                    ELSE Unfinished
  ELSE IF \E s \in Side : HasWon(won, s)
  THEN [kind |-> "roundsWon",
        winner |-> IF HasWon(won, "north") THEN "north" ELSE "south"]
  ELSE Unfinished

MatchEndingByCount(e, won) == CountEnding(e, won)  \* slip: a fallen base is one more round
(* _match_ending: a fallen base first, then the profile's own count.        *)
MatchEnding(e, won) ==
  IF e.kind = "baseDestroyed"
  THEN [kind |-> "baseDestroyed", winner |-> e.winner]
  ELSE CountEnding(e, won)

(* _terminal_reason: the match's own kind when it says why, else the round's.*)
TerminalReason(terminal, e) ==
  IF terminal.kind \in {"baseDestroyed", "abandoned"} THEN terminal.kind
  ELSE e.reason

(* What the round left, carried as it is.                                   *)
CarriedOpening == baseHp  \* slip: the finished round is not read
CarriedBases == hp'

(* _finish_round, on the ending this tick decided.                          *)
FinishRound ==
  LET won == Tally(ending')
      terminal == MatchEnding(ending', won)
      rounds == [record.rounds EXCEPT ![LastRound].ending = ending',
                                      ![LastRound].left = hp']
  IN  /\ baseHp' = CarriedBases
      /\ roundsWon' = won
      /\ IF terminal # Unfinished
         THEN /\ phase' = "matchOver"
              /\ matchResult' = [ending |-> terminal, won |-> won, bases |-> hp']
              /\ record' = [rounds |-> rounds, ending |-> terminal,
                            reason |-> TerminalReason(terminal, ending'),
                            won |-> won, bases |-> hp']
         ELSE /\ phase' = "roundOver"
              /\ record' = [record EXCEPT !.rounds = rounds]
              /\ UNCHANGED matchResult
      /\ phaseTicks' = 0

(* tick, battle: step the round, and finish it once it is over.             *)
BattlePhaseTick ==
  /\ phase = "battle"
  /\ SomeStep
  /\ IF ending' # NoEnding THEN FinishRound
     ELSE /\ phaseTicks' = Counted
          /\ UNCHANGED <<phase, roundsWon, baseHp, matchResult, record>>
  /\ UNCHANGED <<roundNumber, claimed, planVars, hasRound, commandVars>>

(* _next_round: a fresh plan phase.  With no round standing, the round's    *)
(* variables hold an unopened one's values.                                 *)
NextRound ==
  /\ roundNumber < MaxRounds
  /\ roundNumber' = roundNumber + 1
  /\ plans' = [s \in Side |-> NoPlan]
  /\ locked' = [s \in Side |-> FALSE]
  /\ hasRound' = FALSE
  /\ OpenRound(baseHp, NoLoadout)
  /\ phase' = "planning"
  /\ phaseTicks' = 0

(* tick, roundOver: count the result screen down.                           *)
RoundOverTick ==
  /\ phase = "roundOver"
  /\ IF phaseTicks + 1 >= RoundOverTicks THEN NextRound
     ELSE /\ phaseTicks' = Counted
          /\ UNCHANGED <<roundVars, phase, roundNumber, planVars, hasRound>>
  /\ UNCHANGED <<roundsWon, baseHp, matchResult, claimed, commandVars, record>>

(* tick.  On a finished match it changes nothing, and no clock calls it.    *)
Tick == PlanningTick \/ BattlePhaseTick \/ RoundOverTick

(* A second ending never replaces the first.                                *)
MayAbandonAgain == TRUE  \* slip: no return early
MayAbandon == ~Over

(* Where the battle had got to, not where the last round left the bases.    *)
ClosingBases == ShownBases

(* abandon, which the clock calls when its tick loop fails.                 *)
Abandon ==
  /\ MayAbandon
  /\ LET terminal == [kind |-> "abandoned", winner |-> NoSide]
     IN  /\ matchResult' = [ending |-> terminal, won |-> roundsWon,
                            bases |-> ClosingBases]
         /\ record' = [record EXCEPT !.ending = terminal,
                                     !.reason = "abandoned",
                                     !.won = roundsWon,
                                     !.bases = ClosingBases]
  /\ phase' = "matchOver"
  /\ phaseTicks' = 0
  /\ UNCHANGED <<roundVars, roundNumber, roundsWon, baseHp, claimed, planVars,
                 hasRound, commandVars>>

-----------------------------------------------------------------------------

FullBases == [s \in Side |-> MaxHp]
NoWins == [s \in Side |-> 0]

SessionInit ==
  /\ RoundInit(FullBases, NoLoadout)
  /\ phase = "planning"
  /\ roundNumber = 1
  /\ roundsWon = NoWins
  /\ baseHp = FullBases
  /\ phaseTicks = 0
  /\ claimed = {}
  /\ plans = [s \in Side |-> NoPlan]
  /\ locked = [s \in Side |-> FALSE]
  /\ hasRound = FALSE
  /\ matchResult = [ending |-> Unfinished, won |-> NoWins, bases |-> FullBases]
  /\ ledger = [s \in Side |-> << >>]
  /\ record = [rounds |-> << >>, ending |-> Unfinished, reason |-> "none",
               won |-> NoWins, bases |-> FullBases]
  /\ answers = {}

SeatAction(s) ==
  \/ Claim(s)
  \/ \E p \in Plan : LockIn(s, p)
  \/ \E c \in Command : Cast(s, c)

SessionNext == (\E s \in Side : SeatAction(s)) \/ Tick \/ Abandon

SessionSpec == SessionInit /\ [][SessionNext]_vars

-----------------------------------------------------------------------------
(* What leaves the session when it is over (result_report): the status the  *)
(* Lobby is told, the sides named as winners, and the kind of the ending.   *)
(* A test profile is CANCELLED, with nobody named, unless it was abandoned. *)
ResultReport ==
  LET ended   == matchResult.ending
      winners == {ended.winner} \cap Side
  IN  IF ended.kind = "abandoned" THEN [status |-> "ABANDONED", winners |-> winners]
      ELSE IF TestProfile THEN [status |-> "CANCELLED", winners |-> {}]
      ELSE [status |-> "COMPLETED", winners |-> winners]

-----------------------------------------------------------------------------
(* The type of every variable of a match, its round's included.             *)
RoundRecord == [number : Nat, opened : [Side -> 0..MaxHp], plans : [Side -> Plan],
                casts : Seq(Resolved), ending : Ending \cup {NoEnding},
                left : [Side -> 0..MaxHp]]
Reason == {"wrongPhase", "roundOver", "stale", "notEquipped", "outOfBounds",
           "notEnoughEnergy", "none"}
LedgerEntry == [id : CommandId, accepted : BOOLEAN, reason : Reason,
                round : Nat, tick : Nat, order : Nat]
MessageType == [to : Side, id : CommandId, accepted : BOOLEAN, reason : Reason]
Result == [ending : Terminal \cup {Unfinished}, won : [Side -> Nat],
           bases : [Side -> 0..MaxHp]]
ClosingReason == {"baseDestroyed", "abandoned", "zoneControl", "annihilation",
                  "timeUp", "none"}
Record == [rounds : Seq(RoundRecord), ending : Terminal \cup {Unfinished},
           reason : ClosingReason, won : [Side -> Nat], bases : [Side -> 0..MaxHp]]

SessionTypeOK ==
  /\ RoundTypeOK
  /\ phase \in Phase
  /\ roundNumber \in Nat \ {0}
  /\ roundsWon \in [Side -> Nat]
  /\ baseHp \in [Side -> 0..MaxHp]
  /\ phaseTicks \in Nat
  /\ claimed \subseteq Side
  /\ plans \in [Side -> Plan \cup {NoPlan}]
  /\ locked \in [Side -> BOOLEAN]
  /\ hasRound \in BOOLEAN
  /\ matchResult \in Result
  /\ ledger \in [Side -> Seq(LedgerEntry)]
  /\ record \in Record
  /\ answers \subseteq MessageType

(* A base's hit points only ever go down, from the first plan phase to the  *)
(* result screen, across ticks, rounds and an abandoned battle: nothing     *)
(* between two rounds refills them.                                         *)
BasesNeverRecover == [][\A s \in Side : ShownBases'[s] <= ShownBases[s]]_vars

(* The run record is a chain a replay can follow: rounds numbered from one, *)
(* each opened on the bases the one before it left, all but the last ended, *)
(* and nothing after the fact: it closes with the match, on the bases the   *)
(* players were last shown.  The wins counted are those of its endings: a   *)
(* drawn round or an abandoned one adds to nobody.                          *)
RecordIsAChain ==
  LET rounds == record.rounds
  IN  /\ \A i \in DOMAIN rounds :
           /\ rounds[i].number = i
           /\ rounds[i].opened = IF i = 1 THEN FullBases ELSE rounds[i - 1].left
           /\ i < Len(rounds) => rounds[i].ending # NoEnding
      /\ \A s \in Side :
           roundsWon[s] = Cardinality({i \in DOMAIN rounds : rounds[i].ending.winner = s})
      /\ Over <=> record.ending # Unfinished
      /\ Over => /\ record.ending = matchResult.ending
                 /\ record.bases = ShownBases
                 /\ record.won = roundsWon

(* The record of the round in progress is that round: the plans it fields,  *)
(* the loadouts they give, and every cast taken, in the order given out.    *)
RecordFollowsRound ==
  hasRound =>
    LET entry == record.rounds[LastRound]
    IN  /\ entry.number = roundNumber
        /\ entry.plans = plans
        /\ equipped = LoadoutsOf(entry.plans)
        /\ entry.casts = casts
        /\ \A i \in DOMAIN casts : casts[i].order = i
        /\ entry.ending = ending

(* Locking in is final: a locked plan is the one its round is fought on.    *)
LockedPlansStand ==
  [][\A s \in Side : locked[s] /\ plans'[s] # plans[s]
                       => roundNumber' = roundNumber + 1]_vars

(* A result the Lobby will rate names who earned it and nobody else: the    *)
(* side left standing when a base fell, none when both did, and otherwise   *)
(* the one side that won the rounds it takes.                               *)
RatedResultsAreEarned ==
  Over /\ ResultReport.status = "COMPLETED" =>
    LET fallen == {s \in Side : ShownBases[s] = 0}
        ahead  == {s \in Side : roundsWon[s] >= RoundsToWin}
    IN  /\ ResultReport.winners = IF fallen # {} THEN Side \ fallen ELSE ahead
        /\ fallen = {} => Cardinality(ahead) = 1

(* The casts of a command that were charged, over all rounds of the record. *)
Charged(s, id) ==
  UNION {{<<r, k>> : k \in {k \in DOMAIN record.rounds[r].casts :
                              /\ record.rounds[r].casts[k].side = s
                              /\ record.rounds[r].casts[k].id = id}}
           : r \in DOMAIN record.rounds}
(* The session implements the life of a match: it ends when, and only when, *)
(* a base fell or the profile's own count is reached or it is given up, and *)
(* that ending stands.                                                      *)
Played == IF ending = NoEnding THEN roundNumber - 1 ELSE roundNumber
Life == INSTANCE MatchLifecycle WITH
          Players <- Side, Nobody <- NoSide, Demo <- TestProfile,
          Target <- RoundsToWin, FullHp <- MaxHp, Unended <- Unfinished,
          stage <- phase, played <- Played, wins <- roundsWon,
          bases <- ShownBases, ended <- matchResult.ending
FollowsLifecycle == Life!Spec

(* The session keeps the promise about casts, as long as the ledger still   *)
(* remembers every command.                                                 *)
VerdictOf(s, id) ==
  IF ~Answered(ledger[s], id) THEN "undecided"
  ELSE IF AnswerOf(ledger[s], id).accepted THEN "accepted" ELSE "refused"
Contract == INSTANCE CastContract WITH
  Commands <- Side \X CommandId,
  decided <- [c \in Side \X CommandId |-> VerdictOf(c[1], c[2])],
  heard <- {<< <<m.to, m.id>>, IF m.accepted THEN "accepted" ELSE "refused">> :
              m \in answers},
  charges <- [c \in Side \X CommandId |-> Cardinality(Charged(c[1], c[2]))]
KeepsContract == Contract!Spec
=============================================================================
