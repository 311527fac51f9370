---------------------------- MODULE MatchScreen ----------------------------
(***************************************************************************)
(* The client from end to end: client/src/match/MatchScreen.tsx shows the  *)
(* plan screen while the session is planning and the session's views       *)
(* after, and hands the plan over at lock-in.                              *)
(*                                                                         *)
(* The plan screen lives as long as an unlocked planning phase is shown;   *)
(* of its plan the session keeps the spells the round is fought with.      *)
(***************************************************************************)
EXTENDS PlanScreen, FixtureSession

\* The spells of the session are the roster's.
ASSUME SpellAssumption == Spell = Content.spells

vars == <<plan, sessionVars>>

Init == SessionInit /\ plan = NoPlan

EditPlan == Edit /\ UNCHANGED sessionVars

ClaimAnswered ==
  \E i \in DOMAIN timers :
    /\ IsDue(i) /\ SeatClaimed(i)
    /\ IF shown'.phase = "planning" THEN plan' \in OpeningPlans ELSE plan' = plan

SubmitPlan ==
  /\ plan # NoPlan /\ CanLockIn(Content, plan)
  /\ LockIn(Loadout(Content, plan)) /\ plan' = NoPlan

Timers == ClaimAnswered \/ (\E i \in DOMAIN timers : IsDue(i) /\ BattleTimer(i) /\ plan' = plan)

Taps == (Arm \/ CancelTarget \/ Cast \/ RetryClaim \/ Leave \/ NewTest) /\ plan' = plan

Next == EditPlan \/ SubmitPlan \/ (Elapse /\ plan' = plan) \/ Timers \/ Taps

\* Timers are the browser's and always come; a player need not do anything.
Spec == Init /\ [][Next]_vars /\ WF_vars(Elapse /\ plan' = plan) /\ WF_vars(Timers)
=============================================================================
