---------------------------- MODULE SessionClock ----------------------------
(***************************************************************************)
(* What moves a session in real time: api/app/match/clock.py.  The loop    *)
(* paces itself against a deadline, runs late ticks back to back, and      *)
(* drops the missed time after a long stall.  A tick that fails ends the   *)
(* match; either way the finished callback runs.                           *)
(*                                                                         *)
(* Time is counted in parts of a tick's interval and moves when the        *)
(* process sleeps, works or stalls.                                        *)
(***************************************************************************)
EXTENDS Integers, FiniteSets, FiniteSetsExt

CONSTANTS
  Interval,     \* seconds_per_tick, in units of time
  MaxCatchUp,   \* MAX_CATCH_UP_TICKS
  TickCosts,    \* how long a tick may take, less than an interval
  Stalls,       \* how long the process may be held up outside a tick
  Horizon       \* bound: no clock is followed past this time

ASSUME ClockAssumption ==
  /\ Interval \in Nat \ {0} /\ MaxCatchUp \in Nat \ {0}
  /\ TickCosts \subseteq 0..(Interval - 1)
  /\ \E most \in TickCosts : \A cost \in TickCosts : most >= cost
  /\ Stalls \subseteq Nat /\ Horizon \in Nat

VARIABLES
  now,       \* time.monotonic()
  deadline,  \* deadline
  at,        \* where the loop is: top, asleep, tick, finish, done
  over,      \* session.over
  abandoned, \* did a failing tick end the match
  ticks,     \* ticks begun since the start
  madeUp,    \* late ticks run back to back since the loop last slept
  finished   \* times the finished callback ran

clockVars == <<now, deadline, at, over, abandoned, ticks, madeUp, finished>>

-----------------------------------------------------------------------------

(* One turn of the loop up to the tick, its deadline moved on by one.       *)
NextDeadline == deadline + Interval
NeverTooLate(late) == FALSE  \* slip: missed time is never dropped
TooLate(late) == late > Interval * MaxCatchUp

Turn ==
  /\ at = "top" /\ ~over
  /\ now <= Horizon
  /\ IF NextDeadline > now
     THEN deadline' = NextDeadline /\ at' = "asleep" /\ madeUp' = 0
     ELSE /\ deadline' = IF TooLate(now - NextDeadline) THEN now ELSE NextDeadline
          /\ at' = "tick"
          /\ madeUp' = IF NextDeadline < now THEN madeUp + 1 ELSE madeUp
  /\ UNCHANGED <<now, over, abandoned, ticks, finished>>

(* The sleep lasts to the deadline, and longer if the process is held up.   *)
WokenAtOnce == now  \* slip: the sleep is not slept
Woken == deadline

Wake ==
  /\ at = "asleep"
  /\ \E stall \in Stalls : now' = Woken + stall
  /\ at' = "tick"
  /\ UNCHANGED <<deadline, over, abandoned, ticks, madeUp, finished>>

DiesWith(fails) == IF fails THEN "done" ELSE "top"  \* slip: the loop dies with its tick
AfterTick(fails) == IF fails THEN "finish" ELSE "top"

(* A tick runs and takes its time.  It may end the match, and it may fail,  *)
(* having ended it or not: a failure abandons the match, which leaves an    *)
(* ending that is already there alone.                                      *)
Tick ==
  /\ at = "tick"
  /\ \E cost \in TickCosts : now' = now + cost
  /\ ticks' = ticks + 1
  /\ \E ends, fails \in BOOLEAN :
       /\ over' = (ends \/ fails)
       /\ abandoned' = (fails /\ ~ends)
       /\ at' = AfterTick(fails)
  /\ UNCHANGED <<deadline, madeUp, finished>>

(* The loop's condition, once the match is over.                            *)
Leave ==
  /\ at = "top" /\ over
  /\ at' = "finish"
  /\ UNCHANGED <<now, deadline, over, abandoned, ticks, madeUp, finished>>


(* The finished callback, however the loop ended.                           *)
Finish ==
  /\ at = "finish"
  /\ finished' = finished + 1
  /\ at' = "done"
  /\ UNCHANGED <<now, deadline, over, abandoned, ticks, madeUp>>

(* stop: the task is cancelled where it waits, and nothing else runs.       *)
Stop ==
  /\ at = "asleep"
  /\ at' = "done"
  /\ UNCHANGED <<now, deadline, over, abandoned, ticks, madeUp, finished>>

-----------------------------------------------------------------------------

ClockInit ==
  /\ now = 0 /\ deadline = 0
  /\ at = "top"
  /\ over = FALSE /\ abandoned = FALSE
  /\ ticks = 0 /\ madeUp = 0 /\ finished = 0

ClockNext == Turn \/ Wake \/ Tick \/ Leave \/ Finish \/ Stop

ClockSpec == ClockInit /\ [][ClockNext]_clockVars
(* The event loop resumes the task.                                         *)
FairClock == ClockSpec /\ WF_clockVars(Turn \/ Wake \/ Tick \/ Leave \/ Finish)

-----------------------------------------------------------------------------
(* The type of every variable.                                              *)
ClockTypeOK ==
  /\ now \in Nat /\ deadline \in Nat
  /\ at \in {"top", "asleep", "tick", "finish", "done"}
  /\ over \in BOOLEAN /\ abandoned \in BOOLEAN
  /\ ticks \in Nat /\ madeUp \in Nat /\ finished \in 0..1

(* The match never runs ahead of the wall clock, and catching up with it    *)
(* ends.  However long a stall was and however long the ticks take, the     *)
(* late ticks run back to back are no more than the time that may be made   *)
(* up leaves work for: each but the first makes up what it takes less than  *)
(* an interval.  Instant ticks are MAX_CATCH_UP_TICKS at most.              *)
KeepsTime ==
  /\ ticks * Interval <= now
  /\ madeUp > 0 => (madeUp - 1) * (Interval - Max(TickCosts)) < Interval * MaxCatchUp

(* A match that is over comes to be finished.                               *)
OverIsFinished == over ~> (finished = 1)
=============================================================================
