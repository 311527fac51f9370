-------------------------- MODULE SessionClockProofs --------------------------
(***************************************************************************)
(* The match keeps time, for every length of a tick's interval, of a stall *)
(* and of the work of a tick, and every limit on what is made up.          *)
(***************************************************************************)
EXTENDS SessionClock, TLAPS

C == Max(TickCosts)
Gain == Interval - C
Allowed == Interval * MaxCatchUp

(* Where the loop stands with its deadline: asleep it is ahead of it, awake  *)
(* it is behind, and a deadline pays for every tick begun.                   *)
OnTime ==
  /\ at \in {"top", "asleep", "tick", "finish", "done"}
  /\ now \in Nat /\ deadline \in Nat /\ ticks \in Nat /\ madeUp \in Nat
  /\ at = "asleep" => now < deadline /\ madeUp = 0
  /\ at \in {"top", "tick", "finish"} => deadline <= now
  /\ at \in {"asleep", "tick"} => ticks * Interval + Interval <= deadline
  /\ at = "top" => ticks * Interval <= deadline
  /\ ticks * Interval <= now

(* What is left of the time that may be made up pays for the late ticks run  *)
(* so far, by how far behind the loop is: less after a tick, by the time the *)
(* tick took, and paid back when the deadline moves on.                      *)
Pays(made, step, lag) ==
  made > 0 => /\ (made - 1) * Gain < Allowed
              /\ step = "tick" => (made - 1) * Gain + lag <= Allowed
              /\ step = "top" => (made - 1) * Gain + lag <= Allowed + C
ClockInv == OnTime /\ Pays(madeUp, at, now - deadline)

LEMMA Costs == /\ C \in 0..(Interval - 1) /\ \A cost \in TickCosts : cost \in Nat /\ cost <= C
               /\ Gain \in Nat \ {0} /\ Gain = Interval - C
               /\ Interval \in Nat \ {0} /\ Allowed \in Nat \ {0}
<1>1. C \in TickCosts /\ \A cost \in TickCosts : C >= cost
  BY ClockAssumption DEF C, Max
<1>2. Interval \in Nat /\ MaxCatchUp \in Nat /\ Interval > 0 /\ MaxCatchUp > 0
  BY ClockAssumption
<1>3. Allowed \in Nat /\ Allowed > 0
  BY <1>2 DEF Allowed
<1>4. C \in Int /\ 0 <= C /\ C <= Interval - 1
  BY <1>1, <1>2, ClockAssumption
<1>5. \A cost \in TickCosts : cost \in Nat /\ cost <= C
  BY <1>1, <1>2, <1>4, ClockAssumption
<1> QED
  BY <1>2, <1>3, <1>4, <1>5 DEF Gain

LEMMA OneMore ==
  ASSUME NEW n \in Nat, NEW k \in Nat
  PROVE  /\ n * k \in Nat /\ (n + 1) * k = n * k + k
         /\ (n - 1) * k = n * k - k
  OBVIOUS

(* A tick takes no more than its cost out of what is left.                   *)
LEMMA TickIsPaid ==
  ASSUME NEW made \in Nat, NEW lag \in Nat, NEW cost \in TickCosts,
         NEW next \in {"top", "finish"}, Pays(made, "tick", lag)
  PROVE  Pays(made, next, lag + cost)
<1>1. cost \in Nat /\ cost <= C /\ C \in Nat /\ Gain \in Nat /\ Allowed \in Nat
  BY Costs
<1>2. (made - 1) * Gain \in Int
  BY <1>1
<1> QED
  BY <1>1, <1>2 DEF Pays

(* A late turn moves the deadline on by an interval, or forgets the rest.    *)
LEMMA LateIsPaid ==
  ASSUME NEW made \in Nat, NEW late \in Nat, late > 0, NEW lag \in Nat,
         lag <= late, lag <= Allowed, Pays(made, "top", late + Interval)
  PROVE  Pays(made + 1, "tick", lag)
<1> USE Costs
<1>1. (made + 1 - 1) * Gain = (made - 1) * Gain + Gain /\ (made - 1) * Gain \in Int
  BY OneMore
<1>2. CASE made = 0
  <2>1. (made + 1 - 1) * Gain = 0
    BY <1>2
  <2> QED
    BY <2>1 DEF Pays
<1>3. CASE made > 0
  <2>1. (made - 1) * Gain + late + Interval <= Allowed + C
    BY <1>1, <1>3 DEF Pays
  <2>2. (made - 1) * Gain + Gain + late <= Allowed
    BY <1>1, <2>1
  <2> QED
    BY <1>1, <2>2 DEF Pays
<1> QED
  BY <1>2, <1>3

LEMMA ClockInvInit == ClockInit => ClockInv
  BY Costs DEF ClockInit, ClockInv, OnTime, Pays

LEMMA TurnKeepsInv == ClockInv /\ Turn => ClockInv'
<1> SUFFICES ASSUME ClockInv, Turn PROVE ClockInv'
  OBVIOUS
<1> USE Costs
<1>1. /\ now \in Nat /\ deadline \in Nat /\ ticks \in Nat /\ madeUp \in Nat
      /\ at = "top" /\ deadline <= now /\ ticks * Interval <= deadline
      /\ now' = now /\ ticks' = ticks
  BY DEF ClockInv, OnTime, Turn
<1>2. ticks * Interval \in Nat
  BY <1>1, OneMore
<1>3. CASE NextDeadline > now
  <2>1. deadline' = deadline + Interval /\ at' = "asleep" /\ madeUp' = 0 /\ deadline' > now
    BY <1>3 DEF Turn, NextDeadline
  <2> QED
    BY <1>1, <1>2, <2>1 DEF ClockInv, OnTime, Pays
<1>4. CASE ~(NextDeadline > now)
  <2> DEFINE late == now - (deadline + Interval)
  <2>1. /\ late \in Nat /\ at' = "tick"
        /\ deadline' = IF TooLate(late) THEN now ELSE deadline + Interval
        /\ madeUp' = IF late > 0 THEN madeUp + 1 ELSE madeUp
    BY <1>1, <1>4 DEF Turn, NextDeadline
  <2>2. OnTime'
    BY <1>1, <1>2, <2>1 DEF OnTime
  <2>3. /\ now' - deadline' \in Nat
        /\ now' - deadline' <= late /\ now' - deadline' <= Allowed
    BY <1>1, <2>1 DEF TooLate, Allowed
  <2>4. Pays(madeUp, "top", late + Interval)
    <3>1. Pays(madeUp, "top", now - deadline) /\ now - deadline = late + Interval
      BY <1>1 DEF ClockInv
    <3> QED
      BY <3>1
  <2>5. CASE late > 0
    <3>1. Pays(madeUp + 1, "tick", now' - deadline')
      BY <1>1, <2>1, <2>3, <2>4, <2>5, LateIsPaid
    <3> QED
      BY <2>1, <2>2, <2>5, <3>1 DEF ClockInv
  <2>6. CASE late = 0
    <3>1. now' - deadline' = 0 /\ madeUp' = madeUp
      BY <2>1, <2>3, <2>6
    <3>2. (madeUp - 1) * Gain \in Int
      BY <1>1
    <3>3. Pays(madeUp, "tick", 0)
      BY <1>1, <2>4, <3>2 DEF Pays
    <3> QED
      BY <2>1, <2>2, <3>1, <3>3 DEF ClockInv
  <2> QED
    BY <2>1, <2>5, <2>6
<1> QED
  BY <1>3, <1>4

LEMMA WakeKeepsInv == ClockInv /\ Wake => ClockInv'
<1> SUFFICES ASSUME ClockInv, Wake PROVE ClockInv'
  OBVIOUS
<1>1. PICK stall \in Stalls : now' = deadline + stall
  BY DEF Wake, Woken
<1>2. stall \in Nat
  BY ClockAssumption
<1>3. /\ at' = "tick" /\ deadline' = deadline /\ ticks' = ticks /\ madeUp' = 0
      /\ deadline \in Nat /\ ticks \in Nat /\ ticks * Interval + Interval <= deadline
  BY DEF Wake, ClockInv, OnTime
<1>4. ticks * Interval \in Nat /\ Interval \in Nat
  BY <1>3, Costs, OneMore
<1>5. OnTime'
  BY <1>1, <1>2, <1>3, <1>4 DEF OnTime
<1> QED
  BY <1>3, <1>5 DEF ClockInv, Pays

LEMMA TickKeepsInv == ClockInv /\ Tick => ClockInv'
<1> SUFFICES ASSUME ClockInv, Tick PROVE ClockInv'
  OBVIOUS
<1> USE Costs
<1>1. PICK cost \in TickCosts : now' = now + cost
  BY DEF Tick
<1>2. cost \in Nat /\ cost <= C
  BY Costs
<1>3. /\ now \in Nat /\ deadline \in Nat /\ ticks \in Nat /\ madeUp \in Nat
      /\ at = "tick" /\ deadline <= now /\ ticks * Interval + Interval <= deadline
      /\ ticks' = ticks + 1 /\ deadline' = deadline /\ madeUp' = madeUp
      /\ at' \in {"finish", "top"}
  BY DEF ClockInv, OnTime, Tick, AfterTick
<1>4. (ticks + 1) * Interval = ticks * Interval + Interval
  BY <1>3, OneMore
<1>5. OnTime'
  BY <1>1, <1>2, <1>3, <1>4 DEF OnTime
<1>6. Pays(madeUp, at', (now - deadline) + cost)
  BY <1>3, TickIsPaid DEF ClockInv
<1>7. now' - deadline' = (now - deadline) + cost
  BY <1>1, <1>2, <1>3
<1> QED
  BY <1>3, <1>5, <1>6, <1>7 DEF ClockInv

LEMMA ClockInvStep == ClockInv /\ [ClockNext]_clockVars => ClockInv'
<1> SUFFICES ASSUME ClockInv, [ClockNext]_clockVars PROVE ClockInv'
  OBVIOUS
<1>1. CASE Leave
  BY <1>1 DEF Leave, ClockInv, OnTime, Pays
<1>2. CASE Finish
  BY <1>2 DEF Finish, ClockInv, OnTime, Pays
<1>3. CASE Stop
  BY <1>3 DEF Stop, ClockInv, OnTime, Pays
<1>4. CASE UNCHANGED clockVars
  BY <1>4 DEF clockVars, ClockInv, OnTime, Pays
<1> QED
  BY <1>1, <1>2, <1>3, <1>4, TurnKeepsInv, WakeKeepsInv, TickKeepsInv DEF ClockNext

(* clock.py, the loop: how far behind the deadline it is, and how many late  *)
(* ticks have gone towards making that up, bound each other at every turn.   *)
THEOREM LagPaysForLateTicks == ClockSpec => []ClockInv
  BY ClockInvInit, ClockInvStep, PTL DEF ClockSpec

(* clock.py, the deadline and MAX_CATCH_UP_TICKS: for every interval, limit  *)
(* and cost of a tick shorter than the interval, the match is never ahead of *)
(* the wall clock, and catching up with it ends.                             *)
THEOREM TheClockKeepsTime == ClockSpec => []KeepsTime
<1>1. ClockInv => KeepsTime
  <2> SUFFICES ASSUME ClockInv PROVE KeepsTime
    OBVIOUS
  <2>1. ticks * Interval <= now
    <3>1. ticks * Interval \in Nat /\ now \in Nat /\ deadline \in Nat
      BY Costs, OneMore DEF ClockInv, OnTime
    <3> QED
      BY <3>1 DEF ClockInv, OnTime
  <2>2. madeUp > 0 => (madeUp - 1) * (Interval - Max(TickCosts)) < Interval * MaxCatchUp
    BY DEF ClockInv, Pays, Gain, C, Allowed
  <2> QED
    BY <2>1, <2>2 DEF KeepsTime
<1> QED
  BY <1>1, LagPaysForLateTicks, PTL

(* clock.py, the finished callback: it is called when the loop is done, once, and    *)
(* only of a match that is over, by its rules or because its loop failed.            *)
ReportedOnce == /\ at = "finish" => over
                /\ finished > 0 => at = "done" /\ over

THEOREM TheEndIsReportedOnce == ClockSpec => [](ClockTypeOK /\ ReportedOnce)
<1> DEFINE Reports == /\ over \in BOOLEAN /\ abandoned \in BOOLEAN
                      /\ finished \in 0..1 /\ (finished = 1 => at = "done" /\ over)
                      /\ at = "finish" => over
<1>1. ClockInit => Reports
  <2> SUFFICES ASSUME ClockInit PROVE Reports
    OBVIOUS
  <2>1. over \in BOOLEAN /\ abandoned \in BOOLEAN
    BY Zenon DEF ClockInit
  <2>2. finished = 0 /\ at = "top"
    BY DEF ClockInit
  <2> QED
    BY <2>1, <2>2
<1>2. Reports /\ [ClockNext]_clockVars => Reports'
  <2> SUFFICES ASSUME Reports, [ClockNext]_clockVars PROVE Reports'
    OBVIOUS
  <2>1. CASE Turn
    BY <2>1 DEF Turn
  <2>2. CASE Wake
    BY <2>2 DEF Wake
  <2>3. CASE Tick
    BY <2>3 DEF Tick, AfterTick
  <2>4. CASE Leave
    BY <2>4 DEF Leave
  <2>5. CASE Finish
    BY <2>5 DEF Finish
  <2>6. CASE Stop
    BY <2>6 DEF Stop
  <2>7. CASE UNCHANGED clockVars
    BY <2>7 DEF clockVars
  <2> QED
    BY <2>1, <2>2, <2>3, <2>4, <2>5, <2>6, <2>7 DEF ClockNext
<1>3. ClockInv /\ Reports => ClockTypeOK /\ ReportedOnce
  BY DEF ClockInv, OnTime, ClockTypeOK, ReportedOnce
<1> QED
  BY <1>1, <1>2, <1>3, LagPaysForLateTicks, PTL DEF ClockSpec
===============================================================================
