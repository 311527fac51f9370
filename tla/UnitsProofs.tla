------------------------------- MODULE UnitsProofs -------------------------------
(***********************************************************************************)
(* For every roster, every library of behaviour and every rate of ticks: a chase   *)
(* that a bound ended is not begun again until the recovery is over, no chase goes *)
(* further or on for longer than the leash and the timeout allow, and what a troop *)
(* asks of its members is well spent.  What a candidate scores never matters to    *)
(* any of it, so Score is left as it is.                                           *)
(***********************************************************************************)
EXTENDS Units, FiniteSetTheorems, WellFoundedInduction, TLAPS

Minds == /\ todo \subseteq Minded
         /\ DOMAIN mind = Minded /\ DOMAIN ended = Minded
         /\ \A u \in Minded : mind[u].recovery \in Nat /\ ended[u].ticks \in Nat

(* What the recovery still has to run is what is left of RecoveryTicks since a bound *)
(* last ended a chase: neither alone is inductive, for the bar is read off the one   *)
(* and the promise is about the other.                                               *)
Owed == \A u \in Minded : ended[u].bound =>
          /\ ended[u].ticks < RecoveryTicks
          /\ ended[u].ticks + mind[u].recovery >= RecoveryTicks
UnitsInv == Minds /\ Owed

LEMMA RecoveryTicksPositive == RecoveryTicks \in Nat /\ RecoveryTicks > 0
  BY RateAssumption DEF RecoveryTicks

------------------------------------------------------------------------------------
(* The choice is one of the candidates, whatever the margins do.                    *)

LEMMA SteadyChooses ==
  ASSUME NEW cs, NEW chosen \in cs, NEW incumbents \in SUBSET cs
  PROVE  Steady(chosen, incumbents) \subseteq cs
  BY DEF Steady, First

LEMMA SomeoneHolds ==
  ASSUME NEW u
  PROVE  \E c \in Weighed(u) : c.kind = "hold"
<1>1. Hold(u) \in Candidates(u)
  BY DEF Candidates
<1> DEFINE h == [kind |-> Hold(u).kind, target |-> Hold(u).target, goal |-> Hold(u).goal, score |-> Score(u, Hold(u))]
<1>2. h \in Weighed(u)
  BY <1>1 DEF Weighed
<1>3. h.kind = "hold"
  BY DEF Hold, Action
<1> QED
  BY <1>2, <1>3

LEMMA ChosenIsWeighed ==
  ASSUME NEW u, NEW c \in Chosen(u)
  PROVE  c \in Weighed(u)
<1> DEFINE cs == Weighed(u)
           kept(w) == Steady(w, Committed(u, Released(u), cs))
           usual(w) == Steady(w, Usual(u, cs))
           held == UNION {kept(w) : w \in Winners(cs)}
           steady == UNION {usual(w) : w \in held}
<1>1. Winners(cs) \subseteq cs
  BY DEF Winners, First
<1>2. Committed(u, Released(u), cs) \subseteq cs /\ Usual(u, cs) \subseteq cs
  BY DEF Committed, Usual
<1>3. held \subseteq cs
  BY <1>1, <1>2, SteadyChooses
<1>4. steady \subseteq cs
  BY <1>2, <1>3, SteadyChooses
<1>5. PICK w \in steady : c = WorthMoving(u, cs, w)
  BY DEF Chosen
<1>6. (CHOOSE d \in cs : d.kind = "hold") \in cs
  BY SomeoneHolds
<1> QED
  BY <1>4, <1>5, <1>6 DEF WorthMoving

(* Only an approach is an advance on somebody, and a unit that recovers approaches   *)
(* nobody: those it may answer are in reach already.                                 *)
LEMMA ApproachNeedsRest ==
  ASSUME NEW u, NEW c \in Candidates(u), c.kind = "advance", Hunted(c), mind[u].recovery > 0
  PROVE  FALSE
<1>1. c \in ApproachActions(u)
  BY DEF Candidates, CastActions, StationActions, WithdrawActions, RetreatActions, GoTo, Action, Hold, Hunted
<1>2. c.target \in Answerable(u) /\ ~InReach(u, c.target)
  BY <1>1 DEF ApproachActions, GoTo, Action
<1> QED
  BY <1>2 DEF Answerable, Eligible

LEMMA ChoiceRespectsRest ==
  ASSUME NEW u, NEW c \in Chosen(u), mind[u].recovery > 0
  PROVE  ~(c.kind = "advance" /\ Hunted(c))
<1>1. c \in Weighed(u)
  BY ChosenIsWeighed
<1>2. PICK d \in Candidates(u) : c = [kind |-> d.kind, target |-> d.target, goal |-> d.goal, score |-> Score(u, d)]
  BY <1>1 DEF Weighed
<1>3. c.kind = d.kind /\ c.target = d.target
  BY <1>2
<1> QED
  BY <1>3, ApproachNeedsRest DEF Hunted

------------------------------------------------------------------------------------
LEMMA UnitsInvInit == Init => UnitsInv
  BY RecoveryTicksPositive DEF Init, UnitsInv, Minds, Owed, Blank, LongAgo

LEMMA MindAfterFields ==
  ASSUME NEW u, NEW c
  PROVE  /\ MindAfter(u, c).chase = ChaseAfter(u, c)
         /\ MindAfter(u, c).recovery = RecoveryAfter(u)
  BY DEF MindAfter

LEMMA DecideKeepsInv ==
  ASSUME UnitsInv, NEW u \in Minded, Decide(u)
  PROVE  UnitsInv'
<1> DEFINE r == mind[u].recovery
           e == ended[u]
<1>1. PICK c \in Chosen(u) : /\ mind' = [mind EXCEPT ![u] = MindAfter(u, c)]
                             /\ ended' = [ended EXCEPT ![u] = EndedAfter(u, MindAfter(u, c))]
  BY DEF Decide
<1>2. r \in Nat /\ e.ticks \in Nat
  BY DEF UnitsInv, Minds
<1>3. mind'[u].recovery = RecoveryAfter(u) /\ mind'[u].chase = ChaseAfter(u, c)
  BY <1>1, MindAfterFields DEF UnitsInv, Minds
<1>4. ended'[u] = EndedAfter(u, MindAfter(u, c))
  BY <1>1 DEF UnitsInv, Minds
<1>5. \A v \in Minded \ {u} : mind'[v] = mind[v] /\ ended'[v] = ended[v]
  BY <1>1 DEF UnitsInv, Minds
<1>6. RecoveryAfter(u) \in Nat /\ (~Released(u) => RecoveryAfter(u) >= r - 1)
  BY <1>2, RecoveryTicksPositive DEF RecoveryAfter, Greater
<1>8. ended'[u].ticks \in Nat
  BY <1>2, <1>4, RecoveryTicksPositive DEF EndedAfter, LongAgo
<1>9. Minds'
  BY <1>1, <1>3, <1>5, <1>6, <1>8 DEF UnitsInv, Minds, Decide
<1>10. Owed'
  <2>1. SUFFICES ASSUME ended'[u].bound
                 PROVE  /\ ended'[u].ticks < RecoveryTicks
                        /\ ended'[u].ticks + mind'[u].recovery >= RecoveryTicks
    BY <1>5 DEF UnitsInv, Owed, RecoveryTicks
  <2>2. CASE Released(u)
    BY <2>2, <1>3, <1>4, RecoveryTicksPositive DEF EndedAfter, RecoveryAfter
  <2>3. CASE ~Released(u)
    <3>1. ended'[u] = [ticks |-> e.ticks + 1, bound |-> e.bound] /\ e.ticks + 1 < RecoveryTicks
      BY <2>1, <2>3, <1>4 DEF EndedAfter, LongAgo
    <3>2. e.ticks + r >= RecoveryTicks
      BY <2>1, <3>1 DEF UnitsInv, Owed
    <3>3. mind'[u].recovery \in Nat /\ mind'[u].recovery >= r - 1
      BY <1>3, <1>6, <2>3
    <3> QED
      BY <1>2, <3>1, <3>2, <3>3, RecoveryTicksPositive
  <2> QED
    BY <2>2, <2>3
<1> QED
  BY <1>9, <1>10 DEF UnitsInv

LEMMA FieldKeepsInv == UnitsInv /\ Field => UnitsInv'
<1> SUFFICES ASSUME UnitsInv, Field PROVE UnitsInv'
  OBVIOUS
<1>1. PICK here : /\ mind' = [u \in Minded |-> IF u \in here THEN mind[u] ELSE Blank]
                  /\ ended' = [u \in Minded |-> IF u \in here THEN ended[u] ELSE LongAgo]
  BY DEF Field
<1>2. Blank.recovery = 0 /\ LongAgo.ticks = RecoveryTicks /\ LongAgo.bound = FALSE
  BY DEF Blank, LongAgo
<1>3. Minds'
  BY <1>1, <1>2, RecoveryTicksPositive DEF UnitsInv, Minds, Field
<1>4. Owed'
  BY <1>1, <1>2 DEF UnitsInv, Owed, RecoveryTicks
<1> QED
  BY <1>3, <1>4 DEF UnitsInv

LEMMA UnitsInvStep == UnitsInv /\ [Next]_vars => UnitsInv'
<1> SUFFICES ASSUME UnitsInv, [Next]_vars PROVE UnitsInv'
  OBVIOUS
<1>1. ASSUME mind' = mind, ended' = ended, todo' \subseteq Minded PROVE UnitsInv'
  BY <1>1 DEF UnitsInv, Minds, Owed, RecoveryTicks
<1>2. CASE Coordinate
  BY <1>1, <1>2 DEF Coordinate, history, UnitsInv, Minds
<1>3. ASSUME NEW u \in todo, Decide(u) PROVE UnitsInv'
  BY <1>3, DecideKeepsInv DEF UnitsInv, Minds
<1>4. CASE NothingDecided
  BY <1>1, <1>4 DEF NothingDecided, aiVars, history, UnitsInv, Minds
<1>5. CASE Act
  BY <1>1, <1>5 DEF Act, aiVars, history, UnitsInv, Minds
<1>6. CASE Field
  BY <1>6, FieldKeepsInv
<1>7. CASE UNCHANGED vars
  BY <1>1, <1>7 DEF vars, aiVars, history, UnitsInv, Minds
<1> QED
  BY <1>2, <1>3, <1>4, <1>5, <1>6, <1>7 DEF Next

(* phases/decision.py with pursuit.py: in every state of every run, the recovery a   *)
(* unit still owes is what is left of it since a bound last ended a chase of its.    *)
THEOREM RecoveryIsOwed == Spec => []UnitsInv
  BY UnitsInvInit, UnitsInvStep, PTL DEF Spec

------------------------------------------------------------------------------------
LEMMA NothingBegins ==
  ASSUME mind' = mind, NEW u, Begins(u)
  PROVE  FALSE
  BY DEF Begins, ChaseOf

LEMMA DecideServes ==
  ASSUME UnitsInv, NEW u \in Minded, Decide(u), NEW v \in Minded, Begins(v)
  PROVE  ~ended[v].bound
<1>1. PICK c \in Chosen(u) : mind' = [mind EXCEPT ![u] = MindAfter(u, c)]
  BY DEF Decide
<1>2. v = u
  BY <1>1 DEF Begins, ChaseOf, UnitsInv, Minds
<1>3. mind'[u].chase = ChaseAfter(u, c)
  BY <1>1, MindAfterFields DEF UnitsInv, Minds
<1>4. ~Released(u) /\ c.kind = "advance" /\ Hunted(c)
  BY <1>2, <1>3 DEF Begins, ChaseAfter
<1>5. ~(mind[u].recovery > 0)
  BY <1>4, ChoiceRespectsRest
<1> QED
  BY <1>2, <1>5, RecoveryTicksPositive DEF UnitsInv, Owed, Minds

LEMMA FieldBeginsNothing ==
  ASSUME UnitsInv, Field, NEW u \in Minded, Begins(u)
  PROVE  FALSE
<1>1. PICK here : mind' = [v \in Minded |-> IF v \in here THEN mind[v] ELSE Blank]
  BY DEF Field
<1>2. Blank.chase = None
  BY DEF Blank
<1> QED
  BY <1>1, <1>2 DEF Begins, ChaseOf

LEMMA ServedStep == UnitsInv /\ [Next]_vars => [\A u \in Minded : Begins(u) => ~ended[u].bound]_vars
<1> SUFFICES ASSUME UnitsInv, [Next]_vars, NEW u \in Minded, Begins(u) PROVE ~ended[u].bound
  OBVIOUS
<1>1. CASE mind' = mind
  BY <1>1, NothingBegins
<1>2. ASSUME NEW v \in todo, Decide(v) PROVE ~ended[u].bound
  BY <1>2, DecideServes DEF UnitsInv, Minds
<1>3. CASE Field
  BY <1>3, FieldBeginsNothing
<1> QED
  BY <1>1, <1>2, <1>3 DEF Next, Coordinate, NothingDecided, Act, vars, aiVars

(* pursuit.py, "recovery": whoever the opponents are, whatever the weights say and   *)
(* whomever its troop names, no unit begins a chase while it owes the recovery of    *)
(* one that a bound ended.                                                           *)
THEOREM NoChaseWhileRecovering == Spec => RecoveryIsServed
<1>1. UnitsInv /\ [Next]_vars => [\A u \in Minded : Begins(u) => ~ended[u].bound]_vars
  BY ServedStep
<1> QED
  BY <1>1, RecoveryIsOwed, PTL DEF Spec, RecoveryIsServed

------------------------------------------------------------------------------------
(* Sums over finite sets, as the recursion the library writes them with: there is    *)
(* one, and whole numbers add up to a whole number.                                  *)

(* A set of numbers has a smallest. *)
LEMMA SmallestOfMany ==
  ASSUME NEW S \in SUBSET Nat, S # {}
  PROVE  \E x \in S : \A y \in S : x <= y
<1> DEFINE Below == {p \in Nat \X Nat : p[1] < p[2]}
<1>1. IsWellFoundedOn(Below, Nat)
  BY NatLessThanWellFounded DEF OpToRel
<1> HIDE DEF Below
<1>2. PICK x \in S : \A y \in S : <<y, x>> \notin Below
  BY <1>1, WFMin
<1>3. ASSUME NEW y \in S PROVE x <= y
  <2>1. y < x => <<y, x>> \in Below
    BY DEF Below
  <2> QED BY <1>2, <2>1
<1> QED BY <1>3

Pick(s) == CHOOSE x \in s : TRUE
SumStep(f, g, s) == IF s = {} THEN 0 ELSE f[Pick(s)] + g[s \ {Pick(s)}]
Summed(f, S) == (CHOOSE g : g = [s \in SUBSET S |-> SumStep(f, g, s)])[S]

LEMMA SumIsRecursive ==
  ASSUME NEW f, NEW S, IsFiniteSet(S), \A x \in S : f[x] \in Int
  PROVE  \E g \in [SUBSET S -> Int] : g = [s \in SUBSET S |-> SumStep(f, g, s)]
<1> DEFINE Upto(g, n) == \A s \in SUBSET S : Cardinality(s) <= n => g[s] = SumStep(f, g, s)
           Missed == {n \in Nat : \A g \in [SUBSET S -> Int] : ~Upto(g, n)}
<1>1. \A s \in SUBSET S : /\ Cardinality(s) \in Nat /\ Cardinality(s) <= Cardinality(S)
                          /\ (s = {} <=> Cardinality(s) = 0)
                          /\ s # {} => /\ Pick(s) \in s /\ s \ {Pick(s)} \in SUBSET S
                                       /\ Cardinality(s \ {Pick(s)}) = Cardinality(s) - 1
  <2> TAKE s \in SUBSET S
  <2>1. IsFiniteSet(s) /\ Cardinality(s) <= Cardinality(S)
    BY FS_Subset
  <2>2. Cardinality(s) \in Nat /\ (s = {} <=> Cardinality(s) = 0)
    BY <2>1, FS_CardinalityType, FS_EmptySet
  <2>3. ASSUME s # {} PROVE Pick(s) \in s
    BY <2>3 DEF Pick
  <2>4. ASSUME s # {} PROVE Cardinality(s \ {Pick(s)}) = Cardinality(s) - 1
    BY <2>1, <2>3, <2>4, FS_RemoveElement
  <2> QED BY <2>1, <2>2, <2>3, <2>4
<1> HIDE DEF Upto
<1>2. Missed = {}
  <2>1. SUFFICES ASSUME Missed # {} PROVE FALSE
    OBVIOUS
  <2>2. PICK n \in Missed : \A m \in Missed : n <= m
    BY <2>1, SmallestOfMany
  <2>3. CASE n = 0
    <3> DEFINE g == [s \in SUBSET S |-> 0]
    <3>1. g \in [SUBSET S -> Int]
      OBVIOUS
    <3>2. ASSUME NEW s \in SUBSET S, Cardinality(s) <= 0 PROVE s = {}
      <4>1. Cardinality(s) \in Nat /\ (Cardinality(s) = 0 => s = {})
        BY <1>1
      <4> QED BY <3>2, <4>1
    <3>3. Upto(g, 0)
      BY <3>2 DEF Upto, SumStep
    <3> QED BY <2>2, <2>3, <3>1, <3>3
  <2>4. CASE n # 0
    <3>0. n \in Nat
      OBVIOUS
    <3>1. n - 1 \in Nat /\ n - 1 \notin Missed
      <4> HIDE DEF Missed
      <4> QED BY <2>2, <2>4, <3>0
    <3>2. PICK g \in [SUBSET S -> Int] : Upto(g, n - 1)
      BY <3>1
    <3> DEFINE h == [s \in SUBSET S |-> IF Cardinality(s) <= n - 1 THEN g[s] ELSE SumStep(f, g, s)]
    <3>3. ASSUME NEW s \in SUBSET S PROVE SumStep(f, g, s) \in Int
      <4>1. CASE s = {}
        BY <4>1 DEF SumStep
      <4>2. CASE s # {}
        <5>1. f[Pick(s)] \in Int /\ g[s \ {Pick(s)}] \in Int
          BY <1>1, <4>2
        <5> QED BY <4>2, <5>1 DEF SumStep
      <4> QED BY <4>1, <4>2
    <3>4. h \in [SUBSET S -> Int]
      BY <3>3
    <3>5. ASSUME NEW s \in SUBSET S, Cardinality(s) <= n PROVE h[s] = SumStep(f, h, s)
      <4>1. h[s] = SumStep(f, g, s)
        BY <3>2 DEF Upto
      <4>2. s # {} => h[s \ {Pick(s)}] = g[s \ {Pick(s)}]
        BY <1>1, <3>1, <3>5
      <4> QED BY <4>1, <4>2 DEF SumStep
    <3>6. Upto(h, n)
      BY <3>5 DEF Upto
    <3> QED BY <2>2, <3>4, <3>6
  <2> QED BY <2>3, <2>4
<1>3. Cardinality(S) \in Nat
  BY <1>1
<1>4. PICK g \in [SUBSET S -> Int] : Upto(g, Cardinality(S))
  BY <1>2, <1>3
<1>5. \A s \in SUBSET S : g[s] = SumStep(f, g, s)
  BY <1>1, <1>4 DEF Upto
<1>6. g = [s \in SUBSET S |-> SumStep(f, g, s)]
  BY <1>5
<1> QED BY <1>6

(* Whole numbers add up to one. *)
LEMMA SummedIsInt ==
  ASSUME NEW f, NEW S, IsFiniteSet(S), \A x \in S : f[x] \in Int
  PROVE  Summed(f, S) \in Int
<1> DEFINE G == CHOOSE g : g = [s \in SUBSET S |-> SumStep(f, g, s)]
           Bad == {n \in Nat : \E s \in SUBSET S : Cardinality(s) = n /\ G[s] \notin Int}
<1>1. G = [s \in SUBSET S |-> SumStep(f, G, s)]
  BY SumIsRecursive
<1> HIDE DEF G
<1>2. \A s \in SUBSET S : G[s] = SumStep(f, G, s)
  BY <1>1
<1>3. Bad = {}
  <2>1. SUFFICES ASSUME Bad # {} PROVE FALSE
    OBVIOUS
  <2>2. PICK n \in Bad : \A m \in Bad : n <= m
    BY <2>1, SmallestOfMany
  <2>3. PICK s \in SUBSET S : Cardinality(s) = n /\ G[s] \notin Int
    BY <2>2
  <2>4. s # {}
    <3>1. G[s] = SumStep(f, G, s)
      BY <1>2
    <3> QED BY <2>3, <3>1 DEF SumStep
  <2>5. Pick(s) \in s /\ IsFiniteSet(s)
    BY <2>4, FS_Subset DEF Pick
  <2> DEFINE t == s \ {Pick(s)}
  <2>6. t \in SUBSET S /\ Cardinality(t) = n - 1 /\ Cardinality(t) \in Nat
    BY <2>3, <2>5, FS_RemoveElement, FS_CardinalityType
  <2>7. G[t] \in Int
    BY <2>2, <2>6
  <2> QED BY <1>2, <2>3, <2>4, <2>5, <2>7 DEF SumStep
<1>4. G[S] \in Int
  <2>1. Cardinality(S) \in Nat
    BY FS_CardinalityType
  <2> QED BY <1>3, <2>1
<1> QED BY <1>4 DEF Summed, G

LEMMA CentreIsInt ==
  ASSUME NEW S, IsFiniteSet(S), S # {}, \A u \in S : place[u] \in Int
  PROVE  Centre(S) \in Int
<1>1. Cardinality(S) \in Nat \ {0}
  BY FS_CardinalityType, FS_EmptySet
<1>2. Centre(S) = Summed(place, S) \div Cardinality(S)
  BY DEF Centre, MapThenSumSet, MapThenFoldSet, Summed, SumStep, Pick
<1>3. Summed(place, S) \in Int
  BY SummedIsInt
<1> QED BY <1>1, <1>2, <1>3

------------------------------------------------------------------------------------
(* How far units go.                                                                *)

LEMMA CardFacts ==
  ASSUME NEW u \in Unit
  PROVE  /\ Stride(u) \in Nat /\ Reach(u) \in Nat /\ Stride(u) \div 2 \in 0..Stride(u)
         /\ UsefulRange(u) \in Nat /\ UsefulRange(u) <= Reach(u)
<1>1. Card[u].speed \in Nat /\ Card[u].reach \in Nat
  BY RosterAssumption
<1> QED BY <1>1, RateAssumption DEF Stride, Reach, UsefulRange

LEMMA LineFacts ==
  ASSUME NEW p \in Int, NEW q \in Int, NEW d \in Nat
  PROVE  /\ Gap(p, q) \in Nat /\ Gap(p, p) = 0
         /\ Towards(p, q, d) \in Int /\ PointAlong(p, q, d) \in Int
         /\ Gap(p, Towards(p, q, d)) <= d
  BY DEF Gap, Towards, PointAlong

(* On the way to a line in front of the threat, or behind it, a unit that is out of  *)
(* reach of it never gets further from where it began than the leash and a stride:   *)
(* its own standoff lies within the leash, and ahead of it.                          *)
LEMMA TheLeashHolds ==
  ASSUME NEW from \in Int, NEW here \in Int, NEW there \in Int, NEW q \in Int,
         NEW near \in Nat, NEW reach \in Nat, near <= reach, ~(Gap(here, there) <= reach),
         NEW stride \in Nat, NEW d \in 0..stride,
         Gap(from, PointAlong(there, here, near)) <= Leash,
         Gap(from, here) <= Leash + stride
  PROVE  Gap(from, Towards(here, PointAlong(there, q, near), d)) <= Leash + stride
<1> DEFINE goal == PointAlong(there, q, near)
<1>1. goal \in Int /\ goal >= there - near /\ goal <= there + near
  BY DEF PointAlong
<1> HIDE DEF goal
<1>2. Leash = 96
  BY DEF Leash
<1>3. CASE here < there
  <2>1. PointAlong(there, here, near) = there - near /\ here < there - near
    BY <1>3 DEF PointAlong, Gap
  <2>2. Towards(here, goal, d) >= here /\ Towards(here, goal, d) <= here + d /\ Towards(here, goal, d) \in Int
    BY <1>1, <2>1 DEF Towards, Gap
  <2>3. from <= here + Leash + stride /\ here - from <= Leash + stride /\ (there - near) - from <= Leash
    BY <1>2, <2>1 DEF Gap
  <2>4. Towards(here, goal, d) - from <= Leash + stride /\ from - Towards(here, goal, d) <= Leash + stride
    BY <1>2, <2>1, <2>2, <2>3
  <2> QED BY <1>2, <2>2, <2>4 DEF Gap, goal
<1>4. CASE there < here
  <2>1. PointAlong(there, here, near) = there + near /\ there + near < here
    BY <1>4 DEF PointAlong, Gap
  <2>2. Towards(here, goal, d) <= here /\ Towards(here, goal, d) >= here - d /\ Towards(here, goal, d) \in Int
    BY <1>1, <2>1 DEF Towards, Gap
  <2>3. from <= here + Leash + stride /\ here - from <= Leash + stride /\ from - (there + near) <= Leash
    BY <1>2, <2>1 DEF Gap
  <2>4. Towards(here, goal, d) - from <= Leash + stride /\ from - Towards(here, goal, d) <= Leash + stride
    BY <1>2, <2>1, <2>2, <2>3
  <2> QED BY <1>2, <2>2, <2>4 DEF Gap, goal
<1>5. here # there
  BY DEF Gap
<1> QED BY <1>3, <1>4, <1>5

OnTheLine == place \in [Unit -> Int]

LEMMA UnitsNearby ==
  ASSUME NEW u
  PROVE  Living \subseteq Unit /\ Enemies(u) \subseteq Living /\ Allies(u) \subseteq Living
  BY DEF Living, Enemies, Allies

LEMMA SlackIsReal ==
  ASSUME OnTheLine, NEW u \in Unit
  PROVE  Slack(u) \in Nat
<1> DEFINE rims == {Distance(u, v) - UsefulRange(u) : v \in Enemies(u)}
                     \cup {Gap(place[u], BasePlace[Opposing(SideOf[u])]) - BaseRadius}
           ahead == {d \in rims : d > 0}
<1>1. \A v \in Enemies(u) : Distance(u, v) \in Nat
  BY UnitsNearby, LineFacts DEF OnTheLine, Distance
<1>2. BasePlace[Opposing(SideOf[u])] \in Int
  BY GroundAssumption DEF Opposing
<1>3. Gap(place[u], BasePlace[Opposing(SideOf[u])]) \in Nat
  BY <1>2, LineFacts DEF OnTheLine
<1>4. \A d \in rims : d \in Int
  BY <1>1, <1>3, CardFacts, GroundAssumption
<1> HIDE DEF rims
<1>5. ahead \in SUBSET Nat
  BY <1>4
<1> HIDE DEF ahead
<1>6. ASSUME ahead # {} PROVE Min(ahead) \in Nat
  <2>1. PICK x \in ahead : \A y \in ahead : x <= y
    BY <1>5, <1>6, SmallestOfMany
  <2>2. Min(ahead) \in ahead
    BY <2>1 DEF Min
  <2> QED BY <1>5, <2>2
<1>7. Slack(u) = IF ahead = {} THEN Stride(u) ELSE Min(ahead)
  BY DEF Slack, ahead, rims
<1> QED BY <1>6, <1>7, CardFacts

------------------------------------------------------------------------------------
(* What is on offer: places on the line, opponents on the field, and of the ways to  *)
(* go after somebody only those to within useful range of an opponent out of reach.  *)

LEMMA StandoffIsReal ==
  ASSUME OnTheLine, NEW u \in Unit, NEW v \in Unit
  PROVE  StandoffAt(u, v) \in Int /\ Distance(u, v) \in Nat
  BY LineFacts, CardFacts DEF OnTheLine, StandoffAt, Distance

LEMMA ProtectedIsReal ==
  ASSUME OnTheLine, NEW u \in Unit, NEW v, NEW p \in Protected(u, v)
  PROVE  p \in Int
<1>1. Post[u] \in Int /\ \A w \in Allies(u) : place[w] \in Int
  BY GroundAssumption, UnitsNearby DEF OnTheLine
<1> QED BY <1>1 DEF Protected

LEMMA AnswerableIsFielded ==
  ASSUME NEW u
  PROVE  Answerable(u) \subseteq Enemies(u) /\ Enemies(u) \subseteq Unit
  BY UnitsNearby DEF Answerable, Eligible

LEMMA ApproachFacts ==
  ASSUME OnTheLine, NEW u \in Unit, NEW c \in ApproachActions(u)
  PROVE  /\ c.target \in Answerable(u) /\ ~InReach(u, c.target)
         /\ c.kind = "advance"
         /\ \E q \in Int : c.goal = PointAlong(place[c.target], q, UsefulRange(u))
<1>1. PICK v \in {w \in Answerable(u) : ~InReach(u, w)} :
        c \in GoTo("advance", v, u, StandoffAt(u, v))
                \cup UNION {GoTo("advance", v, u, PointAlong(place[v], p, UsefulRange(u)))
                              : p \in {q \in Protected(u, v) : PointAlong(place[v], q, UsefulRange(u)) # place[u]}}
  BY DEF ApproachActions
<1>2. CASE c \in GoTo("advance", v, u, StandoffAt(u, v))
  BY <1>1, <1>2 DEF GoTo, Action, StandoffAt, OnTheLine
<1>3. ASSUME NEW p \in Protected(u, v), c \in GoTo("advance", v, u, PointAlong(place[v], p, UsefulRange(u)))
      PROVE  /\ c.target = v /\ c.kind = "advance" /\ c.goal = PointAlong(place[v], p, UsefulRange(u))
             /\ p \in Int
  BY <1>3, ProtectedIsReal DEF GoTo, Action
<1> QED BY <1>1, <1>2, <1>3

LEMMA RetreatIsReal ==
  ASSUME OnTheLine, NEW u \in Unit, NEW c \in RetreatActions(u)
  PROVE  c.goal \in Int /\ c.target = Nobody /\ c.kind = "retreat"
<1> DEFINE from == Centre(Pressing(u))
           far == Gap(from, place[u]) + GiveGround
<1>1. /\ Pressing(u) # {} /\ c \in GoTo("retreat", Nobody, u, PointAlong(from, place[u], far))
  BY DEF RetreatActions
<1>2. c.goal = PointAlong(from, place[u], far) /\ c.target = Nobody /\ c.kind = "retreat"
  BY <1>1 DEF GoTo, Action
<1>3. Pressing(u) \subseteq Unit
  BY UnitsNearby DEF Pressing
<1>4. IsFiniteSet(Pressing(u))
  BY <1>3, RosterAssumption, FS_Subset
<1>5. from \in Int
  BY <1>1, <1>3, <1>4, CentreIsInt DEF OnTheLine
<1> HIDE DEF from
<1>6. place[u] \in Int /\ far \in Nat
  <2>1. place[u] \in Int
    BY DEF OnTheLine
  <2>2. Gap(from, place[u]) \in Nat
    BY <1>5, <2>1, LineFacts
  <2> QED BY <2>1, <2>2 DEF GiveGround
<1>7. PointAlong(from, place[u], far) \in Int
  BY <1>5, <1>6, LineFacts
<1> QED BY <1>2, <1>7

LEMMA CandidateFacts ==
  ASSUME OnTheLine, NEW u \in Unit, NEW c \in Candidates(u)
  PROVE  /\ c.goal \in Int /\ c.target \in Unit \cup {Nobody}
         /\ c.kind = "advance" /\ Hunted(c) => c \in ApproachActions(u)
<1>1. place[u] \in Int /\ Post[u] \in Int
  BY GroundAssumption DEF OnTheLine
<1>2. CASE c = Hold(u)
  BY <1>1, <1>2 DEF Hold, Action, Hunted
<1>3. CASE c \in CastActions(u)
  <2>1. c = Action("cast", Nobody, 0) \/ \E v \in Enemies(u) : c = Action("cast", v, 0)
    BY <1>3 DEF CastActions
  <2> QED BY <2>1, AnswerableIsFielded DEF Action
<1>4. CASE c \in StationActions(u)
  BY <1>1, <1>4 DEF StationActions, GoTo, Action, Hunted
<1>5. CASE c \in ApproachActions(u)
  <2>1. c.target \in Unit
    BY <1>5, ApproachFacts, AnswerableIsFielded
  <2>2. PICK q \in Int : c.goal = PointAlong(place[c.target], q, UsefulRange(u))
    BY <1>5, ApproachFacts
  <2>3. place[c.target] \in Int /\ UsefulRange(u) \in Nat
    BY <2>1, CardFacts DEF OnTheLine
  <2>4. c.goal \in Int
    BY <2>2, <2>3, LineFacts
  <2> QED BY <1>5, <2>1, <2>4
<1>6. CASE c \in WithdrawActions(u)
  <2>1. PICK v \in Answerable(u) : c = Action("withdraw", v, StandoffAt(u, v))
    BY <1>6 DEF WithdrawActions
  <2>2. v \in Unit
    BY AnswerableIsFielded
  <2> QED BY <2>1, <2>2, StandoffIsReal DEF Action
<1>7. CASE c \in RetreatActions(u)
  BY <1>7, RetreatIsReal
<1>8. CASE \E v \in Enemies(u) : c = Action("attack", v, 0)
  BY <1>8, AnswerableIsFielded DEF Action
<1> QED BY <1>2, <1>3, <1>4, <1>5, <1>6, <1>7, <1>8 DEF Candidates

LEMMA ChosenIsCandidate ==
  ASSUME NEW u, NEW c \in Chosen(u)
  PROVE  \E d \in Candidates(u) : c.kind = d.kind /\ c.target = d.target /\ c.goal = d.goal
<1>1. c \in Weighed(u)
  BY ChosenIsWeighed
<1>2. PICK d \in Candidates(u) : c = [kind |-> d.kind, target |-> d.target, goal |-> d.goal, score |-> Score(u, d)]
  BY <1>1 DEF Weighed
<1> QED BY <1>2

LEMMA ChosenFacts ==
  ASSUME OnTheLine, NEW u \in Unit, NEW c \in Chosen(u)
  PROVE  /\ c.goal \in Int /\ c.target \in Unit \cup {Nobody}
         /\ c.kind = "advance" /\ Hunted(c) =>
              /\ c.target \in Unit /\ ~InReach(u, c.target)
              /\ ~(mind[u].recovery > 0)
              /\ Gap(Anchor(u), StandoffAt(u, c.target)) <= Leash
              /\ \E q \in Int : c.goal = PointAlong(place[c.target], q, UsefulRange(u))
<1>1. PICK d \in Candidates(u) : c.kind = d.kind /\ c.target = d.target /\ c.goal = d.goal
  BY ChosenIsCandidate
<1>2. c.goal \in Int /\ c.target \in Unit \cup {Nobody}
  BY <1>1, CandidateFacts
<1>3. SUFFICES ASSUME c.kind = "advance", Hunted(c)
               PROVE  /\ c.target \in Unit /\ ~InReach(u, c.target)
                      /\ ~(mind[u].recovery > 0)
                      /\ Gap(Anchor(u), StandoffAt(u, c.target)) <= Leash
                      /\ \E q \in Int : c.goal = PointAlong(place[c.target], q, UsefulRange(u))
  BY <1>2
<1>4. d \in ApproachActions(u)
  BY <1>1, <1>3, CandidateFacts DEF Hunted
<1>5. /\ c.target \in Answerable(u) /\ ~InReach(u, c.target)
      /\ \E q \in Int : c.goal = PointAlong(place[c.target], q, UsefulRange(u))
  BY <1>1, <1>4, ApproachFacts
<1>6. c.target \in Unit
  BY <1>5, AnswerableIsFielded
<1>7. WorthChasing(u, c.target)
  BY <1>5 DEF Answerable, Eligible
<1>8. ~(mind[u].recovery > 0)
  BY <1>3, ChoiceRespectsRest
<1> QED BY <1>5, <1>6, <1>7, <1>8 DEF WorthChasing

------------------------------------------------------------------------------------
(* A unit goes after one opponent while its chase lasts, and for the one decision    *)
(* with which a bound ended it; after that it owes its recovery.                     *)

Runs == [target : Unit \cup {Nobody}, ticks : Nat, from : Int]
ChaseIs(u, age) == /\ mind[u].chase \in [target : {run[u].target}, age : {age}, origin : {run[u].from}, opening : Int]
                   /\ run[u].ticks = age + 1
Running(u) ==
  /\ mind[u].kind = "advance" /\ run[u].target # Nobody
  /\ \/ mind[u].chase = None /\ mind[u].recovery > 0 /\ run[u].ticks <= TimeoutTicks + 1
     \/ \E age \in Nat : age < TimeoutTicks /\ ChaseIs(u, age)
  /\ Gap(run[u].from, place[u]) <= Leash + Stride(u)
RunHeld(u) == IF run[u] = NoRun THEN mind[u].chase = None ELSE Running(u)
(* Wherever its next stride takes it, the distance is still within bounds: what the  *)
(* check of the anchor promised when it decided holds until it has moved.            *)
OnALead(u) ==
  \A d \in 0..Stride(u) : Gap(run[u].from, Towards(place[u], mind[u].goal, d)) <= Leash + Stride(u)

Fielded == /\ OnTheLine /\ DOMAIN hp = Unit
           /\ run \in [Minded -> Runs]
           /\ \A u \in Minded : mind[u].goal \in Int /\ mind[u].target \in Unit \cup {Nobody}
           /\ stage = "act" => todo = {}
PursuitInv == /\ UnitsInv /\ Fielded
              /\ \A u \in Minded : RunHeld(u)
              /\ stage \in {"decide", "act"} =>
                   \A u \in (Minded \cap Living) \ todo : run[u] # NoRun => OnALead(u)

LEMMA TimesArePositive ==
  TimeoutTicks \in Nat /\ TimeoutTicks > 0 /\ RecoveryTicks \in Nat /\ RecoveryTicks > 0 /\ Leash = 96
  BY RateAssumption DEF TimeoutTicks, RecoveryTicks, Leash

LEMMA NoRunFacts == NoRun \in Runs /\ NoRun.target = Nobody /\ Blank.chase = None
  BY DEF NoRun, Runs, Blank

LEMMA PursuitInit == Init => PursuitInv
<1> SUFFICES ASSUME Init PROVE PursuitInv
  OBVIOUS
<1>1. UnitsInv
  BY UnitsInvInit
<1>2. OnTheLine /\ DOMAIN hp = Unit /\ stage = "coordinate"
  BY GroundAssumption DEF Init, OnTheLine
<1>3. run \in [Minded -> Runs]
  BY NoRunFacts DEF Init
<1>4. \A u \in Minded : mind[u].goal \in Int /\ mind[u].target \in Unit \cup {Nobody} /\ run[u] = NoRun /\ mind[u].chase = None
  BY DEF Init, Blank
<1> QED BY <1>1, <1>2, <1>3, <1>4 DEF PursuitInv, Fielded, RunHeld

LEMMA DecideKeepsRun ==
  ASSUME PursuitInv, NEW u \in Minded, NEW c \in Chosen(u),
         mind'[u] = MindAfter(u, c), run'[u] = RunAfter(u, c), place' = place
  PROVE  run'[u] \in Runs /\ RunHeld(u)' /\ (run'[u] # NoRun => OnALead(u)')
<1>1. u \in Unit /\ OnTheLine /\ RunHeld(u) /\ run[u] \in Runs
  BY RosterAssumption DEF PursuitInv, Fielded
<1>2. /\ mind'[u].kind = c.kind /\ mind'[u].goal = c.goal
      /\ mind'[u].chase = ChaseAfter(u, c) /\ mind'[u].recovery = RecoveryAfter(u)
  BY DEF MindAfter
<1>3. CASE c.kind # "advance" \/ ~Hunted(c)
  <2>1. run'[u] = NoRun /\ mind'[u].chase = None
    BY <1>2, <1>3 DEF RunAfter, ChaseAfter
  <2> QED BY <2>1, NoRunFacts DEF RunHeld
<1>4. CASE c.kind = "advance" /\ Hunted(c)
  <2> DEFINE v == c.target
             r == run[u]
  <2>1. /\ v \in Unit /\ v # Nobody /\ ~InReach(u, v) /\ ~(mind[u].recovery > 0)
        /\ Gap(Anchor(u), StandoffAt(u, v)) <= Leash
    BY <1>1, <1>4, ChosenFacts DEF Hunted
  <2>2. PICK q \in Int : c.goal = PointAlong(place[v], q, UsefulRange(u))
    BY <1>1, <1>4, ChosenFacts
  <2>3. /\ place[u] \in Int /\ place[v] \in Int /\ Stride(u) \in Nat /\ UsefulRange(u) \in Nat
        /\ Reach(u) \in Nat /\ UsefulRange(u) <= Reach(u)
    BY <1>1, <2>1, CardFacts DEF OnTheLine
  <2>4. c.goal \in Int
    BY <2>2, <2>3, LineFacts
  <2>5. r.target \in Unit \cup {Nobody} /\ r.ticks \in Nat /\ r.from \in Int
    BY <1>1 DEF Runs
  <2>6. CASE r.target = v
    <3>1. r # NoRun
      BY <2>1, <2>6, NoRunFacts
    <3>2. PICK age \in Nat : age < TimeoutTicks /\ ChaseIs(u, age)
      BY <1>1, <2>1, <3>1 DEF RunHeld, Running
    <3>3. /\ ChaseOf(u).target = v /\ ChaseOf(u).age = age /\ ChaseOf(u).origin = r.from /\ ChaseOf(u).opening \in Int
          /\ ChaseOf(u) \in [target : Unit, age : Nat, origin : Int, opening : Int] /\ r.ticks = age + 1
      BY <2>1, <2>5, <2>6, <3>2 DEF ChaseIs, ChaseOf
    <3>4. ChaseOf(u) # None /\ Chasing(u, v) /\ Anchor(u) = r.from
      BY <3>3, NoneAssumption DEF Chasing, Anchor
    <3>5. run'[u] = [target |-> v, ticks |-> age + 2, from |-> r.from]
      <4>1. run'[u] = [r EXCEPT !.ticks = Lesser(r.ticks + 1, TimeoutTicks + 2)]
        BY <1>4, <2>6 DEF RunAfter
      <4>2. Lesser(r.ticks + 1, TimeoutTicks + 2) = age + 2
        BY <3>2, <3>3, TimesArePositive DEF Lesser
      <4> QED BY <1>1, <2>6, <4>1, <4>2 DEF Runs
    <3>6. Gap(r.from, place[u]) <= Leash + Stride(u)
      BY <1>1, <3>1 DEF RunHeld, Running
    <3>7. OnALead(u)'
      <4>1. \A d \in 0..Stride(u) : Gap(r.from, Towards(place[u], c.goal, d)) <= Leash + Stride(u)
        <5> TAKE d \in 0..Stride(u)
        <5>1. Gap(r.from, PointAlong(place[v], place[u], UsefulRange(u))) <= Leash
          BY <2>1, <3>4 DEF StandoffAt
        <5>2. ~(Gap(place[u], place[v]) <= Reach(u))
          BY <2>1 DEF InReach, Distance
        <5> QED BY <2>2, <2>3, <2>5, <3>6, <5>1, <5>2, TheLeashHolds
      <4> QED BY <1>2, <3>5, <4>1 DEF OnALead, Stride
    <3>8. CASE Released(u)
      <4>1. mind'[u].chase = None /\ mind'[u].recovery > 0
        BY <1>2, <3>8, TimesArePositive DEF ChaseAfter, RecoveryAfter
      <4>2. Running(u)'
        BY <1>2, <1>4, <2>1, <3>2, <3>5, <3>6, <4>1, TimesArePositive DEF Running, TimeoutTicks, Stride
      <4> QED BY <2>1, <2>5, <3>5, <3>7, <4>2, NoRunFacts DEF RunHeld, Runs
    <3>9. CASE ~Released(u)
      <4>1. mind'[u].chase = [target |-> v, age |-> age + 1, origin |-> r.from, opening |-> ChaseOf(u).opening]
        BY <1>2, <1>4, <3>3, <3>4, <3>9 DEF ChaseAfter, Chase
      <4>2. age + 1 < TimeoutTicks
        BY <3>2, <3>3, <3>4, <3>9, TimesArePositive DEF Released, Outworn
      <4>3. ChaseIs(u, age + 1)'
        BY <3>3, <3>5, <4>1 DEF ChaseIs
      <4>4. Running(u)'
        BY <1>2, <1>4, <2>1, <3>2, <3>5, <3>6, <4>2, <4>3 DEF Running, TimeoutTicks, Stride
      <4> QED BY <2>1, <2>5, <3>5, <3>7, <4>4, NoRunFacts DEF RunHeld, Runs
    <3> QED BY <3>8, <3>9
  <2>7. CASE r.target # v
    <3>1. run'[u] = [target |-> v, ticks |-> 1, from |-> place[u]]
      BY <1>4, <2>7 DEF RunAfter
    <3>2. ~Chasing(u, v)
      <4>1. CASE r = NoRun
        BY <1>1, <4>1 DEF RunHeld, Chasing, ChaseOf
      <4>2. CASE r # NoRun
        <5>1. PICK age \in Nat : age < TimeoutTicks /\ ChaseIs(u, age)
          BY <1>1, <2>1, <4>2 DEF RunHeld, Running
        <5> QED BY <2>7, <5>1 DEF ChaseIs, Chasing, ChaseOf
      <4> QED BY <4>1, <4>2
    <3>3. Gap(place[u], place[u]) <= Leash + Stride(u)
      BY <2>3, LineFacts, TimesArePositive
    <3>4. OnALead(u)'
      <4>1. \A d \in 0..Stride(u) : Gap(place[u], Towards(place[u], c.goal, d)) <= Leash + Stride(u)
        <5> TAKE d \in 0..Stride(u)
        <5>0. d \in Nat
          BY <2>3
        <5>1. Gap(place[u], Towards(place[u], c.goal, d)) <= d /\ Towards(place[u], c.goal, d) \in Int
          BY <2>3, <2>4, <5>0, LineFacts
        <5>2. Gap(place[u], Towards(place[u], c.goal, d)) \in Nat
          BY <2>3, <5>1, LineFacts
        <5> QED BY <2>3, <5>1, <5>2, TimesArePositive
      <4> QED BY <1>2, <3>1, <4>1 DEF OnALead, Stride
    <3>5. CASE Released(u)
      <4>1. mind'[u].chase = None /\ mind'[u].recovery > 0
        BY <1>2, <3>5, TimesArePositive DEF ChaseAfter, RecoveryAfter
      <4>2. Running(u)'
        BY <1>2, <1>4, <2>1, <3>1, <3>3, <4>1, TimesArePositive DEF Running, TimeoutTicks, Stride
      <4> QED BY <2>1, <2>3, <3>1, <3>4, <4>2, NoRunFacts DEF RunHeld, Runs
    <3>6. CASE ~Released(u)
      <4>1. mind'[u].chase = [target |-> v, age |-> 0, origin |-> place[u], opening |-> Distance(u, v)]
        BY <1>2, <1>4, <3>2, <3>6 DEF ChaseAfter, Chase
      <4>2. Distance(u, v) \in Int
        BY <1>1, <2>1, StandoffIsReal
      <4>3. ChaseIs(u, 0)'
        BY <3>1, <4>1, <4>2 DEF ChaseIs
      <4>4. Running(u)'
        BY <1>2, <1>4, <2>1, <3>1, <3>3, <4>3, TimesArePositive DEF Running, TimeoutTicks, Stride
      <4> QED BY <2>1, <2>3, <3>1, <3>4, <4>4, NoRunFacts DEF RunHeld, Runs
    <3> QED BY <3>5, <3>6
  <2> QED BY <2>6, <2>7
<1> QED BY <1>3, <1>4

LEMMA DecideKeepsPursuit ==
  ASSUME PursuitInv, NEW u \in todo, Decide(u)
  PROVE  PursuitInv'
<1>1. u \in Minded
  BY DEF PursuitInv, UnitsInv, Minds
<1>2. UnitsInv'
  BY <1>1, DecideKeepsInv DEF PursuitInv
<1>3. PICK c \in Chosen(u) : /\ mind' = [mind EXCEPT ![u] = MindAfter(u, c)]
                             /\ run' = [run EXCEPT ![u] = RunAfter(u, c)]
  BY DEF Decide
<1>4. DOMAIN mind = Minded /\ DOMAIN run = Minded
  BY DEF PursuitInv, UnitsInv, Minds, Fielded
<1>5. mind'[u] = MindAfter(u, c) /\ run'[u] = RunAfter(u, c) /\ DOMAIN run' = Minded
  BY <1>1, <1>3, <1>4
<1>6. \A v \in Minded \ {u} : mind'[v] = mind[v] /\ run'[v] = run[v]
  BY <1>3, <1>4
<1>7. /\ place' = place /\ hp' = hp /\ stage = "decide"
      /\ todo' = todo \ {u} /\ stage' = IF todo' = {} THEN "act" ELSE stage
  BY DEF Decide
<1>8. run'[u] \in Runs /\ RunHeld(u)' /\ (run'[u] # NoRun => OnALead(u)')
  BY <1>1, <1>5, <1>7, DecideKeepsRun
<1>9. \A v \in Minded : run'[v] \in Runs /\ RunHeld(v)'
  <2> TAKE v \in Minded
  <2>1. CASE v = u
    BY <1>8, <2>1
  <2>2. CASE v # u
    <3>1. run[v] \in Runs /\ RunHeld(v)
      BY DEF PursuitInv, Fielded
    <3> QED BY <1>6, <1>7, <2>2, <3>1 DEF RunHeld, Running, ChaseIs, TimeoutTicks, Stride
  <2> QED BY <2>1, <2>2
<1>10. Fielded'
  <2>1. \A v \in Minded : mind'[v].goal \in Int /\ mind'[v].target \in Unit \cup {Nobody}
    <3> TAKE v \in Minded
    <3>1. CASE v = u
      BY <1>1, <1>5, <3>1, RosterAssumption, ChosenFacts DEF MindAfter, PursuitInv, Fielded
    <3>2. CASE v # u
      BY <1>6, <3>2 DEF PursuitInv, Fielded
    <3> QED BY <3>1, <3>2
  <2>2. run' \in [Minded -> Runs]
    BY <1>3, <1>4, <1>5, <1>9
  <2> QED BY <1>7, <2>1, <2>2 DEF PursuitInv, Fielded, OnTheLine
<1>11. \A v \in (Minded \cap Living') \ todo' : run'[v] # NoRun => OnALead(v)'
  <2> TAKE v \in (Minded \cap Living') \ todo'
  <2>1. CASE v = u
    BY <1>8, <2>1
  <2>2. CASE v # u
    <3>1. v \in (Minded \cap Living) \ todo
      BY <1>7, <2>2 DEF Living
    <3>2. run[v] # NoRun => OnALead(v)
      BY <1>7, <3>1 DEF PursuitInv
    <3> QED BY <1>6, <1>7, <2>2, <3>2 DEF OnALead, Stride
  <2> QED BY <2>1, <2>2
<1> QED BY <1>2, <1>9, <1>10, <1>11 DEF PursuitInv

(* Nobody leaves the line, whatever it does. *)
LEMMA ActStays ==
  ASSUME PursuitInv, Act
  PROVE  /\ place' \in [Unit -> Int]
         /\ \A u \in Minded : run[u] # NoRun => Gap(run[u].from, place'[u]) <= Leash + Stride(u)
<1>1. OnTheLine /\ stage = "act" /\ todo = {}
  BY DEF Act, PursuitInv, Fielded
<1>2. \A u \in Unit :
        place'[u] = IF u \notin Minded \cap Living THEN place[u]
                    ELSE IF mind[u].kind \in Moving THEN WalkTo(u)
                    ELSE IF Casts(u) THEN After(u, [kind |-> "cast", target |-> mind[u].target])
                    ELSE place[u]
  BY DEF Act
<1>3. ASSUME NEW u \in Minded
      PROVE  /\ u \in Unit /\ place[u] \in Int /\ mind[u].goal \in Int /\ Stride(u) \in Nat
             /\ Slack(u) \in Nat /\ mind[u].target \in Unit \cup {Nobody}
  BY <1>1, RosterAssumption, CardFacts, SlackIsReal DEF PursuitInv, Fielded, OnTheLine
<1>4. ASSUME NEW u \in Minded
      PROVE  /\ WalkTo(u) \in Int
             /\ \E d \in 0..Stride(u) : WalkTo(u) = Towards(place[u], mind[u].goal, d)
  <2> DEFINE step == IF mind[u].kind = "withdraw" THEN Stride(u) \div 2 ELSE Stride(u)
             d == Lesser(step, Slack(u))
  <2>1. step \in 0..Stride(u)
    BY <1>3, CardFacts
  <2>2. d \in 0..Stride(u) /\ d \in Nat
    <3> HIDE DEF step
    <3> QED BY <1>3, <2>1 DEF Lesser
  <2>3. WalkTo(u) = Towards(place[u], mind[u].goal, d)
    BY DEF WalkTo
  <2> HIDE DEF d
  <2> QED BY <1>3, <2>2, <2>3, LineFacts
<1>5. ASSUME NEW u \in Minded, mind[u].kind \notin Moving
      PROVE  After(u, [kind |-> "cast", target |-> mind[u].target]) \in Int
  <2> DEFINE v == mind[u].target
             far == DashLength(u, v)
             c == [kind |-> "cast", target |-> v]
  <2>1. c.kind = "cast" /\ c.target = v /\ "cast" \notin Moving
    BY DEF Moving
  <2>2. CASE Hunted(c) /\ DashOf(u) # None /\ far > 0
    <3>1. v \in Unit /\ place[v] \in Int
      BY <1>1, <1>3, <2>2 DEF Hunted, OnTheLine
    <3>2. DashOf(u) \in [far : Nat, short : Nat]
      BY <1>3, <2>2, RosterAssumption DEF DashOf, AbilityOf
    <3>3. Distance(u, v) \in Nat
      BY <1>1, <1>3, <3>1, StandoffIsReal
    <3>4. far \in Nat
      BY <2>2, <3>2, <3>3 DEF DashLength, Lesser
    <3>5. After(u, c) = Towards(place[u], place[v], far)
      BY <2>1, <2>2 DEF After
    <3> HIDE DEF far
    <3>6. Towards(place[u], place[v], far) \in Int
      BY <1>3, <3>1, <3>4, LineFacts
    <3> QED BY <3>5, <3>6
  <2>3. CASE ~(Hunted(c) /\ DashOf(u) # None /\ far > 0)
    <3>1. After(u, c) = place[u]
      BY <2>1, <2>3 DEF After
    <3> QED BY <1>3, <3>1
  <2> QED BY <2>2, <2>3
<1>6. ASSUME NEW u \in Unit PROVE place'[u] \in Int
  BY <1>1, <1>2, <1>4, <1>5 DEF OnTheLine
<1>7. place' \in [Unit -> Int]
  <2>1. place' = [u \in Unit |-> place'[u]]
    BY DEF Act
  <2> QED BY <1>6, <2>1
<1>8. ASSUME NEW u \in Minded, run[u] # NoRun
      PROVE  Gap(run[u].from, place'[u]) <= Leash + Stride(u)
  <2>1. Running(u)
    BY <1>8 DEF PursuitInv, RunHeld
  <2>2. CASE u \notin Living
    BY <1>2, <1>3, <2>1, <2>2 DEF Running
  <2>3. CASE u \in Living
    <3>1. OnALead(u)
      BY <1>1, <1>8, <2>3 DEF PursuitInv
    <3>2. place'[u] = WalkTo(u)
      BY <1>2, <1>3, <2>1, <2>3 DEF Running, Moving
    <3> QED BY <1>4, <3>1, <3>2 DEF OnALead
  <2> QED BY <2>2, <2>3
<1> QED BY <1>7, <1>8

LEMMA ActKeepsPursuit ==
  ASSUME PursuitInv, Act, UnitsInv'
  PROVE  PursuitInv'
<1>1. /\ place' \in [Unit -> Int]
      /\ \A u \in Minded : run[u] # NoRun => Gap(run[u].from, place'[u]) <= Leash + Stride(u)
  BY ActStays
<1>2. hp' = hp /\ mind' = mind /\ run' = run /\ todo' = todo /\ stage' = "field"
  BY DEF Act, aiVars, history
<1>3. ASSUME NEW u \in Minded PROVE RunHeld(u)'
  <2>1. RunHeld(u)
    BY DEF PursuitInv
  <2> QED BY <1>1, <1>2, <2>1 DEF RunHeld, Running, ChaseIs, TimeoutTicks, Stride
<1>4. Fielded'
  BY <1>1, <1>2 DEF PursuitInv, Fielded, OnTheLine
<1> QED BY <1>2, <1>3, <1>4 DEF PursuitInv

LEMMA FieldKeepsPursuit ==
  ASSUME PursuitInv, Field, UnitsInv'
  PROVE  PursuitInv'
<1>1. PICK ways \in [Stray \cap Living -> {-1, 1}], lives \in Hurt :
        LET here == Standing(lives) IN
        /\ hp' = [u \in Unit |-> IF u \in here THEN lives[u] ELSE 0]
        /\ place' = [u \in Unit |-> IF u \notin here THEN 0
                                    ELSE IF u \in Stray THEN Roam(u, ways[u]) ELSE place[u]]
        /\ mind' = [u \in Minded |-> IF u \in here THEN mind[u] ELSE Blank]
        /\ run' = [u \in Minded |-> IF u \in here THEN run[u] ELSE NoRun]
  BY DEF Field
<1> DEFINE here == Standing(lives)
<1>2. /\ hp' = [u \in Unit |-> IF u \in here THEN lives[u] ELSE 0]
      /\ place' = [u \in Unit |-> IF u \notin here THEN 0
                                  ELSE IF u \in Stray THEN Roam(u, ways[u]) ELSE place[u]]
      /\ mind' = [u \in Minded |-> IF u \in here THEN mind[u] ELSE Blank]
      /\ run' = [u \in Minded |-> IF u \in here THEN run[u] ELSE NoRun]
  BY <1>1
<1>3. OnTheLine /\ DOMAIN hp = Unit /\ stage' = "coordinate"
  BY DEF Field, PursuitInv, Fielded
<1>4. ASSUME NEW u \in Unit, u \in here PROVE u \in Living
  <2>1. lives[u] > 0
    BY <1>4 DEF Standing
  <2>2. CASE lives = hp
    BY <2>1, <2>2 DEF Living
  <2>3. ASSUME NEW v \in Living, NEW w, lives = [hp EXCEPT ![v] = w] PROVE u \in Living
    <3>1. CASE v = u
      BY <2>3, <3>1
    <3>2. CASE v # u
      BY <1>3, <2>1, <2>3, <3>2 DEF Living
    <3> QED BY <3>1, <3>2
  <2>4. lives = hp \/ \E v \in Living : \E w \in {x \in Wounds[v] : x < hp[v]} : lives = [hp EXCEPT ![v] = w]
    BY <1>1 DEF Hurt
  <2> QED BY <2>2, <2>3, <2>4
<1> HIDE DEF here
<1>5. ASSUME NEW u \in Stray, u \in here PROVE Roam(u, ways[u]) \in Int
  <2>1. u \in Unit /\ Haunt[u][1] \in Int /\ Haunt[u][2] \in Int
    BY GroundAssumption DEF Stray
  <2>2. ways[u] \in {-1, 1}
    BY <1>4, <1>5, <2>1
  <2>3. place[u] \in Int /\ Stride(u) \in Nat
    BY <1>3, <2>1, CardFacts DEF OnTheLine
  <2>4. place[u] + ways[u] * Stride(u) \in Int
    BY <2>2, <2>3
  <2> QED BY <2>1, <2>4 DEF Roam, Clamp, Lesser, Greater
<1>6. place' \in [Unit -> Int]
  <2>1. ASSUME NEW u \in Unit PROVE place'[u] \in Int
    BY <1>2, <1>3, <1>5 DEF OnTheLine
  <2>2. place' = [u \in Unit |-> place'[u]]
    BY <1>2
  <2> QED BY <2>1, <2>2
<1>7. ASSUME NEW u \in Minded
      PROVE  /\ run'[u] \in Runs /\ RunHeld(u)'
             /\ mind'[u].goal \in Int /\ mind'[u].target \in Unit \cup {Nobody}
  <2>1. u \in Unit /\ u \notin Stray
    BY RosterAssumption DEF Stray
  <2>2. CASE u \in here
    <3>1. place'[u] = place[u] /\ mind'[u] = mind[u] /\ run'[u] = run[u]
      BY <1>2, <2>1, <2>2
    <3>2. run[u] \in Runs /\ RunHeld(u) /\ mind[u].goal \in Int /\ mind[u].target \in Unit \cup {Nobody}
      BY DEF PursuitInv, Fielded
    <3> QED BY <3>1, <3>2 DEF RunHeld, Running, ChaseIs, TimeoutTicks, Stride
  <2>3. CASE u \notin here
    <3>1. mind'[u] = Blank /\ run'[u] = NoRun
      BY <1>2, <2>3
    <3> QED BY <3>1, NoRunFacts DEF RunHeld, Blank
  <2> QED BY <2>2, <2>3
<1>8. run' \in [Minded -> Runs] /\ DOMAIN hp' = Unit
  BY <1>2, <1>7
<1> QED BY <1>3, <1>6, <1>7, <1>8 DEF PursuitInv, Fielded, OnTheLine

LEMMA PursuitStep == PursuitInv /\ [Next]_vars => PursuitInv'
<1> SUFFICES ASSUME PursuitInv, [Next]_vars PROVE PursuitInv'
  OBVIOUS
<1>1. UnitsInv'
  BY UnitsInvStep DEF PursuitInv
<1>2. ASSUME place' = place, hp' = hp, mind' = mind, run' = run PROVE \A u \in Minded : RunHeld(u)'
  <2> TAKE u \in Minded
  <2>1. RunHeld(u)
    BY DEF PursuitInv
  <2> QED BY <1>2, <2>1 DEF RunHeld, Running, ChaseIs, TimeoutTicks, Stride
<1>3. CASE Coordinate
  <2>1. /\ place' = place /\ hp' = hp /\ mind' = mind /\ run' = run
        /\ stage' = "decide" /\ todo' = Minded \cap Living
    BY <1>3 DEF Coordinate, history
  <2>2. (Minded \cap Living') \ todo' = {}
    BY <2>1 DEF Living
  <2> QED BY <1>1, <1>2, <2>1, <2>2 DEF PursuitInv, Fielded, OnTheLine
<1>4. ASSUME NEW u \in todo, Decide(u) PROVE PursuitInv'
  BY <1>4, DecideKeepsPursuit
<1>5. ASSUME place' = place, hp' = hp, mind' = mind, run' = run, todo' = todo,
             stage' \in {"decide", "act"} => stage \in {"decide", "act"},
             stage' = "act" => todo = {}
      PROVE  PursuitInv'
  <2>1. Fielded'
    BY <1>5 DEF PursuitInv, Fielded, OnTheLine
  <2>2. ASSUME stage' \in {"decide", "act"}, NEW u \in (Minded \cap Living') \ todo', run'[u] # NoRun PROVE OnALead(u)'
    <3>1. u \in (Minded \cap Living) \ todo
      BY <1>5 DEF Living
    <3>2. OnALead(u)
      BY <1>5, <2>2, <3>1 DEF PursuitInv
    <3> QED BY <1>5, <3>2 DEF OnALead, Stride
  <2> QED BY <1>1, <1>2, <1>5, <2>1, <2>2 DEF PursuitInv
<1>6. CASE NothingDecided
  BY <1>5, <1>6 DEF NothingDecided, aiVars, history
<1>7. CASE Act
  BY <1>1, <1>7, ActKeepsPursuit
<1>8. CASE Field
  BY <1>1, <1>8, FieldKeepsPursuit
<1>9. CASE UNCHANGED vars
  <2>1. stage = "act" => todo = {}
    BY DEF PursuitInv, Fielded
  <2> QED BY <1>5, <1>9, <2>1 DEF vars, aiVars, history
<1> QED BY <1>3, <1>4, <1>6, <1>7, <1>8, <1>9 DEF Next

(* pursuit.py, the leash and the timeout: for every roster and every line to fight   *)
(* on, however its opponents move and however its choice of a line changes, a unit   *)
(* goes after one opponent without a break for at most the timeout and the decision  *)
(* that ends it, and is then no further than the leash and a stride from where it    *)
(* began.                                                                            *)
THEOREM ChasesAreBounded == Spec => []OneChaseIsBounded
<1>1. PursuitInv => OneChaseIsBounded
  <2> SUFFICES ASSUME PursuitInv, NEW u \in Minded \cap Living, run[u] # NoRun
               PROVE  /\ run[u].ticks <= TimeoutTicks + 1
                      /\ Gap(run[u].from, place[u]) <= Leash + Stride(u)
    BY DEF OneChaseIsBounded
  <2>1. Running(u)
    BY DEF PursuitInv, RunHeld
  <2>2. run[u].ticks <= TimeoutTicks + 1
    <3>1. ASSUME NEW age \in Nat, age < TimeoutTicks, ChaseIs(u, age) PROVE run[u].ticks <= TimeoutTicks + 1
      BY <3>1, TimesArePositive DEF ChaseIs
    <3> QED BY <2>1, <3>1 DEF Running
  <2> QED BY <2>1, <2>2 DEF Running
<1> QED BY <1>1, PursuitInit, PursuitStep, PTL DEF Spec

------------------------------------------------------------------------------------
(* Orders: of finitely many things in an order, one comes last.                     *)

LEMMA LastOfMany ==
  ASSUME NEW S, IsFiniteSet(S), S # {}, NEW R,
         \A x, y \in S : x # y => <<x, y>> \in R \/ <<y, x>> \in R,
         \A x, y, z \in S : <<x, y>> \in R /\ <<y, z>> \in R => <<x, z>> \in R
  PROVE  \E x \in S : \A y \in S \ {x} : <<y, x>> \in R
<1> DEFINE Last(T, x) == \A y \in T \ {x} : <<y, x>> \in R
           Bad == {n \in Nat : \E T \in SUBSET S : T # {} /\ Cardinality(T) = n /\ \A x \in T : ~Last(T, x)}
<1>1. SUFFICES ASSUME \A x \in S : ~Last(S, x) PROVE FALSE
  OBVIOUS
<1>2. Cardinality(S) \in Bad
  BY <1>1, FS_CardinalityType
<1>3. PICK n \in Bad : \A m \in Bad : n <= m
  <2>1. Bad \in SUBSET Nat /\ Bad # {}
    BY <1>2
  <2> HIDE DEF Bad
  <2> QED BY <2>1, SmallestOfMany
<1>4. PICK T \in SUBSET S : T # {} /\ Cardinality(T) = n /\ \A x \in T : ~Last(T, x)
  BY <1>3
<1>5. PICK x \in T : TRUE
  BY <1>4
<1> DEFINE U == T \ {x}
<1>6. U # {}
  BY <1>4, <1>5
<1>7. IsFiniteSet(T) /\ U \in SUBSET S /\ Cardinality(U) = n - 1 /\ Cardinality(U) \in Nat
  BY <1>4, <1>5, FS_Subset, FS_RemoveElement, FS_CardinalityType
<1>8. Cardinality(U) \notin Bad
  <2>1. n \in Nat
    OBVIOUS
  <2> HIDE DEF Bad, U
  <2> QED BY <1>3, <1>7, <2>1
<1>9. PICK y \in U : Last(U, y)
  BY <1>6, <1>7, <1>8
<1>10. CASE <<x, y>> \in R
  <2>1. Last(T, y)
    BY <1>9, <1>10
  <2> QED BY <1>4, <1>9, <2>1
<1>11. CASE <<y, x>> \in R
  <2>1. ASSUME NEW z \in T \ {x} PROVE <<z, x>> \in R
    <3>1. CASE z = y
      BY <1>11, <3>1
    <3>2. CASE z # y
      <4>1. <<z, y>> \in R
        BY <1>9, <2>1, <3>2
      <4> QED BY <1>5, <1>9, <1>11, <2>1, <4>1
    <3> QED BY <3>1, <3>2
  <2>2. Last(T, x)
    BY <2>1
  <2> QED BY <1>4, <1>5, <2>2
<1>12. x \in S /\ y \in S /\ x # y
  BY <1>5, <1>9
<1> QED BY <1>10, <1>11, <1>12

(* Comparing two shares by cross products is comparing fractions. *)
LEMMA TimesKeepsOrder ==
  ASSUME NEW p \in Nat, NEW q \in Nat, NEW r \in Nat
  PROVE  /\ p <= q => p * r <= q * r
         /\ r > 0 /\ p < q => p * r < q * r
         /\ r > 0 /\ p * r <= q * r => p <= q
         /\ r > 0 /\ p * r < q * r => p < q
         /\ p * q = q * p /\ (p * q) * r = (p * r) * q
         /\ p * r \in Nat
  OBVIOUS

LEMMA SharesAreOrdered ==
  ASSUME NEW a \in Nat, NEW b \in Nat, NEW c \in Nat,
         NEW x \in Nat \ {0}, NEW y \in Nat \ {0}, NEW z \in Nat \ {0},
         a * y <= b * x, b * z <= c * y
  PROVE  /\ a * z <= c * x
         /\ a * y < b * x \/ b * z < c * y => a * z < c * x
<1>1. a * y \in Nat /\ b * x \in Nat /\ b * z \in Nat /\ c * y \in Nat /\ a * z \in Nat /\ c * x \in Nat
  BY TimesKeepsOrder
<1>2. /\ (a * y) * z = (a * z) * y /\ (b * x) * z = (b * z) * x /\ (c * y) * x = (c * x) * y
  BY TimesKeepsOrder
<1>3. (a * y) * z <= (b * x) * z /\ (b * z) * x <= (c * y) * x
  BY <1>1, TimesKeepsOrder
<1>4. /\ (a * y) * z \in Nat /\ (b * x) * z \in Nat /\ (c * y) * x \in Nat
  BY <1>1, TimesKeepsOrder
<1>5. (a * z) * y <= (c * x) * y
  BY <1>2, <1>3, <1>4
<1>6. a * z <= c * x
  BY <1>1, <1>5, TimesKeepsOrder
<1>7. ASSUME a * y < b * x \/ b * z < c * y PROVE a * z < c * x
  <2>1. (a * y) * z < (b * x) * z \/ (b * z) * x < (c * y) * x
    BY <1>1, <1>7, TimesKeepsOrder
  <2>2. (a * z) * y < (c * x) * y
    BY <1>2, <1>3, <1>4, <2>1
  <2> QED BY <1>1, <2>2, TimesKeepsOrder
<1> QED BY <1>6, <1>7

Lives == hp \in [Unit -> Nat]

LEMMA NeedierFacts ==
  ASSUME Lives
  PROVE  /\ \A u \in Unit : ~NeedierThan(u, u)
         /\ \A u, v \in Unit : u # v => NeedierThan(u, v) \/ NeedierThan(v, u)
         /\ \A u, v, w \in Unit : NeedierThan(u, v) /\ NeedierThan(v, w) => NeedierThan(u, w)
<1>1. \A u \in Unit : /\ hp[u] \in Nat /\ Card[u].life \in Nat \ {0} /\ Card[u].mage \in BOOLEAN
                      /\ u \in Nat
  BY RosterAssumption DEF Lives
<1>2. \A u, v \in Unit : hp[u] * Card[v].life \in Nat
  BY <1>1, TimesKeepsOrder
<1>3. ASSUME NEW u \in Unit PROVE ~NeedierThan(u, u)
  BY <1>1, <1>2 DEF NeedierThan
<1>4. ASSUME NEW u \in Unit, NEW v \in Unit, u # v PROVE NeedierThan(u, v) \/ NeedierThan(v, u)
  <2>1. hp[u] * Card[v].life \in Nat /\ hp[v] * Card[u].life \in Nat
    BY <1>2
  <2> QED BY <1>1, <1>4, <2>1 DEF NeedierThan
<1>5. ASSUME NEW u \in Unit, NEW v \in Unit, NEW w \in Unit, NeedierThan(u, v), NeedierThan(v, w)
      PROVE  NeedierThan(u, w)
  <2>1. CASE Card[u].mage # Card[v].mage \/ Card[v].mage # Card[w].mage
    BY <1>1, <1>5, <2>1 DEF NeedierThan
  <2>2. CASE Card[u].mage = Card[v].mage /\ Card[v].mage = Card[w].mage
    <3> DEFINE p == hp[u]
               q == hp[v]
               r == hp[w]
               x == Card[u].life
               y == Card[v].life
               z == Card[w].life
    <3>1. p * y < q * x \/ (p * y = q * x /\ u < v)
      BY <1>5, <2>2 DEF NeedierThan
    <3>2. q * z < r * y \/ (q * z = r * y /\ v < w)
      BY <1>5, <2>2 DEF NeedierThan
    <3>3. /\ p \in Nat /\ q \in Nat /\ r \in Nat
          /\ x \in Nat \ {0} /\ y \in Nat \ {0} /\ z \in Nat \ {0}
          /\ u \in Nat /\ v \in Nat /\ w \in Nat
      BY <1>1
    <3>4. p * z < r * x \/ (p * z = r * x /\ u < w)
      <4> HIDE DEF p, q, r, x, y, z
      <4>1. /\ p * y \in Nat /\ q * x \in Nat /\ q * z \in Nat /\ r * y \in Nat /\ p * z \in Nat /\ r * x \in Nat
        BY <3>3, TimesKeepsOrder
      <4>2. p * y <= q * x /\ q * z <= r * y
        BY <3>1, <3>2, <4>1
      <4>3. p * z <= r * x /\ (p * y < q * x \/ q * z < r * y => p * z < r * x)
        BY <3>3, <4>2, SharesAreOrdered
      <4> QED BY <3>1, <3>2, <3>3, <4>1, <4>3
    <3> QED BY <2>2, <3>4 DEF NeedierThan
  <2> QED BY <2>1, <2>2
<1> QED BY <1>3, <1>4, <1>5

------------------------------------------------------------------------------------
(* A troop's habits: whole numbers, however many personalities shift them.          *)

LEMMA GivenIsInt ==
  ASSUME NEW u, NEW tag \in DOMAIN Personality, NEW m \in Holders(u, tag)
  PROVE  Given(m, tag) \in Int /\ m \in Unit
<1>1. m \in DOMAIN Refs /\ tag \in DOMAIN Refs[m]
  BY DEF Holders
<1>2. m \in Unit /\ (StrengthOK(Refs[m][tag]) \/ Refs[m][tag] = Standard)
  BY <1>1, LibraryAssumption DEF LibraryOK
<1>3. StrengthOK(Personality[tag].strength)
  BY LibraryAssumption DEF LibraryOK
<1> QED BY <1>2, <1>3 DEF Given, StrengthOK, Standard, MaxStrength

LEMMA StrengthIsInt ==
  ASSUME NEW u, NEW tag \in DOMAIN Personality
  PROVE  Strength(u, tag) \in Int
<1> DEFINE S == Holders(u, tag)
           F == [m \in S |-> Given(m, tag)]
           Own(g, s) == IF s = {} THEN 0 ELSE Given(Pick(s), tag) + g[s \ {Pick(s)}]
<1>1. \A m \in S : Given(m, tag) \in Int /\ m \in Unit
  BY GivenIsInt
<1> HIDE DEF S
<1>2. IsFiniteSet(S)
  BY <1>1, RosterAssumption, FS_Subset
<1>3. \A g : [s \in SUBSET S |-> Own(g, s)] = [s \in SUBSET S |-> SumStep(F, g, s)]
  <2> TAKE g
  <2>1. ASSUME NEW s \in SUBSET S PROVE Own(g, s) = SumStep(F, g, s)
    <3>1. s # {} => Pick(s) \in S
      BY DEF Pick
    <3> QED BY <3>1 DEF SumStep
  <2> QED BY <2>1
<1>4. (CHOOSE g : g = [s \in SUBSET S |-> Own(g, s)]) = (CHOOSE g : g = [s \in SUBSET S |-> SumStep(F, g, s)])
  BY <1>3, Zenon
<1>5. MapThenSumSet(LAMBDA m : Given(m, tag), S) = (CHOOSE g : g = [s \in SUBSET S |-> Own(g, s)])[S]
  BY DEF MapThenSumSet, MapThenFoldSet, Pick
<1>6. Summed(F, S) \in Int
  BY <1>1, <1>2, SummedIsInt
<1>7. MapThenSumSet(LAMBDA m : Given(m, tag), S) \in Int
  BY <1>4, <1>5, <1>6 DEF Summed
<1> QED BY <1>7 DEF Strength, Lesser, MaxStrength, S

LEMMA ShiftIsInt ==
  ASSUME NEW t, NEW field \in {"guard", "leash", "tenths", "defenders"}
  PROVE  Shift(t, field) \in Int
<1> DEFINE S == Tags(Leader[t])
           Move(tag) == Scaled(Personality[tag].coordination[field], Strength(Leader[t], tag))
           F == [tag \in S |-> Move(tag)]
           Own(g, s) == IF s = {} THEN 0 ELSE Move(Pick(s)) + g[s \ {Pick(s)}]
<1>1. \A tag \in S : tag \in DOMAIN Personality
  BY DEF Tags
<1> HIDE DEF S
<1>2. IsFiniteSet(S)
  BY <1>1, HabitsAssumption, FS_Subset
<1>3. ASSUME NEW tag \in S PROVE Move(tag) \in Int
  <2>1. Strength(Leader[t], tag) \in Int
    BY <1>1, StrengthIsInt
  <2>2. Personality[tag].coordination[field] \in Int
    BY <1>1, HabitsAssumption
  <2>3. \A n, k \in Int : (n * k) \div 100 \in Int
    OBVIOUS
  <2> QED BY <2>1, <2>2, <2>3 DEF Scaled
<1> HIDE DEF Move
<1>4. \A g : [s \in SUBSET S |-> Own(g, s)] = [s \in SUBSET S |-> SumStep(F, g, s)]
  <2> TAKE g
  <2>1. ASSUME NEW s \in SUBSET S PROVE Own(g, s) = SumStep(F, g, s)
    <3>1. s # {} => Pick(s) \in S
      BY DEF Pick
    <3> QED BY <3>1 DEF SumStep
  <2> QED BY <2>1
<1>5. (CHOOSE g : g = [s \in SUBSET S |-> Own(g, s)]) = (CHOOSE g : g = [s \in SUBSET S |-> SumStep(F, g, s)])
  BY <1>4, Zenon
<1>6. Shift(t, field) = (CHOOSE g : g = [s \in SUBSET S |-> Own(g, s)])[S]
  BY DEF Shift, MapThenSumSet, MapThenFoldSet, Pick, Move, S
<1>7. Summed(F, S) \in Int
  BY <1>2, <1>3, SummedIsInt
<1> QED BY <1>5, <1>6, <1>7 DEF Summed

LEMMA MembersAreFinite ==
  ASSUME NEW t
  PROVE  /\ Members(t) \subseteq Unit /\ IsFiniteSet(Members(t)) /\ Cardinality(Members(t)) \in Nat
<1>1. Members(t) \subseteq Unit
  BY DEF Members, Living
<1> QED BY <1>1, RosterAssumption, FS_Subset, FS_CardinalityType

LEMMA BudgetIsHalf ==
  ASSUME NEW t
  PROVE  Budget(t) \in Nat /\ 2 * Budget(t) <= Cardinality(Members(t))
<1>1. Shift(t, "defenders") \in Int
  BY ShiftIsInt
<1>2. Clamp(100 + Shift(t, "defenders"), 0, 300) \in 0..300
  BY <1>1 DEF Clamp, Greater, Lesser
<1>3. Defenders(t) \in Nat
  BY <1>2 DEF Defenders
<1>4. Cardinality(Members(t)) \in Nat
  BY MembersAreFinite
<1> QED BY <1>3, <1>4 DEF Budget, Lesser

------------------------------------------------------------------------------------
(* The needs of a troop, and who answers them.                                      *)

NeedOf == [target : Unit, protecting : Unit]

LEMMA NeedsAreFinite ==
  ASSUME NEW t
  PROVE  Needs(t) \subseteq NeedOf /\ IsFiniteSet(Needs(t))
<1>1. Needs(t) \subseteq NeedOf
  <2>1. UNION {Enemies(u) : u \in Members(t)} \subseteq Unit /\ Members(t) \subseteq Unit
    BY AnswerableIsFielded, MembersAreFinite
  <2> QED BY <2>1 DEF Needs, NeedOf
<1> DEFINE F == [p \in Unit \X Unit |-> [target |-> p[1], protecting |-> p[2]]]
<1>2. F \in Surjection(Unit \X Unit, NeedOf)
  <2>1. F \in [Unit \X Unit -> NeedOf]
    BY DEF NeedOf
  <2>2. ASSUME NEW n \in NeedOf PROVE \E p \in Unit \X Unit : F[p] = n
    <3>1. <<n.target, n.protecting>> \in Unit \X Unit /\ n = [target |-> n.target, protecting |-> n.protecting]
      BY DEF NeedOf
    <3>2. F[<<n.target, n.protecting>>] = n
      BY <3>1
    <3> QED BY <3>1, <3>2
  <2> QED BY <2>1, <2>2 DEF Surjection
<1>3. IsFiniteSet(Unit \X Unit)
  BY RosterAssumption, FS_Product
<1>4. IsFiniteSet(NeedOf)
  BY <1>2, <1>3, FS_Surjection
<1> QED BY <1>1, <1>4, FS_Subset

LEMMA LeastUrgentIsOne ==
  ASSUME Lives, NEW t, NEW s \in SUBSET Needs(t), s # {}
  PROVE  LeastUrgent(s) \in s
<1> DEFINE R == {p \in s \X s : MoreUrgent(p[1], p[2])}
<1>1. s \subseteq NeedOf /\ IsFiniteSet(s)
  BY NeedsAreFinite, FS_Subset
<1>2. ASSUME NEW n \in s, NEW m \in s, n # m PROVE <<n, m>> \in R \/ <<m, n>> \in R
  <2>1. n \in NeedOf /\ m \in NeedOf
    BY <1>1
  <2>2. MoreUrgent(n, m) \/ MoreUrgent(m, n)
    <3>1. CASE n.protecting = m.protecting
      <4>1. /\ n = [target |-> n.target, protecting |-> n.protecting]
            /\ m = [target |-> m.target, protecting |-> m.protecting]
            /\ n.target \in Nat /\ m.target \in Nat
        BY <2>1, RosterAssumption DEF NeedOf
      <4>2. n.target # m.target
        BY <1>2, <3>1, <4>1
      <4> QED BY <3>1, <4>1, <4>2 DEF MoreUrgent
    <3>2. CASE n.protecting # m.protecting
      BY <2>1, <3>2, NeedierFacts DEF MoreUrgent, NeedOf
    <3> QED BY <3>1, <3>2
  <2> QED BY <2>2
<1>3. ASSUME NEW a \in s, NEW b \in s, NEW c \in s, <<a, b>> \in R, <<b, c>> \in R PROVE <<a, c>> \in R
  <2>1. a \in NeedOf /\ b \in NeedOf /\ c \in NeedOf /\ MoreUrgent(a, b) /\ MoreUrgent(b, c)
    BY <1>1, <1>3
  <2>2. /\ a.protecting \in Unit /\ b.protecting \in Unit /\ c.protecting \in Unit
        /\ a.target \in Nat /\ b.target \in Nat /\ c.target \in Nat
    BY <2>1, RosterAssumption DEF NeedOf
  <2>3. MoreUrgent(a, c)
    <3>1. CASE a.protecting = b.protecting /\ b.protecting = c.protecting
      BY <2>1, <2>2, <3>1 DEF MoreUrgent
    <3>2. CASE a.protecting = b.protecting /\ b.protecting # c.protecting
      BY <2>1, <2>2, <3>2 DEF MoreUrgent
    <3>3. CASE a.protecting # b.protecting /\ b.protecting = c.protecting
      BY <2>1, <2>2, <3>3 DEF MoreUrgent
    <3>4. CASE a.protecting # b.protecting /\ b.protecting # c.protecting
      <4>1. NeedierThan(a.protecting, b.protecting) /\ NeedierThan(b.protecting, c.protecting)
        BY <2>1, <3>4 DEF MoreUrgent
      <4>2. NeedierThan(a.protecting, c.protecting)
        BY <2>2, <4>1, NeedierFacts
      <4>3. a.protecting # c.protecting
        BY <2>2, <4>2, NeedierFacts
      <4> QED BY <4>2, <4>3 DEF MoreUrgent
    <3> QED BY <3>1, <3>2, <3>3, <3>4
  <2> QED BY <2>3
<1>4. \E x \in s : \A y \in s \ {x} : <<y, x>> \in R
  <2> HIDE DEF R
  <2>1. \A x, y \in s : x # y => <<x, y>> \in R \/ <<y, x>> \in R
    BY <1>2
  <2>2. \A x, y, z \in s : <<x, y>> \in R /\ <<y, z>> \in R => <<x, z>> \in R
    BY <1>3
  <2> QED BY <1>1, <2>1, <2>2, LastOfMany
<1>5. \E n \in s : \A m \in s \ {n} : MoreUrgent(m, n)
  BY <1>4
<1> QED BY <1>5 DEF LeastUrgent

LEMMA ClosestIsOne ==
  ASSUME OnTheLine, NEW us \in SUBSET Unit, NEW v \in Unit
  PROVE  /\ us # {} => Closest(us, v) # {}
         /\ Closest(us, v) \subseteq us
         /\ \A u, w \in Closest(us, v) : u = w
<1>1. \A u \in us : Distance(u, v) \in Nat /\ u \in Nat
  BY StandoffIsReal, RosterAssumption
<1>2. ASSUME us # {} PROVE Closest(us, v) # {}
  <2> DEFINE gaps == {Distance(u, v) : u \in us}
  <2>1. gaps \in SUBSET Nat /\ gaps # {}
    BY <1>1, <1>2
  <2>2. PICK d \in gaps : \A y \in gaps : d <= y
    <3> HIDE DEF gaps
    <3> QED BY <2>1, SmallestOfMany
  <2> DEFINE near == {u \in us : Distance(u, v) = d}
  <2>3. near \in SUBSET Nat /\ near # {}
    BY <1>1, <2>2
  <2>4. PICK u \in near : \A w \in near : u <= w
    <3> HIDE DEF near
    <3> QED BY <2>3, SmallestOfMany
  <2>5. ASSUME NEW w \in us \ {u}
        PROVE  Distance(u, v) < Distance(w, v) \/ (Distance(u, v) = Distance(w, v) /\ u < w)
    <3>1. Distance(u, v) = d /\ d <= Distance(w, v) /\ d \in Nat /\ Distance(w, v) \in Nat /\ u \in Nat /\ w \in Nat
      BY <1>1, <2>2, <2>4
    <3>2. Distance(w, v) = d => u <= w
      BY <2>4
    <3> QED BY <2>5, <3>1, <3>2
  <2>6. u \in Closest(us, v)
    BY <2>4, <2>5 DEF Closest
  <2> QED BY <2>6
<1>3. ASSUME NEW u \in Closest(us, v), NEW w \in Closest(us, v), u # w PROVE FALSE
  <2>1. u \in us /\ w \in us
    BY DEF Closest
  <2>2. Distance(u, v) < Distance(w, v) \/ (Distance(u, v) = Distance(w, v) /\ u < w)
    BY <1>3, <2>1 DEF Closest
  <2>3. Distance(w, v) < Distance(u, v) \/ (Distance(w, v) = Distance(u, v) /\ w < u)
    BY <1>3, <2>1 DEF Closest
  <2> QED BY <1>1, <2>1, <2>2, <2>3
<1> QED BY <1>2, <1>3 DEF Closest

(* What a troop has asked of its members: no more than its budget allows, each of    *)
(* somebody else, for a need there is.                                               *)
Asks == [unit : Unit, target : Unit, protecting : Unit, age : Nat]
Paired(given) == \A a, b \in given : a # b => a.unit # b.unit /\ a.target # b.target
Wanted(t, a) == /\ a.unit \in Members(t) \ {a.protecting}
                /\ [target |-> a.target, protecting |-> a.protecting] \in Needs(t)
Sent(t, given) == /\ given \subseteq Asks /\ IsFiniteSet(given) /\ Paired(given)
                  /\ Cardinality(given) <= Budget(t)
                  /\ \A a \in given : Wanted(t, a)
(* And of the needs it has been through, none is open that somebody free could meet. *)
Settled(t, given, needs) ==
  Cardinality(given) < Budget(t) =>
    \A need \in needs : (\A a \in given : a.target # need.target) => Free(t, need, given) = {}

Older(a) == [a EXCEPT !.age = @ + 1]
LEMMA OlderFacts ==
  ASSUME NEW a \in Asks
  PROVE  /\ Older(a) \in Asks /\ Older(a).unit = a.unit /\ Older(a).target = a.target
         /\ Older(a).protecting = a.protecting
  BY DEF Asks, Older

LEMMA KeptIsSent ==
  ASSUME NEW t, assigned[t] \subseteq Asks, IsFiniteSet(assigned[t]), Paired(assigned[t])
  PROVE  Sent(t, Kept(t))
<1> DEFINE standing == {a \in assigned[t] : Stands(t, a)}
           Ahead(b) == {c \in standing : c.unit < b.unit}
           K == {b \in standing : Cardinality(Ahead(b)) < Budget(t)}
           F == [a \in K |-> Older(a)]
<1>1. Kept(t) = {Older(a) : a \in K}
  BY DEF Kept, Older
<1>2. /\ K \subseteq standing /\ standing \subseteq assigned[t] /\ standing \subseteq Asks
      /\ IsFiniteSet(standing) /\ IsFiniteSet(K)
  <2>1. standing \in SUBSET assigned[t] /\ K \in SUBSET assigned[t]
    OBVIOUS
  <2>2. IsFiniteSet(standing) /\ IsFiniteSet(K)
    <3> HIDE DEF standing, K
    <3> QED BY <2>1, FS_Subset
  <2> QED BY <2>2
<1>3. \A b \in K : b \in standing /\ Cardinality(Ahead(b)) < Budget(t)
  OBVIOUS
<1>4. \A b : IsFiniteSet(Ahead(b))
  <2> TAKE b
  <2>1. Ahead(b) \in SUBSET standing
    OBVIOUS
  <2> HIDE DEF standing, Ahead
  <2> QED BY <1>2, <2>1, FS_Subset
<1>5. \A a \in standing : Stands(t, a)
  OBVIOUS
<1>6. \A b, c : c \in Ahead(b) <=> c \in standing /\ c.unit < b.unit
  OBVIOUS
<1> HIDE DEF standing, Ahead, K
<1>7. Cardinality(K) <= Budget(t) /\ Cardinality(K) \in Nat
  <2>1. CASE K = {}
    BY <2>1, FS_EmptySet, BudgetIsHalf
  <2>2. CASE K # {}
    <3> DEFINE R == {p \in K \X K : p[1].unit < p[2].unit}
    <3>1. \A a \in K : a.unit \in Nat
      BY <1>2, RosterAssumption DEF Asks
    <3>2. ASSUME NEW a \in K, NEW b \in K, a # b PROVE <<a, b>> \in R \/ <<b, a>> \in R
      <4>1. a.unit # b.unit
        BY <1>2, <3>2 DEF Paired
      <4> QED BY <3>1, <4>1
    <3>3. ASSUME NEW a \in K, NEW b \in K, NEW c \in K, <<a, b>> \in R, <<b, c>> \in R PROVE <<a, c>> \in R
      <4>1. a.unit < b.unit /\ b.unit < c.unit
        BY <3>3
      <4> QED BY <3>1, <4>1
    <3>4. PICK b \in K : \A a \in K \ {b} : <<a, b>> \in R
      <4> HIDE DEF R
      <4>1. \A x, y \in K : x # y => <<x, y>> \in R \/ <<y, x>> \in R
        BY <3>2
      <4>2. \A x, y, z \in K : <<x, y>> \in R /\ <<y, z>> \in R => <<x, z>> \in R
        BY <3>3
      <4> QED BY <1>2, <2>2, <4>1, <4>2, LastOfMany
    <3>5. \A a \in K \ {b} : a.unit < b.unit
      BY <3>4
    <3>6. K \ {b} \in SUBSET Ahead(b)
      BY <1>2, <1>6, <3>5
    <3>7. Cardinality(K \ {b}) <= Cardinality(Ahead(b)) /\ Cardinality(Ahead(b)) \in Nat
      BY <1>4, <3>6, FS_Subset, FS_CardinalityType
    <3>8. Cardinality(K \ {b}) = Cardinality(K) - 1 /\ Cardinality(K) \in Nat
      BY <1>2, <3>4, FS_RemoveElement, FS_CardinalityType
    <3> QED BY <1>3, <3>7, <3>8, BudgetIsHalf
  <2> QED BY <2>1, <2>2
<1>8. F \in Surjection(K, Kept(t))
  BY <1>1 DEF Surjection
<1>9. IsFiniteSet(Kept(t)) /\ Cardinality(Kept(t)) <= Cardinality(K)
  BY <1>2, <1>8, FS_Surjection
<1>10. Cardinality(Kept(t)) <= Budget(t)
  <2>1. Cardinality(Kept(t)) \in Nat
    BY <1>9, FS_CardinalityType
  <2> QED BY <1>7, <1>9, <2>1, BudgetIsHalf
<1>11. Kept(t) \subseteq Asks
  BY <1>1, <1>2, OlderFacts
<1>12. Paired(Kept(t))
  <2> SUFFICES ASSUME NEW a \in Kept(t), NEW b \in Kept(t), a # b PROVE a.unit # b.unit /\ a.target # b.target
    BY DEF Paired
  <2>1. PICK c \in K : a = Older(c)
    BY <1>1
  <2>2. PICK d \in K : b = Older(d)
    BY <1>1
  <2>3. c # d /\ c \in assigned[t] /\ d \in assigned[t]
    BY <1>2, <2>1, <2>2
  <2>4. c.unit # d.unit /\ c.target # d.target
    BY <2>3 DEF Paired
  <2> QED BY <1>2, <2>1, <2>2, <2>4, OlderFacts
<1>13. ASSUME NEW a \in Kept(t) PROVE Wanted(t, a)
  <2>1. PICK c \in K : a = Older(c)
    BY <1>1
  <2>2. Stands(t, c) /\ c \in Asks
    BY <1>2, <1>5
  <2>3. /\ c.unit \in Members(t) /\ [target |-> c.target, protecting |-> c.protecting] \in Needs(t)
        /\ c.unit # c.protecting
    BY <2>2 DEF Stands, EligibleFor
  <2> QED BY <2>1, <2>2, <2>3, OlderFacts DEF Wanted
<1> QED BY <1>9, <1>10, <1>11, <1>12, <1>13 DEF Sent

LEMMA AnswerKeeps ==
  ASSUME OnTheLine, NEW t, NEW given, NEW needs \in SUBSET Needs(t), NEW need \in Needs(t),
         Sent(t, given), Settled(t, given, needs)
  PROVE  /\ Sent(t, Answer(t, given, need))
         /\ Settled(t, Answer(t, given, need), needs \cup {need})
<1> DEFINE open == Free(t, need, given)
           more == Answer(t, given, need)
           Ask(u) == [unit |-> u, target |-> need.target, protecting |-> need.protecting, age |-> 0]
<1>1. /\ given \subseteq Asks /\ IsFiniteSet(given) /\ Paired(given) /\ Cardinality(given) <= Budget(t)
      /\ Cardinality(given) \in Nat /\ Budget(t) \in Nat /\ \A a \in given : Wanted(t, a)
  BY FS_CardinalityType, BudgetIsHalf DEF Sent
<1>2. /\ need \in NeedOf /\ need.target \in Unit /\ need.protecting \in Unit
      /\ need = [target |-> need.target, protecting |-> need.protecting]
  BY NeedsAreFinite DEF NeedOf
<1>3. open \in SUBSET Unit /\ \A u \in open : /\ u \in Members(t) \ {need.protecting}
                                              /\ \A a \in given : a.unit # u
  BY MembersAreFinite DEF Free, EligibleFor
<1>4. CASE Cardinality(given) >= Budget(t)
  <2>1. more = given
    BY <1>4 DEF Answer
  <2>2. ~(Cardinality(given) < Budget(t))
    BY <1>1, <1>4
  <2> QED BY <2>1, <2>2 DEF Settled
<1>5. CASE \E a \in given : a.target = need.target
  <2>1. more = given
    BY <1>5 DEF Answer
  <2> QED BY <1>5, <2>1 DEF Settled
<1>6. CASE Cardinality(given) < Budget(t) /\ \A a \in given : a.target # need.target
  <2>0. ~(Cardinality(given) >= Budget(t) \/ \E a \in given : a.target = need.target)
    BY <1>1, <1>6
  <2>1. more = given \cup {Ask(u) : u \in Closest(open, need.target)}
    BY <2>0 DEF Answer
  <2>2. CASE open = {}
    <3>1. Closest(open, need.target) = {}
      BY <1>2, <1>3, <2>2, ClosestIsOne
    <3>2. more = given
      BY <2>1, <3>1
    <3> HIDE DEF more
    <3>3. Settled(t, more, needs \cup {need})
      BY <2>2, <3>2 DEF Settled
    <3> QED BY <3>2, <3>3 DEF more
  <2>3. CASE open # {}
    <3> HIDE DEF open
    <3>1. PICK u : u \in Closest(open, need.target)
      BY <1>2, <1>3, <2>3, ClosestIsOne
    <3>2. Closest(open, need.target) = {u} /\ u \in open
      BY <1>2, <1>3, <3>1, ClosestIsOne
    <3>3. more = given \cup {Ask(u)}
      BY <2>1, <3>2
    <3> DEFINE a == Ask(u)
    <3>4. /\ a.unit = u /\ a.target = need.target /\ a.protecting = need.protecting
          /\ a \in Asks /\ a \notin given
      BY <1>2, <1>3, <1>6, <3>2 DEF Asks
    <3>5. Wanted(t, a)
      BY <1>2, <1>3, <3>2, <3>4 DEF Wanted
    <3> HIDE DEF a, more
    <3>6. more = given \cup {a}
      BY <3>3 DEF a
    <3>7. IsFiniteSet(more) /\ Cardinality(more) = Cardinality(given) + 1
      BY <1>1, <3>4, <3>6, FS_AddElement
    <3>8. Paired(more)
      BY <1>1, <1>3, <1>6, <3>2, <3>4, <3>6 DEF Paired
    <3>9. Sent(t, more)
      BY <1>1, <1>6, <3>4, <3>5, <3>6, <3>7, <3>8 DEF Sent
    <3>10. Settled(t, more, needs \cup {need})
      <4> SUFFICES ASSUME Cardinality(more) < Budget(t), NEW n \in needs \cup {need},
                          \A b \in more : b.target # n.target
                   PROVE  Free(t, n, more) = {}
        BY DEF Settled
      <4>1. n # need /\ n \in needs
        BY <3>4, <3>6
      <4>2. \A b \in given : b.target # n.target
        BY <3>6
      <4>3. Free(t, n, given) = {}
        BY <1>6, <4>1, <4>2 DEF Settled
      <4> QED BY <3>6, <4>3 DEF Free
    <3> QED BY <3>9, <3>10 DEF more
  <2> QED BY <2>2, <2>3
<1> QED BY <1>1, <1>4, <1>5, <1>6

(* Through the needs one after the other, in their order. *)
AnswerStep(t, g, s) == IF s = {} THEN Kept(t) ELSE Answer(t, g[s \ {LeastUrgent(s)}], LeastUrgent(s))

LEMMA AnswersAreRecursive ==
  ASSUME Lives, NEW t
  PROVE  \E g : g = [s \in SUBSET Needs(t) |-> AnswerStep(t, g, s)]
<1> DEFINE N == Needs(t)
           IsMap(g) == g = [s \in SUBSET N |-> g[s]]
           Upto(g, n) == \A s \in SUBSET N : Cardinality(s) <= n => g[s] = AnswerStep(t, g, s)
           Missed == {n \in Nat : \A g : ~(IsMap(g) /\ Upto(g, n))}
<1>1. \A s \in SUBSET N : /\ Cardinality(s) \in Nat /\ Cardinality(s) <= Cardinality(N)
                          /\ (s = {} <=> Cardinality(s) = 0)
                          /\ s # {} => /\ s \ {LeastUrgent(s)} \in SUBSET N
                                       /\ Cardinality(s \ {LeastUrgent(s)}) = Cardinality(s) - 1
  <2> TAKE s \in SUBSET N
  <2>1. IsFiniteSet(s) /\ Cardinality(s) <= Cardinality(N)
    BY NeedsAreFinite, FS_Subset
  <2>2. Cardinality(s) \in Nat /\ (s = {} <=> Cardinality(s) = 0)
    BY <2>1, FS_CardinalityType, FS_EmptySet
  <2>3. ASSUME s # {} PROVE Cardinality(s \ {LeastUrgent(s)}) = Cardinality(s) - 1
    BY <2>1, <2>3, LeastUrgentIsOne, FS_RemoveElement
  <2> QED BY <2>1, <2>2, <2>3
<1> HIDE DEF N, Upto, IsMap
<1>2. Missed = {}
  <2>1. SUFFICES ASSUME Missed # {} PROVE FALSE
    OBVIOUS
  <2>2. PICK n \in Missed : \A m \in Missed : n <= m
    BY <2>1, SmallestOfMany
  <2>3. n \in Nat
    OBVIOUS
  <2>4. CASE n = 0
    <3> DEFINE g == [s \in SUBSET N |-> Kept(t)]
    <3>1. IsMap(g)
      BY DEF IsMap
    <3>2. ASSUME NEW s \in SUBSET N, Cardinality(s) <= 0 PROVE s = {}
      <4>1. Cardinality(s) \in Nat /\ (Cardinality(s) = 0 => s = {})
        BY <1>1
      <4> QED BY <3>2, <4>1
    <3>3. Upto(g, 0)
      BY <3>2 DEF Upto, AnswerStep
    <3> QED BY <2>2, <2>4, <3>1, <3>3
  <2>5. CASE n # 0
    <3>1. n - 1 \in Nat /\ n - 1 \notin Missed
      <4> HIDE DEF Missed
      <4> QED BY <2>2, <2>3, <2>5
    <3>2. PICK g : IsMap(g) /\ Upto(g, n - 1)
      BY <3>1
    <3> DEFINE h == [s \in SUBSET N |-> IF Cardinality(s) <= n - 1 THEN g[s] ELSE AnswerStep(t, g, s)]
    <3>3. IsMap(h)
      BY DEF IsMap
    <3>4. ASSUME NEW s \in SUBSET N, Cardinality(s) <= n PROVE h[s] = AnswerStep(t, h, s)
      <4>1. h[s] = AnswerStep(t, g, s)
        BY <3>2 DEF Upto
      <4>2. s # {} => h[s \ {LeastUrgent(s)}] = g[s \ {LeastUrgent(s)}]
        BY <1>1, <3>1, <3>4
      <4> QED BY <4>1, <4>2 DEF AnswerStep
    <3>5. Upto(h, n)
      BY <3>4 DEF Upto
    <3> QED BY <2>2, <3>3, <3>5
  <2> QED BY <2>4, <2>5
<1>3. Cardinality(N) \in Nat
  BY <1>1
<1>4. PICK g : IsMap(g) /\ Upto(g, Cardinality(N))
  BY <1>2, <1>3
<1>5. \A s \in SUBSET N : g[s] = AnswerStep(t, g, s)
  BY <1>1, <1>4 DEF Upto
<1>6. g = [s \in SUBSET N |-> AnswerStep(t, g, s)]
  BY <1>4, <1>5 DEF IsMap
<1> QED BY <1>6 DEF N

LEMMA CoordinatedIsSettled ==
  ASSUME OnTheLine, Lives, NEW t, Led(t),
         assigned[t] \subseteq Asks, IsFiniteSet(assigned[t]), Paired(assigned[t])
  PROVE  Sent(t, Coordinated(t)) /\ Settled(t, Coordinated(t), Needs(t))
<1> DEFINE N == Needs(t)
           G == CHOOSE g : g = [s \in SUBSET N |-> AnswerStep(t, g, s)]
           Good(s) == Sent(t, G[s]) /\ Settled(t, G[s], s)
           Bad == {n \in Nat : \E s \in SUBSET N : Cardinality(s) = n /\ ~Good(s)}
<1>1. Coordinated(t) = G[N]
  BY DEF Coordinated, MapThenFoldSet, AnswerStep
<1>2. G = [s \in SUBSET N |-> AnswerStep(t, G, s)]
  BY AnswersAreRecursive
<1> HIDE DEF G
<1>3. \A s \in SUBSET N : G[s] = AnswerStep(t, G, s)
  BY <1>2
<1>4. IsFiniteSet(N)
  BY NeedsAreFinite
<1>5. Bad = {}
  <2>1. SUFFICES ASSUME Bad # {} PROVE FALSE
    OBVIOUS
  <2>2. PICK n \in Bad : \A m \in Bad : n <= m
    <3>1. Bad \in SUBSET Nat
      OBVIOUS
    <3> HIDE DEF Bad
    <3> QED BY <2>1, <3>1, SmallestOfMany
  <2>3. PICK s \in SUBSET N : Cardinality(s) = n /\ ~Good(s)
    BY <2>2
  <2>4. CASE s = {}
    <3>1. G[s] = Kept(t)
      BY <1>3, <2>4 DEF AnswerStep
    <3>2. Settled(t, G[s], {})
      BY DEF Settled
    <3> QED BY <2>3, <2>4, <3>1, <3>2, KeptIsSent
  <2>5. CASE s # {}
    <3> DEFINE need == LeastUrgent(s)
               r == s \ {need}
    <3>1. need \in s /\ IsFiniteSet(s) /\ n \in Nat
      BY <1>4, <2>5, LeastUrgentIsOne, FS_Subset
    <3>2. r \in SUBSET N /\ Cardinality(r) = n - 1 /\ Cardinality(r) \in Nat
      BY <2>3, <3>1, FS_RemoveElement, FS_Subset, FS_CardinalityType
    <3>3. G[s] = Answer(t, G[r], need)
      BY <1>3, <2>5 DEF AnswerStep
    <3> HIDE DEF need
    <3>4. Cardinality(r) \notin Bad
      <4> HIDE DEF Bad, r
      <4> QED BY <2>2, <3>1, <3>2
    <3>5. Good(r)
      BY <3>2, <3>4
    <3>6. need \in N /\ s = r \cup {need}
      BY <3>1
    <3> HIDE DEF r
    <3>7. Sent(t, G[s]) /\ Settled(t, G[s], s)
      BY <3>2, <3>3, <3>5, <3>6, AnswerKeeps
    <3> QED BY <2>3, <3>7
  <2> QED BY <2>4, <2>5
<1>6. Good(N)
  <2>1. Cardinality(N) \in Nat /\ N \in SUBSET N
    BY <1>4, FS_CardinalityType
  <2> HIDE DEF N, Good
  <2> QED BY <1>5, <2>1
<1> QED BY <1>1, <1>6

------------------------------------------------------------------------------------
(* What was settled stays so until the units have acted: nothing it was settled on   *)
(* changes before they do.                                                           *)

WellSent(t) ==
  /\ Sent(t, assigned[t])
  /\ Led(t) => Settled(t, assigned[t], Needs(t))
HelpInv == /\ PursuitInv /\ Lives
           /\ DOMAIN assigned = Troop
           /\ \A t \in Troop : assigned[t] \subseteq Asks /\ IsFiniteSet(assigned[t]) /\ Paired(assigned[t])
           /\ stage \in {"decide", "act"} => \A t \in Troop : WellSent(t)

LEMMA FieldAsItWas ==
  ASSUME place' = place, hp' = hp, NEW t
  PROVE  /\ Members(t)' = Members(t) /\ Needs(t)' = Needs(t) /\ Budget(t)' = Budget(t) /\ Led(t)' = Led(t)
<1>1. Living' = Living /\ Members(t)' = Members(t)
  BY DEF Living, Members
<1>2. Led(t)' = Led(t)
  BY <1>1 DEF Led
<1>3. Budget(t)' = Budget(t)
  BY <1>1 DEF Budget
<1>4. \A u : Enemies(u)' = Enemies(u)
  BY <1>1 DEF Enemies
<1>5. Needs(t)' = Needs(t)
  BY <1>1, <1>4 DEF Needs, Neediest, NeedierThan, UnderThreat, Distance
<1> QED BY <1>1, <1>2, <1>3, <1>5

LEMMA FreeAsItWas ==
  ASSUME place' = place, hp' = hp, NEW t, NEW need, NEW given
  PROVE  Free(t, need, given)' = Free(t, need, given)
  BY FieldAsItWas DEF Free, EligibleFor, UnderThreat, CanReach, Distance

LEMMA WellSentAsItWas ==
  ASSUME place' = place, hp' = hp, NEW t, NEW given, assigned'[t] = given,
         Sent(t, given), Led(t) => Settled(t, given, Needs(t))
  PROVE  WellSent(t)'
<1>1. /\ Members(t)' = Members(t) /\ Needs(t)' = Needs(t) /\ Budget(t)' = Budget(t) /\ Led(t)' = Led(t)
  BY FieldAsItWas
<1>2. \A need : Free(t, need, given)' = Free(t, need, given)
  BY FreeAsItWas
<1>3. Sent(t, assigned[t])'
  BY <1>1 DEF Sent, Wanted, Asks, Paired
<1>4. Led(t)' => Settled(t, assigned[t], Needs(t))'
  BY <1>1, <1>2 DEF Settled, Free
<1> QED BY <1>3, <1>4 DEF WellSent

LEMMA HelpInit == Init => HelpInv
<1> SUFFICES ASSUME Init PROVE HelpInv
  OBVIOUS
<1>1. PursuitInv
  BY PursuitInit
<1>2. Lives
  BY RosterAssumption DEF Init, Lives
<1>3. DOMAIN assigned = Troop /\ \A t \in Troop : assigned[t] = {}
  BY DEF Init
<1>4. stage = "coordinate"
  BY DEF Init
<1> QED BY <1>1, <1>2, <1>3, <1>4, FS_EmptySet DEF HelpInv, Paired

LEMMA CoordinateHelps ==
  ASSUME HelpInv, Coordinate
  PROVE  /\ DOMAIN assigned' = Troop
         /\ \A t \in Troop : /\ assigned'[t] \subseteq Asks /\ IsFiniteSet(assigned'[t]) /\ Paired(assigned'[t])
                             /\ WellSent(t)'
<1>1. /\ assigned' = [t \in Troop |-> Coordinated(t)]
      /\ place' = place /\ hp' = hp
  BY DEF Coordinate
<1>2. ASSUME NEW t \in Troop
      PROVE  Sent(t, Coordinated(t)) /\ (Led(t) => Settled(t, Coordinated(t), Needs(t)))
  <2>1. CASE Led(t)
    BY <2>1, CoordinatedIsSettled DEF HelpInv, PursuitInv, Fielded
  <2>2. CASE ~Led(t)
    <3>1. Coordinated(t) = {}
      BY <2>2 DEF Coordinated
    <3>2. Sent(t, {})
      BY FS_EmptySet, BudgetIsHalf DEF Sent, Paired
    <3> QED BY <2>2, <3>1, <3>2
  <2> QED BY <2>1, <2>2
<1>3. ASSUME NEW t \in Troop
      PROVE  /\ assigned'[t] \subseteq Asks /\ IsFiniteSet(assigned'[t]) /\ Paired(assigned'[t])
             /\ WellSent(t)'
  <2>1. assigned'[t] = Coordinated(t)
    BY <1>1
  <2>2. Sent(t, Coordinated(t)) /\ (Led(t) => Settled(t, Coordinated(t), Needs(t)))
    BY <1>2
  <2>3. WellSent(t)'
    <3> DEFINE given == Coordinated(t)
    <3> HIDE DEF given
    <3> QED BY <1>1, <2>1, <2>2, WellSentAsItWas
  <2> QED BY <2>1, <2>2, <2>3 DEF Sent
<1> QED BY <1>1, <1>3

LEMMA FieldKeepsLives == Lives /\ Field => Lives'
<1> SUFFICES ASSUME Lives, Field PROVE Lives'
  OBVIOUS
<1>1. PICK lives \in Hurt : \E here : hp' = [u \in Unit |-> IF u \in here THEN lives[u] ELSE 0]
  BY DEF Field
<1>2. lives = hp \/ \E v \in Living : \E w \in {x \in Wounds[v] : x < hp[v]} : lives = [hp EXCEPT ![v] = w]
  BY <1>1 DEF Hurt
<1>3. ASSUME NEW u \in Unit PROVE lives[u] \in Nat
  <2>1. CASE lives = hp
    BY <2>1 DEF Lives
  <2>2. ASSUME NEW v \in Living, NEW w \in Wounds[v], lives = [hp EXCEPT ![v] = w] PROVE lives[u] \in Nat
    <3>1. v \in Unit /\ w \in Nat
      BY RosterAssumption DEF Living
    <3> QED BY <2>2, <3>1 DEF Lives
  <2> QED BY <1>2, <2>1, <2>2
<1> QED BY <1>1, <1>3 DEF Lives

LEMMA HelpStep == HelpInv /\ [Next]_vars => HelpInv'
<1> SUFFICES ASSUME HelpInv, [Next]_vars PROVE HelpInv'
  OBVIOUS
<1>1. PursuitInv'
  BY PursuitStep DEF HelpInv
<1>2. CASE Coordinate
  <2>1. hp' = hp
    BY <1>2 DEF Coordinate
  <2> QED BY <1>1, <1>2, <2>1, CoordinateHelps DEF HelpInv, Lives
<1>3. ASSUME assigned' = assigned, Lives', stage' \notin {"decide", "act"} PROVE HelpInv'
  BY <1>1, <1>3 DEF HelpInv, Paired, Asks
<1>4. ASSUME assigned' = assigned, place' = place, hp' = hp,
             stage' \in {"decide", "act"} => stage \in {"decide", "act"}
      PROVE  HelpInv'
  <2>1. Lives'
    BY <1>4 DEF HelpInv, Lives
  <2>2. ASSUME stage' \in {"decide", "act"}, NEW t \in Troop PROVE WellSent(t)'
    <3>1. WellSent(t)
      BY <1>4, <2>2 DEF HelpInv
    <3> DEFINE given == assigned[t]
    <3>2. assigned'[t] = given /\ Sent(t, given) /\ (Led(t) => Settled(t, given, Needs(t)))
      BY <1>4, <3>1 DEF WellSent
    <3> HIDE DEF given
    <3> QED BY <1>4, <3>2, WellSentAsItWas
  <2> QED BY <1>1, <1>4, <2>1, <2>2 DEF HelpInv, Paired, Asks
<1>5. ASSUME NEW u \in todo, Decide(u) PROVE HelpInv'
  <2>1. /\ assigned' = assigned /\ place' = place /\ hp' = hp /\ stage \in {"decide", "act"}
    BY <1>5 DEF Decide
  <2> QED BY <1>4, <2>1
<1>6. CASE NothingDecided
  <2>1. /\ assigned' = assigned /\ place' = place /\ hp' = hp /\ stage \in {"decide", "act"}
    BY <1>6 DEF NothingDecided, aiVars
  <2> QED BY <1>4, <2>1
<1>7. CASE Act
  <2>1. assigned' = assigned /\ hp' = hp /\ stage' = "field"
    BY <1>7 DEF Act, aiVars
  <2> QED BY <1>3, <2>1 DEF HelpInv, Lives
<1>8. CASE Field
  <2>1. assigned' = assigned /\ stage' = "coordinate" /\ Lives'
    BY <1>8, FieldKeepsLives DEF HelpInv, Field
  <2> QED BY <1>3, <2>1
<1>9. CASE UNCHANGED vars
  <2>1. assigned' = assigned /\ place' = place /\ hp' = hp /\ stage' = stage
    BY <1>9 DEF vars, aiVars
  <2> QED BY <1>4, <2>1
<1> QED BY <1>2, <1>5, <1>6, <1>7, <1>8, <1>9 DEF Next

(* coordination.py: for every roster, every library of personalities and every       *)
(* field, a troop never asks one unit to answer two threats or two units the same    *)
(* one, nor commits more than half of those living, asks nobody for what is no       *)
(* threat, and leaves one open only when nobody free can meet it.                    *)
THEOREM HelpIsSpentWell == Spec => []HelpIsWellSpent
<1>1. HelpInv => HelpIsWellSpent
  <2> SUFFICES ASSUME HelpInv, stage \in {"decide", "act"}, NEW t \in Troop
               PROVE  /\ \A a, b \in assigned[t] : a # b => a.unit # b.unit /\ a.target # b.target
                      /\ 2 * Cardinality(assigned[t]) <= Cardinality(Members(t))
                      /\ \A a \in assigned[t] :
                           /\ a.unit \in Members(t) \ {a.protecting}
                           /\ [target |-> a.target, protecting |-> a.protecting] \in Needs(t)
                      /\ Cardinality(assigned[t]) < Budget(t) /\ Led(t) =>
                           \A need \in Needs(t) : (\A a \in assigned[t] : a.target # need.target)
                                                    => Free(t, need, assigned[t]) = {}
    BY DEF HelpIsWellSpent
  <2>1. Sent(t, assigned[t]) /\ (Led(t) => Settled(t, assigned[t], Needs(t)))
    BY DEF HelpInv, WellSent
  <2>2. 2 * Cardinality(assigned[t]) <= Cardinality(Members(t))
    <3>1. Cardinality(assigned[t]) \in Nat /\ Cardinality(assigned[t]) <= Budget(t)
      BY <2>1, FS_CardinalityType DEF Sent
    <3> QED BY <3>1, BudgetIsHalf, MembersAreFinite
  <2> QED BY <2>1, <2>2 DEF Sent, Paired, Wanted, Settled
<1> QED BY <1>1, HelpInit, HelpStep, PTL DEF Spec
====================================================================================
