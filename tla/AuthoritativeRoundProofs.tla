---------------------- MODULE AuthoritativeRoundProofs ----------------------
(* What is proved of a round, for every map, every pool and every battle.   *)
EXTENDS AuthoritativeRound, FiniteSetTheorems, SequenceTheorems, TLAPS

-----------------------------------------------------------------------------
(* The queue.                                                               *)

(* injection_order is a strict weak order: what does not come before, in    *)
(* two steps, does not come before.                                         *)
LEMMA PrecedesIsAnOrder ==
  ASSUME NEW a \in SpellInjection, NEW b \in SpellInjection, NEW c \in SpellInjection
  PROVE  /\ ~Precedes(a, a)
         /\ Precedes(a, b) => ~Precedes(b, a)
         /\ ~Precedes(a, b) /\ ~Precedes(b, c) => ~Precedes(a, c)
<1>1. /\ a.tick \in Nat /\ a.spell \in Nat /\ a.at \in Nat /\ a.side \in Side
      /\ b.tick \in Nat /\ b.spell \in Nat /\ b.at \in Nat /\ b.side \in Side
      /\ c.tick \in Nat /\ c.spell \in Nat /\ c.at \in Nat /\ c.side \in Side
  BY SpellAssumption DEF SpellInjection
<1>2. \A s, t \in Side : /\ SideRank(s) \in Nat
                         /\ SideRank(s) = SideRank(t) => s = t
  BY DEF SideRank, Side
<1> QED BY <1>1, <1>2 DEF Precedes

(* A set of places that holds every place before one it holds is a front.   *)
LEMMA FrontOfPlaces ==
  ASSUME NEW l \in Nat, NEW F \in SUBSET (1..l),
         \A i, j \in 1..l : i < j /\ j \in F => i \in F
  PROVE  Cardinality(F) \in 0..l /\ F = 1..Cardinality(F)
<1>1. IsFiniteSet(1..l) /\ Cardinality(1..l) = l
  BY FS_Interval
<1>2. IsFiniteSet(F) /\ Cardinality(F) <= l
  BY <1>1, FS_Subset
<1>3. Cardinality(F) \in Nat
  BY <1>2, FS_CardinalityType
<1> DEFINE n == Cardinality(F)
<1>4. F \subseteq 1..n
  <2> SUFFICES ASSUME NEW k \in F PROVE k \in 1..n
    OBVIOUS
  <2>1. k \in 1..l /\ 1..k \subseteq F
    OBVIOUS
  <2>2. Cardinality(1..k) = k
    BY <2>1, FS_Interval
  <2>3. Cardinality(1..k) <= Cardinality(F)
    BY <1>2, <2>1, FS_Subset
  <2> QED BY <1>3, <2>1, <2>2, <2>3
<1>5. IsFiniteSet(1..n) /\ Cardinality(1..n) = n
  BY <1>3, FS_Interval
<1>6. F = 1..n
  BY <1>4, <1>5, FS_Subset
<1> QED BY <1>2, <1>3, <1>6

(* Where a spell goes in the queue: the entries before it keep their place, *)
(* those after it move up by one.                                           *)
Place(q, e) == Cardinality({i \in DOMAIN q : ~Precedes(e, q[i])}) + 1

LEMMA InjectShape ==
  ASSUME NEW S, NEW q \in Seq(S), NEW e \in S
  PROVE  /\ Place(q, e) \in 1..(Len(q) + 1)
         /\ Inject(q, e) \in Seq(S)
         /\ Len(Inject(q, e)) = Len(q) + 1
         /\ \A i \in 1..(Len(q) + 1) :
              Inject(q, e)[i] = IF i < Place(q, e) THEN q[i]
                                ELSE IF i = Place(q, e) THEN e ELSE q[i - 1]
<1> DEFINE before == {i \in DOMAIN q : ~Precedes(e, q[i])}
           n == Cardinality(before)
<1>1. n \in 0..Len(q)
  <2>1. DOMAIN q = 1..Len(q) /\ Len(q) \in Nat
    OBVIOUS
  <2>2. IsFiniteSet(1..Len(q)) /\ Cardinality(1..Len(q)) = Len(q)
    BY <2>1, FS_Interval
  <2>3. before \subseteq 1..Len(q)
    BY <2>1
  <2>4. Cardinality(before) <= Len(q) /\ IsFiniteSet(before)
    BY <2>2, <2>3, FS_Subset
  <2>5. Cardinality(before) \in Nat
    BY <2>4, FS_CardinalityType
  <2> QED BY <2>1, <2>4, <2>5
<1> DEFINE k == Place(q, e)
<1>2. k = n + 1
  BY Zenon DEF Place
<1> HIDE DEF n, before
<1>3. k \in 1..(Len(q) + 1)
  BY <1>1, <1>2
<1>4. Inject(q, e) = InsertAt(q, k, e)
  BY Zenon DEF Inject, Place
<1> HIDE DEF k
<1> DEFINE l == SubSeq(q, 1, k - 1)
           r == SubSeq(q, k, Len(q))
<1>5. InsertAt(q, k, e) = (l \o <<e>>) \o r
  BY DEF InsertAt
<1>6. /\ l \in Seq(S) /\ Len(l) = k - 1 
      /\ \A i \in 1..(k - 1) : l[i] = q[i]
  BY <1>3
<1>7. /\ r \in Seq(S) /\ Len(r) = Len(q) + 1 - k
      /\ \A i \in 1..(Len(q) + 1 - k) : r[i] = q[k + i - 1]
  BY <1>3
<1> HIDE DEF l, r
<1> DEFINE m == l \o <<e>>
<1>8. /\ m \in Seq(S) /\ Len(m) = k
      /\ \A i \in 1..k : m[i] = IF i < k THEN q[i] ELSE e
  BY <1>3, <1>6
<1> HIDE DEF m
<1>9. /\ m \o r \in Seq(S) /\ Len(m \o r) = Len(m) + Len(r)
      /\ \A i \in 1..(Len(m) + Len(r)) :
            (m \o r)[i] = IF i <= Len(m) THEN m[i] ELSE r[i - Len(m)]
  BY <1>7, <1>8, ConcatProperties
<1>10. Len(m) + Len(r) = Len(q) + 1 /\ Len(q) \in Nat
  BY <1>3, <1>7, <1>8
<1>11. Inject(q, e) = m \o r
  BY <1>4, <1>5 DEF m
<1>12. ASSUME NEW i \in 1..(Len(q) + 1)
       PROVE  (m \o r)[i] = IF i < k THEN q[i] ELSE IF i = k THEN e ELSE q[i - 1]
  <2>1. CASE i <= k
    BY <2>1, <1>3, <1>8, <1>9, <1>10
  <2>2. CASE i > k
    <3>1. (m \o r)[i] = r[i - k]
      BY <2>2, <1>3, <1>8, <1>9, <1>10
    <3>2. i - k \in 1..(Len(q) + 1 - k) /\ k + (i - k) - 1 = i - 1
      BY <2>2, <1>3, <1>10
    <3>3. r[i - k] = q[k + (i - k) - 1]
      BY <3>2, <1>7
    <3> QED BY <2>2, <3>1, <3>2, <3>3, <1>3, <1>10
  <2> QED BY <2>1, <2>2, <1>3, <1>10
<1> QED BY <1>3, <1>9, <1>10, <1>11, <1>12 DEF k

Sorted(q) == \A i, j \in DOMAIN q : i < j => ~Precedes(q[j], q[i])

(* bisect_right into a queue in order leaves it in order.                   *)
LEMMA InjectKeepsOrder ==
  ASSUME NEW q \in Seq(SpellInjection), NEW e \in SpellInjection, Sorted(q)
  PROVE  Sorted(Inject(q, e))
<1> DEFINE F == {i \in DOMAIN q : ~Precedes(e, q[i])}
           k == Place(q, e)
           l == Len(q)
           z == Inject(q, e)
<1>1. DOMAIN q = 1..l /\ l \in Nat /\ \A i \in 1..l : q[i] \in SpellInjection
  BY ElementOfSeq
<1>2. F = 1..Cardinality(F) /\ Cardinality(F) \in 0..l
  <2>1. ASSUME NEW i \in 1..l, NEW j \in 1..l, i < j, j \in F PROVE i \in F
    <3>1. ~Precedes(q[j], q[i]) /\ ~Precedes(e, q[j])
      BY <2>1, <1>1 DEF Sorted
    <3> QED BY <3>1, <1>1, PrecedesIsAnOrder
  <2>2. F \in SUBSET (1..l)
    BY <1>1
  <2> HIDE DEF F, l
  <2> QED BY <2>1, <2>2, <1>1, FrontOfPlaces
<1>3. k = Cardinality(F) + 1
  BY Zenon DEF Place
<1>4. /\ z \in Seq(SpellInjection) /\ Len(z) = l + 1
      /\ \A i \in 1..(l + 1) : z[i] = IF i < k THEN q[i] ELSE IF i = k THEN e ELSE q[i - 1]
  BY InjectShape
<1>5. DOMAIN z = 1..(l + 1)
  BY <1>1, <1>4
<1>13. \A i \in 1..l : i \in F <=> ~Precedes(e, q[i])
  BY <1>1
<1>6. \A i \in 1..l : i < k <=> ~Precedes(e, q[i])
  <2> HIDE DEF F, k, l
  <2> QED BY <1>1, <1>2, <1>3, <1>13
<1>7. k \in 1..(l + 1)
  BY <1>1, <1>2, <1>3
<1> HIDE DEF F, k, l, z
<1> SUFFICES ASSUME NEW i \in 1..(l + 1), NEW j \in 1..(l + 1), i < j
             PROVE  ~Precedes(z[j], z[i])
  BY <1>5 DEF Sorted, z
<1>8. \A a, b \in 1..l : a < b => ~Precedes(q[b], q[a])
  BY <1>1 DEF Sorted
<1>9. CASE i = k
  <2>1. z[i] = e /\ z[j] = q[j - 1] /\ j - 1 \in 1..l /\ ~(j - 1 < k)
    BY <1>1, <1>4, <1>7, <1>9
  <2> QED BY <2>1, <1>1, <1>6, PrecedesIsAnOrder
<1>10. CASE j = k
  <2>1. z[j] = e /\ z[i] = q[i] /\ i \in 1..l /\ i < k
    BY <1>1, <1>4, <1>7, <1>10
  <2> QED BY <2>1, <1>6
<1>11. CASE i # k /\ j # k
  <2>1. CASE j < k
    BY <2>1, <1>1, <1>4, <1>7, <1>8
  <2>2. CASE i < k /\ k < j
    <3>1. z[i] = q[i] /\ z[j] = q[j - 1] /\ i \in 1..l /\ j - 1 \in 1..l /\ i < j - 1
      BY <2>2, <1>1, <1>4, <1>7
    <3> QED BY <3>1, <1>8
  <2>3. CASE k < i
    <3>1. z[i] = q[i - 1] /\ z[j] = q[j - 1] /\ i - 1 \in 1..l /\ j - 1 \in 1..l
          /\ i - 1 < j - 1
      BY <2>3, <1>1, <1>4, <1>7
    <3> QED BY <3>1, <1>8
  <2> QED BY <1>1, <1>7, <1>11, <2>1, <2>2, <2>3
<1> QED BY <1>9, <1>10, <1>11

(* When everything waiting is due, everything waiting lands.                *)
LEMMA AllDue ==
  ASSUME NEW q \in Seq(SpellInjection), NEW t \in Nat,
         \A i \in DOMAIN q : q[i].tick <= t
  PROVE  DueCount(q, t) = Len(q)
<1> DEFINE Due(n) == /\ \A i \in 1..n : q[i].tick <= t
                     /\ n < Len(q) => q[n + 1].tick > t
<1>1. Len(q) \in 0..Len(q) /\ Due(Len(q))
  OBVIOUS
<1>2. ASSUME NEW n \in 0..Len(q), Due(n)
      PROVE  n = Len(q)
  <2>1. SUFFICES ASSUME n < Len(q) PROVE FALSE
    OBVIOUS
  <2>2. n + 1 \in DOMAIN q
    BY <2>1
  <2>3. q[n + 1].tick <= t
    BY <2>2
  <2>4. q[n + 1] \in SpellInjection
    BY <2>2, ElementOfSeq
  <2>5. q[n + 1].tick \in Nat
    BY <2>4 DEF SpellInjection
  <2> QED BY <1>2, <2>1, <2>3, <2>5
<1>3. DueCount(q, t) = CHOOSE n \in 0..Len(q) : Due(n)
  BY DEF DueCount
<1>4. DueCount(q, t) \in 0..Len(q) /\ Due(DueCount(q, t))
  BY <1>1, <1>3
<1> QED BY <1>2, <1>4

-----------------------------------------------------------------------------
(* The decision.                                                            *)

LEMMA OpposingSides ==
  /\ \A s \in Side : Opposing(s) \in Side /\ Opposing(s) # s
  /\ \A s \in Side : Opposing(Opposing(s)) = s
  /\ NoSide \notin Side
BY DEF Opposing, Side, NoSide

(* A set of sides is nobody, one side or both.                              *)
LEMMA SomeSides ==
  ASSUME NEW f, f \subseteq Side
  PROVE  f = {} \/ f = {"north"} \/ f = {"south"} \/ f = Side
BY DEF Side

(* What the two rules give when one side is down, and when both are.        *)
LEMMA OneDown ==
  ASSUME NEW s \in Side
  PROVE  /\ BaseEnding({s}) = BaseDestroyed(Opposing(s))
         /\ Annihilation({s}) = RoundComplete(Opposing(s), "annihilation")
<1>1. {s} # Side
  BY DEF Side
<1>2. (CHOOSE x \in {s} : TRUE) = s
  OBVIOUS
<1> QED BY <1>1, <1>2 DEF BaseEnding, Annihilation

LEMMA BothDown ==
  /\ BaseEnding(Side) = BaseDestroyed(NoSide)
  /\ Annihilation(Side) = RoundComplete(NoSide, "annihilation")
BY DEF BaseEnding, Annihilation

LEMMA EndingValues ==
  \A w \in Side \cup {NoSide} :
    /\ BaseDestroyed(w) \in Ending /\ BaseDestroyed(w) # NoEnding
    /\ \A r \in {"zoneControl", "annihilation", "timeUp"} :
         RoundComplete(w, r) \in Ending /\ RoundComplete(w, r) # NoEnding
<1> TAKE w \in Side \cup {NoSide}
<1>1. BaseDestroyed(w) \in Ending
  BY DEF BaseDestroyed, Ending
<1>2. BaseDestroyed(w).kind # NoEnding.kind
  BY DEF BaseDestroyed, NoEnding
<1>3. ASSUME NEW r \in {"zoneControl", "annihilation", "timeUp"}
      PROVE  RoundComplete(w, r) \in Ending /\ RoundComplete(w, r) # NoEnding
  <2>1. RoundComplete(w, r) \in Ending
    BY DEF RoundComplete, Ending
  <2>2. RoundComplete(w, r).kind # NoEnding.kind
    BY DEF RoundComplete, NoEnding
  <2> QED BY <2>1, <2>2
<1> QED BY <1>1, <1>2, <1>3

LEMMA AheadType ==
  ASSUME NEW f \in [Side -> Nat]
  PROVE  /\ Ahead(f) \in Side \cup {NoSide}
         /\ Ahead(Mirror(f)) = IF Ahead(f) = NoSide THEN NoSide ELSE Opposing(Ahead(f))
BY DEF Ahead, Mirror, Side, NoSide, Opposing

(* The decision is an ending or none; and it is none only while both bases  *)
(* and both armies stand and there is time left.                            *)
LEMMA DecideEndingType ==
  ASSUME NEW t \in Nat, NEW bases \in [Side -> Nat], NEW sc \in [Side -> Nat],
         NEW alive \in [Side -> BOOLEAN]
  PROVE  /\ DecideEnding(t, bases, sc, alive) \in Ending \cup {NoEnding}
         /\ DecideEnding(t, bases, sc, alive) = NoEnding =>
              /\ \A s \in Side : bases[s] > 0 /\ alive[s]
              /\ ~TimeIsUp(t)
<1> DEFINE fallen == {s \in Side : bases[s] <= 0}
           gone   == {s \in Side : ~alive[s]}
           leader == Ahead(sc)
           d      == DecideEnding(t, bases, sc, alive)
<1>1. CASE fallen # {}
  <2>1. d = BaseEnding(fallen)
    BY <1>1 DEF DecideEnding
  <2>2. fallen = {"north"} \/ fallen = {"south"} \/ fallen = Side
    <3>1. fallen \subseteq Side /\ fallen # {}
      BY <1>1
    <3> HIDE DEF fallen
    <3> QED BY <3>1, SomeSides
  <2>3. BaseEnding(fallen) \in Ending /\ BaseEnding(fallen) # NoEnding
    <3> HIDE DEF fallen
    <3>1. CASE fallen = Side
      BY <3>1, BothDown, EndingValues
    <3>2. ASSUME NEW s \in Side, fallen = {s}
          PROVE  BaseEnding(fallen) \in Ending /\ BaseEnding(fallen) # NoEnding
      <4>1. BaseEnding(fallen) = BaseDestroyed(Opposing(s)) /\ Opposing(s) \in Side
        BY <3>2, OneDown, OpposingSides
      <4> QED BY <4>1, EndingValues
    <3> QED BY <2>2, <3>1, <3>2 DEF Side
  <2> QED BY <2>1, <2>3
<1>2. CASE fallen = {} /\ gone # {}
  <2>1. d = Annihilation(gone)
    BY <1>2 DEF DecideEnding
  <2>2. gone = {"north"} \/ gone = {"south"} \/ gone = Side
    <3>1. gone \subseteq Side /\ gone # {}
      BY <1>2
    <3> HIDE DEF gone
    <3> QED BY <3>1, SomeSides
  <2>3. Annihilation(gone) \in Ending /\ Annihilation(gone) # NoEnding
    <3> HIDE DEF gone
    <3>1. CASE gone = Side
      BY <3>1, BothDown, EndingValues
    <3>2. ASSUME NEW s \in Side, gone = {s}
          PROVE  Annihilation(gone) \in Ending /\ Annihilation(gone) # NoEnding
      <4>1. /\ Annihilation(gone) = RoundComplete(Opposing(s), "annihilation")
            /\ Opposing(s) \in Side
        BY <3>2, OneDown, OpposingSides
      <4> QED BY <4>1, EndingValues
    <3> QED BY <2>2, <3>1, <3>2 DEF Side
  <2> QED BY <2>1, <2>3
<1>3. CASE fallen = {} /\ gone = {}
  <2>1. \A s \in Side : bases[s] > 0 /\ alive[s]
    BY <1>3
  <2>2. leader \in Side \cup {NoSide} /\ Ahead(bases) \in Side \cup {NoSide}
    BY AheadType
  <2> HIDE DEF leader
  <2>3. d = IF leader # NoSide /\ sc[leader] >= ScoreThreshold
            THEN RoundComplete(leader, "zoneControl")
            ELSE IF TimeIsUp(t)
            THEN RoundComplete(OutcomeOnScore(sc, bases), "timeUp")
            ELSE NoEnding
    BY <1>3 DEF DecideEnding, leader
  <2>4. OutcomeOnScore(sc, bases) \in Side \cup {NoSide}
    BY <2>2 DEF OutcomeOnScore, leader
  <2> HIDE DEF d
  <2>5. d \in Ending \cup {NoEnding} /\ (d = NoEnding => ~TimeIsUp(t))
    BY <2>2, <2>3, <2>4, EndingValues
  <2> QED BY <2>1, <2>5 DEF d
<1> QED BY <1>1, <1>2, <1>3

(* A fallen base decides, and no winner's base fell.                        *)
LEMMA DecideEndingWinner ==
  ASSUME NEW t \in Nat, NEW bases \in [Side -> Nat], NEW sc \in [Side -> Nat],
         NEW alive \in [Side -> BOOLEAN], NEW e,
         e = DecideEnding(t, bases, sc, alive)
  PROVE  /\ (\E s \in Side : bases[s] = 0) <=> e.kind = "baseDestroyed"
         /\ e.winner \in Side => bases[e.winner] > 0
<1> DEFINE fallen == {s \in Side : bases[s] <= 0}
           gone   == {s \in Side : ~alive[s]}
<1>1. \A s \in Side : s \in fallen <=> bases[s] = 0
  OBVIOUS
<1>2. \A s \in Side : s \notin fallen => bases[s] > 0
  OBVIOUS
<1>3. fallen \subseteq Side
  OBVIOUS
<1>4. DecideEnding(t, bases, sc, alive) = IF fallen # {} THEN BaseEnding(fallen)
          ELSE IF gone # {} THEN Annihilation(gone)
          ELSE IF Ahead(sc) # NoSide /\ sc[Ahead(sc)] >= ScoreThreshold
          THEN RoundComplete(Ahead(sc), "zoneControl")
          ELSE IF TimeIsUp(t)
          THEN RoundComplete(OutcomeOnScore(sc, bases), "timeUp")
          ELSE NoEnding
  BY Zenon DEF DecideEnding
<1> HIDE DEF fallen, gone
<1>5. e = IF fallen # {} THEN BaseEnding(fallen)
          ELSE IF gone # {} THEN Annihilation(gone)
          ELSE IF Ahead(sc) # NoSide /\ sc[Ahead(sc)] >= ScoreThreshold
          THEN RoundComplete(Ahead(sc), "zoneControl")
          ELSE IF TimeIsUp(t)
          THEN RoundComplete(OutcomeOnScore(sc, bases), "timeUp")
          ELSE NoEnding
  BY <1>4
<1>6. CASE fallen = {}
  <2>1. e.kind \in {"roundComplete", "none"}
    <3>1. \A w, r : RoundComplete(w, r).kind = "roundComplete"
      BY DEF RoundComplete
    <3>2. Annihilation(gone).kind = "roundComplete"
      BY <3>1 DEF Annihilation
    <3> QED BY <1>5, <1>6, <3>1, <3>2 DEF NoEnding
  <2> QED BY <2>1, <1>1, <1>2, <1>6
<1>7. CASE fallen = Side
  <2>1. e = BaseDestroyed(NoSide)
    BY <1>5, <1>7, BothDown DEF Side
  <2> QED BY <2>1, <1>1, <1>7, OpposingSides DEF BaseDestroyed, Side
<1>8. ASSUME NEW s \in Side, fallen = {s}
      PROVE  /\ (\E x \in Side : bases[x] = 0) <=> e.kind = "baseDestroyed"
             /\ e.winner \in Side => bases[e.winner] > 0
  <2>1. e = BaseDestroyed(Opposing(s))
    BY <1>5, <1>8, OneDown
  <2>2. e.kind = "baseDestroyed" /\ e.winner = Opposing(s)
    BY <2>1 DEF BaseDestroyed
  <2> QED BY <2>2, <1>1, <1>2, <1>8, OpposingSides
<1> QED BY <1>3, <1>6, <1>7, <1>8, SomeSides DEF Side

(* The decision on the mirrored field is the mirrored decision.             *)
LEMMA DecisionMirrors ==
  ASSUME NEW t \in Nat, NEW bases \in [Side -> Nat], NEW sc \in [Side -> Nat],
         NEW alive \in [Side -> BOOLEAN]
  PROVE  DecideEnding(t, Mirror(bases), Mirror(sc), Mirror(alive))
           = MirrorEnding(DecideEnding(t, bases, sc, alive))
<1> DEFINE Flip(w) == IF w = NoSide THEN NoSide ELSE Opposing(w)
<1>1. /\ \A w, r : MirrorEnding(RoundComplete(w, r)) = RoundComplete(Flip(w), r)
      /\ \A w : MirrorEnding(BaseDestroyed(w)) = BaseDestroyed(Flip(w))
      /\ MirrorEnding(NoEnding) = NoEnding
  BY DEF MirrorEnding, RoundComplete, BaseDestroyed, NoEnding
<1>2. \A f : \A s \in Side : Mirror(f)[s] = f[Opposing(s)]
  BY DEF Mirror
<1> DEFINE fallen  == {s \in Side : bases[s] <= 0}
           gone    == {s \in Side : ~alive[s]}
           mfallen == {s \in Side : Mirror(bases)[s] <= 0}
           mgone   == {s \in Side : ~Mirror(alive)[s]}
<1>5. /\ fallen \subseteq Side /\ mfallen \subseteq Side
      /\ gone \subseteq Side /\ mgone \subseteq Side
      /\ \A s \in Side : s \in mfallen <=> Opposing(s) \in fallen
      /\ \A s \in Side : s \in mgone <=> Opposing(s) \in gone
  BY <1>2, OpposingSides
<1>6. DecideEnding(t, Mirror(bases), Mirror(sc), Mirror(alive)) =
        IF mfallen # {} THEN BaseEnding(mfallen)
        ELSE IF mgone # {} THEN Annihilation(mgone)
        ELSE IF Ahead(Mirror(sc)) # NoSide
                /\ Mirror(sc)[Ahead(Mirror(sc))] >= ScoreThreshold
        THEN RoundComplete(Ahead(Mirror(sc)), "zoneControl")
        ELSE IF TimeIsUp(t)
        THEN RoundComplete(OutcomeOnScore(Mirror(sc), Mirror(bases)), "timeUp")
        ELSE NoEnding
  BY Zenon DEF DecideEnding
<1>7. DecideEnding(t, bases, sc, alive) =
        IF fallen # {} THEN BaseEnding(fallen)
        ELSE IF gone # {} THEN Annihilation(gone)
        ELSE IF Ahead(sc) # NoSide /\ sc[Ahead(sc)] >= ScoreThreshold
        THEN RoundComplete(Ahead(sc), "zoneControl")
        ELSE IF TimeIsUp(t)
        THEN RoundComplete(OutcomeOnScore(sc, bases), "timeUp")
        ELSE NoEnding
  BY Zenon DEF DecideEnding
<1> HIDE DEF fallen, gone, mfallen, mgone
<1>8. ASSUME NEW f, NEW m, f \subseteq Side, m \subseteq Side, f # {},
             \A s \in Side : s \in m <=> Opposing(s) \in f
      PROVE  /\ m # {}
             /\ BaseEnding(m) = MirrorEnding(BaseEnding(f))
             /\ Annihilation(m) = MirrorEnding(Annihilation(f))
  <2>1. CASE f = Side
    <3>1. m = Side
      BY <2>1, <1>8, OpposingSides
    <3> QED BY <2>1, <3>1, BothDown, <1>1 DEF Side
  <2>2. ASSUME NEW s \in Side, f = {s}
        PROVE  /\ m # {}
               /\ BaseEnding(m) = MirrorEnding(BaseEnding(f))
               /\ Annihilation(m) = MirrorEnding(Annihilation(f))
    <3>1. m = {Opposing(s)}
      BY <2>2, <1>8, OpposingSides
    <3>2. Opposing(s) \in Side /\ Flip(Opposing(s)) = Opposing(Opposing(s))
      BY OpposingSides
    <3>3. /\ BaseEnding(m) = BaseDestroyed(Opposing(Opposing(s)))
          /\ Annihilation(m) = RoundComplete(Opposing(Opposing(s)), "annihilation")
      BY <3>1, <3>2, OneDown
    <3>4. /\ BaseEnding(f) = BaseDestroyed(Opposing(s))
          /\ Annihilation(f) = RoundComplete(Opposing(s), "annihilation")
      BY <2>2, OneDown
    <3> QED BY <3>1, <3>2, <3>3, <3>4, <1>1
  <2> QED BY <1>8, <2>1, <2>2, SomeSides DEF Side
<1>9. /\ (mfallen = {}) <=> (fallen = {})
      /\ (mgone = {}) <=> (gone = {})
  BY <1>5, OpposingSides
<1>10. CASE fallen # {}
  BY <1>5, <1>6, <1>7, <1>8, <1>10
<1>11. CASE fallen = {} /\ gone # {}
  BY <1>5, <1>6, <1>7, <1>8, <1>9, <1>11
<1>12. CASE fallen = {} /\ gone = {}
  <2> DEFINE a == Ahead(sc)
             m == Ahead(Mirror(sc))
             o == OutcomeOnScore(sc, bases)
             p == OutcomeOnScore(Mirror(sc), Mirror(bases))
  <2>1. m = Flip(a) /\ a \in Side \cup {NoSide}
        /\ Ahead(Mirror(bases)) = Flip(Ahead(bases))
    BY AheadType
  <2>2. p = Flip(o)
    BY <2>1, OpposingSides DEF OutcomeOnScore
  <2>3. a # NoSide => m \in Side /\ Mirror(sc)[m] = sc[a]
    BY <2>1, <1>2, OpposingSides
  <2>4. m # NoSide <=> a # NoSide
    BY <2>1, OpposingSides
  <2>5. DecideEnding(t, Mirror(bases), Mirror(sc), Mirror(alive)) =
          IF a # NoSide /\ sc[a] >= ScoreThreshold
          THEN RoundComplete(Flip(a), "zoneControl")
          ELSE IF TimeIsUp(t) THEN RoundComplete(Flip(o), "timeUp")
          ELSE NoEnding
    BY <1>6, <1>9, <1>12, <2>1, <2>2, <2>3, <2>4
  <2>6. DecideEnding(t, bases, sc, alive) =
          IF a # NoSide /\ sc[a] >= ScoreThreshold
          THEN RoundComplete(a, "zoneControl")
          ELSE IF TimeIsUp(t) THEN RoundComplete(o, "timeUp")
          ELSE NoEnding
    BY <1>7, <1>12
  <2> HIDE DEF a, m, o, p, Flip
  <2> QED BY <2>5, <2>6, <1>1
<1> QED BY <1>10, <1>11, <1>12

-----------------------------------------------------------------------------
(* The inductive invariant.  The queue holds spells for the next tick and   *)
(* no other; the ending is what the field as it stands decides; the runner  *)
(* has stopped exactly when a base or an army is gone.  Without the last    *)
(* two nothing says that a runner at its end belongs to an ended round, and *)
(* without the first nothing says that a landing is on time.                *)
DueNext == {x \in SpellInjection : x.tick = tick + 1}

RoundInv ==
  /\ RoundTypeOK
  /\ pending \in Seq(DueNext)
  /\ NothingLeftWaiting
  /\ LandsOnItsTick
  /\ CastsAccountedFor
  /\ PoolWithinCap
  /\ ending = DecideEnding(tick, hp, score, living)
  /\ stopped <=> \E s \in Side : hp[s] <= 0 \/ ~living[s]

(* The field's variables as the lemmas on the decision take them.           *)
LEMMA FieldType ==
  ASSUME RoundTypeOK
  PROVE  /\ tick \in Nat /\ hp \in [Side -> Nat] /\ score \in [Side -> Nat]
         /\ living \in [Side -> BOOLEAN]
BY BattleAssumption DEF RoundTypeOK

(* An open round stands on an open battle, so its next step is a tick.      *)
LEMMA OpenBattle ==
  ASSUME RoundInv, ending = NoEnding
  PROVE  /\ ~Finished /\ tick + 1 \in 0..TickLimit
         /\ \A s \in Side : hp[s] > 0 /\ living[s]
<1>1. /\ \A s \in Side : hp[s] > 0 /\ living[s]
      /\ ~TimeIsUp(tick)
  BY FieldType, DecideEndingType DEF RoundInv
<1>2. tick < TickLimit
  BY <1>1, BattleAssumption DEF RoundInv, RoundTypeOK, TimeIsUp
<1>3. ~stopped
  BY <1>1, BattleAssumption DEF RoundInv, RoundTypeOK
<1>4. tick + 1 \in 0..TickLimit
  BY <1>2, BattleAssumption DEF RoundInv, RoundTypeOK
<1> QED BY <1>1, <1>2, <1>3, <1>4, BattleAssumption DEF Finished, RoundInv, RoundTypeOK

LEMMA OpeningEnergyType == OpeningEnergy \in 0..EnergyCap
BY EnergyAssumption DEF OpeningEnergy, Least

(* A tick's gain leaves the pool within the cap.                            *)
LEMMA AccrualLemma ==
  ASSUME RoundTypeOK, PoolWithinCap, NEW s \in Side
  PROVE  /\ Accrued(s) \in Nat
         /\ OpeningEnergy + Accrued(s) - spent[s] \in 0..EnergyCap
<1>1. /\ generated[s] \in Nat /\ spent[s] \in Nat /\ OpeningEnergy \in Nat
      /\ Current(s) = OpeningEnergy + generated[s] - spent[s]
  BY OpeningEnergyType, EnergyAssumption DEF RoundTypeOK, Current
<1>2. Current(s) \in 0..EnergyCap
  BY DEF PoolWithinCap
<1> DEFINE gain == Least(EnergyPerTick, Greatest(0, EnergyCap - Current(s)))
<1>3. gain \in Nat /\ Current(s) + gain \in 0..EnergyCap
  BY <1>2, EnergyAssumption DEF Least, Greatest
<1>4. Accrued(s) = generated[s] + gain
  BY DEF Accrued
<1> HIDE DEF gain
<1> QED BY <1>1, <1>2, <1>3, <1>4, EnergyAssumption

(* A round opens in the invariant, whatever standing bases and loadouts it  *)
(* is handed.                                                               *)
LEMMA RoundOpensInInv ==
  ASSUME NEW bases \in [Side -> 1..MaxHp], NEW loadouts \in [Side -> SUBSET Spell]
  PROVE  RoundInit(bases, loadouts) => RoundInv
<1> SUFFICES ASSUME RoundInit(bases, loadouts) PROVE RoundInv
  OBVIOUS
<1> USE DEF RoundInit
<1>1. RoundTypeOK
  <2>1. equipped \in [Side -> SUBSET Spell]
    OBVIOUS
  <2>2. hp \in [Side -> 0..MaxHp]
    BY BattleAssumption
  <2>3. tick \in 0..TickLimit
    BY BattleAssumption
  <2>4. /\ score \in [Side -> Nat] /\ living \in [Side -> BOOLEAN]
        /\ generated \in [Side -> Nat] /\ spent \in [Side -> Nat]
        /\ stopped \in BOOLEAN /\ nextOrder \in Nat
    OBVIOUS
  <2>5. /\ pending \in Seq(SpellInjection) /\ casts \in Seq(Resolved)
        /\ landed \in Seq([spell : SpellInjection, on : Nat])
    BY EmptySeq
  <2>6. ending \in Ending \cup {NoEnding}
    OBVIOUS
  <2> QED BY <2>1, <2>2, <2>3, <2>4, <2>5, <2>6 DEF RoundTypeOK
<1>2. pending \in Seq(DueNext)
  BY EmptySeq
<1>3. NothingLeftWaiting /\ LandsOnItsTick /\ CastsAccountedFor
  BY DEF NothingLeftWaiting, LandsOnItsTick, CastsAccountedFor
<1>4. PoolWithinCap
  <2>1. \A s \in Side : Current(s) = OpeningEnergy
    BY OpeningEnergyType, EnergyAssumption DEF Current
  <2> QED BY <2>1, OpeningEnergyType DEF PoolWithinCap
<1>5. \A s \in Side : hp[s] > 0 /\ living[s]
  BY BattleAssumption
<1>6. ending = DecideEnding(tick, hp, score, living)
  <2>1. {s \in Side : hp[s] <= 0} = {} /\ {s \in Side : ~living[s]} = {}
    BY <1>5, <1>1, FieldType
  <2>2. Ahead(score) = NoSide
    BY DEF Ahead, Side
  <2>3. ~TimeIsUp(tick)
    BY BattleAssumption DEF TimeIsUp
  <2> DEFINE fallen == {s \in Side : hp[s] <= 0}
             gone   == {s \in Side : ~living[s]}
  <2>4. DecideEnding(tick, hp, score, living) =
          IF fallen # {} THEN BaseEnding(fallen)
          ELSE IF gone # {} THEN Annihilation(gone)
          ELSE IF Ahead(score) # NoSide /\ score[Ahead(score)] >= ScoreThreshold
          THEN RoundComplete(Ahead(score), "zoneControl")
          ELSE IF TimeIsUp(tick)
          THEN RoundComplete(OutcomeOnScore(score, hp), "timeUp")
          ELSE NoEnding
    BY Zenon DEF DecideEnding
  <2> HIDE DEF fallen, gone
  <2>5. DecideEnding(tick, hp, score, living) = NoEnding
    BY <2>1, <2>2, <2>3, <2>4 DEF fallen, gone
  <2> QED BY <2>5
<1>7. stopped <=> \E s \in Side : hp[s] <= 0 \/ ~living[s]
  BY <1>5, <1>1, FieldType
<1> QED BY <1>1, <1>2, <1>3, <1>4, <1>6, <1>7 DEF RoundInv

LEMMA RoundInvInit == Init => RoundInv
<1> SUFFICES ASSUME NEW bases \in [Side -> 1..MaxHp], NEW loadouts \in Loadouts,
                    RoundInit(bases, loadouts)
             PROVE  RoundInv
  BY DEF Init
<1>1. loadouts \in [Side -> SUBSET Spell]
  BY LoadoutAssumption
<1> QED BY <1>1, RoundOpensInInv

(* So does one opened in the course of a match.                             *)
LEMMA OpenRoundKeepsInv ==
  ASSUME NEW bases \in [Side -> 1..MaxHp], NEW loadouts \in [Side -> SUBSET Spell]
  PROVE  OpenRound(bases, loadouts) => RoundInv'
<1>1. RoundInit(bases, loadouts) => RoundInv
  BY RoundOpensInInv
<1>2. RoundInit(bases, loadouts)' => RoundInv'
  BY <1>1, PTL
<1>3. OpenRound(bases, loadouts) => RoundInit(bases, loadouts)'
  BY DEF OpenRound, RoundInit
<1> QED BY <1>2, <1>3

(* Taking a cast keeps the invariant.                                       *)
LEMMA CastKeepsInv ==
  ASSUME RoundInv, NEW s \in Side, NEW c \in Command, AcceptCast(s, c)
  PROVE  RoundInv'
<1> DEFINE inj == [tick |-> TargetTick, spell |-> c.spell, side |-> s, at |-> c.at]
<1>0. /\ RoundTypeOK /\ pending \in Seq(DueNext) /\ LandsOnItsTick
      /\ CastsAccountedFor /\ PoolWithinCap
      /\ ending = DecideEnding(tick, hp, score, living)
      /\ stopped <=> \E x \in Side : hp[x] <= 0 \/ ~living[x]
  BY DEF RoundInv
<1>1. /\ ending = NoEnding /\ c.spell \in equipped[s] /\ c.at \in OnMap
      /\ CanAfford(s, c.spell)
  BY DEF AcceptCast, Refusal
<1>2. /\ tick \in Nat /\ c.spell \in Spell /\ c.at \in Spot /\ c.id \in CommandId
      /\ Cost[c.spell] \in Nat
  BY <1>0, <1>1, FieldType, SpellAssumption DEF Command
<1>3. inj \in DueNext
  BY <1>2 DEF DueNext, SpellInjection, TargetTick
<1>4. /\ pending' = Inject(pending, inj)
      /\ pending' \in Seq(DueNext) /\ Len(pending') = Len(pending) + 1
  <2>1. pending' = Inject(pending, inj)
    BY DEF AcceptCast
  <2> HIDE DEF inj
  <2> QED BY <2>1, <1>0, <1>3, InjectShape
<1>5. UNCHANGED <<tick, hp, score, living, landed, stopped, equipped, generated, ending>>
  BY DEF AcceptCast
<1>6. spent' = [spent EXCEPT ![s] = @ + Cost[c.spell]]
  BY DEF AcceptCast, Charge
<1>7. casts' \in Seq(Resolved) /\ Len(casts') = Len(casts) + 1 /\ nextOrder' \in Nat
  <2> DEFINE cast == [id |-> c.id, spell |-> c.spell, side |-> s, at |-> c.at,
                      tick |-> TargetTick, order |-> nextOrder]
  <2>1. cast \in Resolved
    BY <1>0, <1>2 DEF Resolved, TargetTick, RoundTypeOK
  <2>2. casts' = Append(casts, cast) /\ nextOrder' = nextOrder + 1
    BY DEF AcceptCast
  <2> HIDE DEF cast
  <2> QED BY <1>0, <2>1, <2>2 DEF RoundTypeOK
<1>8. DueNext' = DueNext /\ DueNext \subseteq SpellInjection
  BY <1>5 DEF DueNext
<1>9. RoundTypeOK'
  <2>1. pending' \in Seq(SpellInjection)
    BY <1>4, <1>8, SeqMonotonic
  <2>2. spent' \in [Side -> Nat]
    <3> DEFINE charge == spent[s] + Cost[c.spell]
    <3>1. spent \in [Side -> Nat] /\ spent[s] \in Nat
      BY <1>0 DEF RoundTypeOK
    <3>2. charge \in Nat
      BY <1>2, <3>1
    <3>3. spent' = [spent EXCEPT ![s] = charge]
      BY <1>6
    <3> HIDE DEF charge
    <3> QED BY <3>1, <3>2, <3>3
  <2> QED BY <1>0, <2>1, <2>2, <1>5, <1>7 DEF RoundTypeOK
<1>10. NothingLeftWaiting'
  BY <1>1, <1>5 DEF NothingLeftWaiting
<1>11. LandsOnItsTick' /\ CastsAccountedFor'
  <2>1. Len(landed) \in Nat /\ Len(pending) \in Nat /\ Len(casts) \in Nat
    BY <1>0 DEF RoundTypeOK
  <2>2. Len(landed) + Len(pending) = Len(casts)
    BY <1>0 DEF CastsAccountedFor
  <2>3. landed' = landed /\ Len(pending') = Len(pending) + 1 /\ Len(casts') = Len(casts) + 1
    BY <1>4, <1>5, <1>7
  <2> HIDE DEF inj
  <2>4. CastsAccountedFor'
    BY <2>1, <2>2, <2>3 DEF CastsAccountedFor
  <2>5. LandsOnItsTick'
    BY <1>0, <1>5 DEF LandsOnItsTick
  <2> QED BY <2>4, <2>5
<1>12. PoolWithinCap'
  <2> SUFFICES ASSUME NEW x \in Side PROVE Current(x)' \in 0..EnergyCap
    BY DEF PoolWithinCap
  <2>1. /\ generated[x] \in Nat /\ spent[x] \in Nat /\ OpeningEnergy \in Nat
        /\ Current(x) = OpeningEnergy + generated[x] - spent[x]
        /\ Current(x)' = OpeningEnergy + generated[x] - spent'[x]
    BY <1>0, <1>5, OpeningEnergyType, EnergyAssumption DEF RoundTypeOK, Current, OpeningEnergy
  <2>2. Current(x) \in 0..EnergyCap
    BY <1>0 DEF PoolWithinCap
  <2>3. CASE x = s
    <3>1. spent'[x] = spent[x] + Cost[c.spell]
      BY <1>0, <2>3, <1>6 DEF RoundTypeOK
    <3>2. Current(x) >= Cost[c.spell]
      BY <2>3, <1>1 DEF CanAfford
    <3> QED BY <2>1, <2>2, <3>1, <3>2, <1>2, EnergyAssumption
  <2>4. CASE x # s
    <3>1. spent'[x] = spent[x]
      BY <1>0, <2>4, <1>6 DEF RoundTypeOK
    <3> QED BY <2>1, <2>2, <3>1
  <2> QED BY <2>3, <2>4
<1>13. (ending = DecideEnding(tick, hp, score, living))'
  BY <1>0, <1>5
<1>14. (stopped <=> \E x \in Side : hp[x] <= 0 \/ ~living[x])'
  BY <1>0, <1>5
<1> QED BY <1>4, <1>8, <1>9, <1>10, <1>11, <1>12, <1>13, <1>14 DEF RoundInv

(* A tick of the battle, seen from what it does to the queue: everything    *)
(* waiting is due, so everything lands and nothing is left.                 *)
LEMMA TickEmptiesQueue ==
  ASSUME RoundInv, NEW damage, NEW points, NEW survivors,
         BattleTick(damage, points, survivors)
  PROVE  /\ pending' = << >>
         /\ Len(landed') = Len(landed) + Len(pending)
         /\ landed' \in Seq([spell : SpellInjection, on : Nat])
         /\ LandsOnItsTick'
<1> DEFINE t == tick + 1
           new == [i \in 1..Len(pending) |-> [spell |-> pending[i], on |-> t]]
           onTime == {x \in [spell : SpellInjection, on : Nat] : x.on = x.spell.tick}
<1>1. /\ RoundTypeOK /\ pending \in Seq(DueNext) /\ LandsOnItsTick /\ t \in Nat
      /\ landed \in Seq([spell : SpellInjection, on : Nat])
      /\ pending \in Seq(SpellInjection) /\ Len(pending) \in Nat
  BY FieldType DEF RoundInv, RoundTypeOK
<1>2. \A i \in DOMAIN pending : pending[i] \in SpellInjection /\ pending[i].tick = t
  BY <1>1, ElementOfSeq DEF DueNext
<1>3. DueCount(pending, t) = Len(pending)
  BY <1>1, <1>2, AllDue
<1>4. landed' = landed \o new /\ pending' = SubSeq(pending, Len(pending) + 1, Len(pending))
  BY <1>3 DEF BattleTick
<1>5. new \in Seq(onTime) /\ Len(new) = Len(pending)
  <2>1. \A i \in 1..Len(pending) : new[i] \in onTime
    BY <1>1, <1>2
  <2> QED BY <2>1, <1>1
<1>6. landed \in Seq(onTime)
  <2>1. ASSUME NEW i \in 1..Len(landed) PROVE landed[i] \in onTime
    <3>1. DOMAIN landed = 1..Len(landed)
      BY <1>1
    <3>2. landed[i] \in [spell : SpellInjection, on : Nat]
      BY <1>1, ElementOfSeq
    <3>3. landed[i].on = landed[i].spell.tick
      BY <1>1, <3>1 DEF LandsOnItsTick
    <3> QED BY <3>2, <3>3
  <2> HIDE DEF onTime
  <2> QED BY <2>1, <1>1
<1> HIDE DEF new, onTime
<1>7. landed' \in Seq(onTime) /\ Len(landed') = Len(landed) + Len(pending)
  <2>1. landed \o new \in Seq(onTime) /\ Len(landed \o new) = Len(landed) + Len(new)
    BY <1>5, <1>6, ConcatProperties
  <2> QED BY <2>1, <1>4, <1>5
<1>8. /\ landed' \in Seq([spell : SpellInjection, on : Nat])
      /\ LandsOnItsTick'
  <2>1. onTime \subseteq [spell : SpellInjection, on : Nat]
    BY DEF onTime
  <2>2. ASSUME NEW i \in DOMAIN landed' PROVE landed'[i].on = landed'[i].spell.tick
    <3>1. landed'[i] \in onTime
      BY <1>7, <2>2, LenProperties, ElementOfSeq
    <3> QED BY <3>1 DEF onTime
  <2>3. landed' \in Seq([spell : SpellInjection, on : Nat])
    BY <1>7, <2>1, SeqMonotonic
  <2> QED BY <2>2, <2>3 DEF LandsOnItsTick
<1>9. pending' = << >>
  BY <1>1, <1>4
<1> QED BY <1>7, <1>8, <1>9

(* A step that finds the round open ticks the battle, accrues and decides,  *)
(* and keeps the invariant.                                                 *)
LEMMA StepKeepsInv ==
  ASSUME RoundInv, NEW damage \in TickDamage, NEW survivors \in TickSurvivors,
         NEW points \in TickPoints(survivors), Step(damage, points, survivors)
  PROVE  RoundInv'
<1>0. /\ RoundTypeOK /\ CastsAccountedFor /\ PoolWithinCap
  BY DEF RoundInv
<1>1. /\ ending = NoEnding
      /\ generated' = [s \in Side |-> Accrued(s)]
      /\ ending' = DecideEnding(tick', hp', score', living')
      /\ UNCHANGED <<equipped, spent, casts, nextOrder>>
  BY DEF Step
<1>2. /\ ~Finished /\ tick + 1 \in 0..TickLimit
  BY <1>1, OpenBattle
<1>3. BattleTick(damage, points, survivors) /\ StopRunner
  BY <1>2 DEF Step
<1>4. /\ tick' = tick + 1
      /\ hp' = [s \in Side |-> Greatest(0, hp[s] - damage[s])]
      /\ living' = [s \in Side |-> s \in survivors]
      /\ score' = [s \in Side |-> score[s] + points[s]]
  BY <1>3 DEF BattleTick
<1>5. /\ pending' = << >> /\ Len(landed') = Len(landed) + Len(pending)
      /\ landed' \in Seq([spell : SpellInjection, on : Nat])
      /\ LandsOnItsTick'
  BY <1>3, TickEmptiesQueue
<1>6. hp' \in [Side -> 0..MaxHp]
  <2>1. ASSUME NEW s \in Side PROVE Greatest(0, hp[s] - damage[s]) \in 0..MaxHp
    <3>1. hp[s] \in 0..MaxHp /\ damage[s] \in 0..MaxDamage
      BY <1>0 DEF RoundTypeOK, TickDamage
    <3> QED BY <3>1, BattleAssumption DEF Greatest
  <2> QED BY <2>1, <1>4
<1>7. score' \in [Side -> Nat]
  <2>1. ASSUME NEW s \in Side PROVE score[s] + points[s] \in Nat
    <3>1. score[s] \in Nat /\ points[s] \in 0..LanePoints
      BY <1>0 DEF RoundTypeOK, TickPoints
    <3> QED BY <3>1, BattleAssumption
  <2> QED BY <2>1, <1>4
<1>8. living' \in [Side -> BOOLEAN] /\ stopped' \in BOOLEAN
  BY <1>3, <1>4 DEF StopRunner
<1>9. generated' \in [Side -> Nat]
  BY <1>0, <1>1, AccrualLemma
<1>10. tick' \in Nat /\ tick' \in 0..TickLimit /\ hp' \in [Side -> Nat]
  BY <1>2, <1>4, <1>6, BattleAssumption
<1>11. ending' \in Ending \cup {NoEnding}
  BY <1>1, <1>7, <1>8, <1>10, DecideEndingType
<1>12. pending' \in Seq(SpellInjection) /\ pending' \in Seq(DueNext)'
  BY <1>5, EmptySeq
<1>13. RoundTypeOK'
  <2>1. /\ equipped' \in [Side -> SUBSET Spell] /\ spent' \in [Side -> Nat]
        /\ casts' \in Seq(Resolved) /\ nextOrder' \in Nat
    BY <1>0, <1>1 DEF RoundTypeOK
  <2> QED BY <2>1, <1>5, <1>6, <1>7, <1>8, <1>9, <1>10, <1>11, <1>12 DEF RoundTypeOK
<1>14. NothingLeftWaiting'
  BY <1>5 DEF NothingLeftWaiting
<1>15. CastsAccountedFor'
  <2>1. /\ Len(landed) \in Nat /\ Len(pending) \in Nat /\ Len(casts) \in Nat
        /\ Len(landed) + Len(pending) = Len(casts)
    BY <1>0 DEF RoundTypeOK, CastsAccountedFor
  <2>2. Len(pending') = 0 /\ casts' = casts
    BY <1>1, <1>5
  <2> QED BY <2>1, <2>2, <1>5 DEF CastsAccountedFor
<1>16. PoolWithinCap'
  <2> SUFFICES ASSUME NEW s \in Side PROVE Current(s)' \in 0..EnergyCap
    BY DEF PoolWithinCap
  <2>1. Current(s)' = OpeningEnergy + generated'[s] - spent'[s]
    BY DEF Current, OpeningEnergy
  <2>2. generated'[s] = Accrued(s) /\ spent'[s] = spent[s]
    BY <1>1
  <2> QED BY <2>1, <2>2, <1>0, AccrualLemma
<1>17. (stopped <=> \E s \in Side : hp[s] <= 0 \/ ~living[s])'
  BY <1>3, <1>8 DEF StopRunner
<1> QED BY <1>1, <1>5, <1>12, <1>13, <1>14, <1>15, <1>16, <1>17 DEF RoundInv

(* What leaves the round alone leaves the invariant.                        *)
LEMMA StillRoundKeepsInv ==
  ASSUME RoundInv, UNCHANGED roundVars
  PROVE  RoundInv'
<1> USE DEF roundVars, worldVars, poolVars
<1>1. RoundTypeOK' /\ DueNext' = DueNext
  BY DEF RoundInv, RoundTypeOK, DueNext
<1>2. NothingLeftWaiting' /\ LandsOnItsTick' /\ CastsAccountedFor'
  BY DEF RoundInv, NothingLeftWaiting, LandsOnItsTick, CastsAccountedFor
<1>3. PoolWithinCap'
  BY DEF RoundInv, PoolWithinCap, Current, OpeningEnergy
<1>4. /\ pending' \in Seq(DueNext)
      /\ ending' = DecideEnding(tick', hp', score', living')
      /\ stopped' <=> \E s \in Side : hp'[s] <= 0 \/ ~living'[s]
  BY DEF RoundInv
<1> QED BY <1>1, <1>2, <1>3, <1>4 DEF RoundInv

(* The invariant holds of every round, in every state it reaches.           *)
THEOREM RoundInvariant == Spec => []RoundInv
<1>1. Init => RoundInv
  BY RoundInvInit
<1>2. RoundInv /\ [Next]_roundVars => RoundInv'
  <2> SUFFICES ASSUME RoundInv, [Next]_roundVars PROVE RoundInv'
    OBVIOUS
  <2>1. CASE SomeStep
    BY <2>1, StepKeepsInv DEF SomeStep
  <2>2. CASE SomeCast
    BY <2>2, CastKeepsInv DEF SomeCast
  <2>3. CASE UNCHANGED roundVars
    BY <2>3, StillRoundKeepsInv
  <2> QED BY <2>1, <2>2, <2>3 DEF Next
<1> QED BY <1>1, <1>2, PTL DEF Spec

-----------------------------------------------------------------------------
(* What follows from the invariant.                                         *)

(* Every variable of a round keeps its type: base hit points within the     *)
(* map's, the clock within the battle's limit, pools and scores natural.    *)
THEOREM RoundTypeCorrect == Spec => []RoundTypeOK
<1>1. RoundInv => RoundTypeOK
  BY DEF RoundInv
<1> QED BY <1>1, RoundInvariant, PTL

(* No accepted cast is left in the queue of a decided round, and every      *)
(* landing is on the tick its seat was told (round.py, cast; the spells     *)
(* phase of the battle).                                                    *)
THEOREM CastsLandInTime == Spec => [](NothingLeftWaiting /\ LandsOnItsTick)
<1>1. RoundInv => NothingLeftWaiting /\ LandsOnItsTick
  BY DEF RoundInv
<1> QED BY <1>1, RoundInvariant, PTL

(* What is queued and what has landed always number the casts accepted, so  *)
(* in a decided round every one of them has landed.                         *)
THEOREM CastsAllLand ==
  Spec => [](CastsAccountedFor /\ (ending # NoEnding => Len(landed) = Len(casts)))
<1>1. RoundInv => CastsAccountedFor /\ (ending # NoEnding => Len(landed) = Len(casts))
  <2> SUFFICES ASSUME RoundInv
               PROVE  CastsAccountedFor /\ (ending # NoEnding => Len(landed) = Len(casts))
    OBVIOUS
  <2>1. Len(landed) \in Nat /\ Len(casts) \in Nat
    BY DEF RoundInv, RoundTypeOK
  <2>2. CastsAccountedFor /\ (ending # NoEnding => Len(pending) = 0)
    BY DEF RoundInv, NothingLeftWaiting
  <2> QED BY <2>1, <2>2 DEF CastsAccountedFor
<1> QED BY <1>1, RoundInvariant, PTL

(* A seat's pool is never overdrawn and never above the cap, whatever is    *)
(* cast and however long the round runs (energy.py, SeatEnergy).            *)
THEOREM PoolStaysWithinCap == Spec => []PoolWithinCap
<1>1. RoundInv => PoolWithinCap
  BY DEF RoundInv
<1> QED BY <1>1, RoundInvariant, PTL

(* The runner never stops under a round that is still open, which would     *)
(* then never end (run_battle.py, step; round.py, _decide_ending).          *)
THEOREM RunnerAndRoundStopTogether == Spec => []RunnerStopsWithRound
<1>1. RoundInv => RunnerStopsWithRound
  <2> SUFFICES ASSUME RoundInv, ending = NoEnding PROVE ~(stopped \/ tick >= TickLimit)
    BY DEF RunnerStopsWithRound
  <2>1. ~Finished
    BY OpenBattle
  <2> QED BY <2>1 DEF Finished
<1> QED BY <1>1, RoundInvariant, PTL

(* A round in which a base fell is decided by that and by nothing else, and *)
(* no round is won by a side whose base fell.                               *)
THEOREM AFallenBaseDecides == Spec => []FallenBaseDecides
<1>1. RoundInv => FallenBaseDecides
  BY FieldType, DecideEndingWinner DEF RoundInv, FallenBaseDecides
<1> QED BY <1>1, RoundInvariant, PTL

(* The decision favours neither side: on a mirrored field it is mirrored,   *)
(* so a double fall, a double sweep and an exact tie are nobody's.          *)
THEOREM DecisionFavoursNeitherSide == Spec => []SidesAreAlike
<1>1. RoundInv => SidesAreAlike
  BY FieldType, DecisionMirrors DEF RoundInv, SidesAreAlike
<1> QED BY <1>1, RoundInvariant, PTL

(* A decided round never moves again: neither the clock nor a seat changes  *)
(* its field, its pools or its casts.                                       *)
THEOREM DecidedRoundIsFrozen == Spec => EndedRoundIsFrozen
<1>1. [Next]_roundVars => [ending = NoEnding]_roundVars
  <2>1. ASSUME SomeStep PROVE ending = NoEnding
    BY <2>1 DEF SomeStep, Step
  <2>2. ASSUME SomeCast PROVE ending = NoEnding
    BY <2>2 DEF SomeCast, AcceptCast, Refusal
  <2> QED BY <2>1, <2>2 DEF Next
<1> QED BY <1>1, PTL DEF Spec, EndedRoundIsFrozen

-----------------------------------------------------------------------------
(* The order spells land in.  The queue is in injection_order, so is what   *)
(* has landed, and nothing landed carries a tick the battle has not         *)
(* reached: what a tick appends, being due at that tick, follows it all.    *)
OrderInv ==
  /\ RoundInv
  /\ Sorted(pending)
  /\ LandingOrder
  /\ \A i \in DOMAIN landed : landed[i].spell.tick <= tick

LEMMA CastKeepsOrder ==
  ASSUME OrderInv, NEW s \in Side, NEW c \in Command, AcceptCast(s, c)
  PROVE  OrderInv'
<1> DEFINE inj == [tick |-> TargetTick, spell |-> c.spell, side |-> s, at |-> c.at]
<1>1. RoundInv'
  BY CastKeepsInv DEF OrderInv
<1>2. inj \in SpellInjection
  <2>1. c.spell \in Spell /\ c.at \in Spot /\ tick \in Nat
    BY FieldType DEF OrderInv, RoundInv, Command
  <2> QED BY <2>1 DEF SpellInjection, TargetTick
<1>3. pending \in Seq(SpellInjection) /\ Sorted(pending)
  BY DEF OrderInv, RoundInv, RoundTypeOK
<1>4. pending' = Inject(pending, inj) /\ tick' = tick /\ landed' = landed
  BY DEF AcceptCast
<1> HIDE DEF inj
<1>5. Sorted(pending')
  BY <1>2, <1>3, <1>4, InjectKeepsOrder
<1>6. LandingOrder' /\ \A i \in DOMAIN landed' : landed'[i].spell.tick <= tick'
  BY <1>4 DEF OrderInv, LandingOrder
<1> QED BY <1>1, <1>5, <1>6 DEF OrderInv, Sorted

(* A tick of an open round lands the whole queue, in its order.             *)
LEMMA TickLandsQueue ==
  ASSUME RoundInv, NEW damage, NEW points, NEW survivors,
         BattleTick(damage, points, survivors)
  PROVE  /\ Len(pending) \in Nat /\ Len(landed) \in Nat
         /\ DOMAIN pending = 1..Len(pending) /\ DOMAIN landed = 1..Len(landed)
         /\ \A i \in DOMAIN pending :
              pending[i] \in SpellInjection /\ pending[i].tick = tick + 1
         /\ \A i \in DOMAIN landed : landed[i].spell \in SpellInjection
         /\ DOMAIN landed' = 1..(Len(landed) + Len(pending))
         /\ \A i \in 1..Len(landed) : landed'[i] = landed[i]
         /\ \A i \in 1..Len(pending) :
              landed'[Len(landed) + i] = [spell |-> pending[i], on |-> tick + 1]
<1> DEFINE t == tick + 1
           new == [i \in 1..Len(pending) |-> [spell |-> pending[i], on |-> t]]
           Landing == [spell : SpellInjection, on : Nat]
<1>1. /\ pending \in Seq(DueNext) /\ t \in Nat
      /\ landed \in Seq(Landing)
      /\ pending \in Seq(SpellInjection) /\ Len(pending) \in Nat
  BY FieldType DEF RoundInv, RoundTypeOK
<1>2. \A i \in DOMAIN pending : pending[i] \in SpellInjection /\ pending[i].tick = t
  BY <1>1, ElementOfSeq DEF DueNext
<1>3. DueCount(pending, t) = Len(pending)
  BY <1>1, <1>2, AllDue
<1>4. landed' = landed \o new
  BY <1>3 DEF BattleTick
<1>5. new \in Seq(Landing) /\ Len(new) = Len(pending)
  <2>1. \A i \in 1..Len(pending) : new[i] \in Landing
    BY <1>1, <1>2
  <2> QED BY <2>1, <1>1
<1>6. \A i \in 1..Len(pending) : new[i] = [spell |-> pending[i], on |-> t]
  OBVIOUS
<1>7. /\ Len(landed) \in Nat /\ DOMAIN landed = 1..Len(landed)
      /\ DOMAIN pending = 1..Len(pending)
      /\ \A i \in DOMAIN landed : landed[i].spell \in SpellInjection
  <2>1. \A i \in DOMAIN landed : landed[i] \in Landing
    <3> HIDE DEF Landing, new
    <3> QED BY <1>1, ElementOfSeq
  <2> QED BY <2>1, <1>1
<1> HIDE DEF new
<1>8. /\ landed \o new \in Seq(Landing)
      /\ Len(landed \o new) = Len(landed) + Len(new)
      /\ \A i \in 1..(Len(landed) + Len(new)) :
            (landed \o new)[i] = IF i <= Len(landed) THEN landed[i]
                                 ELSE new[i - Len(landed)]
  BY <1>1, <1>5, ConcatProperties
<1>9. DOMAIN landed' = 1..(Len(landed) + Len(pending))
  BY <1>4, <1>5, <1>8
<1>10. ASSUME NEW i \in 1..Len(landed) PROVE landed'[i] = landed[i]
  BY <1>1, <1>4, <1>5, <1>7, <1>8
<1>11. ASSUME NEW i \in 1..Len(pending)
       PROVE  landed'[Len(landed) + i] = [spell |-> pending[i], on |-> t]
  <2>1. /\ Len(landed) + i \in 1..(Len(landed) + Len(new))
        /\ ~(Len(landed) + i <= Len(landed)) /\ (Len(landed) + i) - Len(landed) = i
    BY <1>1, <1>5, <1>7
  <2>2. landed'[Len(landed) + i] = new[i]
    BY <2>1, <1>4, <1>8
  <2> QED BY <2>2, <1>6
<1> QED BY <1>1, <1>2, <1>7, <1>9, <1>10, <1>11

LEMMA StepKeepsOrder ==
  ASSUME OrderInv, NEW damage \in TickDamage, NEW survivors \in TickSurvivors,
         NEW points \in TickPoints(survivors), Step(damage, points, survivors)
  PROVE  OrderInv'
<1>1. RoundInv /\ RoundInv'
  BY StepKeepsInv DEF OrderInv
<1>2. BattleTick(damage, points, survivors)
  BY <1>1, OpenBattle DEF Step
<1>3. pending' = << >> /\ tick' = tick + 1 /\ tick \in Nat
  BY <1>1, <1>2, TickEmptiesQueue, FieldType DEF BattleTick, RoundInv
<1> DEFINE l == Len(landed)
           p == Len(pending)
<1>4. /\ p \in Nat /\ l \in Nat
      /\ \A i \in 1..p : pending[i] \in SpellInjection /\ pending[i].tick = tick + 1
      /\ \A i \in 1..l : landed[i].spell \in SpellInjection
      /\ DOMAIN landed' = 1..(l + p)
      /\ \A i \in 1..l : landed'[i].spell = landed[i].spell
      /\ \A i \in 1..p : landed'[l + i].spell = pending[i]
  <2>1. /\ p \in Nat /\ l \in Nat
        /\ DOMAIN pending = 1..p /\ DOMAIN landed = 1..l
        /\ \A i \in DOMAIN pending :
             pending[i] \in SpellInjection /\ pending[i].tick = tick + 1
        /\ \A i \in DOMAIN landed : landed[i].spell \in SpellInjection
        /\ DOMAIN landed' = 1..(l + p)
        /\ \A i \in 1..l : landed'[i] = landed[i]
        /\ \A i \in 1..p : landed'[l + i] = [spell |-> pending[i], on |-> tick + 1]
    BY <1>1, <1>2, TickLandsQueue
  <2> HIDE DEF l, p
  <2>2. ASSUME NEW i \in 1..p PROVE landed'[l + i].spell = pending[i]
    <3>1. landed'[l + i] = [spell |-> pending[i], on |-> tick + 1]
      BY <2>1, Zenon
    <3> QED BY <3>1
  <2>3. ASSUME NEW i \in 1..l PROVE landed'[i].spell = landed[i].spell
    BY <2>1
  <2>4. \A i \in 1..p : pending[i] \in SpellInjection /\ pending[i].tick = tick + 1
    BY <2>1
  <2>5. \A i \in 1..l : landed[i].spell \in SpellInjection
    BY <2>1
  <2> QED BY <2>1, <2>2, <2>3, <2>4, <2>5
<1>5. /\ \A i \in 1..l : landed[i].spell.tick <= tick
      /\ \A i, j \in 1..l : i < j => ~Precedes(landed[j].spell, landed[i].spell)
      /\ \A i, j \in 1..p : i < j => ~Precedes(pending[j], pending[i])
  BY <1>1, <1>2, TickLandsQueue DEF OrderInv, LandingOrder, Sorted
<1>6. Sorted(pending')
  BY <1>3 DEF Sorted
<1> HIDE DEF l, p
<1>7. \A i \in 1..(l + p) : i \in 1..l \/ (i - l \in 1..p /\ l + (i - l) = i)
  BY <1>4
<1>8. ASSUME NEW i \in 1..(l + p)
      PROVE  landed'[i].spell.tick <= tick + 1
  <2>1. CASE i \in 1..l
    <3>1. landed[i].spell.tick \in Nat
      BY <2>1, <1>4 DEF SpellInjection
    <3> QED BY <2>1, <3>1, <1>3, <1>4, <1>5
  <2>2. CASE i - l \in 1..p /\ l + (i - l) = i
    <3>1. landed'[l + (i - l)].spell = pending[i - l]
      BY <2>2, <1>4
    <3> QED BY <2>2, <3>1, <1>3, <1>4
  <2> QED BY <2>1, <2>2, <1>7
<1>9. ASSUME NEW i \in 1..(l + p), NEW j \in 1..(l + p), i < j
      PROVE  ~Precedes(landed'[j].spell, landed'[i].spell)
  <2>1. CASE j \in 1..l
    <3>1. i \in 1..l
      BY <2>1, <1>4, <1>9
    <3> QED BY <2>1, <3>1, <1>4, <1>5, <1>9
  <2>2. CASE i \in 1..l /\ j - l \in 1..p /\ l + (j - l) = j
    <3>1. landed'[l + (j - l)].spell = pending[j - l]
      BY <2>2, <1>4
    <3>2. landed'[j].spell.tick = tick + 1 /\ landed'[i].spell.tick <= tick
      BY <2>2, <3>1, <1>4, <1>5
    <3>3. landed'[i].spell.tick \in Nat
      BY <2>2, <1>4 DEF SpellInjection
    <3> QED BY <3>2, <3>3, <1>3 DEF Precedes
  <2>3. CASE /\ i - l \in 1..p /\ l + (i - l) = i
             /\ j - l \in 1..p /\ l + (j - l) = j
    <3>1. landed'[j].spell = pending[j - l] /\ landed'[i].spell = pending[i - l]
      <4>1. landed'[l + (i - l)].spell = pending[i - l]
        BY <2>3, <1>4
      <4>2. landed'[l + (j - l)].spell = pending[j - l]
        BY <2>3, <1>4
      <4> QED BY <2>3, <4>1, <4>2
    <3>2. i - l < j - l
      BY <1>4, <1>9
    <3> QED BY <2>3, <3>1, <3>2, <1>5
  <2> QED BY <1>7, <1>9, <1>4, <2>1, <2>2, <2>3
<1>10. LandingOrder'
  BY <1>4, <1>9 DEF LandingOrder
<1>11. \A i \in DOMAIN landed' : landed'[i].spell.tick <= tick'
  BY <1>3, <1>4, <1>8
<1> QED BY <1>1, <1>6, <1>10, <1>11 DEF OrderInv, Sorted

(* Spells land in injection_order: of two landings the later never comes    *)
(* before the earlier, whichever seat's cast the server heard first         *)
(* (spells.py, injection_order; run_battle.py, inject).                     *)
THEOREM SpellsLandInOrder == Spec => []LandingOrder
<1>1. Init => OrderInv
  <2> SUFFICES ASSUME Init PROVE OrderInv
    OBVIOUS
  <2>1. pending = << >> /\ landed = << >>
    BY DEF Init, RoundInit
  <2> QED BY <2>1, RoundInvInit DEF OrderInv, Sorted, LandingOrder
<1>2. OrderInv /\ [Next]_roundVars => OrderInv'
  <2> SUFFICES ASSUME OrderInv, [Next]_roundVars PROVE OrderInv'
    OBVIOUS
  <2>1. CASE SomeStep
    BY <2>1, StepKeepsOrder DEF SomeStep
  <2>2. CASE SomeCast
    BY <2>2, CastKeepsOrder DEF SomeCast
  <2>3. CASE UNCHANGED roundVars
    <3>1. RoundInv'
      BY <2>3, StillRoundKeepsInv DEF OrderInv
    <3>2. pending' = pending /\ landed' = landed /\ tick' = tick
      BY <2>3 DEF roundVars, worldVars
    <3> QED BY <3>1, <3>2 DEF OrderInv, Sorted, LandingOrder
  <2> QED BY <2>1, <2>2, <2>3 DEF Next
<1>3. OrderInv => LandingOrder
  BY DEF OrderInv
<1> QED BY <1>1, <1>2, <1>3, PTL DEF Spec

-----------------------------------------------------------------------------
(* The count of equal casts.                                                *)

(* Moving a set of places, no two to the same place, keeps their number.    *)
LEMMA MovedPlaces ==
  ASSUME NEW S, IsFiniteSet(S), NEW T, NEW f \in [S -> T],
         \A i, j \in S : f[i] = f[j] => i = j,
         \A k \in T : \E i \in S : f[i] = k
  PROVE  IsFiniteSet(T) /\ Cardinality(T) = Cardinality(S)
<1>1. f \in Bijection(S, T)
  BY DEF Bijection, Injection, Surjection, IsInjective
<1> QED BY <1>1, FS_Bijection DEF ExistsBijection

LEMMA PlacesAreFinite ==
  ASSUME NEW l \in Nat, NEW S \in SUBSET (1..l)
  PROVE  IsFiniteSet(S) /\ Cardinality(S) \in Nat
<1>1. IsFiniteSet(1..l)
  BY FS_Interval
<1>2. IsFiniteSet(S)
  BY <1>1, FS_Subset
<1> QED BY <1>2, FS_CardinalityType

PlacesOf(q, x) == {i \in DOMAIN q : q[i] = x}
LandedOf(x) == {i \in DOMAIN landed : landed[i].spell = x}
AskedOf(x) == {i \in DOMAIN casts : Asked(casts[i]) = x}

(* Inserting an entry adds one to its own count and nothing to another's.   *)
LEMMA InjectCounts ==
  ASSUME NEW S, NEW q \in Seq(S), NEW e \in S, NEW x
  PROVE  Cardinality(PlacesOf(Inject(q, e), x))
           = Cardinality(PlacesOf(q, x)) + (IF x = e THEN 1 ELSE 0)
<1> DEFINE l == Len(q)
           k == Place(q, e)
           z == Inject(q, e)
           before == PlacesOf(q, x)
           after == PlacesOf(z, x)
           others == {i \in after : i # k}
           f == [i \in before |-> IF i < k THEN i ELSE i + 1]
<1>1. l \in Nat /\ DOMAIN q = 1..l
  OBVIOUS
<1>2. /\ k \in 1..(l + 1) /\ z \in Seq(S) /\ Len(z) = l + 1
      /\ \A i \in 1..(l + 1) : z[i] = IF i < k THEN q[i] ELSE IF i = k THEN e ELSE q[i - 1]
  BY InjectShape
<1>3. DOMAIN z = 1..(l + 1)
  BY <1>1, <1>2
<1> HIDE DEF l, k, z
<1>4. \A i : i \in before <=> i \in 1..l /\ q[i] = x
  BY <1>1 DEF PlacesOf
<1>5. \A i : i \in after <=> i \in 1..(l + 1) /\ z[i] = x
  BY <1>3 DEF PlacesOf
<1>6. IsFiniteSet(before) /\ Cardinality(before) \in Nat
  <2>1. before \in SUBSET (1..l)
    BY <1>4
  <2> HIDE DEF before
  <2> QED BY <2>1, <1>1, PlacesAreFinite
<1>7. k \in after <=> x = e
  BY <1>1, <1>2, <1>5
<1> HIDE DEF before, after
<1>8. \A i : i \in others <=> i \in after /\ i # k
  OBVIOUS
<1>9. IsFiniteSet(others) /\ Cardinality(others) = Cardinality(before)
  <2>1. ASSUME NEW i \in before
        PROVE  (IF i < k THEN i ELSE i + 1) \in others
    <3>1. i \in 1..l /\ q[i] = x
      BY <1>4
    <3>2. CASE i < k
      <4>1. i \in 1..(l + 1) /\ z[i] = q[i] /\ i # k
        BY <3>1, <3>2, <1>1, <1>2
      <4> QED BY <3>1, <3>2, <4>1, <1>5, <1>8
    <3>3. CASE ~(i < k)
      <4>1. i + 1 \in 1..(l + 1) /\ ~(i + 1 < k) /\ i + 1 # k /\ (i + 1) - 1 = i
        BY <3>1, <3>3, <1>1, <1>2
      <4>2. z[i + 1] = q[i]
        BY <4>1, <1>2
      <4> QED BY <3>1, <3>3, <4>1, <4>2, <1>5, <1>8
    <3> QED BY <3>2, <3>3
  <2>2. f \in [before -> others]
    <3> HIDE DEF others
    <3> QED BY <2>1
  <2>3. \A i, j \in before : f[i] = f[j] => i = j
    BY <1>1, <1>2, <1>4
  <2>4. ASSUME NEW m \in others PROVE \E i \in before : f[i] = m
    <3>1. m \in 1..(l + 1) /\ z[m] = x /\ m # k
      BY <1>5, <1>8
    <3>2. CASE m < k
      <4>1. m \in before
        BY <3>1, <3>2, <1>1, <1>2, <1>4
      <4> QED BY <3>2, <4>1
    <3>3. CASE m > k
      <4>1. m - 1 \in 1..l /\ q[m - 1] = x /\ ~(m - 1 < k) /\ (m - 1) + 1 = m
        BY <3>1, <3>3, <1>1, <1>2
      <4>2. m - 1 \in before
        BY <4>1, <1>4
      <4>3. f[m - 1] = m
        BY <4>1, <4>2
      <4> QED BY <4>2, <4>3
    <3> QED BY <3>1, <3>2, <3>3, <1>2
  <2> HIDE DEF f, others
  <2> QED BY <2>2, <2>3, <2>4, <1>6, MovedPlaces
<1>10. CASE x = e
  <2>1. after = others \cup {k} /\ k \notin others
    BY <1>7, <1>8, <1>10
  <2> HIDE DEF others
  <2>2. Cardinality(others \cup {k}) = Cardinality(others) + 1
    BY <2>1, <1>9, FS_AddElement
  <2> QED BY <2>1, <2>2, <1>9, <1>10 DEF after, before, z
<1>11. CASE x # e
  <2>1. after = others
    BY <1>7, <1>8, <1>11
  <2>2. Cardinality(after) = Cardinality(before)
    BY <2>1, <1>9
  <2> QED BY <2>2, <1>6, <1>11 DEF after, before, z
<1> QED BY <1>10, <1>11

(* Every kind of cast: as many were accepted as wait and have landed.       *)
CountInv ==
  /\ RoundInv
  /\ \A x \in SpellInjection :
       Cardinality(AskedOf(x)) = Cardinality(PlacesOf(pending, x)) + Cardinality(LandedOf(x))

LEMMA CastKeepsCount ==
  ASSUME CountInv, NEW s \in Side, NEW c \in Command, AcceptCast(s, c)
  PROVE  CountInv'
<1> DEFINE inj == [tick |-> TargetTick, spell |-> c.spell, side |-> s, at |-> c.at]
           cast == [id |-> c.id, spell |-> c.spell, side |-> s, at |-> c.at,
                    tick |-> TargetTick, order |-> nextOrder]
           l == Len(casts)
<1>1. RoundInv'
  BY CastKeepsInv DEF CountInv
<1>2. inj \in SpellInjection /\ cast \in Resolved
  <2>1. c.spell \in Spell /\ c.at \in Spot /\ c.id \in CommandId /\ tick \in Nat
        /\ nextOrder \in Nat
    BY FieldType DEF CountInv, RoundInv, Command, RoundTypeOK
  <2> QED BY <2>1 DEF SpellInjection, Resolved, TargetTick
<1>3. /\ pending \in Seq(SpellInjection) /\ casts \in Seq(Resolved)
      /\ landed \in Seq([spell : SpellInjection, on : Nat])
  BY DEF CountInv, RoundInv, RoundTypeOK
<1>4. pending' = Inject(pending, inj) /\ casts' = Append(casts, cast) /\ landed' = landed
  BY DEF AcceptCast
<1>5. Asked(cast) = inj
  BY DEF Asked
<1> HIDE DEF inj, cast
<1>6. /\ l \in Nat /\ DOMAIN casts = 1..l /\ DOMAIN casts' = 1..(l + 1)
      /\ casts'[l + 1] = cast /\ \A i \in 1..l : casts'[i] = casts[i]
  BY <1>2, <1>3, <1>4
<1> HIDE DEF l
<1> SUFFICES ASSUME NEW x \in SpellInjection
             PROVE  Cardinality(AskedOf(x)') =
                      Cardinality(PlacesOf(pending', x)) + Cardinality(LandedOf(x)')
  BY <1>1 DEF CountInv
<1>7. Cardinality(PlacesOf(pending', x))
        = Cardinality(PlacesOf(pending, x)) + (IF x = inj THEN 1 ELSE 0)
  BY <1>2, <1>3, <1>4, InjectCounts
<1>8. LandedOf(x)' = LandedOf(x)
  BY <1>4 DEF LandedOf
<1>9. /\ \A i : i \in AskedOf(x) <=> i \in 1..l /\ Asked(casts[i]) = x
      /\ \A i : i \in AskedOf(x)' <=> i \in 1..(l + 1) /\ Asked(casts'[i]) = x
  BY <1>6 DEF AskedOf
<1>10. IsFiniteSet(AskedOf(x)) /\ l + 1 \notin AskedOf(x)
  <2>1. AskedOf(x) \in SUBSET (1..l)
    BY <1>9
  <2>2. IsFiniteSet(AskedOf(x))
    BY <2>1, <1>6, PlacesAreFinite
  <2>3. l + 1 \notin 1..l
    BY <1>6
  <2> QED BY <2>2, <2>3, <1>9
<1>11. Cardinality(AskedOf(x)') = Cardinality(AskedOf(x)) + (IF x = inj THEN 1 ELSE 0)
  <2>1. CASE x = inj
    <3>1. \A i : i \in AskedOf(x)' <=> i \in AskedOf(x) \cup {l + 1}
      <4> TAKE i
      <4>1. CASE i = l + 1
        BY <4>1, <2>1, <1>5, <1>6, <1>9
      <4>2. CASE i # l + 1
        <5>1. i \in 1..(l + 1) <=> i \in 1..l
          BY <4>2, <1>6
        <5> QED BY <4>2, <5>1, <1>6, <1>9
      <4> QED BY <4>1, <4>2
    <3>2. AskedOf(x)' = AskedOf(x) \cup {l + 1}
      BY <3>1
    <3>3. Cardinality(AskedOf(x) \cup {l + 1}) = Cardinality(AskedOf(x)) + 1
      BY <1>10, FS_AddElement
    <3> QED BY <2>1, <3>2, <3>3
  <2>2. CASE x # inj
    <3>1. \A i : i \in AskedOf(x)' <=> i \in AskedOf(x)
      <4> TAKE i
      <4>1. CASE i = l + 1
        BY <4>1, <2>2, <1>5, <1>6, <1>9, <1>10
      <4>2. CASE i # l + 1
        <5>1. i \in 1..(l + 1) <=> i \in 1..l
          BY <4>2, <1>6
        <5> QED BY <4>2, <5>1, <1>6, <1>9
      <4> QED BY <4>1, <4>2
    <3>2. AskedOf(x)' = AskedOf(x)
      BY <3>1
    <3>3. Cardinality(AskedOf(x)) \in Nat
      BY <1>10, FS_CardinalityType
    <3> QED BY <2>2, <3>2, <3>3
  <2> QED BY <2>1, <2>2
<1>12. /\ Cardinality(PlacesOf(pending, x)) \in Nat
       /\ Cardinality(LandedOf(x)) \in Nat
       /\ Cardinality(AskedOf(x)) \in Nat
  <2>1. PlacesOf(pending, x) \in SUBSET (1..Len(pending)) /\ Len(pending) \in Nat
    BY <1>3 DEF PlacesOf
  <2>2. LandedOf(x) \in SUBSET (1..Len(landed)) /\ Len(landed) \in Nat
    BY <1>3 DEF LandedOf
  <2> QED BY <2>1, <2>2, <1>10, PlacesAreFinite, FS_CardinalityType
<1>13. Cardinality(AskedOf(x)) = Cardinality(PlacesOf(pending, x)) + Cardinality(LandedOf(x))
  BY DEF CountInv
<1> QED BY <1>7, <1>8, <1>11, <1>12, <1>13

LEMMA StepKeepsCount ==
  ASSUME CountInv, NEW damage \in TickDamage, NEW survivors \in TickSurvivors,
         NEW points \in TickPoints(survivors), Step(damage, points, survivors)
  PROVE  CountInv'
<1>1. RoundInv /\ RoundInv'
  BY StepKeepsInv DEF CountInv
<1>2. BattleTick(damage, points, survivors)
  BY <1>1, OpenBattle DEF Step
<1>3. pending' = << >> /\ casts' = casts
  BY <1>1, <1>2, TickEmptiesQueue DEF Step
<1> DEFINE l == Len(landed)
           p == Len(pending)
<1>4. /\ p \in Nat /\ l \in Nat
      /\ DOMAIN pending = 1..p /\ DOMAIN landed = 1..l /\ DOMAIN landed' = 1..(l + p)
      /\ \A i \in 1..l : landed'[i].spell = landed[i].spell
  BY <1>1, <1>2, TickLandsQueue
<1>5. ASSUME NEW i \in 1..p PROVE landed'[l + i].spell = pending[i]
  <2>1. landed'[l + i] = [spell |-> pending[i], on |-> tick + 1]
    BY <1>1, <1>2, TickLandsQueue
  <2> HIDE DEF l, p
  <2> QED BY <2>1
<1> HIDE DEF l, p
<1> SUFFICES ASSUME NEW x \in SpellInjection
             PROVE  Cardinality(AskedOf(x)') =
                      Cardinality(PlacesOf(pending', x)) + Cardinality(LandedOf(x)')
  BY <1>1 DEF CountInv
<1> DEFINE old == LandedOf(x)
           waiting == PlacesOf(pending, x)
           all == LandedOf(x)'
           new == {i \in all : i > l}
           f == [i \in waiting |-> l + i]
<1>6. /\ \A i : i \in old <=> i \in 1..l /\ landed[i].spell = x
      /\ \A i : i \in all <=> i \in 1..(l + p) /\ landed'[i].spell = x
      /\ \A i : i \in waiting <=> i \in 1..p /\ pending[i] = x
  BY <1>4 DEF LandedOf, PlacesOf
<1>7. /\ IsFiniteSet(old) /\ Cardinality(old) \in Nat
      /\ IsFiniteSet(waiting) /\ Cardinality(waiting) \in Nat
  <2>1. old \in SUBSET (1..l) /\ waiting \in SUBSET (1..p)
    BY <1>6
  <2> HIDE DEF old, waiting
  <2> QED BY <2>1, <1>4, PlacesAreFinite
<1> HIDE DEF old, waiting, all
<1>8. \A i : i \in new <=> i \in all /\ i > l
  OBVIOUS
<1>9. IsFiniteSet(new) /\ Cardinality(new) = Cardinality(waiting)
  <2>1. ASSUME NEW i \in waiting PROVE l + i \in new
    <3>1. i \in 1..p /\ pending[i] = x
      BY <1>6
    <3>2. l + i \in 1..(l + p) /\ l + i > l
      BY <3>1, <1>4
    <3> QED BY <3>1, <3>2, <1>5, <1>6, <1>8
  <2>2. f \in [waiting -> new]
    <3> HIDE DEF new
    <3> QED BY <2>1
  <2>3. \A i, j \in waiting : f[i] = f[j] => i = j
    BY <1>4, <1>6
  <2>4. ASSUME NEW m \in new PROVE \E i \in waiting : f[i] = m
    <3>1. m \in 1..(l + p) /\ landed'[m].spell = x /\ m > l
      BY <1>6, <1>8
    <3>2. m - l \in 1..p /\ l + (m - l) = m
      BY <3>1, <1>4
    <3>3. landed'[l + (m - l)].spell = pending[m - l]
      BY <3>2, <1>5
    <3>4. m - l \in waiting
      BY <3>1, <3>2, <3>3, <1>6
    <3>5. f[m - l] = m
      BY <3>2, <3>4
    <3> QED BY <3>4, <3>5
  <2> HIDE DEF f, new
  <2> QED BY <2>2, <2>3, <2>4, <1>7, MovedPlaces
<1>10. all = old \cup new /\ old \cap new = {}
  <2>1. ASSUME NEW i PROVE i \in all <=> i \in old \/ i \in new
    <3>1. CASE i \in 1..l
      BY <3>1, <1>4, <1>6, <1>8
    <3>2. CASE i \notin 1..l
      <4>1. i \in 1..(l + p) => i > l
        BY <3>2, <1>4
      <4> QED BY <3>2, <4>1, <1>6, <1>8
    <3> QED BY <3>1, <3>2
  <2>2. ASSUME NEW i \in old PROVE i \notin new
    BY <1>4, <1>6, <1>8
  <2> HIDE DEF new
  <2> QED BY <2>1, <2>2
<1>11. Cardinality(all) = Cardinality(old) + Cardinality(waiting)
  <2> HIDE DEF new
  <2>1. Cardinality(old \cup new) = Cardinality(old) + Cardinality(new) - Cardinality(old \cap new)
    BY <1>7, <1>9, FS_Union
  <2>2. Cardinality(old \cap new) = 0
    BY <1>10, FS_EmptySet
  <2> QED BY <2>1, <2>2, <1>7, <1>9, <1>10
<1>12. PlacesOf(pending', x) = {} /\ AskedOf(x)' = AskedOf(x)
  BY <1>3 DEF PlacesOf, AskedOf
<1>13. Cardinality(AskedOf(x)) = Cardinality(waiting) + Cardinality(old)
  BY DEF CountInv, waiting, old
<1>14. Cardinality(PlacesOf(pending', x)) = 0
  BY <1>12, FS_EmptySet
<1>15. Cardinality(AskedOf(x)') = 0 + Cardinality(all)
  BY <1>7, <1>11, <1>12, <1>13
<1> QED BY <1>14, <1>15 DEF all

(* Every accepted cast waits or has landed, and once: as many landings and  *)
(* waiting entries carry a spell, seat, place and tick as casts were        *)
(* accepted for it, so two equal casts are two landings (round.py, cast;    *)
(* run_battle.py, inject).                                                  *)
THEOREM EveryCastLandsExactlyOnce == Spec => []EveryCastLandsOnce
<1>1. Init => CountInv
  <2> SUFFICES ASSUME Init PROVE CountInv
    OBVIOUS
  <2>1. pending = << >> /\ landed = << >> /\ casts = << >>
    BY DEF Init, RoundInit
  <2>2. ASSUME NEW x PROVE AskedOf(x) = {} /\ PlacesOf(pending, x) = {} /\ LandedOf(x) = {}
    BY <2>1 DEF AskedOf, PlacesOf, LandedOf
  <2> QED BY <2>2, FS_EmptySet, RoundInvInit DEF CountInv
<1>2. CountInv /\ [Next]_roundVars => CountInv'
  <2> SUFFICES ASSUME CountInv, [Next]_roundVars PROVE CountInv'
    OBVIOUS
  <2>1. CASE SomeStep
    BY <2>1, StepKeepsCount DEF SomeStep
  <2>2. CASE SomeCast
    BY <2>2, CastKeepsCount DEF SomeCast
  <2>3. CASE UNCHANGED roundVars
    <3>1. RoundInv'
      BY <2>3, StillRoundKeepsInv DEF CountInv
    <3>2. pending' = pending /\ landed' = landed /\ casts' = casts
      BY <2>3 DEF roundVars, worldVars
    <3> QED BY <3>1, <3>2 DEF CountInv, AskedOf, PlacesOf, LandedOf
  <2> QED BY <2>1, <2>2, <2>3 DEF Next
<1>3. CountInv => EveryCastLandsOnce
  <2> SUFFICES ASSUME CountInv, NEW k \in DOMAIN casts
               PROVE  LET x == Asked(casts[k])
                      IN  Cardinality({i \in DOMAIN casts : Asked(casts[i]) = x})
                            = Cardinality({i \in DOMAIN pending : pending[i] = x})
                              + Cardinality({i \in DOMAIN landed : landed[i].spell = x})
    BY Zenon DEF EveryCastLandsOnce
  <2>1. casts[k] \in Resolved
    BY ElementOfSeq DEF CountInv, RoundInv, RoundTypeOK
  <2>2. Asked(casts[k]) \in SpellInjection
    BY <2>1 DEF Asked, Resolved, SpellInjection
  <2> QED BY <2>2, Zenon DEF CountInv, AskedOf, PlacesOf, LandedOf
<1> QED BY <1>1, <1>2, <1>3, PTL DEF Spec


=============================================================================
