--------------------------- MODULE MatchScreenProofs ---------------------------
(***************************************************************************)
(* Proofs about the client.                                                *)
(*                                                                         *)
(* The fixture session: every answer it gives is true, a live connection   *)
(* shows the battle as it is, and a picture that is behind stays put.      *)
(* What makes them inductive is the state of its timers: which may be      *)
(* pending in which phase, and that there is at most one seat claim, one   *)
(* lock of the other seat and one tick on their way.                       *)
(*                                                                         *)
(* The plan: what the hub lets a player lock in, validate_plan refuses for *)
(* the client's own orders or for a mage that leads several troops, and    *)
(* for nothing else; and what it accepts, create_world never refuses.  The *)
(* invariant is that the troops whose mage leads no other fit it and, by   *)
(* themselves, stay within the pool: an edit checks the whole pool, so the *)
(* other troops can only make it stricter.  The sums, the entourage and    *)
(* the troops left when a mage goes are folds over lists: a fold is        *)
(* unfolded once (FoldExists) and then followed from prefix to prefix      *)
(* (StepByStep).                                                           *)
(***************************************************************************)
EXTENDS MatchScreen, SequenceTheorems, FiniteSetTheorems, WellFoundedInduction, TLAPS

-----------------------------------------------------------------------------
\* The invariant

PendingTimer == [left : Nat, kind : {"connect", "opponentLock", "tick", "recover", "cast"},
                 cmd : Nat, spell : Spell \cup {NoneArmed}]

SessionType ==
  /\ battle \in ScriptedState \cup {NoBattle}
  /\ loadout \subseteq Spell /\ armed \in Spell \cup {NoneArmed}
  /\ casts \in 0..MaxCasts /\ inFlight \subseteq 1..casts
  /\ timers \in Seq(PendingTimer)
  /\ DOMAIN told = Command

SlotsKnown ==
  plan # NoPlan => /\ DOMAIN plan = {"troops", "slots"}
                   /\ plan.slots \in [1..SpellSlots -> Content.spells \cup {NoSpell}]

\* The battle begins with the locked phase and is over with the result, and only its
\* picture may be behind, while the connection is down.
Phases ==
  /\ connection \in {"connecting", "claimFailed"} => shown.phase = "none"
  /\ shown.phase \in {"none", "planning", "locked"} => casts = 0
  /\ shown.phase \in {"none", "planning"} <=> battle = NoBattle
  /\ shown.phase \in {"none", "planning", "locked", "battle", "matchOver"}
  /\ shown.phase = "battle" /\ connection # "reconnecting" => shown.battle = battle
  /\ delivering = (connection # "reconnecting")
  /\ connection = "reconnecting" => shown.phase = "battle" /\ battle.ending = NoEnding

\* When a timer of each kind can be waiting.
Allowed(t) ==
  /\ t.kind = "connect" => connection = "connecting"
  /\ t.kind = "opponentLock" => shown.phase = "locked"
  /\ t.kind = "tick" => shown.phase = "battle" /\ battle.ending = NoEnding
  /\ t.kind = "recover" => shown.phase \in {"battle", "matchOver"}

\* At most one seat claim, one lock of the other seat and one tick are on their way.
Many == {"recover", "cast"}
OneEach(ts) ==
  \A i, j \in DOMAIN ts : ts[i].kind = ts[j].kind /\ i # j => ts[i].kind \in Many

TimersFit == OneEach(timers) /\ \A i \in DOMAIN timers : Allowed(timers[i])

Unsent == \A c \in Command : c > casts => told[c] = <<>>

SessionInv == SessionType /\ Phases /\ TimersFit /\ Unsent /\ ToldIsTrue


-----------------------------------------------------------------------------
\* The timers

LEMMA CutShape ==
  ASSUME NEW T, NEW ts \in Seq(T), NEW i \in DOMAIN ts
  PROVE  /\ RemoveAt(ts, i) \in Seq(T)
         /\ Len(RemoveAt(ts, i)) = Len(ts) - 1
         /\ \A j \in 1..Len(ts) - 1 : RemoveAt(ts, i)[j] = IF j < i THEN ts[j] ELSE ts[j + 1]
<1> DEFINE a == SubSeq(ts, 1, i - 1)
           b == SubSeq(ts, i + 1, Len(ts))
<1>1. Len(ts) \in Nat /\ i \in 1..Len(ts)
  BY LenProperties
<1>2. \A k \in 1..Len(ts) : ts[k] \in T
  BY ElementOfSeq
<1>3. /\ a \in Seq(T) /\ Len(a) = i - 1
      /\ \A k \in 1..i - 1 : a[k] = ts[k]
  <2>1. \A k \in 1..i - 1 : ts[k] \in T
    BY <1>1, <1>2
  <2>2. /\ SubSeq(ts, 1, i - 1) \in Seq(T)
        /\ Len(SubSeq(ts, 1, i - 1)) = IF 1 <= i - 1 THEN (i - 1) - 1 + 1 ELSE 0
        /\ \A k \in 1..(i - 1) - 1 + 1 : SubSeq(ts, 1, i - 1)[k] = ts[1 + k - 1]
    BY <1>1, <2>1, SubSeqProperties
  <2> QED
    BY <1>1, <2>2
<1>4. /\ b \in Seq(T) /\ Len(b) = Len(ts) - i
      /\ \A k \in 1..Len(ts) - i : b[k] = ts[i + k]
  <2>1. \A k \in i + 1..Len(ts) : ts[k] \in T
    BY <1>1, <1>2
  <2>2. /\ SubSeq(ts, i + 1, Len(ts)) \in Seq(T)
        /\ Len(SubSeq(ts, i + 1, Len(ts))) = IF i + 1 <= Len(ts) THEN Len(ts) - (i + 1) + 1 ELSE 0
        /\ \A k \in 1..Len(ts) - (i + 1) + 1 : SubSeq(ts, i + 1, Len(ts))[k] = ts[(i + 1) + k - 1]
    BY <1>1, <2>1, SubSeqProperties
  <2> QED
    BY <1>1, <2>2
<1>5. RemoveAt(ts, i) = a \o b
  BY DEF RemoveAt
<1> HIDE DEF a, b
<1>6. /\ a \o b \in Seq(T) /\ Len(a \o b) = Len(a) + Len(b)
      /\ \A k \in 1..Len(a) + Len(b) : (a \o b)[k] = IF k <= Len(a) THEN a[k] ELSE b[k - Len(a)]
  BY <1>3, <1>4, ConcatProperties
<1>7. ASSUME NEW j \in 1..Len(ts) - 1
      PROVE  (a \o b)[j] = IF j < i THEN ts[j] ELSE ts[j + 1]
  <2>1. CASE j < i
    BY <1>1, <1>3, <1>4, <1>6, <2>1
  <2>2. CASE ~(j < i)
    <3>0. j \in 1..Len(a) + Len(b) /\ ~(j <= Len(a)) /\ Len(a) = i - 1
      BY <1>1, <1>3, <1>4, <2>2
    <3>1. (a \o b)[j] = b[j - (i - 1)]
      BY <1>6, <3>0
    <3>2. j - (i - 1) \in 1..Len(ts) - i /\ i + (j - (i - 1)) = j + 1
      BY <1>1, <2>2
    <3>3. b[j - (i - 1)] = ts[i + (j - (i - 1))]
      BY <1>4, <3>2
    <3> QED
      BY <2>2, <3>1, <3>2, <3>3
  <2> QED
    BY <2>1, <2>2
<1>8. Len(a \o b) = Len(ts) - 1
  BY <1>1, <1>3, <1>4, <1>6
<1> QED
  BY <1>5, <1>6, <1>7, <1>8

\* A timer that fires leaves the others, in their order.
LEMMA CutTimers ==
  ASSUME NEW ts \in Seq(PendingTimer), NEW i \in DOMAIN ts, OneEach(ts)
  PROVE  /\ RemoveAt(ts, i) \in Seq(PendingTimer)
         /\ OneEach(RemoveAt(ts, i))
         /\ \A j \in DOMAIN RemoveAt(ts, i) :
              \E k \in DOMAIN ts : k # i /\ RemoveAt(ts, i)[j] = ts[k]
         /\ ts[i].kind \notin Many =>
              \A j \in DOMAIN RemoveAt(ts, i) : RemoveAt(ts, i)[j].kind # ts[i].kind
<1> DEFINE r == RemoveAt(ts, i)
           at(j) == IF j < i THEN j ELSE j + 1
<1>1. Len(ts) \in Nat /\ DOMAIN ts = 1..Len(ts) /\ i \in 1..Len(ts)
  BY LenProperties
<1>2. /\ r \in Seq(PendingTimer) /\ Len(r) = Len(ts) - 1
      /\ \A j \in 1..Len(ts) - 1 : r[j] = IF j < i THEN ts[j] ELSE ts[j + 1]
  BY CutShape
<1>3. DOMAIN r = 1..Len(ts) - 1
  BY <1>2, LenProperties
<1> HIDE DEF r
<1>4. ASSUME NEW j \in DOMAIN r
      PROVE  at(j) \in DOMAIN ts /\ at(j) # i /\ r[j] = ts[at(j)]
  BY <1>1, <1>2, <1>3
<1>5. ASSUME NEW j \in DOMAIN r, NEW k \in DOMAIN r, j # k
      PROVE  at(j) # at(k)
  BY <1>1, <1>3, <1>5
<1> HIDE DEF at
<1>6. OneEach(r)
  BY <1>4, <1>5 DEF OneEach
<1>7. \A j \in DOMAIN r : \E k \in DOMAIN ts : k # i /\ r[j] = ts[k]
  BY <1>4
<1>8. ASSUME ts[i].kind \notin Many, NEW j \in DOMAIN r
      PROVE  r[j].kind # ts[i].kind
  BY <1>4, <1>8 DEF OneEach
<1> QED
  BY <1>2, <1>6, <1>7, <1>8 DEF r

\* A timer that is set comes last.
LEMMA SetTimer ==
  ASSUME NEW ts \in Seq(PendingTimer), NEW t \in PendingTimer, OneEach(ts),
         t.kind \in Many \/ \A j \in DOMAIN ts : ts[j].kind # t.kind
  PROVE  /\ Append(ts, t) \in Seq(PendingTimer)
         /\ OneEach(Append(ts, t))
         /\ \A j \in DOMAIN Append(ts, t) :
              Append(ts, t)[j] = t \/ \E k \in DOMAIN ts : Append(ts, t)[j] = ts[k]
<1> DEFINE s == Append(ts, t)
<1>1. Len(ts) \in Nat /\ DOMAIN ts = 1..Len(ts)
  BY LenProperties
<1>2. /\ s \in Seq(PendingTimer) /\ Len(s) = Len(ts) + 1
      /\ \A k \in 1..Len(ts) : s[k] = ts[k]
      /\ s[Len(ts) + 1] = t
  BY AppendProperties
<1>3. DOMAIN s = 1..Len(ts) + 1
  BY <1>2, LenProperties
<1> HIDE DEF s
<1>4. ASSUME NEW j \in DOMAIN s
      PROVE  (j = Len(ts) + 1 /\ s[j] = t) \/ (j \in DOMAIN ts /\ s[j] = ts[j])
  <2>1. j \in 1..Len(ts) \/ j = Len(ts) + 1
    BY <1>1, <1>3
  <2> QED
    BY <1>1, <1>2, <2>1
<1>5. Len(ts) + 1 \notin DOMAIN ts
  BY <1>1
<1>6. OneEach(s)
  <2> SUFFICES ASSUME NEW i \in DOMAIN s, NEW j \in DOMAIN s, s[i].kind = s[j].kind, i # j
               PROVE  s[i].kind \in Many
    BY DEF OneEach
  <2>1. CASE i \in DOMAIN ts /\ s[i] = ts[i] /\ j \in DOMAIN ts /\ s[j] = ts[j]
    BY <2>1 DEF OneEach
  <2>2. CASE i = Len(ts) + 1 /\ s[i] = t /\ j \in DOMAIN ts /\ s[j] = ts[j]
    BY <2>2
  <2>3. CASE j = Len(ts) + 1 /\ s[j] = t /\ i \in DOMAIN ts /\ s[i] = ts[i]
    BY <2>3
  <2> QED
    BY <1>4, <2>1, <2>2, <2>3
<1> QED
  BY <1>2, <1>4, <1>6 DEF s

LEMMA TimerIsTimer ==
  ASSUME NEW time \in Nat, NEW kind \in {"connect", "opponentLock", "tick", "recover", "cast"}
  PROVE  Timer(time, kind) \in PendingTimer /\ Timer(time, kind).kind = kind
BY DEF Timer, NewTimer, PendingTimer

LEMMA AppendToNone ==
  ASSUME NEW a
  PROVE  Append(<<>>, a) = <<a>>
<1> DEFINE S == {a}
<1>1. <<>> \in Seq(S) /\ Len(<<>>) = 0 /\ a \in S /\ <<a>> \in Seq(S) /\ Len(<<a>>) = 1 /\ <<a>>[1] = a
  OBVIOUS
<1> HIDE DEF S
<1>2. /\ Append(<<>>, a) \in Seq(S) /\ Len(Append(<<>>, a)) = 1
      /\ Append(<<>>, a)[1] = a
  BY <1>1, AppendProperties
<1>3. \A i \in 1..1 : Append(<<>>, a)[i] = <<a>>[i]
  BY <1>1, <1>2
<1> QED
  BY <1>1, <1>2, <1>3, SeqEqual

LEMMA AppendToOne ==
  ASSUME NEW a, NEW b
  PROVE  Append(<<a>>, b) = <<a, b>>
<1> DEFINE S == {a, b}
<1>1. <<a>> \in Seq(S) /\ Len(<<a>>) = 1 /\ <<a>>[1] = a /\ b \in S
  OBVIOUS
<1>2. <<a, b>> \in Seq(S) /\ Len(<<a, b>>) = 2 /\ <<a, b>>[1] = a /\ <<a, b>>[2] = b
  OBVIOUS
<1> HIDE DEF S
<1>3. /\ Append(<<a>>, b) \in Seq(S) /\ Len(Append(<<a>>, b)) = 2
      /\ Append(<<a>>, b)[1] = a /\ Append(<<a>>, b)[2] = b
  BY <1>1, AppendProperties
<1>4. \A i \in 1..2 : Append(<<a>>, b)[i] = <<a, b>>[i]
  <2>1. \A i \in 1..2 : i = 1 \/ i = 2
    OBVIOUS
  <2> QED
    BY <1>2, <1>3, <2>1
<1> QED
  BY <1>2, <1>3, <1>4, SeqEqual

LEMMA OneTimer ==
  ASSUME NEW t \in PendingTimer
  PROVE  <<t>> \in Seq(PendingTimer) /\ OneEach(<<t>>) /\ \A j \in DOMAIN <<t>> : <<t>>[j] = t
<1>1. DOMAIN <<t>> = {1} /\ <<t>>[1] = t
  OBVIOUS
<1> QED
  BY <1>1 DEF OneEach

-----------------------------------------------------------------------------
\* The battle

LEMMA TheBattleIsReal ==
  ASSUME SessionType
  PROVE  /\ battle # NoBattle => battle \in ScriptedState
         /\ OpeningBattle \in ScriptedState /\ OpeningBattle.casts = {}
         /\ OpeningBattle.ending = NoEnding /\ OpeningBattle # NoBattle
<1>1. OpeningBattle \in ScriptedState
  BY SessionAssumption DEF OpeningBattle, ScriptedState
<1>2. OpeningBattle.casts = {} /\ OpeningBattle.ending = NoEnding
  BY DEF OpeningBattle
<1> QED
  BY <1>1, <1>2, NothingAssumption DEF SessionType

LEMMA AdvanceShape ==
  ASSUME NEW b \in ScriptedState, NEW n \in Advance(b)
  PROVE  n \in ScriptedState /\ n.casts = b.casts
<1> DEFINE charged == b.energy + EnergyGain
           energy == IF charged > EnergyCap THEN EnergyCap ELSE charged
           next == [b EXCEPT !.tick = @ + 1, !.energy = energy]
<1>1. b.tick + 1 \in Nat /\ energy \in Int
  BY SessionAssumption DEF ScriptedState
<1> HIDE DEF energy
<1>2. next \in ScriptedState /\ next.casts = b.casts
  BY <1>1 DEF ScriptedState
<1>3. \E e \in Endings \cup {NoEnding} : n = [next EXCEPT !.ending = e]
  BY DEF Advance, energy
<1> HIDE DEF next
<1>4. PICK e \in Endings \cup {NoEnding} : n = [next EXCEPT !.ending = e]
  BY <1>3
<1> QED
  BY <1>2, <1>4 DEF ScriptedState

LEMMA ApplyCastShape ==
  ASSUME SessionType, NEW b \in ScriptedState, NEW cmd \in Command, NEW spell
  PROVE  /\ ApplyCast(b, cmd, spell) \in ScriptedState
         /\ ApplyCast(b, cmd, spell).ending = b.ending
         /\ ApplyCast(b, cmd, spell).casts =
              IF Rejection(b, cmd, spell) = "none" THEN b.casts \cup {cmd} ELSE b.casts
<1>1. CASE Rejection(b, cmd, spell) # "none" \/ cmd \in b.casts
  <2>1. ApplyCast(b, cmd, spell) = b
    BY <1>1 DEF ApplyCast
  <2> QED
    BY <1>1, <2>1
<1>2. CASE Rejection(b, cmd, spell) = "none" /\ cmd \notin b.casts
  <2>1. ApplyCast(b, cmd, spell)
          = [b EXCEPT !.energy = @ - SpellCost[spell], !.casts = @ \cup {cmd}]
    BY <1>2 DEF ApplyCast
  <2>2. spell \in Spell
    BY <1>2 DEF Rejection, SessionType
  <2>3. b.energy - SpellCost[spell] \in Int /\ b.casts \cup {cmd} \in SUBSET Command
    BY <2>2, SessionAssumption DEF ScriptedState
  <2> QED
    BY <1>2, <2>1, <2>3 DEF ScriptedState
<1> QED
  BY <1>1, <1>2

-----------------------------------------------------------------------------
\* Init, and the timers

LEMMA FreshKeepsAll ==
  ASSUME NEW s \in Scenarios, Fresh(s)
  PROVE  SessionInv'
<1>1. Timer(ConnectTime, "connect") \in PendingTimer /\ Timer(ConnectTime, "connect").kind = "connect"
  BY TimerIsTimer, SessionAssumption
<1>2. TimersFit'
  <2>1. timers' = <<Timer(ConnectTime, "connect")>> /\ connection' = "connecting"
    BY DEF Fresh
  <2>2. timers' \in Seq(PendingTimer) /\ OneEach(timers')
        /\ \A j \in DOMAIN timers' : timers'[j] = Timer(ConnectTime, "connect")
    BY <1>1, <2>1, OneTimer
  <2> QED
    BY <1>1, <2>1, <2>2 DEF TimersFit, Allowed, OneEach
<1>3. SessionType'
  BY <1>1, OneTimer, SessionAssumption DEF Fresh, SessionType
<1>4. Phases'
  BY DEF Fresh, Phases, Blank
<1>5. Unsent' /\ ToldIsTrue'
  BY DEF Fresh, Unsent, ToldIsTrue
<1> QED
  BY <1>2, <1>3, <1>4, <1>5 DEF SessionInv

LEMMA InitHoldsAll == SessionInit => SessionInv
<1> SUFFICES ASSUME SessionInit PROVE SessionInv
  OBVIOUS
<1>1. Timer(ConnectTime, "connect") \in PendingTimer /\ Timer(ConnectTime, "connect").kind = "connect"
  BY TimerIsTimer, SessionAssumption
<1>2. TimersFit
  <2>1. timers = <<Timer(ConnectTime, "connect")>> /\ connection = "connecting"
    BY DEF SessionInit
  <2>2. timers \in Seq(PendingTimer) /\ OneEach(timers)
        /\ \A j \in DOMAIN timers : timers[j] = Timer(ConnectTime, "connect")
    BY <1>1, <2>1, OneTimer
  <2> QED
    BY <1>1, <2>1, <2>2 DEF TimersFit, Allowed
<1>3. SessionType
  BY <1>1, OneTimer, SessionAssumption DEF SessionInit, SessionType
<1>4. Phases
  BY DEF SessionInit, Phases, Blank
<1>5. Unsent /\ ToldIsTrue
  BY DEF SessionInit, Unsent, ToldIsTrue
<1> QED
  BY <1>2, <1>3, <1>4, <1>5 DEF SessionInv

LEMMA ElapseKeepsAll == SessionInv /\ Elapse => SessionInv'
<1> SUFFICES ASSUME SessionInv, Elapse PROVE SessionInv'
  OBVIOUS
<1>1. Len(timers) \in Nat /\ DOMAIN timers = 1..Len(timers)
  BY LenProperties DEF SessionInv, SessionType
<1>2. ASSUME NEW i \in 1..Len(timers)
      PROVE  /\ [timers[i] EXCEPT !.left = @ - 1] \in PendingTimer
             /\ [timers[i] EXCEPT !.left = @ - 1].kind = timers[i].kind
  <2>1. timers[i] \in PendingTimer
    BY ElementOfSeq DEF SessionInv, SessionType
  <2>2. timers[i].left - 1 \in Nat
    BY <1>1, <2>1 DEF Elapse, PendingTimer
  <2> QED
    BY <2>1, <2>2 DEF PendingTimer
<1>3. timers' = [i \in 1..Len(timers) |-> [timers[i] EXCEPT !.left = @ - 1]]
  BY <1>1 DEF Elapse
<1>4. timers' \in Seq(PendingTimer) /\ DOMAIN timers' = DOMAIN timers
  <2>1. timers' \in [1..Len(timers) -> PendingTimer]
    BY <1>2, <1>3
  <2> QED
    BY <1>1, <2>1, SeqDef
<1>5. \A i \in DOMAIN timers' : timers'[i].kind = timers[i].kind
  BY <1>1, <1>2, <1>3
<1>6. SessionType'
  BY <1>4 DEF SessionInv, SessionType, Elapse
<1>7. TimersFit'
  BY <1>4, <1>5 DEF SessionInv, TimersFit, OneEach, Allowed, Elapse
<1>8. Phases'
  BY DEF SessionInv, Phases, Elapse
<1>9. Unsent' /\ ToldIsTrue'
  BY DEF SessionInv, Unsent, ToldIsTrue, Elapse
<1> QED
  BY <1>6, <1>7, <1>8, <1>9 DEF SessionInv

LEMMA OthersFit ==
  ASSUME SessionInv, NEW i \in DOMAIN timers
  PROVE  /\ timers[i] \in PendingTimer /\ Allowed(timers[i])
         /\ Others(i) \in Seq(PendingTimer) /\ OneEach(Others(i))
         /\ \A j \in DOMAIN Others(i) : Allowed(Others(i)[j])
         /\ timers[i].kind \notin Many =>
              \A j \in DOMAIN Others(i) : Others(i)[j].kind # timers[i].kind
<1>1. timers \in Seq(PendingTimer) /\ OneEach(timers) /\ \A k \in DOMAIN timers : Allowed(timers[k])
  BY DEF SessionInv, SessionType, TimersFit
<1>2. timers[i] \in PendingTimer
  BY <1>1, LenProperties, ElementOfSeq
<1>3. /\ Others(i) \in Seq(PendingTimer) /\ OneEach(Others(i))
      /\ \A j \in DOMAIN Others(i) :
           \E k \in DOMAIN timers : k # i /\ Others(i)[j] = timers[k]
      /\ timers[i].kind \notin Many =>
           \A j \in DOMAIN Others(i) : Others(i)[j].kind # timers[i].kind
  BY <1>1, CutTimers DEF Others
<1>4. ASSUME NEW j \in DOMAIN Others(i)
      PROVE  Allowed(Others(i)[j])
  <2>1. PICK k \in DOMAIN timers : Others(i)[j] = timers[k]
    BY <1>3
  <2> QED
    BY <1>1, <2>1
<1> QED
  BY <1>1, <1>2, <1>3, <1>4

LEMMA SeatClaimedKeepsAll ==
  ASSUME SessionInv, NEW i \in DOMAIN timers, SeatClaimed(i)
  PROVE  SessionInv'
<1>1. /\ timers[i].kind = "connect" /\ timers[i].kind \notin Many
      /\ connection = "connecting" /\ shown.phase = "none" /\ casts = 0 /\ battle = NoBattle
  BY OthersFit DEF SeatClaimed, Allowed, Many, SessionInv, Phases
<1>2. timers' = Others(i)
  BY DEF SeatClaimed
<1>3. TimersFit'
  BY <1>1, <1>2, OthersFit DEF SeatClaimed, Allowed, TimersFit
<1>4. SessionType'
  BY <1>2, OthersFit DEF SeatClaimed, SessionInv, SessionType
<1>5. Phases'
  BY <1>1 DEF SeatClaimed, SessionInv, Phases, Planning, Blank
<1>6. Unsent' /\ ToldIsTrue'
  BY DEF SeatClaimed, SessionInv, Unsent, ToldIsTrue
<1> QED
  BY <1>3, <1>4, <1>5, <1>6 DEF SessionInv

LEMMA StartBattleKeepsAll ==
  ASSUME SessionInv, NEW i \in DOMAIN timers, StartBattle(i)
  PROVE  SessionInv'
<1>1. timers[i].kind = "opponentLock" /\ timers[i].kind \notin Many /\ shown.phase = "locked"
  BY OthersFit DEF StartBattle, Allowed, Many
<1>2. /\ casts = 0 /\ delivering = TRUE /\ battle # NoBattle
      /\ connection \notin {"connecting", "claimFailed", "reconnecting"}
  BY <1>1 DEF SessionInv, Phases
<1>3. battle' = OpeningBattle /\ shown' = BattleShot(OpeningBattle)
  BY <1>2 DEF StartBattle, ShowBattle
<1>4. shown'.phase = "battle" /\ shown'.battle = battle'
  BY <1>3 DEF BattleShot
<1>5. /\ OpeningBattle \in ScriptedState /\ OpeningBattle.casts = {}
      /\ OpeningBattle.ending = NoEnding /\ OpeningBattle # NoBattle
  BY TheBattleIsReal DEF SessionInv
<1>6. Timer(TickTime, "tick") \in PendingTimer /\ Timer(TickTime, "tick").kind = "tick"
  BY TimerIsTimer, SessionAssumption
<1>7. /\ timers' = Append(Others(i), Timer(TickTime, "tick"))
      /\ \A j \in DOMAIN Others(i) : Others(i)[j].kind # "tick"
  BY <1>1, OthersFit DEF StartBattle, Allowed
<1>8. /\ timers' \in Seq(PendingTimer) /\ OneEach(timers')
      /\ \A j \in DOMAIN timers' : \/ timers'[j] = Timer(TickTime, "tick")
                                   \/ \E k \in DOMAIN Others(i) : timers'[j] = Others(i)[k]
  BY <1>6, <1>7, SetTimer, OthersFit
<1>9. TimersFit'
  <2>1. ASSUME NEW j \in DOMAIN timers'
        PROVE  Allowed(timers[j])'
    <3>1. CASE timers'[j] = Timer(TickTime, "tick")
      BY <1>3, <1>4, <1>5, <1>6, <3>1 DEF Allowed
    <3>2. ASSUME NEW k \in DOMAIN Others(i), timers'[j] = Others(i)[k]
          PROVE  Allowed(timers[j])'
      BY <1>1, <1>2, <1>4, <3>2, OthersFit DEF Allowed
    <3> QED
      BY <1>8, <3>1, <3>2
  <2> QED
    BY <1>8, <2>1 DEF TimersFit
<1>10. SessionType'
  BY <1>3, <1>5, <1>8 DEF StartBattle, SessionInv, SessionType
<1>11. Phases'
  BY <1>1, <1>2, <1>3, <1>4, <1>5 DEF StartBattle, Phases
<1>12. Unsent' /\ ToldIsTrue'
  <2>1. \A c \in Command : c > 0
    BY DEF Command
  <2>2. \A c \in Command : told[c] = <<>> /\ c \notin inFlight
    BY <1>2, <2>1 DEF SessionInv, Unsent, SessionType
  <2>3. told' = told /\ inFlight' = inFlight /\ casts' = casts
    BY DEF StartBattle
  <2> QED
    BY <1>3, <1>5, <2>2, <2>3 DEF SessionInv, Unsent, ToldIsTrue
<1> QED
  BY <1>9, <1>10, <1>11, <1>12 DEF SessionInv

LEMMA TickIsSafe ==
  ASSUME SessionInv, NEW i \in DOMAIN timers, Tick(i)
  PROVE  /\ timers[i].kind = "tick" /\ timers[i].kind \notin Many
         /\ shown.phase = "battle" /\ battle.ending = NoEnding
         /\ connection \notin {"connecting", "claimFailed"}
         /\ battle # NoBattle /\ battle \in ScriptedState
         /\ battle' # NoBattle /\ battle' \in ScriptedState /\ battle'.casts = battle.casts
<1>1. timers[i].kind = "tick" /\ battle # NoBattle /\ battle' \in Advance(battle)
  BY DEF Tick
<1>2. shown.phase = "battle" /\ battle.ending = NoEnding
  BY <1>1, OthersFit DEF Allowed
<1>3. battle \in ScriptedState
  BY <1>1, TheBattleIsReal DEF SessionInv
<1>4. battle' \in ScriptedState /\ battle'.casts = battle.casts
  BY <1>1, <1>3, AdvanceShape
<1> QED
  BY <1>1, <1>2, <1>3, <1>4, NothingAssumption DEF Many, SessionInv, Phases

LEMMA FinishKeepsAll ==
  ASSUME SessionInv, NEW i \in DOMAIN timers, Tick(i), battle'.ending # NoEnding
  PROVE  SessionInv'
<1>1. /\ Finish(battle'.ending) /\ timers' = Others(i)
      /\ UNCHANGED <<inFlight, told, scenario, claimFails, loadout, casts>>
  BY DEF Tick
<1>2. shown'.phase = "matchOver" /\ connection' = "live" /\ delivering' = TRUE
  BY <1>1 DEF Finish, ResultShot
<1>3. TimersFit'
  BY <1>1, <1>2, TickIsSafe, OthersFit DEF TimersFit, Allowed
<1>4. SessionType'
  BY <1>1, TickIsSafe, OthersFit DEF Finish, SessionInv, SessionType
<1>5. Phases'
  BY <1>1, <1>2, TickIsSafe DEF SessionInv, Phases
<1>6. Unsent' /\ ToldIsTrue'
  BY <1>1, TickIsSafe DEF SessionInv, Unsent, ToldIsTrue
<1> QED
  BY <1>3, <1>4, <1>5, <1>6 DEF SessionInv

LEMMA DropKeepsAll ==
  ASSUME SessionInv, NEW i \in DOMAIN timers, Tick(i),
         battle'.ending = NoEnding, battle'.tick = scenario.dropAt
  PROVE  SessionInv'
<1>1. /\ DropConnection /\ timers' = Others(i) \o DropTimers
      /\ UNCHANGED <<roundsWon, armed, scenario, claimFails, loadout, casts>>
  BY DEF Tick
<1> DEFINE r == Timer(DropTime, "recover")
           t == Timer(TickTime, "tick")
<1>2. r \in PendingTimer /\ r.kind = "recover" /\ t \in PendingTimer /\ t.kind = "tick"
  BY TimerIsTimer, SessionAssumption
<1>3. Others(i) \in Seq(PendingTimer) /\ OneEach(Others(i))
      /\ \A j \in DOMAIN Others(i) : Allowed(Others(i)[j]) /\ Others(i)[j].kind # "tick"
  BY TickIsSafe, OthersFit
<1>4. timers' = Append(Append(Others(i), r), t)
  <2>1. DropTimers = <<r, t>>
    BY DEF DropTimers
  <2> HIDE DEF r, t
  <2>2. Others(i) \o <<r, t>> = Append(Append(Others(i), r), t)
    <3>0. <<r>> \in Seq(PendingTimer) /\ <<t>> \in Seq(PendingTimer)
      BY <1>2
    <3>1. <<r>> \o <<t>> = <<r, t>>
      <4>1. Append(<<r>>, t) = <<r>> \o <<t>>
        BY <1>2, <3>0, AppendIsConcat
      <4> QED
        BY <4>1, AppendToOne
    <3>2. Append(Others(i), r) = Others(i) \o <<r>> /\ Append(Others(i), r) \in Seq(PendingTimer)
      BY <1>2, <1>3, AppendIsConcat, AppendProperties
    <3>3. Append(Append(Others(i), r), t) = Append(Others(i), r) \o <<t>>
      BY <1>2, <3>2, AppendIsConcat
    <3>4. (Others(i) \o <<r>>) \o <<t>> = Others(i) \o (<<r>> \o <<t>>)
      BY <1>3, <3>0, ConcatAssociative
    <3> QED
      BY <3>1, <3>2, <3>3, <3>4
  <2> QED
    BY <1>1, <2>1, <2>2
<1> HIDE DEF r, t
<1>5. /\ Append(Others(i), r) \in Seq(PendingTimer) /\ OneEach(Append(Others(i), r))
      /\ \A j \in DOMAIN Append(Others(i), r) :
           \/ Append(Others(i), r)[j] = r
           \/ \E k \in DOMAIN Others(i) : Append(Others(i), r)[j] = Others(i)[k]
  BY <1>2, <1>3, SetTimer DEF Many
<1>6. \A j \in DOMAIN Append(Others(i), r) : Append(Others(i), r)[j].kind # "tick"
  BY <1>2, <1>3, <1>5
<1>7. /\ timers' \in Seq(PendingTimer) /\ OneEach(timers')
      /\ \A j \in DOMAIN timers' :
           \/ timers'[j] = t
           \/ \E k \in DOMAIN Append(Others(i), r) : timers'[j] = Append(Others(i), r)[k]
  BY <1>2, <1>4, <1>5, <1>6, SetTimer
<1>8. ASSUME NEW j \in DOMAIN timers'
      PROVE  \/ timers'[j] \in {r, t}
             \/ \E k \in DOMAIN Others(i) : timers'[j] = Others(i)[k]
  BY <1>5, <1>7
<1>9. shown' = shown /\ delivering' = FALSE /\ connection' = "reconnecting"
  BY <1>1 DEF DropConnection
<1>10. TimersFit'
  <2>1. ASSUME NEW j \in DOMAIN timers'
        PROVE  Allowed(timers[j])'
    <3>1. CASE timers'[j] \in {r, t}
      BY <1>2, <1>9, <3>1, TickIsSafe DEF Allowed
    <3>2. ASSUME NEW k \in DOMAIN Others(i), timers'[j] = Others(i)[k]
          PROVE  Allowed(timers[j])'
      BY <1>3, <1>9, <3>2, TickIsSafe DEF Allowed
    <3> QED
      BY <1>8, <3>1, <3>2
  <2> QED
    BY <1>7, <2>1 DEF TimersFit
<1>11. /\ inFlight' = {}
       /\ told' = [c \in Command |-> IF c \in inFlight THEN Append(told[c], "rejected") ELSE told[c]]
  BY <1>1 DEF DropConnection, Tell
<1>12. SessionType'
  BY <1>1, <1>7, <1>11, TickIsSafe DEF SessionInv, SessionType
<1>13. Phases'
  BY <1>1, <1>9, TickIsSafe DEF SessionInv, Phases
<1>14. Unsent'
  <2>1. \A c \in Command : c > casts => c \notin inFlight
    BY DEF Command, SessionInv, SessionType
  <2> QED
    BY <1>1, <1>11, <2>1 DEF SessionInv, Unsent
<1>15. ToldIsTrue'
  <2> SUFFICES ASSUME NEW c \in Command
               PROVE  /\ told'[c] \in {<<>>, <<"pending">>, <<"rejected">>,
                                        <<"pending", "accepted">>, <<"pending", "rejected">>}
                      /\ (told'[c] = <<"pending", "accepted">>) <=> (battle' # NoBattle /\ c \in battle'.casts)
                      /\ (c \in inFlight') <=> (told'[c] = <<"pending">>)
    BY DEF ToldIsTrue
  <2>1. /\ told[c] \in {<<>>, <<"pending">>, <<"rejected">>, <<"pending", "accepted">>, <<"pending", "rejected">>}
        /\ (told[c] = <<"pending", "accepted">>) <=> (battle # NoBattle /\ c \in battle.casts)
        /\ (c \in inFlight) <=> (told[c] = <<"pending">>)
    BY DEF SessionInv, ToldIsTrue
  <2>2. CASE c \in inFlight
    <3>1. told[c] = <<"pending">> /\ told'[c] = Append(told[c], "rejected")
      BY <1>11, <2>1, <2>2
    <3>2. told'[c] = <<"pending", "rejected">>
      BY <3>1, AppendToOne
    <3> QED
      BY <1>11, <2>1, <3>1, <3>2, TickIsSafe
  <2>3. CASE c \notin inFlight
    BY <1>11, <2>1, <2>3, TickIsSafe
  <2> QED
    BY <2>2, <2>3
<1> QED
  BY <1>10, <1>12, <1>13, <1>14, <1>15 DEF SessionInv

LEMMA TickOnKeepsAll ==
  ASSUME SessionInv, NEW i \in DOMAIN timers, Tick(i),
         battle'.ending = NoEnding, battle'.tick # scenario.dropAt
  PROVE  SessionInv'
<1>1. /\ ShowBattle(battle', delivering)
      /\ timers' = Append(Others(i), Timer(TickTime, "tick"))
      /\ UNCHANGED <<roundsWon, armed, inFlight, told, delivering, connection,
                     scenario, claimFails, loadout, casts>>
  BY DEF Tick
<1>2. Timer(TickTime, "tick") \in PendingTimer /\ Timer(TickTime, "tick").kind = "tick"
  BY TimerIsTimer, SessionAssumption
<1>3. Others(i) \in Seq(PendingTimer) /\ OneEach(Others(i))
      /\ \A j \in DOMAIN Others(i) : Allowed(Others(i)[j]) /\ Others(i)[j].kind # "tick"
  BY TickIsSafe, OthersFit
<1>4. /\ timers' \in Seq(PendingTimer) /\ OneEach(timers')
      /\ \A j \in DOMAIN timers' : \/ timers'[j] = Timer(TickTime, "tick")
                                   \/ \E k \in DOMAIN Others(i) : timers'[j] = Others(i)[k]
  BY <1>1, <1>2, <1>3, SetTimer
<1>5. shown'.phase = "battle" /\ (delivering => shown'.battle = battle')
  BY <1>1, TickIsSafe DEF ShowBattle, BattleShot
<1>6. TimersFit'
  <2>1. ASSUME NEW j \in DOMAIN timers'
        PROVE  Allowed(timers[j])'
    <3>1. CASE timers'[j] = Timer(TickTime, "tick")
      BY <1>2, <1>5, <3>1 DEF Allowed
    <3>2. ASSUME NEW k \in DOMAIN Others(i), timers'[j] = Others(i)[k]
          PROVE  Allowed(timers[j])'
      BY <1>1, <1>3, <1>5, <3>2, TickIsSafe DEF Allowed
    <3> QED
      BY <1>4, <3>1, <3>2
  <2> QED
    BY <1>4, <2>1 DEF TimersFit
<1>7. SessionType'
  BY <1>1, <1>4, TickIsSafe DEF SessionInv, SessionType
<1>8. Phases'
  BY <1>1, <1>5, TickIsSafe DEF SessionInv, Phases
<1>9. Unsent' /\ ToldIsTrue'
  BY <1>1, TickIsSafe DEF SessionInv, Unsent, ToldIsTrue
<1> QED
  BY <1>6, <1>7, <1>8, <1>9 DEF SessionInv

LEMMA RecoverKeepsAll ==
  ASSUME SessionInv, NEW i \in DOMAIN timers, Recover(i)
  PROVE  SessionInv'
<1>1. shown.phase \in {"battle", "matchOver"} /\ battle # NoBattle
  BY OthersFit DEF Recover, Allowed, SessionInv, Phases
<1>2. /\ timers' = Others(i) /\ shown' = RecoveredPicture
      /\ connection' = "live" /\ delivering' = TRUE
      /\ UNCHANGED <<battle, loadout, inFlight, armed, casts, told>>
  BY DEF Recover
<1>3. /\ shown'.phase \in {"battle", "matchOver"}
      /\ battle.ending = NoEnding => shown'.phase = "battle"
      /\ shown'.phase = "battle" => shown'.battle = battle
  BY <1>1, <1>2 DEF RecoveredPicture, BattleShot, SessionInv, Phases
<1>4. connection \notin {"connecting", "claimFailed"}
  BY <1>1 DEF SessionInv, Phases
<1>5. TimersFit'
  BY <1>1, <1>2, <1>3, <1>4, OthersFit DEF TimersFit, Allowed
<1>6. SessionType'
  BY <1>2, OthersFit DEF SessionInv, SessionType
<1>7. Phases'
  BY <1>1, <1>2, <1>3 DEF SessionInv, Phases
<1>8. Unsent' /\ ToldIsTrue'
  BY <1>2 DEF SessionInv, Unsent, ToldIsTrue
<1> QED
  BY <1>5, <1>6, <1>7, <1>8 DEF SessionInv

LEMMA CastLandsKeepsAll ==
  ASSUME SessionInv, NEW i \in DOMAIN timers, CastLands(i)
  PROVE  SessionInv'
<1> DEFINE cmd == timers[i].cmd
           spell == timers[i].spell
           free == Rejection(battle, cmd, spell) = "none"
<1>1. /\ timers' = Others(i)
      /\ UNCHANGED <<connection, loadout, delivering, armed, casts>>
  BY DEF CastLands
<1>2. ASSUME cmd \notin inFlight
      PROVE  SessionInv'
  <2>1. UNCHANGED <<inFlight, battle, told, shown>>
    BY <1>2 DEF CastLands, StillInFlight
  <2>2. TimersFit'
    BY <1>1, <2>1, OthersFit DEF TimersFit, Allowed
  <2>3. SessionType' /\ Phases'
    BY <1>1, <2>1, OthersFit DEF SessionInv, SessionType, Phases
  <2>4. Unsent' /\ ToldIsTrue'
    BY <1>1, <2>1 DEF SessionInv, Unsent, ToldIsTrue
  <2> QED
    BY <2>2, <2>3, <2>4 DEF SessionInv
<1>3. ASSUME cmd \in inFlight
      PROVE  SessionInv'
  <2>1. /\ inFlight' = inFlight \ {cmd} /\ battle' = ApplyCast(battle, cmd, spell)
        /\ told' = [c \in Command |->
                      IF c \in {cmd} THEN Append(told[c], IF free THEN "accepted" ELSE "rejected")
                      ELSE told[c]]
        /\ shown' = IF delivering THEN BattleShot(battle') ELSE shown
    BY <1>3 DEF CastLands, StillInFlight, Tell, ShowBattle
  <2>2. /\ cmd \in Command /\ cmd =< casts /\ casts # 0
        /\ shown.phase \in {"battle", "matchOver"} /\ battle # NoBattle
        /\ connection \notin {"connecting", "claimFailed"}
    <3>1. cmd \in 1..casts /\ casts \in 0..MaxCasts /\ MaxCasts \in Nat
      BY <1>3, SessionAssumption DEF SessionInv, SessionType
    <3>2. cmd \in Command /\ cmd =< casts /\ casts # 0
      BY <3>1 DEF Command
    <3> QED
      BY <3>2 DEF SessionInv, Phases
  <2>3. battle \in ScriptedState
    BY <2>2, TheBattleIsReal DEF SessionInv
  <2> HIDE DEF free
  <2>4. /\ battle' \in ScriptedState /\ battle'.ending = battle.ending /\ battle' # NoBattle
        /\ battle'.casts = IF free THEN battle.casts \cup {cmd} ELSE battle.casts
    <3>1. /\ ApplyCast(battle, cmd, spell) \in ScriptedState
          /\ ApplyCast(battle, cmd, spell).ending = battle.ending
          /\ ApplyCast(battle, cmd, spell).casts =
               IF Rejection(battle, cmd, spell) = "none" THEN battle.casts \cup {cmd} ELSE battle.casts
      BY <2>2, <2>3, ApplyCastShape DEF SessionInv
    <3> QED
      BY <2>1, <3>1, NothingAssumption DEF free
  <2>5. /\ shown'.phase \in {"battle", "matchOver"}
        /\ shown.phase = "battle" => shown'.phase = "battle"
        /\ shown'.phase = "battle" /\ connection # "reconnecting" => shown'.battle = battle'
    BY <2>1, <2>2 DEF BattleShot, SessionInv, Phases
  <2>6. TimersFit'
    BY <1>1, <2>2, <2>4, <2>5, OthersFit DEF TimersFit, Allowed
  <2>7. SessionType'
    BY <1>1, <2>1, <2>4, OthersFit DEF SessionInv, SessionType
  <2>8. Phases'
    BY <1>1, <2>2, <2>4, <2>5 DEF SessionInv, Phases
  <2>9. Unsent'
    <3>1. \A c \in Command : c > casts => c # cmd
      BY <2>2 DEF Command, SessionInv, SessionType
    <3> QED
      BY <1>1, <2>1, <3>1 DEF SessionInv, Unsent
  <2>10. ToldIsTrue'
    <3> SUFFICES ASSUME NEW c \in Command
                 PROVE  /\ told'[c] \in {<<>>, <<"pending">>, <<"rejected">>,
                                          <<"pending", "accepted">>, <<"pending", "rejected">>}
                        /\ (told'[c] = <<"pending", "accepted">>) <=> (battle' # NoBattle /\ c \in battle'.casts)
                        /\ (c \in inFlight') <=> (told'[c] = <<"pending">>)
      BY DEF ToldIsTrue
    <3>1. /\ told[c] \in {<<>>, <<"pending">>, <<"rejected">>, <<"pending", "accepted">>, <<"pending", "rejected">>}
          /\ (told[c] = <<"pending", "accepted">>) <=> (battle # NoBattle /\ c \in battle.casts)
          /\ (c \in inFlight) <=> (told[c] = <<"pending">>)
      BY DEF SessionInv, ToldIsTrue
    <3>2. CASE c # cmd
      <4>1. told'[c] = told[c] /\ (c \in inFlight' <=> c \in inFlight)
            /\ (c \in battle'.casts <=> c \in battle.casts)
        BY <2>1, <2>4, <3>2
      <4> QED
        BY <2>2, <2>4, <3>1, <4>1
    <3>3. CASE c = cmd /\ free
      <4>1. told'[c] = <<"pending", "accepted">>
        BY <1>3, <2>1, <3>1, <3>3, AppendToOne
      <4>2. c \in battle'.casts /\ c \notin inFlight'
        BY <2>1, <2>4, <3>3
      <4> QED
        BY <2>4, <4>1, <4>2
    <3>4. CASE c = cmd /\ ~free
      <4>1. told'[c] = <<"pending", "rejected">>
        BY <1>3, <2>1, <3>1, <3>4, AppendToOne
      <4>2. c \notin battle'.casts /\ c \notin inFlight'
        BY <1>3, <2>1, <2>2, <2>4, <3>1, <3>4
      <4> QED
        BY <2>4, <4>1, <4>2
    <3> QED
      BY <3>2, <3>3, <3>4
  <2> QED
    BY <2>6, <2>7, <2>8, <2>9, <2>10 DEF SessionInv
<1> QED
  BY <1>2, <1>3

LEMMA BattleTimerKeepsAll ==
  ASSUME SessionInv, NEW i \in DOMAIN timers, BattleTimer(i)
  PROVE  SessionInv'
<1>1. CASE Tick(i)
  BY <1>1, FinishKeepsAll, DropKeepsAll, TickOnKeepsAll
<1> QED
  BY <1>1, StartBattleKeepsAll, RecoverKeepsAll, CastLandsKeepsAll DEF BattleTimer

-----------------------------------------------------------------------------
\* The taps

LEMMA LockInKeepsAll ==
  ASSUME SessionInv, NEW spells \in SUBSET Spell, LockIn(spells)
  PROVE  SessionInv'
<1>1. /\ connection = "live" /\ shown.phase = "planning" /\ casts = 0 /\ battle = NoBattle
  BY DEF LockIn, SessionInv, Phases
<1>2. /\ loadout' = spells /\ battle' = OpeningBattle /\ shown' = LockedShot(OpeningBattle)
      /\ timers' = Append(timers, Timer(LockTime, "opponentLock"))
      /\ UNCHANGED <<connection, inFlight, delivering, armed, casts, told>>
  BY DEF LockIn
<1>3. shown'.phase = "locked"
  BY <1>2 DEF LockedShot
<1>4. /\ OpeningBattle \in ScriptedState /\ OpeningBattle.casts = {} /\ OpeningBattle # NoBattle
  BY TheBattleIsReal DEF SessionInv
<1>5. Timer(LockTime, "opponentLock") \in PendingTimer /\ Timer(LockTime, "opponentLock").kind = "opponentLock"
  BY TimerIsTimer, SessionAssumption
<1>6. /\ timers \in Seq(PendingTimer) /\ OneEach(timers)
      /\ \A j \in DOMAIN timers : Allowed(timers[j]) /\ timers[j].kind # "opponentLock"
  BY <1>1 DEF SessionInv, SessionType, TimersFit, Allowed
<1>7. /\ timers' \in Seq(PendingTimer) /\ OneEach(timers')
      /\ \A j \in DOMAIN timers' : \/ timers'[j] = Timer(LockTime, "opponentLock")
                                   \/ \E k \in DOMAIN timers : timers'[j] = timers[k]
  BY <1>2, <1>5, <1>6, SetTimer
<1>8. TimersFit'
  <2>1. ASSUME NEW j \in DOMAIN timers'
        PROVE  Allowed(timers[j])'
    <3>1. CASE timers'[j] = Timer(LockTime, "opponentLock")
      BY <1>3, <1>5, <3>1 DEF Allowed
    <3>2. ASSUME NEW k \in DOMAIN timers, timers'[j] = timers[k]
          PROVE  Allowed(timers[j])'
      BY <1>1, <1>2, <1>6, <3>2 DEF Allowed
    <3> QED
      BY <1>7, <3>1, <3>2
  <2> QED
    BY <1>7, <2>1 DEF TimersFit
<1>9. SessionType'
  BY <1>2, <1>4, <1>7 DEF SessionInv, SessionType
<1>10. Phases'
  BY <1>1, <1>2, <1>3, <1>4 DEF SessionInv, Phases
<1>11. Unsent' /\ ToldIsTrue'
  BY <1>1, <1>2, <1>4 DEF SessionInv, Unsent, ToldIsTrue
<1> QED
  BY <1>8, <1>9, <1>10, <1>11 DEF SessionInv

LEMMA AimKeepsAll == SessionInv /\ (Arm \/ CancelTarget) => SessionInv'
<1> SUFFICES ASSUME SessionInv, Arm \/ CancelTarget PROVE SessionInv'
  OBVIOUS
<1>1. UNCHANGED <<scenario, claimFails, connection, shown, battle, loadout, roundsWon, inFlight,
                  delivering, timers, casts, told>>
  BY DEF Arm, CancelTarget
<1>2. armed' \in Spell \cup {NoneArmed}
  BY DEF Arm, CancelTarget, SessionInv, SessionType
<1>3. SessionType'
  BY <1>1, <1>2 DEF SessionInv, SessionType
<1>4. TimersFit'
  BY <1>1 DEF SessionInv, TimersFit, Allowed, OneEach
<1>5. Phases' /\ Unsent' /\ ToldIsTrue'
  BY <1>1 DEF SessionInv, Phases, Unsent, ToldIsTrue
<1> QED
  BY <1>3, <1>4, <1>5 DEF SessionInv

LEMMA CastKeepsAll == SessionInv /\ Cast => SessionInv'
<1> SUFFICES ASSUME SessionInv, Cast PROVE SessionInv'
  OBVIOUS
<1>1. /\ shown.phase = "battle" /\ armed' = NoneArmed /\ casts' = casts + 1 /\ casts < MaxCasts
      /\ UNCHANGED <<connection, shown, battle, loadout, delivering>>
  BY DEF Cast, OnBattleScreen
<1>2. /\ casts \in Nat /\ MaxCasts \in Nat /\ casts + 1 \in Command /\ casts + 1 > casts
      /\ casts + 1 \in 0..MaxCasts
  BY <1>1, SessionAssumption DEF SessionInv, SessionType, Command
<1>3. told[casts + 1] = <<>> /\ casts + 1 \notin inFlight
  BY <1>2 DEF SessionInv, Unsent, SessionType
<1>4. battle # NoBattle /\ casts + 1 \notin battle.casts
  BY <1>1, <1>2, <1>3 DEF SessionInv, Phases, ToldIsTrue
<1>5. Phases'
  BY <1>1 DEF SessionInv, Phases
<1>6. PICK answer \in {"pending", "rejected"} :
        /\ told' = [c \in Command |-> IF c \in {casts + 1} THEN Append(told[c], answer) ELSE told[c]]
        /\ inFlight' = IF answer = "pending" THEN inFlight \cup {casts + 1} ELSE inFlight
        /\ answer = "pending" => timers' = Append(timers, NewTimer(CastTime, "cast", casts + 1, armed))
        /\ answer = "rejected" => timers' = timers
  BY DEF Cast, Tell
<1>7. told'[casts + 1] = <<answer>>
  BY <1>2, <1>3, <1>6, AppendToNone
<1>8. Unsent'
  <2>1. \A c \in Command : c > casts + 1 => c > casts /\ c # casts + 1
    BY <1>2 DEF Command
  <2> QED
    BY <1>1, <1>6, <2>1 DEF SessionInv, Unsent
<1>9. ToldIsTrue'
  <2> SUFFICES ASSUME NEW c \in Command
               PROVE  /\ told'[c] \in {<<>>, <<"pending">>, <<"rejected">>,
                                        <<"pending", "accepted">>, <<"pending", "rejected">>}
                      /\ (told'[c] = <<"pending", "accepted">>) <=> (battle' # NoBattle /\ c \in battle'.casts)
                      /\ (c \in inFlight') <=> (told'[c] = <<"pending">>)
    BY DEF ToldIsTrue
  <2>1. /\ told[c] \in {<<>>, <<"pending">>, <<"rejected">>, <<"pending", "accepted">>, <<"pending", "rejected">>}
        /\ (told[c] = <<"pending", "accepted">>) <=> (battle # NoBattle /\ c \in battle.casts)
        /\ (c \in inFlight) <=> (told[c] = <<"pending">>)
    BY DEF SessionInv, ToldIsTrue
  <2>2. CASE c = casts + 1
    BY <1>1, <1>3, <1>4, <1>6, <1>7, <2>2
  <2>3. CASE c # casts + 1
    <3>1. told'[c] = told[c] /\ (c \in inFlight' <=> c \in inFlight)
      BY <1>6, <2>3
    <3> QED
      BY <1>1, <2>1, <3>1
  <2> QED
    BY <2>2, <2>3
<1>10. timers \in Seq(PendingTimer) /\ OneEach(timers) /\ \A j \in DOMAIN timers : Allowed(timers[j])
  BY DEF SessionInv, SessionType, TimersFit
<1>11. TimersFit' /\ timers' \in Seq(PendingTimer)
  <2> DEFINE t == NewTimer(CastTime, "cast", casts + 1, armed)
  <2>1. t \in PendingTimer /\ t.kind = "cast"
    BY <1>2, SessionAssumption DEF NewTimer, PendingTimer, SessionInv, SessionType
  <2>2. ASSUME NEW x, Allowed(x) PROVE Allowed(x)'
    BY <1>1, <2>2 DEF Allowed
  <2> HIDE DEF t
  <2>3. CASE answer = "rejected"
    BY <1>6, <1>10, <2>2, <2>3 DEF TimersFit, Allowed, OneEach
  <2>4. CASE answer = "pending"
    <3>1. timers' = Append(timers, t)
      BY <1>6, <2>4 DEF t
    <3>2. /\ timers' \in Seq(PendingTimer) /\ OneEach(timers')
          /\ \A j \in DOMAIN timers' : timers'[j] = t \/ \E k \in DOMAIN timers : timers'[j] = timers[k]
      BY <1>10, <2>1, <3>1, SetTimer DEF Many
    <3>3. ASSUME NEW j \in DOMAIN timers'
          PROVE  Allowed(timers[j])'
      <4>1. CASE timers'[j] = t
        BY <2>1, <4>1 DEF Allowed
      <4>2. ASSUME NEW k \in DOMAIN timers, timers'[j] = timers[k]
            PROVE  Allowed(timers[j])'
        BY <1>1, <1>10, <4>2 DEF Allowed
      <4> QED
        BY <3>2, <4>1, <4>2
    <3> QED
      BY <3>2, <3>3 DEF TimersFit
  <2> QED
    BY <2>3, <2>4
<1>12. SessionType'
  <2>1. inFlight' \subseteq 1..casts + 1
    BY <1>2, <1>6 DEF SessionInv, SessionType
  <2>2. DOMAIN told' = Command
    BY <1>6
  <2> QED
    BY <1>1, <1>2, <1>11, <2>1, <2>2 DEF SessionInv, SessionType
<1> QED
  BY <1>5, <1>8, <1>9, <1>11, <1>12 DEF SessionInv

LEMMA RetryKeepsAll == SessionInv /\ RetryClaim => SessionInv'
<1> SUFFICES ASSUME SessionInv, RetryClaim PROVE SessionInv'
  OBVIOUS
<1>1. /\ connection = "claimFailed" /\ connection' = "connecting" /\ shown.phase = "none"
      /\ timers' = Append(timers, Timer(ConnectTime, "connect"))
      /\ UNCHANGED <<shown, battle, loadout, inFlight, delivering, armed, casts, told>>
  BY DEF RetryClaim, SessionInv, Phases
<1>2. Timer(ConnectTime, "connect") \in PendingTimer /\ Timer(ConnectTime, "connect").kind = "connect"
  BY TimerIsTimer, SessionAssumption
<1>3. /\ timers \in Seq(PendingTimer) /\ OneEach(timers)
      /\ \A j \in DOMAIN timers : Allowed(timers[j]) /\ timers[j].kind # "connect"
  BY <1>1 DEF SessionInv, SessionType, TimersFit, Allowed
<1>4. /\ timers' \in Seq(PendingTimer) /\ OneEach(timers')
      /\ \A j \in DOMAIN timers' : \/ timers'[j] = Timer(ConnectTime, "connect")
                                   \/ \E k \in DOMAIN timers : timers'[j] = timers[k]
  BY <1>1, <1>2, <1>3, SetTimer
<1>5. TimersFit'
  <2>1. ASSUME NEW j \in DOMAIN timers'
        PROVE  Allowed(timers[j])'
    <3>1. CASE timers'[j] = Timer(ConnectTime, "connect")
      BY <1>1, <1>2, <3>1 DEF Allowed
    <3>2. ASSUME NEW k \in DOMAIN timers, timers'[j] = timers[k]
          PROVE  Allowed(timers[j])'
      BY <1>1, <1>3, <3>2 DEF Allowed
    <3> QED
      BY <1>4, <3>1, <3>2
  <2> QED
    BY <1>4, <2>1 DEF TimersFit
<1>6. SessionType'
  BY <1>1, <1>4 DEF SessionInv, SessionType
<1>7. Phases' /\ Unsent' /\ ToldIsTrue'
  BY <1>1 DEF SessionInv, Phases, Unsent, ToldIsTrue
<1> QED
  BY <1>5, <1>6, <1>7 DEF SessionInv

LEMMA LeaveKeepsAll == SessionInv /\ Leave => SessionInv'
<1> SUFFICES ASSUME SessionInv, Leave PROVE SessionInv'
  OBVIOUS
<1>1. /\ shown.phase = "matchOver" /\ connection' = "ended"
      /\ connection \notin {"connecting", "reconnecting"}
      /\ UNCHANGED <<shown, battle, loadout, inFlight, delivering, timers, armed, casts, told>>
  BY DEF Leave, SessionInv, Phases
<1>2. TimersFit'
  BY <1>1 DEF SessionInv, TimersFit, Allowed, OneEach
<1>3. SessionType'
  BY <1>1 DEF SessionInv, SessionType
<1>4. Phases' /\ Unsent' /\ ToldIsTrue'
  BY <1>1 DEF SessionInv, Phases, Unsent, ToldIsTrue
<1> QED
  BY <1>2, <1>3, <1>4 DEF SessionInv

-----------------------------------------------------------------------------
\* Step by step, and what folds over sequences build

\* A set of numbers has a smallest.
LEMMA SmallestOfMany ==
  ASSUME NEW S \in SUBSET Nat, S # {}
  PROVE  \E x \in S : \A y \in S : x <= y
<1> DEFINE Below == {p \in Nat \X Nat : p[1] < p[2]}
<1>1. IsWellFoundedOn(Below, Nat)
  BY NatLessThanWellFounded DEF OpToRel
<1> HIDE DEF Below
<1>2. PICK x \in S : \A y \in S : <<y, x>> \notin Below
  BY <1>1, WFMin
<1>3. ASSUME NEW y \in S
      PROVE  x <= y
  <2>1. y < x => <<y, x>> \in Below
    BY DEF Below
  <2> QED
    BY <1>2, <2>1
<1> QED
  BY <1>3

LEMMA StepByStep ==
  ASSUME NEW P \in SUBSET Nat, NEW n \in Nat, 0 \in P,
         \A k \in 0..n : k \in P /\ k < n => k + 1 \in P
  PROVE  \A k \in 0..n : k \in P
<1> DEFINE Missed == {k \in 0..n : k \notin P}
<1>1. SUFFICES ASSUME Missed # {} PROVE FALSE
  OBVIOUS
<1>2. Missed \in SUBSET Nat
  OBVIOUS
<1>3. PICK b \in Missed : \A k \in Missed : b <= k
  BY <1>1, <1>2, SmallestOfMany
<1>4. b \in 0..n /\ b \notin P /\ b # 0
  BY <1>3
<1>5. b - 1 \in 0..n /\ b - 1 \notin Missed
  <2>1. b - 1 \in 0..n /\ ~(b <= b - 1)
    BY <1>4
  <2> QED
    BY <1>3, <2>1
<1>6. b - 1 \in P
  BY <1>5
<1> QED
  BY <1>4, <1>5, <1>6

\* Folds take the elements of a set of places from the last to the first.
LEMMA LastPlace ==
  ASSUME NEW n \in Nat, NEW s \in SUBSET (1..n), s # {}
  PROVE  Max(s) \in s
<1> DEFINE T == {n - x : x \in s}
<1>1. T \in SUBSET Nat /\ T # {}
  <2>1. \A x \in s : n - x \in Nat
    OBVIOUS
  <2> QED
    BY <2>1
<1>2. PICK t \in T : \A y \in T : t <= y
  BY <1>1, SmallestOfMany
<1>3. PICK x \in s : t = n - x
  BY <1>2
<1>4. \A y \in s : x >= y
  <2> TAKE y \in s
  <2>1. n - x <= n - y
    BY <1>2, <1>3
  <2>2. x \in 1..n /\ y \in 1..n
    OBVIOUS
  <2> QED
    BY <2>1, <2>2
<1>5. \E z \in s : \A y \in s : z >= y
  BY <1>4
<1> QED
  BY <1>5 DEF Max

LEMMA FrontPlaces ==
  ASSUME NEW n \in Nat, n > 0
  PROVE  /\ 1..n # {} /\ Max(1..n) = n
         /\ (1..n) \ {Max(1..n)} = 1..n - 1
<1>1. Max(1..n) \in 1..n /\ \A y \in 1..n : Max(1..n) >= y
  <2>1. n \in 1..n /\ \A y \in 1..n : n >= y
    OBVIOUS
  <2> QED
    BY <2>1 DEF Max
<1>2. n \in 1..n
  OBVIOUS
<1>3. Max(1..n) = n
  <2> DEFINE x == Max(1..n)
  <2>1. x \in 1..n /\ x >= n
    BY <1>1, <1>2
  <2> HIDE DEF x
  <2>2. x = n
    BY <2>1
  <2> QED
    BY <2>2 DEF x
<1>4. (1..n) \ {n} = 1..n - 1
  OBVIOUS
<1> QED
  BY <1>2, <1>3, <1>4

\* A fold over a sequence computes something, whatever it does with each element.
Folding(F, base, seq, g, s) == IF s = {} THEN base ELSE F[<<g[s \ {Max(s)}], seq[Max(s)]>>]

StepOf(F, A, B) == F \in [A \X B -> A]
Computes(F, A, base, seq) ==
  \E g \in [SUBSET DOMAIN seq -> A] :
    \A s \in SUBSET DOMAIN seq : g[s] = Folding(F, base, seq, g, s)

LEMMA FoldExists ==
  ASSUME NEW A, NEW B, NEW F, StepOf(F, A, B), NEW base \in A, NEW seq \in Seq(B)
  PROVE  Computes(F, A, base, seq)
<1> DEFINE S == DOMAIN seq
           Upto(g, n) == \A s \in SUBSET S : Cardinality(s) <= n => g[s] = Folding(F, base, seq, g, s)
           P == {n \in Nat : \E g \in [SUBSET S -> A] : Upto(g, n)}
<1>1. Len(seq) \in Nat /\ S = 1..Len(seq)
  BY LenProperties
<1>2. IsFiniteSet(S)
  BY <1>1, FS_Interval
<1>3. \A s \in SUBSET S : /\ Cardinality(s) \in Nat /\ Cardinality(s) <= Cardinality(S)
                          /\ (s = {} <=> Cardinality(s) = 0)
                          /\ s # {} => /\ Max(s) \in s /\ s \ {Max(s)} \in SUBSET S
                                       /\ Cardinality(s \ {Max(s)}) = Cardinality(s) - 1
  <2> TAKE s \in SUBSET S
  <2>1. IsFiniteSet(s) /\ Cardinality(s) <= Cardinality(S)
    BY <1>2, FS_Subset
  <2>2. Cardinality(s) \in Nat /\ (s = {} <=> Cardinality(s) = 0)
    BY <2>1, FS_CardinalityType, FS_EmptySet
  <2>3. ASSUME s # {}
        PROVE  Max(s) \in s
    BY <1>1, <2>3, LastPlace
  <2>4. ASSUME s # {}
        PROVE  Cardinality(s \ {Max(s)}) = Cardinality(s) - 1
    BY <2>1, <2>3, <2>4, FS_RemoveElement
  <2> QED
    BY <2>1, <2>2, <2>3, <2>4
<1>4. \A x \in S : seq[x] \in B
  BY <1>1, ElementOfSeq
<1>5. ASSUME NEW g \in [SUBSET S -> A], NEW s \in SUBSET S
      PROVE  Folding(F, base, seq, g, s) \in A
  <2>1. CASE s = {}
    BY <2>1 DEF Folding
  <2>2. CASE s # {}
    <3>1. g[s \ {Max(s)}] \in A /\ seq[Max(s)] \in B
      BY <1>3, <1>4, <2>2
    <3>2. F[<<g[s \ {Max(s)}], seq[Max(s)]>>] \in A
      BY <3>1 DEF StepOf
    <3> QED
      BY <2>2, <3>2 DEF Folding
  <2> QED
    BY <2>1, <2>2
<1> HIDE DEF Upto, S
<1>6. 0 \in P
  <2> DEFINE g == [s \in SUBSET S |-> base]
  <2>1. g \in [SUBSET S -> A]
    OBVIOUS
  <2>2. ASSUME NEW s \in SUBSET S, Cardinality(s) <= 0
        PROVE  g[s] = Folding(F, base, seq, g, s)
    <3>1. Cardinality(s) \in Nat /\ (s = {} <=> Cardinality(s) = 0)
      BY <1>3
    <3>2. s = {}
      BY <2>2, <3>1
    <3> QED
      BY <3>2 DEF Folding
  <2>3. Upto(g, 0)
    BY <2>2 DEF Upto
  <2> QED
    BY <2>1, <2>3
<1>7. ASSUME NEW n \in Nat, n \in P
      PROVE  n + 1 \in P
  <2>1. PICK g \in [SUBSET S -> A] : Upto(g, n)
    BY <1>7
  <2> DEFINE h == [s \in SUBSET S |-> IF Cardinality(s) <= n THEN g[s] ELSE Folding(F, base, seq, g, s)]
  <2>2. h \in [SUBSET S -> A]
    BY <1>5
  <2>3. ASSUME NEW s \in SUBSET S, Cardinality(s) <= n + 1
        PROVE  h[s] = Folding(F, base, seq, h, s)
    <3>1. h[s] = Folding(F, base, seq, g, s)
      BY <2>1 DEF Upto
    <3>2. s # {} => h[s \ {Max(s)}] = g[s \ {Max(s)}]
      BY <1>3, <2>3
    <3> HIDE DEF h
    <3> QED
      BY <3>1, <3>2 DEF Folding
  <2>4. Upto(h, n + 1)
    BY <2>3 DEF Upto
  <2> HIDE DEF h
  <2> QED
    BY <2>2, <2>4
<1>8. Cardinality(S) \in Nat
  BY <1>3
<1>9. Cardinality(S) \in P
  <2>1. P \in SUBSET Nat
    OBVIOUS
  <2> HIDE DEF P
  <2>2. \A k \in 0..Cardinality(S) : k \in P
    BY <1>6, <1>7, <1>8, <2>1, StepByStep
  <2> QED
    BY <1>8, <2>2
<1>10. PICK g \in [SUBSET S -> A] : Upto(g, Cardinality(S))
  BY <1>9
<1> QED
  BY <1>3, <1>10 DEF Computes, Upto, S

-----------------------------------------------------------------------------
\* What a troop's summons use of its mage's capacity

Kinds == Content.summons
Totals(seq, H) == /\ H \in [0..Len(seq) -> Int] /\ H[0] = 0
                  /\ \A n \in 1..Len(seq) : H[n] = H[n - 1] + Content.cost[seq[n]]

LEMMA CostFacts ==
  /\ \A s \in Kinds : Content.cost[s] \in Nat /\ Content.owned[s] \in Nat
  /\ \A m \in Content.mages : Content.capacity[m] \in Nat /\ Content.entourage[m] \in Seq(Kinds)
BY PlanAssumption DEF Kinds

LEMMA TotalsAgree ==
  ASSUME NEW seq \in Seq(Kinds), NEW H, NEW K, Totals(seq, H), Totals(seq, K)
  PROVE  H[Len(seq)] = K[Len(seq)]
<1> DEFINE P == {n \in Nat : H[n] = K[n]}
<1>1. Len(seq) \in Nat
  BY LenProperties
<1>2. P \in SUBSET Nat /\ 0 \in P
  BY DEF Totals
<1>3. ASSUME NEW n \in 0..Len(seq), n \in P, n < Len(seq)
      PROVE  n + 1 \in P
  <2>1. n + 1 \in 1..Len(seq) /\ (n + 1) - 1 = n
    BY <1>1, <1>3
  <2>2. H[n + 1] = H[n] + Content.cost[seq[n + 1]] /\ K[n + 1] = K[n] + Content.cost[seq[n + 1]]
    BY <2>1 DEF Totals
  <2> QED
    BY <1>3, <2>2
<1> HIDE DEF P
<1>4. Len(seq) \in P
  <2>1. \A k \in 0..Len(seq) : k \in P
    BY <1>1, <1>2, <1>3, StepByStep
  <2> QED
    BY <1>1, <2>1
<1> QED
  BY <1>4 DEF P

LEMMA TroopHasTotals ==
  ASSUME NEW troop, troop.summons \in Seq(Kinds)
  PROVE  \E H : Totals(troop.summons, H) /\ Used(Content, troop) = H[Len(troop.summons)]
<1> DEFINE seq == troop.summons
           D == DOMAIN seq
           Fold(g, s) == IF s = {} THEN 0 ELSE g[s \ {Max(s)}] + Content.cost[seq[Max(s)]]
           G == CHOOSE g : g = [s \in SUBSET D |-> Fold(g, s)]
           F == [p \in Int \X Kinds |-> p[1] + Content.cost[p[2]]]
<1>1. Used(Content, troop) = G[D]
  BY DEF Used, FoldLeft, MapThenFoldSet
<1>2. Len(seq) \in Nat /\ D = 1..Len(seq) /\ seq \in Seq(Kinds)
  BY LenProperties
<1>3. StepOf(F, Int, Kinds)
  BY CostFacts DEF StepOf
<1> HIDE DEF seq, G
<1>4. PICK h \in [SUBSET D -> Int] : \A s \in SUBSET D : h[s] = Folding(F, 0, seq, h, s)
  <2> DEFINE none == 0
             A == Int
  <2>1. StepOf(F, A, Kinds) /\ none \in A /\ seq \in Seq(Kinds)
    BY <1>2, <1>3
  <2> HIDE DEF F, none, A
  <2>2. Computes(F, A, none, seq)
    BY <2>1, FoldExists
  <2> QED
    BY <2>2 DEF Computes, none, A
<1>5. ASSUME NEW s \in SUBSET D, s # {}
      PROVE  Max(s) \in s /\ seq[Max(s)] \in Kinds
  BY <1>2, <1>5, LastPlace, ElementOfSeq
<1>6. ASSUME NEW s \in SUBSET D
      PROVE  h[s] = Fold(h, s)
  <2>1. CASE s = {}
    BY <1>4, <2>1 DEF Folding
  <2>2. CASE s # {}
    <3> DEFINE a == h[s \ {Max(s)}]
               b == seq[Max(s)]
    <3>1. h[s] = F[<<a, b>>]
      BY <1>4, <2>2 DEF Folding
    <3>2. a \in Int /\ b \in Kinds
      BY <1>5, <2>2
    <3> HIDE DEF a, b
    <3>3. F[<<a, b>>] = a + Content.cost[b]
      BY <3>2
    <3> QED
      BY <2>2, <3>1, <3>3 DEF a, b
  <2> QED
    BY <2>1, <2>2
<1>7. h = [s \in SUBSET D |-> Fold(h, s)]
  BY <1>6
<1>8. G = [s \in SUBSET D |-> Fold(G, s)]
  BY <1>7 DEF G
<1>9. \A s \in SUBSET D : G[s] = Fold(G, s)
  BY <1>8
<1> DEFINE H == [n \in 0..Len(seq) |-> G[1..n]]
<1>10. G[{}] = 0 /\ 1..0 = {}
  <2>1. {} \in SUBSET D /\ 1..0 = {}
    OBVIOUS
  <2> HIDE DEF D
  <2>2. G[{}] = Fold(G, {})
    BY <1>9, <2>1
  <2> QED
    BY <2>1, <2>2
<1>11. ASSUME NEW n \in 1..Len(seq)
       PROVE  G[1..n] = G[1..n - 1] + Content.cost[seq[n]]
  <2>1. n \in Nat /\ n > 0 /\ 1..n \in SUBSET D
    BY <1>2
  <2>2. 1..n # {} /\ Max(1..n) = n /\ (1..n) \ {Max(1..n)} = 1..n - 1
    BY <2>1, FrontPlaces
  <2> HIDE DEF D
  <2> QED
    BY <1>9, <2>1, <2>2
<1> HIDE DEF D
<1>12. \A n \in 0..Len(seq) : G[1..n] \in Int
  <2> DEFINE P == {n \in Nat : G[1..n] \in Int}
  <2>1. P \in SUBSET Nat /\ 0 \in P
    BY <1>10
  <2>2. ASSUME NEW n \in 0..Len(seq), n \in P, n < Len(seq)
        PROVE  n + 1 \in P
    <3>1. n + 1 \in 1..Len(seq) /\ (n + 1) - 1 = n
      BY <1>2, <2>2
    <3>2. seq[n + 1] \in Kinds
      BY <1>2, <3>1, ElementOfSeq
    <3>3. Content.cost[seq[n + 1]] \in Int
      BY <3>2, CostFacts
    <3>4. G[1..n + 1] = G[1..n] + Content.cost[seq[n + 1]]
      BY <1>11, <3>1
    <3> QED
      BY <2>2, <3>1, <3>3, <3>4
  <2> HIDE DEF P
  <2>3. \A k \in 0..Len(seq) : k \in P
    BY <1>2, <2>1, <2>2, StepByStep
  <2> QED
    BY <2>3 DEF P
<1>13. Totals(seq, H)
  <2>1. H \in [0..Len(seq) -> Int]
    BY <1>12
  <2>2. H[0] = 0
    BY <1>2, <1>10
  <2>3. ASSUME NEW n \in 1..Len(seq)
        PROVE  H[n] = H[n - 1] + Content.cost[seq[n]]
    <3>1. n \in 0..Len(seq) /\ n - 1 \in 0..Len(seq)
      BY <1>2
    <3> QED
      BY <1>11, <3>1
  <2> HIDE DEF H
  <2> QED
    BY <2>1, <2>2, <2>3 DEF Totals
<1>14. G[D] = H[Len(seq)]
  BY <1>2
<1> HIDE DEF H
<1> QED
  BY <1>1, <1>13, <1>14 DEF seq

LEMMA UsedIsTotal ==
  ASSUME NEW troop, troop.summons \in Seq(Kinds), NEW H, Totals(troop.summons, H)
  PROVE  Used(Content, troop) = H[Len(troop.summons)] /\ Used(Content, troop) \in Int
<1>1. PICK K : Totals(troop.summons, K) /\ Used(Content, troop) = K[Len(troop.summons)]
  BY TroopHasTotals
<1>2. Len(troop.summons) \in 0..Len(troop.summons)
  <2>1. Len(troop.summons) \in Nat
    BY LenProperties
  <2> QED
    BY <2>1
<1>3. K[Len(troop.summons)] \in Int
  BY <1>1, <1>2 DEF Totals
<1> QED
  BY <1>1, <1>3, TotalsAgree

\* It depends on nothing else of the troop.
LEMMA UsedBySummons ==
  ASSUME NEW a, NEW b, a.summons \in Seq(Kinds), b.summons = a.summons
  PROVE  Used(Content, a) = Used(Content, b) /\ Used(Content, a) \in Int
<1>1. PICK H : Totals(a.summons, H) /\ Used(Content, a) = H[Len(a.summons)]
  BY TroopHasTotals
<1> QED
  BY <1>1, UsedIsTotal

\* One more costs what it costs.
LEMMA UsedOfMore ==
  ASSUME NEW a, NEW b, NEW s \in Kinds, a.summons \in Seq(Kinds), b.summons = Append(a.summons, s)
  PROVE  Used(Content, b) = Used(Content, a) + Content.cost[s]
<1> DEFINE L == Len(a.summons)
<1>1. L \in Nat
  BY LenProperties
<1>2. /\ b.summons \in Seq(Kinds) /\ Len(b.summons) = L + 1
      /\ \A i \in 1..L : b.summons[i] = a.summons[i]
      /\ b.summons[L + 1] = s
  BY AppendProperties
<1>3. PICK H : Totals(b.summons, H) /\ Used(Content, b) = H[Len(b.summons)]
  BY <1>2, TroopHasTotals
<1> DEFINE K == [n \in 0..L |-> H[n]]
<1> HIDE DEF L
<1>4. /\ H \in [0..L + 1 -> Int] /\ H[0] = 0
      /\ \A n \in 1..L + 1 : H[n] = H[n - 1] + Content.cost[b.summons[n]]
  BY <1>2, <1>3 DEF Totals
<1>5. Totals(a.summons, K)
  <2>1. K \in [0..L -> Int] /\ K[0] = 0
    BY <1>1, <1>4
  <2>2. ASSUME NEW n \in 1..L
        PROVE  K[n] = K[n - 1] + Content.cost[a.summons[n]]
    <3>1. n \in 1..L + 1 /\ n \in 0..L /\ n - 1 \in 0..L
      BY <1>1
    <3> QED
      BY <1>2, <1>4, <3>1
  <2> HIDE DEF K
  <2> QED
    BY <2>1, <2>2 DEF Totals, L
<1>6. Used(Content, a) = K[L]
  <2> HIDE DEF K
  <2> QED
    BY <1>5, UsedIsTotal DEF L
<1>7. K[L] = H[L] /\ H[L + 1] = H[L] + Content.cost[s]
  <2>1. L \in 0..L /\ L + 1 \in 1..L + 1 /\ (L + 1) - 1 = L
    BY <1>1
  <2> QED
    BY <1>2, <1>4, <2>1
<1> QED
  BY <1>2, <1>3, <1>6, <1>7

\* One less costs no more.
LEMMA UsedOfLess ==
  ASSUME NEW a, NEW b, a.summons \in Seq(Kinds), NEW r \in DOMAIN a.summons,
         b.summons = RemoveAt(a.summons, r)
  PROVE  Used(Content, b) <= Used(Content, a)
<1> DEFINE L == Len(a.summons)
           gone == Content.cost[a.summons[r]]
<1>1. L \in Nat /\ r \in 1..L
  BY LenProperties
<1>2. /\ b.summons \in Seq(Kinds) /\ Len(b.summons) = L - 1
      /\ \A j \in 1..L - 1 : b.summons[j] = IF j < r THEN a.summons[j] ELSE a.summons[j + 1]
  BY CutShape
<1>3. gone \in Nat
  BY <1>1, CostFacts, ElementOfSeq
<1>4. PICK H : Totals(a.summons, H) /\ Used(Content, a) = H[L]
  BY TroopHasTotals
<1>5. /\ H \in [0..L -> Int] /\ H[0] = 0
      /\ \A n \in 1..L : H[n] = H[n - 1] + Content.cost[a.summons[n]]
  BY <1>4 DEF Totals
<1> DEFINE K == [n \in 0..L - 1 |-> IF n < r THEN H[n] ELSE H[n + 1] - gone]
<1> HIDE DEF L
<1>6. Totals(b.summons, K)
  <2>1. K \in [0..L - 1 -> Int]
    <3>1. ASSUME NEW n \in 0..L - 1
          PROVE  H[n] \in Int /\ H[n + 1] \in Int
      <4>1. n \in 0..L /\ n + 1 \in 0..L
        BY <1>1
      <4> QED
        BY <1>5, <4>1
    <3> HIDE DEF gone
    <3> QED
      BY <1>3, <3>1
  <2>2. K[0] = 0
    BY <1>1, <1>5
  <2>3. ASSUME NEW n \in 1..L - 1
        PROVE  K[n] = K[n - 1] + Content.cost[b.summons[n]]
    <3>0. n \in 1..L /\ n + 1 \in 1..L /\ n \in 0..L - 1 /\ n - 1 \in 0..L - 1
          /\ (n + 1) - 1 = n /\ (n - 1) + 1 = n
      BY <1>1
    <3>1. /\ H[n] = H[n - 1] + Content.cost[a.summons[n]]
          /\ H[n + 1] = H[n] + Content.cost[a.summons[n + 1]]
          /\ H[n - 1] \in Int /\ H[n] \in Int /\ H[n + 1] \in Int
      <4>1. n - 1 \in 0..L /\ n \in 0..L /\ n + 1 \in 0..L
        BY <3>0, <1>1
      <4> QED
        BY <1>5, <3>0, <4>1
    <3>2. Content.cost[a.summons[n]] \in Int /\ Content.cost[a.summons[n + 1]] \in Int
      <4>1. a.summons[n] \in Kinds /\ a.summons[n + 1] \in Kinds
        BY <3>0, ElementOfSeq DEF L
      <4> QED
        BY <4>1, CostFacts
    <3>3. CASE n < r
      <4>1. K[n] = H[n] /\ K[n - 1] = H[n - 1] /\ b.summons[n] = a.summons[n]
        BY <1>1, <1>2, <3>0, <3>3
      <4> QED
        BY <3>1, <4>1
    <3>4. CASE n = r
      <4>1. K[n] = H[n + 1] - gone /\ K[n - 1] = H[n - 1] /\ b.summons[n] = a.summons[n + 1]
            /\ gone = Content.cost[a.summons[n]]
        BY <1>1, <1>2, <3>0, <3>4
      <4> HIDE DEF gone, K
      <4> QED
        BY <3>1, <3>2, <4>1
    <3>5. CASE n > r
      <4>1. K[n] = H[n + 1] - gone /\ K[n - 1] = H[n] - gone /\ b.summons[n] = a.summons[n + 1]
        BY <1>1, <1>2, <3>0, <3>5
      <4> HIDE DEF gone, K
      <4> QED
        BY <1>3, <3>1, <3>2, <4>1
    <3> QED
      BY <1>1, <3>3, <3>4, <3>5
  <2> HIDE DEF K
  <2> QED
    BY <1>2, <2>1, <2>2, <2>3 DEF Totals
<1>7. Used(Content, b) = K[L - 1]
  <2> HIDE DEF K
  <2> QED
    BY <1>2, <1>6, UsedIsTotal
<1>8. K[L - 1] <= H[L]
  <2>1. L - 1 \in 0..L - 1 /\ L \in 0..L /\ L \in 1..L /\ (L - 1) + 1 = L
    BY <1>1
  <2>2. CASE L - 1 < r
    <3>1. r = L /\ K[L - 1] = H[L - 1]
      BY <1>1, <2>1, <2>2
    <3>2. H[L] = H[L - 1] + gone /\ H[L - 1] \in Int
      <4>1. L - 1 \in 0..L
        BY <1>1
      <4> QED
        BY <1>5, <2>1, <3>1, <4>1
    <3> HIDE DEF K, gone
    <3> QED
      BY <1>3, <3>1, <3>2
  <2>3. CASE ~(L - 1 < r)
    <3>1. K[L - 1] = H[L] - gone /\ H[L] \in Int
      BY <1>5, <2>1, <2>3
    <3> HIDE DEF K, gone
    <3> QED
      BY <1>3, <3>1
  <2> QED
    BY <2>2, <2>3
<1> QED
  BY <1>4, <1>7, <1>8

-----------------------------------------------------------------------------
\* What the troops draw from the pool

Row(i, J) == {i} \X J

LEMMA RowFacts ==
  ASSUME NEW i, NEW J, IsFiniteSet(J)
  PROVE  IsFiniteSet(Row(i, J)) /\ Cardinality(Row(i, J)) <= Cardinality(J)
<1> DEFINE f == [p \in Row(i, J) |-> p[2]]
<1>1. f \in Injection(Row(i, J), J)
  <2>1. f \in [Row(i, J) -> J]
    BY DEF Row
  <2>2. ASSUME NEW p \in Row(i, J), NEW q \in Row(i, J), f[p] = f[q]
        PROVE  p = q
    <3>1. p = <<i, p[2]>> /\ q = <<i, q[2]>>
      BY DEF Row
    <3>2. p[2] = q[2]
      BY <2>2
    <3> QED
      BY <3>1, <3>2
  <2> HIDE DEF f
  <2> QED
    BY <2>1, <2>2 DEF Injection, IsInjective
<1> HIDE DEF f
<1> QED
  BY <1>1, FS_Injection

LEMMA DrawnIs ==
  ASSUME NEW troops, NEW s, NEW p
  PROVE  p \in Draws(troops, s) <=>
           /\ p[1] \in DOMAIN troops /\ p[2] \in DOMAIN troops[p[1]].summons
           /\ p = <<p[1], p[2]>> /\ troops[p[1]].summons[p[2]] = s
<1>1. ASSUME NEW i \in DOMAIN troops, p \in {i} \X DOMAIN troops[i].summons
      PROVE  p[1] = i /\ p[2] \in DOMAIN troops[p[1]].summons /\ p = <<p[1], p[2]>>
  BY <1>1
<1>2. ASSUME p[1] \in DOMAIN troops, p[2] \in DOMAIN troops[p[1]].summons, p = <<p[1], p[2]>>
      PROVE  p \in {p[1]} \X DOMAIN troops[p[1]].summons
  <2> DEFINE a == p[1]
             b == p[2]
  <2>1. p = <<a, b>> /\ b \in DOMAIN troops[a].summons
    BY <1>2
  <2> HIDE DEF a, b
  <2>2. p \in {a} \X DOMAIN troops[a].summons
    BY <2>1
  <2> QED
    BY <2>2 DEF a, b
<1>3. p \in Draws(troops, s) <=> /\ \E i \in DOMAIN troops : p \in {i} \X DOMAIN troops[i].summons
                                 /\ troops[p[1]].summons[p[2]] = s
  BY DEF Draws
<1> QED
  BY <1>1, <1>2, <1>3

TroopsTyped(troops) == troops \in Seq(PlannedTroop)

LEMMA TroopFacts ==
  ASSUME NEW troops, TroopsTyped(troops), NEW i \in DOMAIN troops
  PROVE  /\ troops[i] \in PlannedTroop /\ troops[i].mage \in Content.mages
         /\ troops[i].summons \in Seq(Kinds)
         /\ DOMAIN troops[i].summons = 1..Len(troops[i].summons) /\ Len(troops[i].summons) \in Nat
         /\ IsFiniteSet(DOMAIN troops[i].summons)
<1>1. troops[i] \in PlannedTroop
  <2>1. i \in 1..Len(troops)
    BY LenProperties DEF TroopsTyped
  <2> QED
    BY <2>1, ElementOfSeq DEF TroopsTyped
<1>2. /\ troops[i].mage \in Content.mages
      /\ troops[i].summons \in Seq(Kinds)
  BY <1>1 DEF PlannedTroop, Kinds
<1>3. DOMAIN troops[i].summons = 1..Len(troops[i].summons) /\ Len(troops[i].summons) \in Nat
  BY <1>2, LenProperties
<1>4. IsFiniteSet(DOMAIN troops[i].summons)
  BY <1>3, FS_Interval
<1> QED
  BY <1>1, <1>2, <1>3, <1>4

LEMMA DrawsAreFinite ==
  ASSUME NEW troops, TroopsTyped(troops), NEW s
  PROVE  IsFiniteSet(Draws(troops, s)) /\ Cardinality(Draws(troops, s)) \in Nat
<1> DEFINE N == Len(troops)
           D == Draws(troops, s)
           Upto(k) == {p \in D : p[1] <= k}
           P == {k \in Nat : IsFiniteSet(Upto(k))}
<1>1. N \in Nat /\ DOMAIN troops = 1..N
  BY LenProperties DEF TroopsTyped
<1>2. \A p \in D : p[1] \in 1..N /\ p[2] \in DOMAIN troops[p[1]].summons /\ p = <<p[1], p[2]>>
  BY <1>1, DrawnIs
<1> HIDE DEF D, N
<1>3. P \in SUBSET Nat /\ 0 \in P
  <2>1. Upto(0) = {}
    BY <1>1, <1>2
  <2> HIDE DEF Upto
  <2> QED
    BY <2>1, FS_EmptySet
<1>4. ASSUME NEW k \in 0..N, k \in P, k < N
      PROVE  k + 1 \in P
  <2> DEFINE J == DOMAIN troops[k + 1].summons
  <2>1. k + 1 \in 1..N /\ IsFiniteSet(J)
    BY <1>1, <1>4, TroopFacts
  <2>2. Upto(k + 1) \subseteq Upto(k) \cup Row(k + 1, J)
    <3>1. ASSUME NEW p \in Upto(k + 1), ~(p[1] <= k)
          PROVE  p \in Row(k + 1, J)
      <4>1. p[1] = k + 1
        BY <1>1, <1>2, <1>4, <3>1
      <4>2. p[2] \in J /\ p = <<k + 1, p[2]>>
        BY <1>2, <3>1, <4>1
      <4> HIDE DEF J, Upto
      <4> QED
        BY <4>2 DEF Row
    <3> QED
      BY <3>1
  <2>3. IsFiniteSet(Upto(k)) /\ IsFiniteSet(Row(k + 1, J))
    BY <1>4, <2>1, RowFacts
  <2>4. IsFiniteSet(Upto(k + 1))
    <3> HIDE DEF Upto, J
    <3>1. IsFiniteSet(Upto(k) \cup Row(k + 1, J))
      BY <2>3, FS_Union
    <3> QED
      BY <2>2, <3>1, FS_Subset
  <2> HIDE DEF Upto
  <2> QED
    BY <1>4, <2>4
<1>5. D = Upto(N)
  BY <1>1, <1>2
<1>6. IsFiniteSet(Upto(N))
  <2> HIDE DEF Upto
  <2>1. \A k \in 0..N : k \in P
    <3> HIDE DEF P
    <3> QED
      BY <1>1, <1>3, <1>4, StepByStep
  <2> QED
    BY <1>1, <2>1
<1> HIDE DEF Upto
<1>7. IsFiniteSet(D)
  BY <1>5, <1>6
<1>8. Cardinality(D) \in Nat
  BY <1>7, FS_CardinalityType
<1> QED
  BY <1>7, <1>8 DEF D

\* The troop is the only one its mage leads; and what such troops draw.
Alone(troops, i) == \A j \in DOMAIN troops : troops[j].mage = troops[i].mage => j = i
AloneDraws(troops, s) == {p \in Draws(troops, s) : Alone(troops, p[1])}

LEMMA AloneDrawn ==
  ASSUME NEW troops, NEW s, NEW p
  PROVE  p \in AloneDraws(troops, s) <=>
           /\ p[1] \in DOMAIN troops /\ p[2] \in DOMAIN troops[p[1]].summons
           /\ p = <<p[1], p[2]>> /\ troops[p[1]].summons[p[2]] = s
           /\ Alone(troops, p[1])
BY DrawnIs DEF AloneDraws

LEMMA AloneDrawsAreFinite ==
  ASSUME NEW troops, TroopsTyped(troops), NEW s
  PROVE  /\ IsFiniteSet(AloneDraws(troops, s)) /\ Cardinality(AloneDraws(troops, s)) \in Nat
         /\ Cardinality(AloneDraws(troops, s)) <= Cardinality(Draws(troops, s))
<1>1. AloneDraws(troops, s) \in SUBSET Draws(troops, s)
  BY DEF AloneDraws
<1>2. IsFiniteSet(Draws(troops, s))
  BY DrawsAreFinite
<1>3. /\ IsFiniteSet(AloneDraws(troops, s))
      /\ Cardinality(AloneDraws(troops, s)) <= Cardinality(Draws(troops, s))
  BY <1>1, <1>2, FS_Subset
<1> QED
  BY <1>3, FS_CardinalityType

\* Troops that keep less, each place matched with one there was, draw no more.
LEMMA DrawsNoMore ==
  ASSUME NEW old, TroopsTyped(old), NEW new, NEW s,
         NEW f \in [AloneDraws(new, s) -> AloneDraws(old, s)],
         \A p, q \in AloneDraws(new, s) : f[p] = f[q] => p = q
  PROVE  /\ Cardinality(AloneDraws(new, s)) \in Nat
         /\ Cardinality(AloneDraws(new, s)) <= Cardinality(AloneDraws(old, s))
<1>1. IsFiniteSet(AloneDraws(old, s))
  BY AloneDrawsAreFinite
<1>2. f \in Injection(AloneDraws(new, s), AloneDraws(old, s))
  BY DEF Injection, IsInjective
<1>3. /\ IsFiniteSet(AloneDraws(new, s))
      /\ Cardinality(AloneDraws(new, s)) <= Cardinality(AloneDraws(old, s))
  BY <1>1, <1>2, FS_Injection
<1> QED
  BY <1>3, FS_CardinalityType

-----------------------------------------------------------------------------
\* The entourage a mage is fielded with

LEMMA CopiesOfNone ==
  ASSUME NEW s
  PROVE  Copies(<<>>, s) = 0
<1>1. {i \in DOMAIN <<>> : <<>>[i] = s} = {}
  OBVIOUS
<1> QED
  BY <1>1, FS_EmptySet DEF Copies

LEMMA CopiesOfMore ==
  ASSUME NEW seq \in Seq(Kinds), NEW s \in Kinds, NEW x
  PROVE  /\ Copies(seq, x) \in Nat
         /\ Copies(Append(seq, s), x) = IF x = s THEN Copies(seq, x) + 1 ELSE Copies(seq, x)
<1> DEFINE L == Len(seq)
           more == Append(seq, s)
           At(q) == {i \in DOMAIN q : q[i] = x}
<1>1. L \in Nat /\ DOMAIN seq = 1..L
  BY LenProperties
<1>2. /\ more \in Seq(Kinds) /\ Len(more) = L + 1
      /\ \A i \in 1..L : more[i] = seq[i]
      /\ more[L + 1] = s
  BY AppendProperties
<1>3. DOMAIN more = 1..L + 1
  BY <1>2, LenProperties
<1>4. IsFiniteSet(At(seq)) /\ Cardinality(At(seq)) \in Nat
  <2>1. IsFiniteSet(1..L)
    BY <1>1, FS_Interval
  <2>2. At(seq) \in SUBSET (1..L)
    BY <1>1
  <2> HIDE DEF At
  <2> QED
    BY <2>1, <2>2, FS_Subset, FS_CardinalityType
<1> HIDE DEF L, more
<1>5. CASE x = s
  <2>1. At(more) = At(seq) \cup {L + 1} /\ L + 1 \notin At(seq)
    BY <1>1, <1>2, <1>3, <1>5
  <2> HIDE DEF At
  <2>2. Cardinality(At(more)) = Cardinality(At(seq)) + 1
    BY <1>4, <2>1, FS_AddElement
  <2> QED
    BY <1>4, <1>5, <2>2 DEF Copies, At, more
<1>6. CASE x # s
  <2>1. At(more) = At(seq)
    BY <1>1, <1>2, <1>3, <1>6
  <2> QED
    BY <1>4, <1>6, <2>1 DEF Copies, more
<1> QED
  BY <1>5, <1>6

Fits(troop) == Used(Content, troop) <= Content.capacity[troop.mage]
Covered(troops) == \A s \in Kinds : Cardinality(AloneDraws(troops, s)) <= Content.owned[s]
TroopsSound(troops) ==
  /\ TroopsTyped(troops) /\ Len(troops) <= Content.mageCap
  /\ Covered(troops)
  /\ \A i \in DOMAIN troops : Alone(troops, i) => Fits(troops[i])

LEMMA WhatRemains ==
  ASSUME TroopsTyped(plan.troops), NEW s \in Kinds
  PROVE  /\ Remaining(Content, plan, s) \in Int
         /\ Remaining(Content, plan, s) = Content.owned[s] - Cardinality(Draws(plan.troops, s))
         /\ Cardinality(Draws(plan.troops, s)) \in Nat /\ Content.owned[s] \in Nat
BY CostFacts, DrawsAreFinite DEF Remaining

\* None of a summon is taken, or no more than the pool has left.
InPool(seq, s) == Copies(seq, s) = 0 \/ Copies(seq, s) <= Remaining(Content, plan, s)

Bare(seq) == [summons |-> seq]

LEMMA EntourageFits ==
  ASSUME TroopsTyped(plan.troops), NEW m \in Content.mages
  PROVE  /\ EntourageFor(m) \in Seq(Kinds)
         /\ \A s \in Kinds : InPool(EntourageFor(m), s)
         /\ Used(Content, Bare(EntourageFor(m))) <= Content.capacity[m]
<1> DEFINE seq == Content.entourage[m]
           D == DOMAIN seq
           Take(got, s) == IF Remaining(Content, plan, s) > Copies(got, s) THEN Append(got, s) ELSE got
           Fold(g, s) == IF s = {} THEN <<>> ELSE Take(g[s \ {Max(s)}], seq[Max(s)])
           G == CHOOSE g : g = [s \in SUBSET D |-> Fold(g, s)]
           A == Seq(Kinds)
           F == [p \in A \X Kinds |-> Take(p[1], p[2])]
<1>1. EntourageFor(m) = G[D]
  BY DEF EntourageFor, FoldLeft, MapThenFoldSet
<1>2. Len(seq) \in Nat /\ D = 1..Len(seq) /\ seq \in Seq(Kinds)
  BY CostFacts, LenProperties
<1>3. ASSUME NEW got \in A, NEW s \in Kinds
      PROVE  Take(got, s) \in A
  BY <1>3, AppendProperties
<1> HIDE DEF seq, G, A, Take
<1>4. StepOf(F, A, Kinds)
  BY <1>3 DEF StepOf
<1>5. PICK h \in [SUBSET D -> A] : \A s \in SUBSET D : h[s] = Folding(F, <<>>, seq, h, s)
  <2> DEFINE none == <<>>
  <2>1. none \in A
    BY DEF A
  <2> HIDE DEF F, none
  <2>2. Computes(F, A, none, seq)
    BY <1>2, <1>4, <2>1, FoldExists
  <2> QED
    BY <2>2 DEF Computes, none
<1>6. ASSUME NEW s \in SUBSET D, s # {}
      PROVE  Max(s) \in s /\ seq[Max(s)] \in Kinds
  BY <1>2, <1>6, LastPlace, ElementOfSeq
<1>7. ASSUME NEW s \in SUBSET D
      PROVE  h[s] = Fold(h, s)
  <2>1. CASE s = {}
    BY <1>5, <2>1 DEF Folding
  <2>2. CASE s # {}
    <3> DEFINE a == h[s \ {Max(s)}]
               b == seq[Max(s)]
    <3>1. h[s] = F[<<a, b>>]
      BY <1>5, <2>2 DEF Folding
    <3>2. a \in A /\ b \in Kinds
      BY <1>6, <2>2
    <3> HIDE DEF a, b
    <3>3. F[<<a, b>>] = Take(a, b)
      BY <3>2
    <3> QED
      BY <2>2, <3>1, <3>3 DEF a, b
  <2> QED
    BY <2>1, <2>2
<1>8. h = [s \in SUBSET D |-> Fold(h, s)]
  BY <1>7
<1>9. G = [s \in SUBSET D |-> Fold(G, s)]
  BY <1>8 DEF G, Take
<1>10. \A s \in SUBSET D : G[s] = Fold(G, s)
  BY <1>9
<1>11. G[{}] = <<>> /\ 1..0 = {}
  <2>1. {} \in SUBSET D /\ 1..0 = {}
    OBVIOUS
  <2> HIDE DEF D
  <2>2. G[{}] = Fold(G, {})
    BY <1>10, <2>1
  <2> QED
    BY <2>1, <2>2
<1>12. ASSUME NEW n \in 1..Len(seq)
       PROVE  G[1..n] = Take(G[1..n - 1], seq[n])
  <2>1. n \in Nat /\ n > 0 /\ 1..n \in SUBSET D
    BY <1>2
  <2>2. 1..n # {} /\ Max(1..n) = n /\ (1..n) \ {Max(1..n)} = 1..n - 1
    BY <2>1, FrontPlaces
  <2> HIDE DEF D
  <2> QED
    BY <1>10, <2>1, <2>2
<1>13. PICK H : Totals(seq, H) /\ Used(Content, [mage |-> m, summons |-> seq]) = H[Len(seq)]
  <2> DEFINE usual == [mage |-> m, summons |-> seq]
  <2>1. usual.summons = seq
    OBVIOUS
  <2> HIDE DEF usual
  <2>2. \E H : Totals(usual.summons, H) /\ Used(Content, usual) = H[Len(usual.summons)]
    BY <1>2, <2>1, TroopHasTotals
  <2> QED
    BY <2>1, <2>2 DEF usual
<1>14. H[Len(seq)] <= Content.capacity[m]
  BY <1>13, ContentAssumption DEF seq
<1> DEFINE Good(n) == /\ G[1..n] \in Seq(Kinds)
                      /\ \A s \in Kinds : InPool(G[1..n], s)
                      /\ Used(Content, Bare(G[1..n])) <= H[n]
           P == {n \in Nat : Good(n)}
<1> HIDE DEF D
<1>15. P \in SUBSET Nat /\ 0 \in P
  <2> DEFINE bare == Bare(<<>>)
             T == [n \in 0..0 |-> 0]
  <2>1. bare.summons = <<>> /\ <<>> \in Seq(Kinds) /\ Len(<<>>) = 0
    BY DEF Bare
  <2>2. Totals(<<>>, T) /\ T[0] = 0
    BY DEF Totals
  <2> HIDE DEF T, bare
  <2>3. Used(Content, bare) = 0
    BY <2>1, <2>2, UsedIsTotal
  <2>4. H[0] = 0
    BY <1>13 DEF Totals
  <2>5. \A s \in Kinds : InPool(<<>>, s)
    BY CopiesOfNone DEF InPool
  <2>6. G[1..0] = <<>>
    BY <1>11
  <2>7. Used(Content, Bare(G[1..0])) <= H[0]
    BY <2>3, <2>4, <2>6 DEF bare
  <2>8. G[1..0] \in Seq(Kinds) /\ \A s \in Kinds : InPool(G[1..0], s)
    BY <2>1, <2>5, <2>6
  <2>9. Good(0)
    BY <2>7, <2>8
  <2> HIDE DEF Good
  <2> QED
    BY <2>9
<1>16. ASSUME NEW n \in 0..Len(seq), n \in P, n < Len(seq)
       PROVE  n + 1 \in P
  <2> DEFINE got == G[1..n]
             s == seq[n + 1]
  <2>1. n \in Nat /\ n + 1 \in 1..Len(seq) /\ (n + 1) - 1 = n
    BY <1>2, <1>16
  <2>2. s \in Kinds
    BY <1>2, <2>1, ElementOfSeq
  <2>3. /\ got \in Seq(Kinds) /\ Used(Content, Bare(got)) <= H[n]
        /\ \A x \in Kinds : InPool(got, x)
    BY <1>16
  <2>4. G[1..n + 1] = Take(got, s)
    BY <1>12, <2>1
  <2>5. H[n + 1] = H[n] + Content.cost[s] /\ H[n] \in Int
    BY <1>13, <2>1 DEF Totals
  <2>6. Content.cost[s] \in Nat
    BY <2>2, CostFacts
  <2> HIDE DEF s, got
  <2>7. Bare(got).summons = got /\ Used(Content, Bare(got)) \in Int
    <3>1. Bare(got).summons = got
      BY DEF Bare
    <3> QED
      BY <2>3, <3>1, UsedBySummons
  <2>8. CASE Remaining(Content, plan, s) > Copies(got, s)
    <3> DEFINE more == Append(got, s)
    <3>1. G[1..n + 1] = more
      BY <2>4, <2>8 DEF Take
    <3>2. more \in Seq(Kinds)
      BY <2>2, <2>3, AppendProperties
    <3>3. ASSUME NEW x \in Kinds
          PROVE  InPool(more, x)
      <4>1. /\ Copies(got, x) \in Nat
            /\ Copies(more, x) = IF x = s THEN Copies(got, x) + 1 ELSE Copies(got, x)
        BY <2>2, <2>3, CopiesOfMore
      <4>2. Remaining(Content, plan, x) \in Int /\ InPool(got, x)
        BY <2>3, WhatRemains
      <4> HIDE DEF more
      <4> QED
        BY <2>8, <4>1, <4>2 DEF InPool
    <3>4. Used(Content, Bare(more)) = Used(Content, Bare(got)) + Content.cost[s]
      <4>1. Bare(more).summons = Append(Bare(got).summons, s)
        BY <2>7 DEF Bare
      <4> HIDE DEF more
      <4> QED
        BY <2>2, <2>3, <2>7, <4>1, UsedOfMore
    <3>5. Used(Content, Bare(more)) <= H[n + 1]
      <4> HIDE DEF more
      <4> QED
        BY <2>3, <2>5, <2>6, <2>7, <3>4
    <3>6. Good(n + 1)
      BY <3>1, <3>2, <3>3, <3>5
    <3> HIDE DEF Good
    <3> QED
      BY <2>1, <3>6
  <2>9. CASE ~(Remaining(Content, plan, s) > Copies(got, s))
    <3>1. G[1..n + 1] = got
      BY <2>4, <2>9 DEF Take
    <3>2. Used(Content, Bare(got)) <= H[n + 1]
      BY <2>3, <2>5, <2>6, <2>7
    <3>3. Good(n + 1)
      BY <2>3, <3>1, <3>2
    <3> HIDE DEF Good
    <3> QED
      BY <2>1, <3>3
  <2> QED
    BY <2>8, <2>9
<1>17. Good(Len(seq))
  <2> HIDE DEF P
  <2>1. \A k \in 0..Len(seq) : k \in P
    BY <1>2, <1>15, <1>16, StepByStep
  <2>2. Len(seq) \in P
    BY <1>2, <2>1
  <2> QED
    BY <2>2 DEF P
<1>18. EntourageFor(m) = G[1..Len(seq)]
  BY <1>1, <1>2
<1>19. Used(Content, Bare(EntourageFor(m))) \in Int
  <2> DEFINE all == EntourageFor(m)
  <2>1. all \in Seq(Kinds)
    BY <1>17, <1>18
  <2> HIDE DEF all
  <2>2. Bare(all).summons = all
    BY DEF Bare
  <2>3. Used(Content, Bare(all)) \in Int
    BY <2>1, <2>2, UsedBySummons
  <2> QED
    BY <2>3 DEF all
<1>20. H[Len(seq)] \in Int /\ Content.capacity[m] \in Nat
  BY <1>2, <1>13, CostFacts DEF Totals
<1> QED
  <2>1. EntourageFor(m) \in Seq(Kinds) /\ \A s \in Kinds : InPool(EntourageFor(m), s)
    BY <1>17, <1>18
  <2>2. Used(Content, Bare(EntourageFor(m))) <= H[Len(seq)]
    BY <1>17, <1>18
  <2> QED
    BY <1>14, <1>19, <1>20, <2>1, <2>2

-----------------------------------------------------------------------------
\* The edits of the troops

\* What the reducer leaves of the plan when it puts other troops into it.
LEMMA PutTroops ==
  ASSUME NEW new, DOMAIN plan = {"troops", "slots"}, plan' = [plan EXCEPT !.troops = new]
  PROVE  plan'.troops = new
OBVIOUS

\* The troops of one mage change, and none of them changes hands.
Mapped(old, new, m) ==
  /\ DOMAIN new = DOMAIN old
  /\ \A i \in DOMAIN old : /\ new[i] \in PlannedTroop /\ new[i].mage = old[i].mage
                           /\ old[i].mage # m => new[i] = old[i]

LEMMA MappedFacts ==
  ASSUME NEW old, TroopsTyped(old), NEW new, NEW m, Mapped(old, new, m), new = [i \in DOMAIN old |-> new[i]]
  PROVE  /\ TroopsTyped(new) /\ Len(new) = Len(old)
         /\ \A i \in DOMAIN old : Alone(new, i) <=> Alone(old, i)
<1>1. Len(old) \in Nat /\ DOMAIN old = 1..Len(old)
  BY LenProperties DEF TroopsTyped
<1>2. new \in [1..Len(old) -> PlannedTroop]
  <2>1. \A i \in 1..Len(old) : new[i] \in PlannedTroop
    BY <1>1 DEF Mapped
  <2>2. new = [i \in 1..Len(old) |-> new[i]]
    BY <1>1
  <2> QED
    BY <2>1, <2>2
<1>3. new \in Seq(PlannedTroop) /\ Len(new) = Len(old)
  BY <1>1, <1>2
<1>4. \A i \in DOMAIN old : Alone(new, i) <=> Alone(old, i)
  BY DEF Alone, Mapped
<1> QED
  BY <1>3, <1>4 DEF TroopsTyped

\* A mage that leads several troops may end up with anything; one that leads a single
\* troop keeps within its capacity and the pool.
LEMMA MappedIsSound ==
  ASSUME NEW old, TroopsSound(old), NEW new, NEW m, Mapped(old, new, m),
         new = [i \in DOMAIN old |-> new[i]],
         \A k \in DOMAIN old : old[k].mage = m /\ Alone(old, k) => Fits(new[k]) /\ Covered(new)
  PROVE  TroopsSound(new)
<1>1. TroopsTyped(old) /\ Covered(old) /\ Len(old) <= Content.mageCap
      /\ \A i \in DOMAIN old : Alone(old, i) => Fits(old[i])
  BY DEF TroopsSound
<1>2. /\ TroopsTyped(new) /\ Len(new) = Len(old)
      /\ \A i \in DOMAIN old : Alone(new, i) <=> Alone(old, i)
  BY <1>1, MappedFacts
<1>3. \A i \in DOMAIN new : Alone(new, i) => Fits(new[i])
  BY <1>1, <1>2 DEF Mapped
<1>4. Covered(new)
  <2>1. CASE \E k \in DOMAIN old : old[k].mage = m /\ Alone(old, k)
    BY <2>1
  <2>2. CASE \A k \in DOMAIN old : old[k].mage = m => ~Alone(old, k)
    <3>1. ASSUME NEW s, NEW p
          PROVE  p \in AloneDraws(new, s) <=> p \in AloneDraws(old, s)
      <4>1. \A i \in DOMAIN old : Alone(new, i) \/ Alone(old, i) => Alone(old, i) /\ new[i] = old[i]
        BY <1>2, <2>2 DEF Mapped
      <4>2. p \in AloneDraws(new, s) <=>
              /\ p[1] \in DOMAIN new /\ p[2] \in DOMAIN new[p[1]].summons
              /\ p = <<p[1], p[2]>> /\ new[p[1]].summons[p[2]] = s
              /\ Alone(new, p[1])
        BY AloneDrawn
      <4>3. p \in AloneDraws(old, s) <=>
              /\ p[1] \in DOMAIN old /\ p[2] \in DOMAIN old[p[1]].summons
              /\ p = <<p[1], p[2]>> /\ old[p[1]].summons[p[2]] = s
              /\ Alone(old, p[1])
        BY AloneDrawn
      <4>4. DOMAIN new = DOMAIN old
        BY DEF Mapped
      <4>5. ASSUME p \in AloneDraws(new, s)
            PROVE  p \in AloneDraws(old, s)
        <5>1. p[1] \in DOMAIN old /\ Alone(new, p[1])
          BY <4>2, <4>4, <4>5
        <5>2. Alone(old, p[1]) /\ new[p[1]] = old[p[1]]
          BY <4>1, <5>1
        <5>3. new[p[1]].summons = old[p[1]].summons
          BY <5>2
        <5> QED
          BY <4>2, <4>3, <4>5, <5>1, <5>2, <5>3
      <4>6. ASSUME p \in AloneDraws(old, s)
            PROVE  p \in AloneDraws(new, s)
        <5>1. p[1] \in DOMAIN old /\ Alone(old, p[1])
          BY <4>3, <4>6
        <5>2. Alone(new, p[1]) /\ new[p[1]] = old[p[1]]
          BY <1>2, <4>1, <5>1
        <5>3. new[p[1]].summons = old[p[1]].summons
          BY <5>2
        <5> QED
          BY <4>2, <4>3, <4>4, <4>6, <5>1, <5>2, <5>3
      <4> QED
        BY <4>5, <4>6
    <3>2. ASSUME NEW s
          PROVE  AloneDraws(new, s) = AloneDraws(old, s)
      <4>1. AloneDraws(new, s) \subseteq AloneDraws(old, s) /\ AloneDraws(old, s) \subseteq AloneDraws(new, s)
        BY <3>1
      <4> QED
        BY <4>1
    <3> QED
      BY <1>1, <3>2 DEF Covered
  <2> QED
    BY <2>1, <2>2
<1> QED
  BY <1>1, <1>2, <1>3, <1>4 DEF TroopsSound

\* The troop the screen looks at is the first of its mage, the only one if it is alone.
LEMMA FirstTroop ==
  ASSUME TroopsTyped(plan.troops), NEW m, IsFielded(m)
  PROVE  /\ PlaceOf(m) \in DOMAIN plan.troops /\ TroopOf(m) = plan.troops[PlaceOf(m)]
         /\ TroopOf(m).mage = m
         /\ \A k \in DOMAIN plan.troops : plan.troops[k].mage = m /\ Alone(plan.troops, k) => k = PlaceOf(m)
<1> DEFINE ts == plan.troops
           I == {i \in DOMAIN ts : ts[i].mage = m}
<1>1. I # {} /\ I \in SUBSET Nat
  <2>1. \E i \in DOMAIN ts : ts[i].mage = m
    BY DEF IsFielded, Range
  <2>2. DOMAIN ts = 1..Len(ts) /\ Len(ts) \in Nat
    BY LenProperties DEF TroopsTyped
  <2> QED
    BY <2>1, <2>2
<1>2. PlaceOf(m) = Min(I)
  BY DEF PlaceOf
<1>3. Min(I) \in I
  <2>1. \E x \in I : \A y \in I : x <= y
    <3> HIDE DEF I
    <3> QED
      BY <1>1, SmallestOfMany
  <2> QED
    BY <2>1 DEF Min
<1>4. PlaceOf(m) \in DOMAIN ts /\ ts[PlaceOf(m)].mage = m
  BY <1>2, <1>3
<1>5. TroopOf(m) = ts[PlaceOf(m)]
  BY DEF TroopOf
<1> QED
  BY <1>4, <1>5 DEF Alone

LEMMA AddKeepsSound ==
  ASSUME TroopsSound(plan.troops), DOMAIN plan = {"troops", "slots"},
         NEW m, NEW s \in Kinds, AddSummon(m, s)
  PROVE  TroopsSound(plan'.troops)
<1> DEFINE ts == plan.troops
           more(i) == Append(ts[i].summons, s)
           added(i) == [ts[i] EXCEPT !.summons = more(i)]
           new == [i \in DOMAIN ts |-> IF ts[i].mage = m THEN added(i) ELSE ts[i]]
<1>1. /\ IsFielded(m) /\ Remaining(Content, plan, s) > 0 /\ RoomFor(m, s)
      /\ plan' = [plan EXCEPT !.troops = new]
  BY DEF AddSummon, MapTroop
<1>2. plan'.troops = new
  BY <1>1, PutTroops
<1>3. TroopsTyped(ts)
  BY DEF TroopsSound
<1>4. ASSUME NEW i \in DOMAIN ts
      PROVE  /\ ts[i] \in PlannedTroop /\ ts[i].summons \in Seq(Kinds)
             /\ DOMAIN ts[i].summons = 1..Len(ts[i].summons) /\ Len(ts[i].summons) \in Nat
             /\ ts[i].mage \in Content.mages
             /\ more(i) \in Seq(Kinds) /\ DOMAIN more(i) = 1..Len(ts[i].summons) + 1
             /\ \A j \in 1..Len(ts[i].summons) : more(i)[j] = ts[i].summons[j]
             /\ more(i)[Len(ts[i].summons) + 1] = s
  <2> DEFINE q == ts[i].summons
  <2>1. /\ ts[i] \in PlannedTroop /\ q \in Seq(Kinds) /\ DOMAIN q = 1..Len(q) /\ Len(q) \in Nat
        /\ ts[i].mage \in Content.mages
    BY <1>3, TroopFacts
  <2> HIDE DEF q
  <2>2. /\ Append(q, s) \in Seq(Kinds) /\ Len(Append(q, s)) = Len(q) + 1
        /\ \A j \in 1..Len(q) : Append(q, s)[j] = q[j]
        /\ Append(q, s)[Len(q) + 1] = s
    BY <2>1, AppendProperties
  <2>3. DOMAIN Append(q, s) = 1..Len(q) + 1
    BY <2>2, LenProperties
  <2> QED
    BY <2>1, <2>2, <2>3 DEF q
<1>5. ASSUME NEW i \in DOMAIN ts
      PROVE  added(i) \in PlannedTroop /\ added(i).mage = ts[i].mage /\ added(i).summons = more(i)
  <2> DEFINE q == more(i)
             old == ts[i]
  <2>1. old \in PlannedTroop /\ q \in Seq(Kinds)
    BY <1>4
  <2> HIDE DEF q, old
  <2>2. /\ [old EXCEPT !.summons = q] \in PlannedTroop
        /\ [old EXCEPT !.summons = q].mage = old.mage /\ [old EXCEPT !.summons = q].summons = q
    BY <2>1 DEF PlannedTroop, Kinds
  <2> QED
    BY <2>2 DEF q, old
<1>6. /\ DOMAIN new = DOMAIN ts /\ new = [i \in DOMAIN ts |-> new[i]]
      /\ \A i \in DOMAIN ts : new[i] = IF ts[i].mage = m THEN added(i) ELSE ts[i]
  OBVIOUS
<1> HIDE DEF ts, new, added, more
<1>7. Mapped(ts, new, m)
  BY <1>4, <1>5, <1>6 DEF Mapped
<1>8. ASSUME NEW k \in DOMAIN ts, ts[k].mage = m, Alone(ts, k)
      PROVE  Fits(new[k]) /\ Covered(new)
  <2> DEFINE L == Len(ts[k].summons)
             changed == new[k]
             old == ts[k]
  <2>1. TroopOf(m) = old /\ old.mage = m /\ changed = added(k)
    <3>1. k = PlaceOf(m) /\ TroopOf(m) = ts[PlaceOf(m)]
      BY <1>1, <1>3, <1>8, FirstTroop DEF ts
    <3> QED
      BY <1>6, <1>8, <3>1
  <2>2. /\ old.summons \in Seq(Kinds) /\ m \in Content.mages /\ L \in Nat /\ DOMAIN old.summons = 1..L
        /\ changed.mage = m /\ changed.summons = Append(old.summons, s) /\ changed.summons = more(k)
        /\ DOMAIN changed.summons = 1..L + 1 /\ changed.summons[L + 1] = s
        /\ \A j \in 1..L : changed.summons[j] = old.summons[j]
    BY <1>4, <1>5, <2>1 DEF more
  <2>3. Fits(changed)
    <3> HIDE DEF changed, old, L
    <3>1. Used(Content, changed) = Used(Content, old) + Content.cost[s] /\ Used(Content, old) \in Int
      <4>1. Used(Content, changed) = Used(Content, old) + Content.cost[s]
        BY <2>2, UsedOfMore
      <4>2. old.summons = old.summons /\ Used(Content, old) \in Int
        BY <2>2, UsedBySummons
      <4> QED
        BY <4>1, <4>2
    <3>2. Content.cost[s] <= Unsupported(Content, old)
      BY <1>1, <2>1 DEF RoomFor
    <3>3. Content.cost[s] \in Nat /\ Content.capacity[m] \in Nat
      BY <2>2, CostFacts
    <3>4. Used(Content, old) <= Content.capacity[m]
      BY <1>8, <2>1 DEF TroopsSound, Fits, ts, old
    <3>5. Unsupported(Content, old) = LET room == Content.capacity[m] - Used(Content, old)
                                      IN  IF room > 0 THEN room ELSE 0
      BY <2>1 DEF Unsupported
    <3>6. Used(Content, changed) <= Content.capacity[m]
      BY <3>1, <3>2, <3>3, <3>4, <3>5
    <3> QED
      BY <2>2, <3>6 DEF Fits
  <2>4. ASSUME NEW x \in Kinds
        PROVE  Cardinality(AloneDraws(new, x)) <= Content.owned[x]
    <3> DEFINE A == AloneDraws(ts, x)
               D == Draws(ts, x)
               q == <<k, L + 1>>
    <3>1. /\ IsFiniteSet(A) /\ Cardinality(A) \in Nat /\ IsFiniteSet(D) /\ Cardinality(D) \in Nat
          /\ Cardinality(A) <= Content.owned[x] /\ Content.owned[x] \in Nat /\ A \in SUBSET D
      BY <1>3, DrawsAreFinite, AloneDrawsAreFinite, CostFacts DEF TroopsSound, Covered, ts, AloneDraws
    <3>2. ASSUME NEW p \in AloneDraws(new, x)
          PROVE  p \in A \/ (x = s /\ p = q)
      <4>1. /\ p[1] \in DOMAIN ts /\ p[2] \in DOMAIN new[p[1]].summons
            /\ p = <<p[1], p[2]>> /\ new[p[1]].summons[p[2]] = x /\ Alone(new, p[1])
        BY <1>6, AloneDrawn
      <4>2. Alone(ts, p[1])
        BY <1>3, <1>6, <1>7, <4>1, MappedFacts
      <4>3. CASE p[1] # k
        <5>1. new[p[1]] = ts[p[1]]
          BY <1>6, <1>8, <4>1, <4>3 DEF Alone
        <5> QED
          BY <4>1, <4>2, <5>1, AloneDrawn
      <4>4. CASE p[1] = k
        <5>1. p[2] \in 1..L + 1 /\ changed.summons[p[2]] = x
          BY <2>2, <4>1, <4>4
        <5>2. CASE p[2] = L + 1
          BY <2>2, <4>1, <4>4, <5>1, <5>2
        <5>3. CASE p[2] # L + 1
          <6>1. p[2] \in 1..L
            BY <2>2, <5>1, <5>3
          <6>2. old.summons[p[2]] = x
            BY <2>2, <5>1, <6>1
          <6> QED
            BY <2>2, <4>1, <4>2, <4>4, <6>1, <6>2, AloneDrawn
        <5> QED
          BY <5>2, <5>3
      <4> QED
        BY <4>3, <4>4
    <3> HIDE DEF q
    <3>3. CASE x = s
      <4>1. AloneDraws(new, x) \in SUBSET (D \cup {q})
        BY <3>1, <3>2
      <4> HIDE DEF D, A
      <4>2. /\ IsFiniteSet(D \cup {q})
            /\ Cardinality(D \cup {q}) = IF q \in D THEN Cardinality(D) ELSE Cardinality(D) + 1
        BY <3>1, FS_AddElement
      <4>3. Cardinality(D \cup {q}) <= Cardinality(D) + 1 /\ Cardinality(D \cup {q}) \in Nat
        BY <3>1, <4>2
      <4>4. Cardinality(D) + 1 <= Content.owned[x]
        <5>1. Remaining(Content, plan, x) = Content.owned[x] - Cardinality(D)
          BY <1>3, WhatRemains DEF ts, D
        <5> QED
          BY <1>1, <3>1, <3>3, <5>1
      <4>5. IsFiniteSet(AloneDraws(new, x)) /\ Cardinality(AloneDraws(new, x)) <= Cardinality(D \cup {q})
        BY <4>1, <4>2, FS_Subset
      <4>6. Cardinality(AloneDraws(new, x)) \in Nat
        BY <4>5, FS_CardinalityType
      <4> QED
        BY <3>1, <4>3, <4>4, <4>5, <4>6
    <3>4. CASE x # s
      <4>1. AloneDraws(new, x) \in SUBSET A
        BY <3>2, <3>4
      <4> HIDE DEF A
      <4>2. IsFiniteSet(AloneDraws(new, x)) /\ Cardinality(AloneDraws(new, x)) <= Cardinality(A)
        BY <3>1, <4>1, FS_Subset
      <4>3. Cardinality(AloneDraws(new, x)) \in Nat
        BY <4>2, FS_CardinalityType
      <4> QED
        BY <3>1, <4>2, <4>3
    <3> QED
      BY <3>3, <3>4
  <2> QED
    BY <2>3, <2>4 DEF Covered
<1>9. TroopsSound(ts)
  BY DEF ts
<1>10. TroopsSound(new)
  BY <1>6, <1>7, <1>8, <1>9, MappedIsSound
<1> QED
  BY <1>2, <1>10

LEMMA OrderKeepsSound ==
  ASSUME TroopsSound(plan.troops), DOMAIN plan = {"troops", "slots"},
         NEW m, NEW order \in OrderChoices(Content), SetOrder(m, order)
  PROVE  TroopsSound(plan'.troops)
<1> DEFINE ts == plan.troops
           sent(i) == [ts[i] EXCEPT !.order = order]
           new == [i \in DOMAIN ts |-> IF ts[i].mage = m THEN sent(i) ELSE ts[i]]
<1>1. plan' = [plan EXCEPT !.troops = new]
  BY DEF SetOrder, MapTroop
<1>2. plan'.troops = new
  BY <1>1, PutTroops
<1>3. TroopsTyped(ts) /\ Covered(ts)
  BY DEF TroopsSound
<1>4. ASSUME NEW i \in DOMAIN ts
      PROVE  /\ ts[i] \in PlannedTroop /\ ts[i].summons \in Seq(Kinds)
             /\ sent(i) \in PlannedTroop /\ sent(i).mage = ts[i].mage
             /\ sent(i).summons = ts[i].summons
  <2> DEFINE old == ts[i]
  <2>1. old \in PlannedTroop /\ old.summons \in Seq(Kinds)
    BY <1>3, TroopFacts
  <2> HIDE DEF old
  <2>2. /\ [old EXCEPT !.order = order] \in PlannedTroop
        /\ [old EXCEPT !.order = order].mage = old.mage
        /\ [old EXCEPT !.order = order].summons = old.summons
    BY <2>1 DEF PlannedTroop
  <2> QED
    BY <2>1, <2>2 DEF old
<1>5. /\ DOMAIN new = DOMAIN ts /\ new = [i \in DOMAIN ts |-> new[i]]
      /\ \A i \in DOMAIN ts : new[i] = IF ts[i].mage = m THEN sent(i) ELSE ts[i]
  OBVIOUS
<1> HIDE DEF ts, new, sent
<1>6. Mapped(ts, new, m) /\ \A i \in DOMAIN ts : new[i].summons = ts[i].summons
  BY <1>4, <1>5 DEF Mapped
<1>7. ASSUME NEW x, NEW p
      PROVE  p \in AloneDraws(new, x) <=> p \in AloneDraws(ts, x)
  <2>1. p \in AloneDraws(new, x) <=> /\ p[1] \in DOMAIN new /\ p[2] \in DOMAIN new[p[1]].summons
                                     /\ p = <<p[1], p[2]>> /\ new[p[1]].summons[p[2]] = x
                                     /\ Alone(new, p[1])
    BY AloneDrawn
  <2>2. p \in AloneDraws(ts, x) <=> /\ p[1] \in DOMAIN ts /\ p[2] \in DOMAIN ts[p[1]].summons
                                    /\ p = <<p[1], p[2]>> /\ ts[p[1]].summons[p[2]] = x
                                    /\ Alone(ts, p[1])
    BY AloneDrawn
  <2>3. \A i \in DOMAIN ts : Alone(new, i) <=> Alone(ts, i)
    BY <1>3, <1>5, <1>6, MappedFacts
  <2>4. CASE p[1] \in DOMAIN ts
    <3>1. new[p[1]].summons = ts[p[1]].summons /\ (Alone(new, p[1]) <=> Alone(ts, p[1]))
      BY <1>6, <2>3, <2>4
    <3> QED
      BY <1>5, <2>1, <2>2, <3>1
  <2>5. CASE p[1] \notin DOMAIN ts
    BY <1>5, <2>1, <2>2, <2>5
  <2> QED
    BY <2>4, <2>5
<1>8. Covered(new)
  <2>1. ASSUME NEW x
        PROVE  AloneDraws(new, x) = AloneDraws(ts, x)
    <3>1. AloneDraws(new, x) \subseteq AloneDraws(ts, x) /\ AloneDraws(ts, x) \subseteq AloneDraws(new, x)
      BY <1>7
    <3> QED
      BY <3>1
  <2> QED
    BY <1>3, <2>1 DEF Covered
<1>9. ASSUME NEW k \in DOMAIN ts, Alone(ts, k)
      PROVE  Fits(new[k])
  <2>1. Fits(ts[k])
    BY <1>9 DEF TroopsSound, ts
  <2>2. Used(Content, ts[k]) = Used(Content, new[k])
    BY <1>4, <1>6, UsedBySummons
  <2>3. new[k].mage = ts[k].mage
    BY <1>6 DEF Mapped
  <2> QED
    BY <2>1, <2>2, <2>3 DEF Fits
<1>10. TroopsSound(ts)
  BY DEF ts
<1>11. TroopsSound(new)
  BY <1>5, <1>6, <1>8, <1>9, <1>10, MappedIsSound
<1> QED
  BY <1>2, <1>11

LEMMA RemoveFirstCuts ==
  ASSUME NEW seq \in Seq(Kinds), NEW s, s \in Range(seq)
  PROVE  \E r \in DOMAIN seq : RemoveFirst(seq, s) = RemoveAt(seq, r)
<1> DEFINE I == {i \in 1..Len(seq) : seq[i] = s}
<1>1. Len(seq) \in Nat /\ DOMAIN seq = 1..Len(seq)
  BY LenProperties
<1>2. I \in SUBSET Nat /\ I # {}
  BY <1>1 DEF Range
<1>3. Min(I) \in I
  <2>1. \E x \in I : \A y \in I : x <= y
    <3> HIDE DEF I
    <3> QED
      BY <1>2, SmallestOfMany
  <2> QED
    BY <2>1 DEF Min
<1>4. \E i \in 1..Len(seq) : seq[i] = s
  BY <1>2
<1>5. RemoveFirst(seq, s) = RemoveAt(seq, Min(I))
  BY <1>2, <1>4 DEF RemoveFirst, SelectInSeq
<1>6. Min(I) \in DOMAIN seq
  <2>1. I \subseteq DOMAIN seq
    BY <1>1
  <2> HIDE DEF I
  <2> QED
    BY <1>3, <2>1
<1> QED
  BY <1>5, <1>6

LEMMA RemoveFirstStays ==
  ASSUME NEW seq \in Seq(Kinds), NEW s
  PROVE  RemoveFirst(seq, s) \in Seq(Kinds)
<1>1. Len(seq) \in Nat /\ DOMAIN seq = 1..Len(seq)
  BY LenProperties
<1>2. CASE s \in Range(seq)
  BY <1>2, RemoveFirstCuts, CutShape
<1>3. CASE s \notin Range(seq)
  <2>1. ~\E i \in 1..Len(seq) : seq[i] = s
    BY <1>1, <1>3 DEF Range
  <2> QED
    BY <2>1 DEF RemoveFirst
<1> QED
  BY <1>2, <1>3

LEMMA RemoveKeepsSound ==
  ASSUME TroopsSound(plan.troops), DOMAIN plan = {"troops", "slots"},
         NEW m, NEW s \in Kinds, RemoveSummon(m, s)
  PROVE  TroopsSound(plan'.troops)
<1> DEFINE ts == plan.troops
           less(i) == RemoveFirst(ts[i].summons, s)
           cut(i) == [ts[i] EXCEPT !.summons = less(i)]
           new == [i \in DOMAIN ts |-> IF ts[i].mage = m THEN cut(i) ELSE ts[i]]
<1>1. IsFielded(m) /\ s \in Range(TroopOf(m).summons) /\ plan' = [plan EXCEPT !.troops = new]
  BY DEF RemoveSummon, MapTroop
<1>2. plan'.troops = new
  BY <1>1, PutTroops
<1>3. TroopsTyped(ts)
  BY DEF TroopsSound
<1>4. ASSUME NEW i \in DOMAIN ts
      PROVE  /\ ts[i] \in PlannedTroop /\ ts[i].summons \in Seq(Kinds)
             /\ DOMAIN ts[i].summons = 1..Len(ts[i].summons) /\ Len(ts[i].summons) \in Nat
             /\ ts[i].mage \in Content.mages /\ less(i) \in Seq(Kinds)
  BY <1>3, TroopFacts, RemoveFirstStays
<1>5. ASSUME NEW i \in DOMAIN ts
      PROVE  cut(i) \in PlannedTroop /\ cut(i).mage = ts[i].mage /\ cut(i).summons = less(i)
  <2> DEFINE q == less(i)
             old == ts[i]
  <2>1. old \in PlannedTroop /\ q \in Seq(Kinds)
    BY <1>4
  <2> HIDE DEF q, old
  <2>2. /\ [old EXCEPT !.summons = q] \in PlannedTroop
        /\ [old EXCEPT !.summons = q].mage = old.mage /\ [old EXCEPT !.summons = q].summons = q
    BY <2>1 DEF PlannedTroop, Kinds
  <2> QED
    BY <2>2 DEF q, old
<1>6. /\ DOMAIN new = DOMAIN ts /\ new = [i \in DOMAIN ts |-> new[i]]
      /\ \A i \in DOMAIN ts : new[i] = IF ts[i].mage = m THEN cut(i) ELSE ts[i]
  OBVIOUS
<1> HIDE DEF ts, new, cut, less
<1>7. Mapped(ts, new, m)
  BY <1>4, <1>5, <1>6 DEF Mapped
<1>8. ASSUME NEW k \in DOMAIN ts, ts[k].mage = m, Alone(ts, k)
      PROVE  Fits(new[k]) /\ Covered(new)
  <2> DEFINE L == Len(ts[k].summons)
             changed == new[k]
             old == ts[k]
  <2>1. TroopOf(m) = old /\ old.mage = m /\ changed = cut(k)
    <3>1. k = PlaceOf(m) /\ TroopOf(m) = ts[PlaceOf(m)]
      BY <1>1, <1>3, <1>8, FirstTroop DEF ts
    <3> QED
      BY <1>6, <1>8, <3>1
  <2>2. /\ old.summons \in Seq(Kinds) /\ m \in Content.mages /\ L \in Nat /\ DOMAIN old.summons = 1..L
        /\ changed.mage = m /\ changed.summons = less(k) /\ less(k) \in Seq(Kinds)
    BY <1>4, <1>5, <2>1
  <2>3. PICK r \in DOMAIN old.summons : less(k) = RemoveAt(old.summons, r)
    <3>1. s \in Range(old.summons)
      BY <1>1, <2>1
    <3> QED
      BY <2>2, <3>1, RemoveFirstCuts DEF less
  <2>4. /\ Len(less(k)) = L - 1
        /\ \A j \in 1..L - 1 : less(k)[j] = IF j < r THEN old.summons[j] ELSE old.summons[j + 1]
    BY <2>2, <2>3, CutShape
  <2>5. DOMAIN changed.summons = 1..L - 1
    BY <2>2, <2>4, LenProperties
  <2>6. Fits(changed)
    <3> HIDE DEF changed, old, L
    <3>1. Used(Content, changed) <= Used(Content, old)
      BY <2>2, <2>3, UsedOfLess
    <3>2. Used(Content, changed) \in Int /\ Used(Content, old) \in Int
      <4>1. changed.summons = changed.summons /\ old.summons = old.summons
        OBVIOUS
      <4> QED
        BY <2>2, <4>1, UsedBySummons
    <3>3. Content.capacity[m] \in Nat
      BY <2>2, CostFacts
    <3>4. Used(Content, old) <= Content.capacity[m]
      BY <1>8, <2>1 DEF TroopsSound, Fits, ts, old
    <3>5. Used(Content, changed) <= Content.capacity[m]
      BY <3>1, <3>2, <3>3, <3>4
    <3> QED
      BY <2>2, <3>5 DEF Fits
  <2>7. ASSUME NEW x \in Kinds
        PROVE  Cardinality(AloneDraws(new, x)) <= Content.owned[x]
    <3> DEFINE was(j) == IF j < r THEN j ELSE j + 1
               f == [p \in AloneDraws(new, x) |-> IF p[1] = k THEN <<k, was(p[2])>> ELSE p]
    <3> HIDE DEF L
    <3>1. ASSUME NEW p \in AloneDraws(new, x)
          PROVE  /\ p[1] \in DOMAIN ts /\ p = <<p[1], p[2]>> /\ new[p[1]].summons[p[2]] = x
                 /\ p[2] \in DOMAIN new[p[1]].summons /\ Alone(ts, p[1])
                 /\ p[1] = k => p[2] \in 1..L - 1 /\ old.summons[was(p[2])] = x
                 /\ p[1] # k => new[p[1]] = ts[p[1]]
      <4>1. /\ p[1] \in DOMAIN ts /\ p[2] \in DOMAIN new[p[1]].summons
            /\ p = <<p[1], p[2]>> /\ new[p[1]].summons[p[2]] = x /\ Alone(new, p[1])
        BY <1>6, AloneDrawn
      <4>2. Alone(ts, p[1])
        BY <1>3, <1>6, <1>7, <4>1, MappedFacts
      <4>3. ASSUME p[1] = k
            PROVE  p[2] \in 1..L - 1 /\ old.summons[was(p[2])] = x
        <5>1. p[2] \in 1..L - 1 /\ less(k)[p[2]] = x
          BY <2>2, <2>5, <4>1, <4>3
        <5> QED
          BY <2>4, <5>1
      <4>4. p[1] # k => new[p[1]] = ts[p[1]]
        BY <1>6, <1>8, <4>1 DEF Alone
      <4> QED
        BY <4>1, <4>2, <4>3, <4>4
    <3>2. ASSUME NEW j \in 1..L - 1
          PROVE  was(j) \in 1..L /\ \A i \in 1..L - 1 : was(j) = was(i) => i = j
      BY <2>2, <2>3
    <3> HIDE DEF was
    <3>3. ASSUME NEW p \in AloneDraws(new, x)
          PROVE  f[p] \in AloneDraws(ts, x) /\ f[p][1] = p[1]
      <4>1. CASE p[1] # k
        <5>1. f[p] = p
          BY <4>1
        <5>2. p[2] \in DOMAIN ts[p[1]].summons /\ ts[p[1]].summons[p[2]] = x
          BY <3>1, <4>1
        <5>3. p \in AloneDraws(ts, x)
          BY <3>1, <5>2, AloneDrawn
        <5> HIDE DEF f
        <5> QED
          BY <5>1, <5>3
      <4>2. CASE p[1] = k
        <5> DEFINE b == was(p[2])
                   q == <<k, b>>
        <5>1. f[p] = q
          BY <4>2
        <5>2. b \in 1..L /\ old.summons[b] = x
          BY <3>1, <3>2, <4>2
        <5> HIDE DEF b, f
        <5>3. q[1] = k /\ q[2] = b
          OBVIOUS
        <5>4. q[1] \in DOMAIN ts /\ q[2] \in DOMAIN ts[q[1]].summons /\ q = <<q[1], q[2]>>
              /\ ts[q[1]].summons[q[2]] = x /\ Alone(ts, q[1])
          BY <1>8, <2>2, <5>2, <5>3
        <5> HIDE DEF q
        <5>5. q \in AloneDraws(ts, x)
          BY <5>4, AloneDrawn
        <5> QED
          BY <4>2, <5>1, <5>3, <5>5
      <4> QED
        BY <4>1, <4>2
    <3>4. f \in [AloneDraws(new, x) -> AloneDraws(ts, x)]
      BY <3>3
    <3>5. ASSUME NEW p \in AloneDraws(new, x), NEW q \in AloneDraws(new, x), f[p] = f[q]
          PROVE  p = q
      <4>1. p[1] = q[1]
        <5> HIDE DEF f
        <5> QED
          BY <3>3, <3>5
      <4>2. CASE p[1] # k
        BY <3>5, <4>1, <4>2
      <4>3. CASE p[1] = k
        <5>1. was(p[2]) = was(q[2])
          BY <3>5, <4>1, <4>3
        <5>2. p[2] \in 1..L - 1 /\ q[2] \in 1..L - 1 /\ p = <<p[1], p[2]>> /\ q = <<q[1], q[2]>>
          BY <3>1, <4>1, <4>3
        <5>3. p[2] = q[2]
          BY <3>2, <5>1, <5>2
        <5> HIDE DEF f
        <5> QED
          BY <4>1, <5>2, <5>3
      <4> QED
        BY <4>2, <4>3
    <3> HIDE DEF f
    <3>6. \A p, q \in AloneDraws(new, x) : f[p] = f[q] => p = q
      BY <3>5
    <3>7. /\ Cardinality(AloneDraws(new, x)) \in Nat
          /\ Cardinality(AloneDraws(new, x)) <= Cardinality(AloneDraws(ts, x))
      BY <1>3, <3>4, <3>6, DrawsNoMore
    <3>8. Cardinality(AloneDraws(ts, x)) <= Content.owned[x] /\ Content.owned[x] \in Nat
      BY CostFacts DEF TroopsSound, Covered, ts
    <3>9. Cardinality(AloneDraws(ts, x)) \in Nat
      BY <1>3, AloneDrawsAreFinite
    <3> QED
      BY <3>7, <3>8, <3>9
  <2> QED
    BY <2>6, <2>7 DEF Covered
<1>9. TroopsSound(ts)
  BY DEF ts
<1>10. TroopsSound(new)
  BY <1>6, <1>7, <1>8, <1>9, MappedIsSound
<1> QED
  BY <1>2, <1>10

\* The troops that stay when a mage goes: all of the others, in their places' order.
Kept(old, m, n, new, g) ==
  /\ new \in Seq(PlannedTroop) /\ Len(new) <= n
  /\ g \in [1..Len(new) -> 1..n]
  /\ \A j \in 1..Len(new) : new[j] = old[g[j]] /\ old[g[j]].mage # m
  /\ \A i, j \in 1..Len(new) : g[i] = g[j] => i = j
  /\ \A i \in 1..n : old[i].mage # m => \E j \in 1..Len(new) : g[j] = i

LEMMA OneMoreKept ==
  ASSUME NEW old, TroopsTyped(old), NEW m, NEW n \in Nat, n + 1 \in DOMAIN old, NEW new,
         \E g : Kept(old, m, n, new, g)
  PROVE  \E g : Kept(old, m, n + 1,
                     IF old[n + 1].mage = m THEN new ELSE Append(new, old[n + 1]), g)
<1>1. PICK g : Kept(old, m, n, new, g)
  OBVIOUS
<1> DEFINE L == Len(new)
<1>2. /\ new \in Seq(PlannedTroop) /\ L <= n /\ g \in [1..L -> 1..n]
      /\ \A j \in 1..L : new[j] = old[g[j]] /\ old[g[j]].mage # m
      /\ \A i, j \in 1..L : g[i] = g[j] => i = j
      /\ \A i \in 1..n : old[i].mage # m => \E j \in 1..L : g[j] = i
  BY <1>1 DEF Kept
<1>3. L \in Nat
  BY <1>2, LenProperties
<1>4. CASE old[n + 1].mage = m
  <2>1. g \in [1..L -> 1..n + 1] /\ L <= n + 1
    <3> HIDE DEF L
    <3> QED
      BY <1>2, <1>3
  <2>2. \A i \in 1..n + 1 : old[i].mage # m => \E j \in 1..L : g[j] = i
    <3>1. \A i \in 1..n + 1 : i \in 1..n \/ i = n + 1
      OBVIOUS
    <3> QED
      BY <1>2, <1>4, <3>1
  <2>3. Kept(old, m, n + 1, new, g)
    BY <1>2, <2>1, <2>2 DEF Kept
  <2> QED
    BY <1>4, <2>3
<1>5. CASE old[n + 1].mage # m
  <2> DEFINE more == Append(new, old[n + 1])
             h == [j \in 1..L + 1 |-> IF j = L + 1 THEN n + 1 ELSE g[j]]
  <2>1. old[n + 1] \in PlannedTroop
    BY TroopFacts
  <2>2. /\ more \in Seq(PlannedTroop) /\ Len(more) = L + 1
        /\ \A j \in 1..L : more[j] = new[j]
        /\ more[L + 1] = old[n + 1]
    BY <1>2, <2>1, AppendProperties
  <2> HIDE DEF more, L
  <2>3. \A j \in 1..L : g[j] \in 1..n
    BY <1>2
  <2>4. /\ h \in [1..L + 1 -> 1..n + 1] /\ h[L + 1] = n + 1
        /\ \A j \in 1..L : h[j] = g[j] /\ h[j] # n + 1
    BY <1>3, <2>3
  <2>5. \A j \in 1..L + 1 : j \in 1..L \/ j = L + 1
    BY <1>3
  <2> HIDE DEF h
  <2>6. \A j \in 1..L + 1 : more[j] = old[h[j]] /\ old[h[j]].mage # m
    BY <1>2, <1>5, <2>2, <2>4, <2>5
  <2>7. \A i, j \in 1..L + 1 : h[i] = h[j] => i = j
    BY <1>2, <2>4, <2>5
  <2>8. ASSUME NEW i \in 1..n + 1, old[i].mage # m
        PROVE  \E j \in 1..L + 1 : h[j] = i
    <3>1. CASE i = n + 1
      <4>1. L + 1 \in 1..L + 1
        BY <1>3
      <4> QED
        BY <2>4, <3>1, <4>1
    <3>2. CASE i # n + 1
      <4>1. i \in 1..n
        BY <3>2
      <4>2. PICK j \in 1..L : g[j] = i
        BY <1>2, <2>8, <4>1
      <4>3. j \in 1..L + 1
        BY <1>3
      <4> QED
        BY <2>4, <4>2, <4>3
    <3> QED
      BY <3>1, <3>2
  <2>9. Kept(old, m, n + 1, more, h)
    BY <1>2, <1>3, <2>2, <2>4, <2>6, <2>7, <2>8 DEF Kept
  <2> QED
    BY <1>5, <2>9 DEF more
<1> QED
  BY <1>4, <1>5

LEMMA UnfieldedAreKept ==
  ASSUME NEW old, TroopsTyped(old), NEW m
  PROVE  \E g : Kept(old, m, Len(old), Without(m, old), g)
<1> DEFINE D == DOMAIN old
           Keep(kept, t) == IF t.mage = m THEN kept ELSE Append(kept, t)
           Fold(g, s) == IF s = {} THEN <<>> ELSE Keep(g[s \ {Max(s)}], old[Max(s)])
           G == CHOOSE g : g = [s \in SUBSET D |-> Fold(g, s)]
           A == Seq(PlannedTroop)
           F == [p \in A \X PlannedTroop |-> Keep(p[1], p[2])]
           all == Without(m, old)
<1>1. all = G[D]
  BY DEF Without, FoldLeft, MapThenFoldSet
<1>2. Len(old) \in Nat /\ D = 1..Len(old) /\ old \in Seq(PlannedTroop)
  BY LenProperties DEF TroopsTyped
<1>3. ASSUME NEW kept \in A, NEW t \in PlannedTroop
      PROVE  Keep(kept, t) \in A
  BY <1>3, AppendProperties
<1> HIDE DEF G, A, Keep, all
<1>4. StepOf(F, A, PlannedTroop)
  BY <1>3 DEF StepOf
<1>5. PICK h \in [SUBSET D -> A] : \A s \in SUBSET D : h[s] = Folding(F, <<>>, old, h, s)
  <2> DEFINE none == <<>>
  <2>1. none \in A
    BY DEF A
  <2> HIDE DEF F, none
  <2>2. Computes(F, A, none, old)
    BY <1>2, <1>4, <2>1, FoldExists
  <2> QED
    BY <2>2 DEF Computes, none
<1>6. ASSUME NEW s \in SUBSET D, s # {}
      PROVE  Max(s) \in s /\ old[Max(s)] \in PlannedTroop
  BY <1>2, <1>6, LastPlace, ElementOfSeq
<1>7. ASSUME NEW s \in SUBSET D
      PROVE  h[s] = Fold(h, s)
  <2>1. CASE s = {}
    BY <1>5, <2>1 DEF Folding
  <2>2. CASE s # {}
    <3> DEFINE a == h[s \ {Max(s)}]
               b == old[Max(s)]
    <3>1. h[s] = F[<<a, b>>]
      BY <1>5, <2>2 DEF Folding
    <3>2. a \in A /\ b \in PlannedTroop
      BY <1>6, <2>2
    <3> HIDE DEF a, b
    <3>3. F[<<a, b>>] = Keep(a, b)
      BY <3>2
    <3> QED
      BY <2>2, <3>1, <3>3 DEF a, b
  <2> QED
    BY <2>1, <2>2
<1>8. h = [s \in SUBSET D |-> Fold(h, s)]
  BY <1>7
<1>9. G = [s \in SUBSET D |-> Fold(G, s)]
  BY <1>8 DEF G, Keep
<1>10. \A s \in SUBSET D : G[s] = Fold(G, s)
  BY <1>9
<1>11. G[{}] = <<>> /\ 1..0 = {}
  <2>1. {} \in SUBSET D /\ 1..0 = {}
    OBVIOUS
  <2> HIDE DEF D
  <2>2. G[{}] = Fold(G, {})
    BY <1>10, <2>1
  <2> QED
    BY <2>1, <2>2
<1>12. ASSUME NEW n \in 1..Len(old)
       PROVE  G[1..n] = Keep(G[1..n - 1], old[n])
  <2>1. n \in Nat /\ n > 0 /\ 1..n \in SUBSET D
    BY <1>2
  <2>2. 1..n # {} /\ Max(1..n) = n /\ (1..n) \ {Max(1..n)} = 1..n - 1
    BY <2>1, FrontPlaces
  <2> HIDE DEF D
  <2> QED
    BY <1>10, <2>1, <2>2
<1> DEFINE P == {n \in Nat : \E g : Kept(old, m, n, G[1..n], g)}
<1>13. P \in SUBSET Nat /\ 0 \in P
  <2> DEFINE none == <<>>
  <2>1. none \in Seq(PlannedTroop) /\ Len(none) = 0 /\ 1..Len(none) = {} /\ 1..0 = {}
    OBVIOUS
  <2> HIDE DEF none
  <2>2. [j \in 1..Len(none) |-> 0] \in [1..Len(none) -> 1..0]
    BY <2>1
  <2>3. Kept(old, m, 0, none, [j \in 1..Len(none) |-> 0])
    BY <2>1, <2>2 DEF Kept
  <2>4. \E g : Kept(old, m, 0, none, g)
    BY <2>3
  <2>5. G[1..0] = none
    BY <1>11 DEF none
  <2> QED
    BY <2>4, <2>5
<1>14. ASSUME NEW n \in 0..Len(old), n \in P, n < Len(old)
       PROVE  n + 1 \in P
  <2>1. n \in Nat /\ n + 1 \in 1..Len(old) /\ (n + 1) - 1 = n /\ n + 1 \in DOMAIN old
    BY <1>2, <1>14
  <2>2. \E g : Kept(old, m, n, G[1..n], g)
    BY <1>14
  <2>3. G[1..n + 1] = Keep(G[1..n], old[n + 1])
    BY <1>12, <2>1
  <2> DEFINE was == G[1..n]
             is == G[1..n + 1]
  <2>4. is = IF old[n + 1].mage = m THEN was ELSE Append(was, old[n + 1])
    BY <2>3 DEF Keep
  <2>5. \E g : Kept(old, m, n, was, g)
    BY <2>2
  <2> HIDE DEF was, is
  <2>6. \E g : Kept(old, m, n + 1, IF old[n + 1].mage = m THEN was ELSE Append(was, old[n + 1]), g)
    BY <2>1, <2>5, OneMoreKept
  <2>7. \E g : Kept(old, m, n + 1, is, g)
    BY <2>4, <2>6
  <2> QED
    BY <2>1, <2>7 DEF is
<1>15. Len(old) \in P
  <2> HIDE DEF P
  <2>1. \A k \in 0..Len(old) : k \in P
    BY <1>2, <1>13, <1>14, StepByStep
  <2> QED
    BY <1>2, <2>1
<1>16. \E g : Kept(old, m, Len(old), all, g)
  BY <1>1, <1>2, <1>15
<1> QED
  BY <1>16 DEF all

LEMMA UnfieldKeepsSound ==
  ASSUME TroopsSound(plan.troops), DOMAIN plan = {"troops", "slots"}, NEW m, UnfieldMage(m)
  PROVE  TroopsSound(plan'.troops)
<1> DEFINE ts == plan.troops
           new == Without(m, ts)
           N == Len(ts)
<1>1. plan' = [plan EXCEPT !.troops = new]
  BY DEF UnfieldMage
<1>2. plan'.troops = new
  BY <1>1, PutTroops
<1>3. TroopsTyped(ts) /\ N \in Nat /\ DOMAIN ts = 1..N
  <2>1. TroopsTyped(ts)
    BY DEF TroopsSound
  <2> QED
    BY <2>1, LenProperties DEF TroopsTyped
<1> HIDE DEF ts
<1>4. PICK g : Kept(ts, m, N, new, g)
  <2>1. \E g : Kept(ts, m, Len(ts), new, g)
    BY <1>3, UnfieldedAreKept
  <2> HIDE DEF new
  <2> QED
    BY <2>1
<1> HIDE DEF new
<1>5. /\ TroopsTyped(new) /\ Len(new) <= N
      /\ \A j \in 1..Len(new) : g[j] \in 1..N /\ new[j] = ts[g[j]] /\ ts[g[j]].mage # m
      /\ \A i, j \in 1..Len(new) : g[i] = g[j] => i = j
      /\ \A i \in 1..N : ts[i].mage # m => \E j \in 1..Len(new) : g[j] = i
  BY <1>4 DEF Kept, TroopsTyped
<1>6. DOMAIN new = 1..Len(new) /\ Len(new) \in Nat
  BY <1>5, LenProperties DEF TroopsTyped
<1>7. ASSUME NEW j \in DOMAIN new, Alone(new, j)
      PROVE  Alone(ts, g[j])
  <2> SUFFICES ASSUME NEW i \in DOMAIN ts, ts[i].mage = ts[g[j]].mage PROVE i = g[j]
    BY DEF Alone
  <2>1. ts[i].mage # m
    BY <1>5, <1>6
  <2>2. PICK k \in DOMAIN new : g[k] = i
    BY <1>3, <1>5, <1>6, <2>1
  <2>3. new[k].mage = new[j].mage
    BY <1>5, <1>6, <2>2
  <2>4. k = j
    BY <1>7, <2>3 DEF Alone
  <2> QED
    BY <2>2, <2>4
<1>8. Len(new) <= Content.mageCap
  <2>1. N <= Content.mageCap /\ Content.mageCap \in Nat
    BY PlanAssumption DEF TroopsSound, ts
  <2> HIDE DEF N
  <2> QED
    BY <1>3, <1>5, <1>6, <2>1
<1>9. \A j \in DOMAIN new : Alone(new, j) => Fits(new[j])
  BY <1>3, <1>5, <1>6, <1>7 DEF TroopsSound, ts
<1>10. Covered(new)
  <2> SUFFICES ASSUME NEW x \in Kinds
               PROVE  Cardinality(AloneDraws(new, x)) <= Content.owned[x]
    BY DEF Covered
  <2> DEFINE f == [p \in AloneDraws(new, x) |-> <<g[p[1]], p[2]>>]
  <2>1. \A p \in AloneDraws(new, x) : /\ p[1] \in DOMAIN new /\ p[2] \in DOMAIN new[p[1]].summons
                                      /\ p = <<p[1], p[2]>> /\ new[p[1]].summons[p[2]] = x
                                      /\ Alone(new, p[1])
    BY AloneDrawn
  <2>2. ASSUME NEW p \in AloneDraws(new, x)
        PROVE  f[p] \in AloneDraws(ts, x)
    <3> DEFINE a == g[p[1]]
               b == p[2]
               q == <<a, b>>
    <3>1. f[p] = q
      OBVIOUS
    <3>2. a \in DOMAIN ts /\ b \in DOMAIN ts[a].summons /\ ts[a].summons[b] = x /\ Alone(ts, a)
      BY <1>3, <1>5, <1>6, <1>7, <2>1
    <3> HIDE DEF a, b, f
    <3>3. q[1] = a /\ q[2] = b /\ q = <<q[1], q[2]>>
      OBVIOUS
    <3> HIDE DEF q
    <3>4. q \in AloneDraws(ts, x)
      BY <3>2, <3>3, AloneDrawn
    <3> QED
      BY <3>1, <3>4
  <2>3. f \in [AloneDraws(new, x) -> AloneDraws(ts, x)]
    BY <2>2
  <2>4. ASSUME NEW p \in AloneDraws(new, x), NEW q \in AloneDraws(new, x), f[p] = f[q]
        PROVE  p = q
    <3>1. <<g[p[1]], p[2]>> = <<g[q[1]], q[2]>>
      BY <2>4
    <3>2. g[p[1]] = g[q[1]] /\ p[2] = q[2]
      BY <3>1
    <3> HIDE DEF f
    <3>3. p[1] = q[1]
      BY <1>5, <1>6, <2>1, <3>2
    <3> QED
      BY <2>1, <3>2, <3>3
  <2> HIDE DEF f
  <2>5. \A p, q \in AloneDraws(new, x) : f[p] = f[q] => p = q
    BY <2>4
  <2>6. /\ Cardinality(AloneDraws(new, x)) \in Nat
        /\ Cardinality(AloneDraws(new, x)) <= Cardinality(AloneDraws(ts, x))
    BY <1>3, <2>3, <2>5, DrawsNoMore
  <2>7. Cardinality(AloneDraws(ts, x)) <= Content.owned[x] /\ Content.owned[x] \in Nat
    BY CostFacts DEF TroopsSound, Covered, ts
  <2>8. Cardinality(AloneDraws(ts, x)) \in Nat
    BY <1>3, AloneDrawsAreFinite
  <2> QED
    BY <2>6, <2>7, <2>8
<1> QED
  BY <1>2, <1>5, <1>8, <1>9, <1>10 DEF TroopsSound

LEMMA FirstOrderIsOne == FirstFreeOrder(Content, plan) \in OrderChoices(Content)
<1> DEFINE taken == {t.order.zone : t \in {u \in Range(plan.troops) : u.order.kind = "hold"}}
           free == {i \in DOMAIN Content.lanes : Content.lanes[i] \notin taken}
<1>1. FirstFreeOrder(Content, plan) = IF free = {} THEN DefendBase ELSE Hold(Content.lanes[Min(free)])
  BY DEF FirstFreeOrder
<1>2. free \in SUBSET Nat /\ free \subseteq DOMAIN Content.lanes
  <2>1. DOMAIN Content.lanes = 1..Len(Content.lanes) /\ Len(Content.lanes) \in Nat
    BY PlanAssumption, LenProperties
  <2> QED
    BY <2>1
<1> HIDE DEF free
<1>3. ASSUME free # {}
      PROVE  Content.lanes[Min(free)] \in Range(Content.lanes)
  <2>1. \E x \in free : \A y \in free : x <= y
    BY <1>2, <1>3, SmallestOfMany
  <2>2. Min(free) \in free
    BY <2>1 DEF Min
  <2> QED
    BY <1>2, <2>2 DEF Range
<1> QED
  BY <1>1, <1>3 DEF OrderChoices

LEMMA FieldKeepsSound ==
  ASSUME TroopsSound(plan.troops), DOMAIN plan = {"troops", "slots"},
         NEW m \in Content.mages, FieldMage(m)
  PROVE  TroopsSound(plan'.troops)
<1> DEFINE ts == plan.troops
           E == EntourageFor(m)
           troop == [mage |-> m, summons |-> E, order |-> FirstFreeOrder(Content, plan)]
           new == Append(ts, troop)
           N == Len(ts)
<1>1. ~IsFielded(m) /\ ~AtMageCap /\ plan' = [plan EXCEPT !.troops = new]
  BY DEF FieldMage
<1>2. plan'.troops = new
  BY <1>1, PutTroops
<1>3. /\ E \in Seq(Kinds)
      /\ \A s \in Kinds : InPool(E, s)
      /\ Used(Content, Bare(E)) <= Content.capacity[m]
  BY EntourageFits DEF TroopsSound
<1>4. TroopsTyped(ts) /\ N \in Nat /\ DOMAIN ts = 1..N
  <2>1. TroopsTyped(ts)
    BY DEF TroopsSound
  <2> QED
    BY <2>1, LenProperties DEF TroopsTyped
<1> HIDE DEF E
<1>5. troop \in PlannedTroop /\ troop.mage = m /\ troop.summons = E
  BY <1>3, FirstOrderIsOne DEF PlannedTroop, Kinds
<1> HIDE DEF troop
<1>6. Fits(troop)
  <2>1. Bare(E).summons = E
    BY DEF Bare
  <2>2. Used(Content, troop) = Used(Content, Bare(E))
    BY <1>3, <1>5, <2>1, UsedBySummons
  <2> QED
    BY <1>3, <1>5, <2>2 DEF Fits
<1>7. N < Content.mageCap
  BY <1>1, <1>4, PlanAssumption DEF AtMageCap
<1>8. \A i \in DOMAIN ts : ts[i].mage # m
  BY <1>1 DEF IsFielded, Range
<1> HIDE DEF ts
<1>9. /\ TroopsTyped(new) /\ Len(new) = N + 1
      /\ \A i \in 1..N : new[i] = ts[i]
      /\ new[N + 1] = troop
  BY <1>4, <1>5, AppendProperties DEF TroopsTyped
<1>10. DOMAIN new = 1..N + 1
  BY <1>9, LenProperties DEF TroopsTyped
<1> HIDE DEF new
<1>11. Len(new) <= Content.mageCap
  BY <1>4, <1>7, <1>9, PlanAssumption
<1>12. ASSUME NEW i \in DOMAIN new
       PROVE  (i \in DOMAIN ts /\ new[i] = ts[i]) \/ (i = N + 1 /\ new[i] = troop)
  BY <1>4, <1>9, <1>10
<1>13. \A i \in DOMAIN ts : Alone(new, i) => Alone(ts, i)
  BY <1>4, <1>9, <1>10, <1>12 DEF Alone
<1>14. \A i \in DOMAIN new : Alone(new, i) => Fits(new[i])
  BY <1>6, <1>12, <1>13 DEF TroopsSound, ts
<1>15. Covered(new)
  <2> SUFFICES ASSUME NEW x \in Kinds
               PROVE  Cardinality(AloneDraws(new, x)) <= Content.owned[x]
    BY DEF Covered
  <2> DEFINE J == {j \in DOMAIN E : E[j] = x}
             old == AloneDraws(ts, x)
             drawn == Cardinality(Draws(ts, x))
  <2>1. /\ IsFiniteSet(old) /\ Cardinality(old) \in Nat /\ drawn \in Nat /\ Cardinality(old) <= drawn
        /\ Cardinality(old) <= Content.owned[x] /\ Content.owned[x] \in Nat
    BY <1>4, DrawsAreFinite, AloneDrawsAreFinite, CostFacts DEF TroopsSound, Covered, ts
  <2>2. IsFiniteSet(J)
    <3>1. Len(E) \in Nat /\ DOMAIN E = 1..Len(E)
      BY <1>3, LenProperties
    <3>2. J \in SUBSET (1..Len(E)) /\ IsFiniteSet(1..Len(E))
      BY <3>1, FS_Interval
    <3> HIDE DEF J
    <3> QED
      BY <3>2, FS_Subset
  <2>3. Cardinality(J) = 0 \/ Cardinality(J) <= Content.owned[x] - drawn
    <3>1. Remaining(Content, plan, x) = Content.owned[x] - drawn
      BY <1>4, WhatRemains DEF ts
    <3>2. InPool(E, x)
      BY <1>3
    <3> QED
      BY <3>1, <3>2 DEF InPool, Copies
  <2>4. ASSUME NEW p \in AloneDraws(new, x)
        PROVE  p \in old \cup Row(N + 1, J)
    <3>1. /\ p[1] \in DOMAIN new /\ p[2] \in DOMAIN new[p[1]].summons
          /\ p = <<p[1], p[2]>> /\ new[p[1]].summons[p[2]] = x /\ Alone(new, p[1])
      BY AloneDrawn
    <3>2. CASE p[1] \in DOMAIN ts /\ new[p[1]] = ts[p[1]]
      <4>1. p[2] \in DOMAIN ts[p[1]].summons /\ ts[p[1]].summons[p[2]] = x /\ Alone(ts, p[1])
        BY <1>13, <3>1, <3>2
      <4>2. p \in AloneDraws(ts, x)
        BY <3>1, <3>2, <4>1, AloneDrawn
      <4> QED
        BY <4>2
    <3>3. CASE p[1] = N + 1 /\ new[p[1]] = troop
      <4>1. p[2] \in DOMAIN E /\ E[p[2]] = x
        BY <1>5, <3>1, <3>3
      <4>2. p[2] \in J /\ p = <<N + 1, p[2]>>
        BY <3>1, <3>3, <4>1
      <4> HIDE DEF J
      <4>3. p \in Row(N + 1, J)
        BY <4>2 DEF Row
      <4> QED
        BY <4>3
    <3> QED
      BY <1>12, <3>1, <3>2, <3>3
  <2> HIDE DEF J, old, drawn
  <2>5. /\ IsFiniteSet(Row(N + 1, J)) /\ Cardinality(Row(N + 1, J)) <= Cardinality(J)
        /\ Cardinality(Row(N + 1, J)) \in Nat /\ Cardinality(J) \in Nat
    BY <2>2, RowFacts, FS_CardinalityType
  <2> DEFINE R == Row(N + 1, J)
             all == old \cup R
  <2>6. IsFiniteSet(all) /\ Cardinality(all) <= Cardinality(old) + Cardinality(R) /\ Cardinality(all) \in Nat
    <3> HIDE DEF R
    <3>0. IsFiniteSet(R) /\ Cardinality(R) \in Nat
      BY <2>5 DEF R
    <3>1. IsFiniteSet(all) /\ Cardinality(all) = Cardinality(old) + Cardinality(R) - Cardinality(old \cap R)
      BY <2>1, <3>0, FS_Union
    <3>2. IsFiniteSet(old \cap R)
      BY <2>1, FS_Intersection
    <3>3. Cardinality(old \cap R) \in Nat
      BY <3>2, FS_CardinalityType
    <3>4. Cardinality(all) \in Nat
      BY <3>1, FS_CardinalityType
    <3> HIDE DEF all
    <3> QED
      BY <2>1, <3>0, <3>1, <3>3, <3>4
  <2>7. AloneDraws(new, x) \in SUBSET all
    BY <2>4
  <2> HIDE DEF all
  <2>8. IsFiniteSet(AloneDraws(new, x)) /\ Cardinality(AloneDraws(new, x)) <= Cardinality(all)
    BY <2>6, <2>7, FS_Subset
  <2>9. Cardinality(AloneDraws(new, x)) \in Nat
    BY <2>8, FS_CardinalityType
  <2> HIDE DEF R
  <2>10. Cardinality(R) <= Cardinality(J) /\ Cardinality(R) \in Nat
    BY <2>5 DEF R
  <2> QED
    BY <2>1, <2>3, <2>5, <2>6, <2>8, <2>9, <2>10
<1> QED
  BY <1>2, <1>9, <1>11, <1>14, <1>15 DEF TroopsSound

PlanSound == plan # NoPlan => TroopsSound(plan.troops)

LEMMA OpeningIsSound ==
  ASSUME NEW opening \in OpeningPlans
  PROVE  TroopsSound(opening.troops)
<1> DEFINE ts == opening.troops
<1>1. TroopsTyped(ts)
  BY PlanAssumption DEF PlanState, TroopsTyped
<1>2. /\ Len(ts) <= Content.mageCap
      /\ Overloaded(Content, opening) = {} /\ Overdrawn(Content, opening) = {}
  BY ContentAssumption
<1>3. ASSUME NEW i \in DOMAIN ts
      PROVE  Fits(ts[i])
  <2>1. ts[i].summons \in Seq(Kinds) /\ ts[i].mage \in Content.mages
    BY <1>1, TroopFacts
  <2>2. ~(Used(Content, ts[i]) > Content.capacity[ts[i].mage])
    BY <1>2 DEF Overloaded
  <2>3. ts[i].summons = ts[i].summons /\ Used(Content, ts[i]) \in Int
    BY <2>1, UsedBySummons
  <2>4. Content.capacity[ts[i].mage] \in Nat
    BY <2>1, CostFacts
  <2> QED
    BY <2>2, <2>3, <2>4 DEF Fits
<1>4. ASSUME NEW s \in Kinds
      PROVE  Cardinality(AloneDraws(ts, s)) <= Content.owned[s]
  <2>1. /\ Content.owned[s] \in Nat /\ Cardinality(Draws(ts, s)) \in Nat
        /\ Cardinality(AloneDraws(ts, s)) \in Nat
        /\ Cardinality(AloneDraws(ts, s)) <= Cardinality(Draws(ts, s))
    BY <1>1, CostFacts, DrawsAreFinite, AloneDrawsAreFinite
  <2>2. ~(Content.owned[s] - Cardinality(Draws(ts, s)) < 0)
    BY <1>2 DEF Overdrawn, Remaining, Kinds
  <2> QED
    BY <2>1, <2>2
<1> QED
  BY <1>1, <1>2, <1>3, <1>4 DEF TroopsSound, Covered

LEMMA EditKeepsSound == SlotsKnown /\ PlanSound /\ Edit => PlanSound'
<1> SUFFICES ASSUME SlotsKnown, PlanSound, Edit PROVE TroopsSound(plan'.troops)
  BY DEF PlanSound
<1>1. TroopsSound(plan.troops) /\ DOMAIN plan = {"troops", "slots"}
  BY DEF Edit, PlanSound, SlotsKnown
<1>2. ASSUME NEW m \in Content.mages, NEW s \in Content.summons, AddSummon(m, s) \/ RemoveSummon(m, s)
      PROVE  TroopsSound(plan'.troops)
  BY <1>1, <1>2, AddKeepsSound, RemoveKeepsSound DEF Kinds
<1>3. ASSUME NEW m \in Content.mages, FieldMage(m) \/ UnfieldMage(m)
      PROVE  TroopsSound(plan'.troops)
  BY <1>1, <1>3, FieldKeepsSound, UnfieldKeepsSound
<1>4. ASSUME NEW m \in Content.mages, NEW order \in OrderChoices(Content), SetOrder(m, order)
      PROVE  TroopsSound(plan'.troops)
  BY <1>1, <1>4, OrderKeepsSound
<1>5. ASSUME NEW new, plan' = [plan EXCEPT !.slots = new]
      PROVE  TroopsSound(plan'.troops)
  <2>1. plan'.troops = plan.troops
    BY <1>1, <1>5
  <2> QED
    BY <1>1, <2>1
<1>6. ASSUME NEW slot \in 1..SpellSlots, ClearSpell(slot)
      PROVE  TroopsSound(plan'.troops)
  <2>1. \E new : plan' = [plan EXCEPT !.slots = new]
    BY <1>6 DEF ClearSpell
  <2> QED
    BY <1>5, <2>1
<1>7. ASSUME NEW slot \in 1..SpellSlots, NEW spell \in Content.spells, EquipSpell(slot, spell)
      PROVE  TroopsSound(plan'.troops)
  <2>1. \E new : plan' = [plan EXCEPT !.slots = new]
    BY <1>7 DEF EquipSpell
  <2> QED
    BY <1>5, <2>1
<1> QED
  BY <1>2, <1>3, <1>4, <1>6, <1>7 DEF Edit

-----------------------------------------------------------------------------
\* The plan screen

LEMMA EditKeepsSlots == SlotsKnown /\ Edit => SlotsKnown'
<1> SUFFICES ASSUME SlotsKnown, Edit PROVE SlotsKnown'
  OBVIOUS
<1> DEFINE Slots == [1..SpellSlots -> Content.spells \cup {NoSpell}]
<1>1. DOMAIN plan = {"troops", "slots"} /\ plan.slots \in Slots
  BY DEF SlotsKnown, Edit
<1>2. ASSUME NEW new, plan' = [plan EXCEPT !.troops = new]
      PROVE  SlotsKnown'
  <2>1. DOMAIN plan' = DOMAIN plan /\ plan'.slots = plan.slots
    BY <1>1, <1>2
  <2> QED
    BY <1>1, <2>1 DEF SlotsKnown
<1>3. ASSUME NEW new \in Slots, plan' = [plan EXCEPT !.slots = new]
      PROVE  SlotsKnown'
  <2>1. DOMAIN plan' = DOMAIN plan /\ plan'.slots = new
    BY <1>1, <1>3
  <2> QED
    BY <1>1, <1>3, <2>1 DEF SlotsKnown
<1>4. ASSUME NEW m \in Content.mages,
             \/ FieldMage(m) \/ UnfieldMage(m)
             \/ \E s \in Content.summons : AddSummon(m, s) \/ RemoveSummon(m, s)
             \/ \E order \in OrderChoices(Content) : SetOrder(m, order)
      PROVE  SlotsKnown'
  <2>1. \E new : plan' = [plan EXCEPT !.troops = new]
    <3>1. CASE FieldMage(m)
      BY <3>1 DEF FieldMage
    <3>2. CASE UnfieldMage(m)
      BY <3>2 DEF UnfieldMage
    <3>3. CASE \E s \in Content.summons : AddSummon(m, s)
      BY <3>3 DEF AddSummon, MapTroop
    <3>4. CASE \E s \in Content.summons : RemoveSummon(m, s)
      BY <3>4 DEF RemoveSummon, MapTroop
    <3>5. CASE \E order \in OrderChoices(Content) : SetOrder(m, order)
      BY <3>5 DEF SetOrder, MapTroop
    <3> QED
      BY <1>4, <3>1, <3>2, <3>3, <3>4, <3>5
  <2> QED
    BY <1>2, <2>1
<1>5. ASSUME NEW slot \in 1..SpellSlots, ClearSpell(slot)
      PROVE  SlotsKnown'
  <2>1. plan' = [plan EXCEPT !.slots = [plan.slots EXCEPT ![slot] = NoSpell]]
    BY <1>5 DEF ClearSpell
  <2>2. [plan.slots EXCEPT ![slot] = NoSpell] \in Slots
    BY <1>1
  <2> QED
    BY <1>3, <2>1, <2>2
<1>6. ASSUME NEW slot \in 1..SpellSlots, NEW spell \in Content.spells, EquipSpell(slot, spell)
      PROVE  SlotsKnown'
  <2> DEFINE new == [i \in DOMAIN plan.slots |-> IF i = slot THEN spell
                        ELSE IF plan.slots[i] = spell THEN NoSpell ELSE plan.slots[i]]
  <2>1. plan' = [plan EXCEPT !.slots = new]
    BY <1>6 DEF EquipSpell
  <2>2. new \in Slots
    BY <1>1
  <2> HIDE DEF new
  <2> QED
    BY <1>3, <2>1, <2>2
<1> QED
  BY <1>4, <1>5, <1>6 DEF Edit

LEMMA LoadoutIsKnown ==
  ASSUME SlotsKnown, plan # NoPlan
  PROVE  Loadout(Content, plan) \subseteq Spell
BY SpellAssumption DEF SlotsKnown, Loadout, Equipped, Range

-----------------------------------------------------------------------------
\* The specification

PlanHeld == SlotsKnown /\ PlanSound
ScreenInv == SessionInv /\ PlanHeld

LEMMA SamePlanIsHeld == PlanHeld /\ plan' = plan => PlanHeld'
BY DEF PlanHeld, SlotsKnown, PlanSound

LEMMA NoPlanIsHeld == plan = NoPlan => PlanHeld
BY DEF PlanHeld, SlotsKnown, PlanSound

LEMMA OpeningIsHeld == plan' \in OpeningPlans => PlanHeld'
<1> SUFFICES ASSUME NEW opening \in OpeningPlans, plan' = opening PROVE PlanHeld'
  OBVIOUS
<1>1. DOMAIN opening = {"troops", "slots"}
      /\ opening.slots \in [1..SpellSlots -> Content.spells \cup {NoSpell}]
  BY PlanAssumption DEF PlanState
<1> QED
  BY <1>1, OpeningIsSound DEF PlanHeld, SlotsKnown, PlanSound

LEMMA ScreenInit == Init => ScreenInv
BY InitHoldsAll, NoPlanIsHeld DEF Init, ScreenInv

LEMMA ScreenStep == ScreenInv /\ [Next]_vars => ScreenInv'
<1> SUFFICES ASSUME ScreenInv, [Next]_vars PROVE ScreenInv'
  OBVIOUS
<1>1. SessionInv /\ PlanHeld
  BY DEF ScreenInv
<1>2. CASE EditPlan
  <2>1. SessionInv'
    BY <1>1, <1>2 DEF EditPlan, sessionVars, SessionInv, SessionType, Phases, TimersFit, Allowed,
       Unsent, ToldIsTrue, OneEach
  <2>2. PlanHeld'
    BY <1>1, <1>2, EditKeepsSlots, EditKeepsSound DEF EditPlan, PlanHeld
  <2> QED
    BY <2>1, <2>2 DEF ScreenInv
<1>3. CASE SubmitPlan
  <2>1. PlanHeld'
    BY <1>3 DEF SubmitPlan, PlanHeld, SlotsKnown, PlanSound
  <2>2. SessionInv'
    BY <1>1, <1>3, LoadoutIsKnown, LockInKeepsAll DEF SubmitPlan, PlanHeld
  <2> QED
    BY <2>1, <2>2 DEF ScreenInv
<1>4. CASE plan' = plan /\ Elapse
  BY <1>1, <1>4, ElapseKeepsAll, SamePlanIsHeld DEF ScreenInv
<1>5. CASE ClaimAnswered
  <2>1. PICK i \in DOMAIN timers :
          SeatClaimed(i) /\ (plan' \in OpeningPlans \/ plan' = plan)
    BY <1>5 DEF ClaimAnswered
  <2>2. PlanHeld'
    BY <1>1, <2>1, OpeningIsHeld, SamePlanIsHeld
  <2> QED
    BY <1>1, <2>1, <2>2, SeatClaimedKeepsAll DEF ScreenInv
<1>6. ASSUME NEW i \in DOMAIN timers, BattleTimer(i), plan' = plan
      PROVE  ScreenInv'
  BY <1>1, <1>6, BattleTimerKeepsAll, SamePlanIsHeld DEF ScreenInv
<1>7. CASE Taps
  <2>1. PlanHeld'
    BY <1>1, <1>7, SamePlanIsHeld DEF Taps
  <2>2. SessionInv'
    BY <1>1, <1>7, AimKeepsAll, CastKeepsAll, RetryKeepsAll, LeaveKeepsAll, FreshKeepsAll
    DEF Taps, NewTest
  <2> QED
    BY <2>1, <2>2 DEF ScreenInv
<1>8. CASE UNCHANGED vars
  <2>1. PlanHeld'
    BY <1>1, <1>8, SamePlanIsHeld DEF vars
  <2>2. SessionInv'
    BY <1>1, <1>8 DEF vars, sessionVars, SessionInv, SessionType, Phases, TimersFit, Allowed, Unsent,
       ToldIsTrue, OneEach
  <2> QED
    BY <2>1, <2>2 DEF ScreenInv
<1> QED
  BY <1>2, <1>3, <1>4, <1>5, <1>6, <1>7, <1>8 DEF Next, Timers

(* session.ts with planReducer.ts: the invariant of the screen, its session and its  *)
(* timers holds of every run.                                                       *)
THEOREM ScreenInvariant == Spec => []ScreenInv
<1>1. Init => ScreenInv
  BY ScreenInit
<1>2. ScreenInv /\ [Next]_vars => ScreenInv'
  BY ScreenStep
<1> QED
  BY <1>1, <1>2, PTL DEF Spec

(* session.ts:240-268, 344-361: every answer a player is given is true.  What was   *)
(* accepted is in the battle's record and nothing else is; what is refused, by the  *)
(* drop of the connection included, never gets there; and no command is answered    *)
(* twice.                                                                           *)
THEOREM AnswersAreTrue == Spec => []ToldIsTrue
<1>1. ScreenInv => ToldIsTrue
  BY DEF ScreenInv, SessionInv
<1> QED
  BY <1>1, ScreenInvariant, PTL

(* session.ts:258-268: a live connection shows the battle as it is.                 *)
THEOREM LiveShowsTheBattle == Spec => []LiveIsCurrent
<1>1. ScreenInv => LiveIsCurrent
  BY DEF ScreenInv, SessionInv, Phases, LiveIsCurrent
<1> QED
  BY <1>1, ScreenInvariant, PTL

(* session.ts:196-199: nothing reaches the screen of a client that is down.         *)
THEOREM StalePictureStays == Spec => StaleStaysPut
<1> DEFINE Stays == connection = "reconnecting" /\ connection' = "reconnecting" => shown' = shown
<1>1. ScreenInv /\ [Next]_vars => [Stays]_sessionVars
  <2> SUFFICES ASSUME ScreenInv, [Next]_vars, connection = "reconnecting", connection' = "reconnecting"
               PROVE  shown' = shown
    OBVIOUS
  <2>1. SessionInv /\ delivering = FALSE /\ shown.phase = "battle"
    BY DEF ScreenInv, SessionInv, Phases
  <2>2. CASE EditPlan \/ UNCHANGED vars
    BY <2>2 DEF EditPlan, vars, sessionVars
  <2>3. CASE SubmitPlan
    BY <2>3 DEF SubmitPlan, LockIn
  <2>4. CASE Elapse \/ Arm \/ CancelTarget \/ Cast \/ RetryClaim \/ Leave
    BY <2>4 DEF Elapse, Arm, CancelTarget, Cast, RetryClaim, Leave
  <2>5. CASE NewTest
    BY <2>5 DEF NewTest, Fresh
  <2>6. ASSUME NEW i \in DOMAIN timers, SeatClaimed(i)
        PROVE  shown' = shown
    BY <2>6 DEF SeatClaimed
  <2>7. ASSUME NEW i \in DOMAIN timers, BattleTimer(i)
        PROVE  shown' = shown
    <3>1. CASE StartBattle(i)
      BY <2>1, <3>1 DEF StartBattle, ShowBattle
    <3>2. CASE Tick(i)
      BY <2>1, <3>2 DEF Tick, Finish, DropConnection, ShowBattle
    <3>3. CASE Recover(i)
      BY <3>3 DEF Recover
    <3>4. CASE CastLands(i)
      BY <2>1, <3>4 DEF CastLands, ShowBattle
    <3> QED
      BY <2>7, <3>1, <3>2, <3>3, <3>4 DEF BattleTimer
  <2> QED
    BY <2>2, <2>3, <2>4, <2>5, <2>6, <2>7 DEF Next, Timers, ClaimAnswered, Taps
<1> QED
  BY <1>1, ScreenInvariant, PTL DEF Spec, StaleStaysPut

-----------------------------------------------------------------------------
\* What the plan screen hands over, the sim deploys

LEMMA OneMage ==
  ASSUME NEW m
  PROVE  <<m>> # <<>> /\ Range(<<m>>) = {m}
<1>1. DOMAIN <<m>> = {1} /\ <<m>>[1] = m
  OBVIOUS
<1> QED
  BY <1>1 DEF Range

LEMMA TroopExpands ==
  ASSUME NEW c, NEW troop, CardsAgree(c), TroopIsLegal(c, troop)
  PROVE  /\ Expands(c, <<troop.mage>>, "mage")
         /\ Expands(c, troop.summons, "summon")
<1>1. Expands(c, <<troop.mage>>, "mage")
  BY OneMage DEF Expands, CardsAgree, TroopIsLegal
<1>2. Expands(c, troop.summons, "summon")
  BY DEF Expands, CardsAgree, TroopIsLegal
<1> QED
  BY <1>1, <1>2

LEMMA TroopIsSupported ==
  ASSUME NEW c, NEW troop, NEW setup, CardsAgree(c), TroopIsLegal(c, troop),
         setup.mages = <<troop.mage>>, setup.summons = troop.summons
  PROVE  Supported(c, setup)
<1>1. ASSUME NEW s \in Range(troop.summons)
      PROVE  c.catalog[troop.mage].schools \cap c.catalog[s].schools # {}
  BY DEF CardsAgree, TroopIsLegal, Supports
<1> QED
  BY <1>1, OneMage DEF Supported

(* plan.py with world.py: for every content whose plan cards and sim cards agree on  *)
(* kinds and schools, a plan validate_plan accepts becomes an army create_world      *)
(* builds, however many troops and whatever their orders.                            *)
THEOREM AcceptedPlansDeploy ==
  ASSUME NEW c, NEW handed, CardsAgree(c), Accepts(c, handed)
  PROVE  Deploys(c, ArmySetup(handed))
<1> DEFINE army == ArmySetup(handed)
<1>1. DOMAIN army = DOMAIN handed.troops
  BY DEF ArmySetup
<1>2. ASSUME NEW i \in DOMAIN army
      PROVE  /\ army[i].id = i /\ army[i].order = handed.troops[i].order
             /\ army[i].mages = <<handed.troops[i].mage>> /\ army[i].summons = handed.troops[i].summons
             /\ TroopIsLegal(c, handed.troops[i])
  <2>1. army[i] = [id |-> i, order |-> handed.troops[i].order, mages |-> <<handed.troops[i].mage>>,
                   summons |-> handed.troops[i].summons]
    BY <1>1 DEF ArmySetup
  <2>2. handed.troops[i] \in Range(handed.troops)
    BY <1>1 DEF Range
  <2> QED
    BY <2>1, <2>2 DEF Accepts
<1>3. ASSUME NEW i \in DOMAIN army
      PROVE  /\ army[i].order \in LegalOrders(c)
             /\ Expands(c, army[i].mages, "mage") /\ Expands(c, army[i].summons, "summon")
             /\ Supported(c, army[i])
  <2>1. army[i].order \in LegalOrders(c)
    BY <1>2 DEF TroopIsLegal
  <2>2. Expands(c, army[i].mages, "mage") /\ Expands(c, army[i].summons, "summon")
    <3> DEFINE troop == handed.troops[i]
    <3>1. TroopIsLegal(c, troop)
      BY <1>2
    <3>2. Expands(c, <<troop.mage>>, "mage") /\ Expands(c, troop.summons, "summon")
      <4> HIDE DEF troop
      <4> QED
        BY <3>1, TroopExpands
    <3> QED
      BY <1>2, <3>2
  <2>3. Supported(c, army[i])
    BY <1>2, TroopIsSupported
  <2> QED
    BY <2>1, <2>2, <2>3
<1>4. \A i, j \in DOMAIN army : army[i].id = army[j].id => i = j
  BY <1>2
<1> QED
  BY <1>3, <1>4 DEF Deploys
-----------------------------------------------------------------------------
\* What the hub lets a player lock in

LEMMA TheRestIsAccepted ==
  ASSUME SlotsKnown, PlanSound, plan # NoPlan, CanLockIn(Content, plan),
         Unread(Content, plan) = {}, Overloaded(Content, plan) = {}, Overdrawn(Content, plan) = {}
  PROVE  Accepts(Content, plan)
<1> DEFINE ts == plan.troops
<1>1. TroopsSound(ts) /\ plan.slots \in [1..SpellSlots -> Content.spells \cup {NoSpell}]
  BY DEF PlanSound, SlotsKnown
<1>2. ts # <<>> /\ Stranded(Content, plan) = {}
  BY DEF CanLockIn
<1>3. TroopsTyped(ts) /\ Len(ts) <= Content.mageCap
  BY <1>1 DEF TroopsSound
<1>4. ASSUME NEW t \in Range(ts)
      PROVE  TroopIsLegal(Content, t) /\ Range(t.summons) \subseteq Kinds
  <2>1. PICK i \in DOMAIN ts : t = ts[i]
    BY DEF Range
  <2>2. t.mage \in Content.mages /\ t.summons \in Seq(Kinds)
    BY <1>3, <2>1, TroopFacts
  <2>3. Range(t.summons) \subseteq Kinds
    BY <2>2, RangeOfSeq
  <2>4. \A s \in Range(t.summons) : Supports(Content.schools, t.mage, s)
    BY <2>2, <2>3, ContentAssumption DEF Kinds
  <2>5. Used(Content, t) <= Content.capacity[t.mage]
    <3>1. ~(Used(Content, t) > Content.capacity[t.mage])
      BY <2>1 DEF Overloaded
    <3>2. t.summons = t.summons /\ Used(Content, t) \in Int
      BY <2>2, UsedBySummons
    <3>3. Content.capacity[t.mage] \in Nat
      BY <2>2, CostFacts
    <3> QED
      BY <3>1, <3>2, <3>3
  <2>6. t.order \in LegalOrders(Content)
    BY <2>1 DEF Unread
  <2> QED
    BY <2>2, <2>3, <2>4, <2>5, <2>6 DEF TroopIsLegal, Kinds
<1>5. WithinPool(Content, plan)
  <2> SUFFICES ASSUME NEW t \in Range(ts), NEW s \in Range(t.summons)
               PROVE  Remaining(Content, plan, s) >= 0
    BY DEF WithinPool
  <2>1. s \in Kinds
    BY <1>4
  <2>2. Remaining(Content, plan, s) \in Int /\ ~(Remaining(Content, plan, s) < 0)
    BY <1>3, <2>1, WhatRemains DEF Overdrawn, Kinds
  <2> QED
    BY <2>2
<1>6. \A s \in Equipped(plan) : s \in Content.spells /\ Eligible(Content, plan, s)
  BY <1>1, <1>2 DEF Equipped, Stranded, Range
<1> QED
  BY <1>2, <1>3, <1>4, <1>5, <1>6 DEF Accepts

LEMMA AloneIsOnce ==
  ASSUME NEW i \in DOMAIN plan.troops
  PROVE  i \in Repeated(plan) <=> ~Alone(plan.troops, i)
BY DEF Repeated, Alone

\* An order the server does not read is the client's own.
LEMMA UnreadIsHold ==
  ASSUME PlanSound, plan # NoPlan, NEW i \in Unread(Content, plan)
  PROVE  plan.troops[i].order.kind = "hold"
<1> DEFINE order == plan.troops[i].order
<1>1. order \in OrderChoices(Content) \cup LegalOrders(Content) /\ order \notin LegalOrders(Content)
  <2>1. plan.troops[i] \in PlannedTroop
    BY TroopFacts DEF PlanSound, TroopsSound, Unread
  <2> QED
    BY <2>1 DEF PlannedTroop, Unread
<1> HIDE DEF order
<1>2. PICK z : order = Hold(z)
  BY <1>1 DEF OrderChoices, LegalOrders
<1>3. order.kind = "hold"
  BY <1>2 DEF Hold
<1> QED
  BY <1>3 DEF order

LEMMA OverloadedIsRepeated ==
  ASSUME PlanSound, plan # NoPlan
  PROVE  Overloaded(Content, plan) \subseteq Repeated(plan)
<1> SUFFICES ASSUME NEW i \in Overloaded(Content, plan) PROVE i \in Repeated(plan)
  OBVIOUS
<1> DEFINE t == plan.troops[i]
<1>1. i \in DOMAIN plan.troops /\ Used(Content, t) > Content.capacity[t.mage]
  BY DEF Overloaded
<1>2. TroopsTyped(plan.troops) /\ (Alone(plan.troops, i) => Fits(t))
  BY <1>1 DEF PlanSound, TroopsSound
<1>3. t.summons \in Seq(Kinds) /\ t.mage \in Content.mages
  BY <1>1, <1>2, TroopFacts
<1>4. t.summons = t.summons /\ Used(Content, t) \in Int /\ Content.capacity[t.mage] \in Nat
  BY <1>3, UsedBySummons, CostFacts
<1>5. ~Fits(t)
  BY <1>1, <1>4 DEF Fits
<1> QED
  BY <1>1, <1>2, <1>5, AloneIsOnce

LEMMA OverdrawnIsRepeated ==
  ASSUME PlanSound, plan # NoPlan, NEW s \in Overdrawn(Content, plan)
  PROVE  \E i \in Repeated(plan) : s \in Range(plan.troops[i].summons)
<1> DEFINE ts == plan.troops
<1>1. s \in Kinds /\ Remaining(Content, plan, s) < 0
  BY DEF Overdrawn, Kinds
<1>2. TroopsTyped(ts) /\ Covered(ts)
  BY DEF PlanSound, TroopsSound
<1>3. /\ Cardinality(AloneDraws(ts, s)) <= Content.owned[s]
      /\ Content.owned[s] < Cardinality(Draws(ts, s))
      /\ Cardinality(AloneDraws(ts, s)) \in Nat
  BY <1>1, <1>2, WhatRemains, AloneDrawsAreFinite DEF Covered
<1>4. Draws(ts, s) # AloneDraws(ts, s)
  BY <1>1, <1>2, <1>3, WhatRemains
<1>5. PICK p \in Draws(ts, s) : ~Alone(ts, p[1])
  BY <1>4 DEF AloneDraws
<1>6. p[1] \in DOMAIN ts /\ p[2] \in DOMAIN ts[p[1]].summons /\ ts[p[1]].summons[p[2]] = s
  BY <1>5, DrawnIs
<1>7. p[1] \in Repeated(plan) /\ s \in Range(ts[p[1]].summons)
  BY <1>5, <1>6, AloneIsOnce DEF Range
<1> QED
  BY <1>7

(* planReducer.ts with plan.py and world.py: for any content that ContentAssumption  *)
(* allows, and any edits in any order, a plan the hub lets a player lock in is       *)
(* refused for the client's own "hold" or for a mage that leads several troops, and  *)
(* for nothing else.                                                                 *)
THEOREM HoldsAndDoublesAreRefused == Spec => []OnlyHoldsAndDoubles
<1>1. ScreenInv => OnlyHoldsAndDoubles
  <2> SUFFICES ASSUME ScreenInv, plan # NoPlan, CanLockIn(Content, plan)
               PROVE  /\ \A i \in Unread(Content, plan) : plan.troops[i].order.kind = "hold"
                      /\ Overloaded(Content, plan) \subseteq Repeated(plan)
                      /\ \A s \in Overdrawn(Content, plan) :
                           \E i \in Repeated(plan) : s \in Range(plan.troops[i].summons)
                      /\ Unread(Content, plan) \cup Overloaded(Content, plan) = {}
                         /\ Overdrawn(Content, plan) = {} =>
                           Accepts(Content, plan) /\ Deploys(Content, ArmySetup(plan))
    BY DEF OnlyHoldsAndDoubles
  <2>1. SlotsKnown /\ PlanSound
    BY DEF ScreenInv, PlanHeld
  <2>2. ASSUME Unread(Content, plan) \cup Overloaded(Content, plan) = {}, Overdrawn(Content, plan) = {}
        PROVE  Accepts(Content, plan) /\ Deploys(Content, ArmySetup(plan))
    <3>1. Accepts(Content, plan)
      BY <2>1, <2>2, TheRestIsAccepted
    <3> QED
      BY <3>1, ContentAssumption, AcceptedPlansDeploy
  <2> QED
    BY <2>1, <2>2, UnreadIsHold, OverloadedIsRepeated, OverdrawnIsRepeated
<1> QED
  BY <1>1, ScreenInvariant, PTL
================================================================================
