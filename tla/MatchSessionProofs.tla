------------------------- MODULE MatchSessionProofs -------------------------
(* What is proved of a match, for every map, policy, loadout and battle.    *)
EXTENDS MatchSession, AuthoritativeRoundProofs

-----------------------------------------------------------------------------
(* The ledger.                                                              *)

LEMMA RecordedType ==
  ASSUME NEW S, NEW entries \in Seq(S), NEW entry \in S
  PROVE  Recorded(entries, entry) \in Seq(S)
<1>1. CASE Len(entries) < MaxEntries
  BY <1>1 DEF Recorded
<1>2. CASE ~(Len(entries) < MaxEntries)
  <2>1. entries # << >>
    BY <1>2, LedgerAssumption
  <2>2. Tail(entries) \in Seq(S)
    BY <2>1
  <2> QED BY <1>2, <2>2 DEF Recorded
<1> QED BY <1>1, <1>2

(* What is answered again is an entry of the ledger.                        *)
LEMMA AnswerOfType ==
  ASSUME NEW S, NEW entries \in Seq(S), NEW id, Answered(entries, id)
  PROVE  AnswerOf(entries, id) \in S
<1>1. PICK i \in DOMAIN entries : entries[i].id = id
  BY DEF Answered
<1> DEFINE j == CHOOSE k \in DOMAIN entries : entries[k].id = id
<1>2. j \in DOMAIN entries
  BY <1>1
<1>3. AnswerOf(entries, id) = entries[j]
  BY DEF AnswerOf
<1> HIDE DEF j
<1>4. entries[j] \in S
  BY <1>2, ElementOfSeq
<1> QED BY <1>3, <1>4

-----------------------------------------------------------------------------
(* The run record as a sequence of rounds.                                  *)

Chained(rs) ==
  \A i \in DOMAIN rs :
    /\ rs[i].number = i
    /\ rs[i].opened = IF i = 1 THEN FullBases ELSE rs[i - 1].left
    /\ i < Len(rs) => rs[i].ending # NoEnding

WonIn(rs, s) == {i \in DOMAIN rs : rs[i].ending.winner = s}

(* What the last round of the record left, on which the next one opens.     *)
LeftBy(rs) == IF rs = << >> THEN FullBases ELSE rs[Len(rs)].left

(* A round opened on what the last one left lengthens the chain, and is won *)
(* by nobody yet.                                                           *)
LEMMA ChainGrows ==
  ASSUME NEW rs \in Seq(RoundRecord), NEW e \in RoundRecord,
         Chained(rs), \A i \in DOMAIN rs : rs[i].ending # NoEnding,
         e.number = Len(rs) + 1, e.opened = LeftBy(rs), e.ending = NoEnding
  PROVE  /\ Chained(Append(rs, e))
         /\ \A s \in Side : WonIn(Append(rs, e), s) = WonIn(rs, s)
         /\ Append(rs, e) # << >> /\ LeftBy(Append(rs, e)) = e.left
<1> DEFINE q == Append(rs, e)
           n == Len(rs)
<1>1. /\ n \in Nat /\ Len(q) = n + 1 /\ DOMAIN q = 1..(n + 1) /\ DOMAIN rs = 1..n
      /\ q[n + 1] = e /\ \A i \in 1..n : q[i] = rs[i]
      /\ q \in Seq(RoundRecord)
  OBVIOUS
<1> HIDE DEF q
<1>2. Chained(q)
  <2> SUFFICES ASSUME NEW i \in 1..(n + 1)
               PROVE  /\ q[i].number = i
                      /\ q[i].opened = IF i = 1 THEN FullBases ELSE q[i - 1].left
                      /\ i < Len(q) => q[i].ending # NoEnding
    BY <1>1 DEF Chained
  <2>1. CASE i \in 1..n
    <3>1. q[i] = rs[i] /\ (i # 1 => q[i - 1] = rs[i - 1])
      BY <1>1, <2>1
    <3> QED BY <1>1, <2>1, <3>1 DEF Chained
  <2>2. CASE i = n + 1
    <3>1. n = 0 => rs = << >>
      BY <1>1
    <3>2. n # 0 => rs # << >> /\ q[i - 1] = rs[n]
      BY <1>1, <2>2
    <3> QED BY <1>1, <2>2, <3>1, <3>2 DEF LeftBy
  <2> QED BY <1>1, <2>1, <2>2
<1>3. ASSUME NEW s \in Side PROVE WonIn(q, s) = WonIn(rs, s)
  <2>1. q[n + 1].ending.winner # s
    BY <1>1, OpposingSides DEF NoEnding
  <2> QED BY <1>1, <2>1 DEF WonIn
<1>4. q # << >> /\ LeftBy(q) = e.left
  BY <1>1 DEF LeftBy
<1> QED BY <1>2, <1>3, <1>4 DEF q

Rewritten(rs, e) == [rs EXCEPT ![Len(rs)] = e]

(* Rewriting the last round keeps the chain while it keeps the round's      *)
(* number and what it opened on.                                            *)
LEMMA LastRewritten ==
  ASSUME NEW rs \in Seq(RoundRecord), rs # << >>, Chained(rs), NEW e \in RoundRecord,
         e.number = rs[Len(rs)].number, e.opened = rs[Len(rs)].opened
  PROVE  /\ Rewritten(rs, e) \in Seq(RoundRecord) /\ Rewritten(rs, e) # << >>
         /\ Len(Rewritten(rs, e)) = Len(rs) /\ Rewritten(rs, e)[Len(rs)] = e
         /\ Chained(Rewritten(rs, e)) /\ LeftBy(Rewritten(rs, e)) = e.left
         /\ \A s : WonIn(Rewritten(rs, e), s)
                   = (WonIn(rs, s) \ {Len(rs)})
                       \cup (IF e.ending.winner = s THEN {Len(rs)} ELSE {})
<1> DEFINE n == Len(rs)
           q == Rewritten(rs, e)
<1>1. /\ n \in Nat \ {0} /\ DOMAIN rs = 1..n /\ n = Len(rs)
      /\ q = [rs EXCEPT ![n] = e]
  BY DEF Rewritten
<1> HIDE DEF n, q
<1>2. /\ q \in Seq(RoundRecord) /\ Len(q) = n /\ DOMAIN q = 1..n /\ q[n] = e
      /\ \A i \in 1..n : i # n => q[i] = rs[i]
  <2>1. n \in DOMAIN rs /\ q = [rs EXCEPT ![n] = e]
    BY <1>1
  <2>2. DOMAIN q = DOMAIN rs /\ q[n] = e /\ \A i \in DOMAIN rs : i # n => q[i] = rs[i]
    BY <2>1
  <2>3. q \in Seq(RoundRecord) /\ Len(q) = Len(rs)
    BY <2>1, ExceptSeq
  <2> QED BY <1>1, <2>2, <2>3
<1>3. q # << >>
  BY <1>1, <1>2
<1>4. Chained(q)
  <2> SUFFICES ASSUME NEW i \in 1..n
               PROVE  /\ q[i].number = i
                      /\ q[i].opened = IF i = 1 THEN FullBases ELSE q[i - 1].left
                      /\ i < n => q[i].ending # NoEnding
    BY <1>2 DEF Chained
  <2>1. ASSUME i # 1 PROVE q[i - 1] = rs[i - 1]
    <3>1. i - 1 \in 1..n /\ i - 1 # n
      BY <1>1, <2>1
    <3> QED BY <1>2, <3>1
  <2>2. /\ rs[i].number = i
        /\ rs[i].opened = IF i = 1 THEN FullBases ELSE rs[i - 1].left
        /\ i < n => rs[i].ending # NoEnding
    BY <1>1 DEF Chained
  <2>3. q[i].number = rs[i].number /\ q[i].opened = rs[i].opened
        /\ (i # n => q[i] = rs[i])
    BY <1>1, <1>2
  <2>4. ASSUME i < n PROVE i # n
    <3>1. i \in Nat /\ n \in Nat
      BY <1>1
    <3> QED BY <3>1, <2>4
  <2> QED BY <2>1, <2>2, <2>3, <2>4
<1>5. LeftBy(q) = e.left
  BY <1>2, <1>3 DEF LeftBy
<1>6. ASSUME NEW s
      PROVE  WonIn(q, s) = (WonIn(rs, s) \ {n})
                             \cup (IF e.ending.winner = s THEN {n} ELSE {})
  <2>1. ASSUME NEW i \in 1..n
        PROVE  i \in WonIn(q, s) <=>
                 IF i = n THEN e.ending.winner = s ELSE i \in WonIn(rs, s)
    BY <1>1, <1>2 DEF WonIn
  <2>2. WonIn(q, s) \subseteq 1..n /\ WonIn(rs, s) \subseteq 1..n
    BY <1>1, <1>2 DEF WonIn
  <2>3. n \in 1..n
    BY <1>1
  <2> QED BY <2>1, <2>2, <2>3
<1> QED BY <1>1, <1>2, <1>3, <1>4, <1>5, <1>6 DEF q

(* A side's wins can be counted.                                            *)
LEMMA WinsAreFinite ==
  ASSUME NEW rs \in Seq(RoundRecord), NEW s
  PROVE  IsFiniteSet(WonIn(rs, s))
<1>1. Len(rs) \in Nat /\ DOMAIN rs = 1..Len(rs)
  OBVIOUS
<1>2. WonIn(rs, s) \subseteq 1..Len(rs)
  BY <1>1 DEF WonIn
<1>3. IsFiniteSet(1..Len(rs))
  BY <1>1, FS_Interval
<1> QED BY <1>2, <1>3, FS_Subset

(* Only the rounds of a record changed.                                     *)
LEMMA RoundsOfRecord ==
  ASSUME NEW r \in Record, NEW rs \in Seq(RoundRecord), NEW q,
         q = [r EXCEPT !.rounds = rs]
  PROVE  /\ q \in Record /\ q.rounds = rs /\ q.ending = r.ending
         /\ q.won = r.won /\ q.bases = r.bases
BY DEF Record

-----------------------------------------------------------------------------
(* The inductive invariant.  The phases say which of the round's and the    *)
(* match's bases are shown, and a match that goes on stands on bases above  *)
(* nought, so that every round opens as a round may; the last round of the  *)
(* record is the one being played, and what it left is what the next opens  *)
(* on.                                                                      *)

MatchTypeOK ==
  /\ phase \in Phase
  /\ roundNumber \in Nat \ {0}
  /\ roundsWon \in [Side -> Nat]
  /\ baseHp \in [Side -> 0..MaxHp]
  /\ phaseTicks \in Nat
  /\ claimed \subseteq Side
  /\ plans \in [Side -> Plan \cup {NoPlan}]
  /\ locked \in [Side -> BOOLEAN]
  /\ hasRound \in BOOLEAN
  /\ matchResult \in Result
  /\ ledger \in [Side -> Seq(LedgerEntry)]
  /\ record \in Record
  /\ answers \subseteq MessageType

StageInv ==
  /\ phase = "planning" => ~hasRound
  /\ phase = "battle" => hasRound /\ ending = NoEnding
  /\ phase = "roundOver" => hasRound /\ ending # NoEnding
  /\ ~hasRound => ending = NoEnding
  /\ phase \in {"planning", "roundOver"} => hp = baseHp
  /\ ~Over => \A s \in Side : baseHp[s] > 0

LockInv == \A s \in Side : locked[s] => plans[s] # NoPlan

RecordInv ==
  /\ Chained(record.rounds)
  /\ \A s \in Side : roundsWon[s] = Cardinality(WonIn(record.rounds, s))
  /\ Len(record.rounds) = IF hasRound THEN roundNumber ELSE roundNumber - 1
  /\ baseHp = LeftBy(record.rounds)
  /\ ~hasRound => \A i \in DOMAIN record.rounds : record.rounds[i].ending # NoEnding
  /\ RecordFollowsRound
  /\ nextOrder = Len(casts) + 1

(* Whom a series that ended on its own names: the side standing over a      *)
(* fallen base, else the one side that has its wins.                        *)
Earned(winner, bases, won) ==
  LET fallen == {s \in Side : bases[s] = 0}
      ahead  == {s \in Side : won[s] >= RoundsToWin}
  IN  /\ {winner} \cap Side = IF fallen # {} THEN Side \ fallen ELSE ahead
      /\ fallen = {} => Cardinality(ahead) = 1

ClosingInv ==
  /\ Over <=> record.ending # Unfinished
  /\ Over =>
       /\ record.ending = matchResult.ending
       /\ record.bases = ShownBases
       /\ record.won = roundsWon
       /\ ~TestProfile /\ matchResult.ending.kind # "abandoned"
            => Earned(matchResult.ending.winner, ShownBases, roundsWon)
  /\ ~Over /\ ~TestProfile => \A s \in Side : roundsWon[s] < RoundsToWin

SessionInv ==
  /\ MatchTypeOK
  /\ RoundInv
  /\ StageInv
  /\ LockInv
  /\ RecordInv
  /\ ClosingInv

-----------------------------------------------------------------------------
(* A match opens in the invariant.                                          *)
LEMMA SessionInvInit == SessionInit => SessionInv
<1> SUFFICES ASSUME SessionInit PROVE SessionInv
  OBVIOUS
<1> USE DEF SessionInit
<1>1. FullBases \in [Side -> 1..MaxHp] /\ NoLoadout \in [Side -> SUBSET Spell]
      /\ FullBases \in [Side -> 0..MaxHp] /\ \A s \in Side : FullBases[s] > 0
  BY BattleAssumption DEF FullBases, NoLoadout
<1>2. RoundInv
  BY <1>1, RoundOpensInInv
<1>3. Unfinished \in Terminal \cup {Unfinished} /\ NoWins \in [Side -> Nat]
  BY DEF NoWins
<1>4. MatchTypeOK
  <2>1. record \in Record
    <3>1. << >> \in Seq(RoundRecord)
      BY EmptySeq
    <3> DEFINE u == Unfinished
    <3>2. /\ record = [rounds |-> << >>, ending |-> u, reason |-> "none",
                       won |-> NoWins, bases |-> FullBases]
          /\ u \in Terminal \cup {Unfinished}
      BY <1>3
    <3> HIDE DEF u, SessionInit
    <3>3. "none" \in ClosingReason
      BY DEF ClosingReason
    <3> QED BY <1>1, <1>3, <3>1, <3>2, <3>3 DEF Record
  <2>2. matchResult \in Result
    BY <1>1, <1>3 DEF Result
  <2>3. ledger \in [Side -> Seq(LedgerEntry)]
    <3>1. << >> \in Seq(LedgerEntry)
      BY EmptySeq
    <3> QED BY <3>1
  <2>4. plans \in [Side -> Plan \cup {NoPlan}]
    OBVIOUS
  <2>5. phase \in Phase /\ roundNumber \in Nat \ {0} /\ phaseTicks \in Nat
    BY DEF Phase
  <2>6. roundsWon = NoWins /\ baseHp = FullBases /\ claimed = {} /\ answers = {}
    OBVIOUS
  <2>7. locked \in [Side -> BOOLEAN] /\ hasRound \in BOOLEAN
    OBVIOUS
  <2> HIDE DEF SessionInit
  <2> QED BY <1>1, <1>3, <2>1, <2>2, <2>3, <2>4, <2>5, <2>6, <2>7 DEF MatchTypeOK
<1>5. ending = NoEnding /\ hp = FullBases /\ nextOrder = 1 /\ casts = << >>
  BY DEF RoundInit
<1>6. StageInv
  BY <1>1, <1>5 DEF StageInv
<1>7. LockInv
  BY DEF LockInv
<1>8. RecordInv
  <2>1. record.rounds = << >>
    OBVIOUS
  <2>2. Chained(<< >>) /\ LeftBy(<< >>) = FullBases /\ \A s : WonIn(<< >>, s) = {}
    BY DEF Chained, LeftBy, WonIn
  <2>3. \A s \in Side : roundsWon[s] = 0
    BY DEF NoWins
  <2>4. ~hasRound /\ roundNumber = 1 /\ baseHp = FullBases
    OBVIOUS
  <2>5. DOMAIN << >> = {} /\ Cardinality({}) = 0
    BY FS_EmptySet
  <2> HIDE DEF SessionInit
  <2>6. Len(record.rounds) = roundNumber - 1 /\ nextOrder = Len(casts) + 1
    BY <1>5, <2>1, <2>4
  <2>7. \A s \in Side : roundsWon[s] = Cardinality(WonIn(record.rounds, s))
    BY <2>1, <2>2, <2>3, <2>5
  <2>8. RecordFollowsRound
    BY <2>4 DEF RecordFollowsRound
  <2>9. \A i \in DOMAIN record.rounds : record.rounds[i].ending # NoEnding
    BY <2>1, <2>5
  <2> QED BY <2>1, <2>2, <2>4, <2>6, <2>7, <2>8, <2>9 DEF RecordInv
<1>9. ClosingInv
  BY SessionAssumption DEF ClosingInv, Over, NoWins
<1> QED BY <1>2, <1>4, <1>6, <1>7, <1>8, <1>9 DEF SessionInv

(* What leaves the round, the phase, the plans and the record alone leaves  *)
(* all of it but the types.                                                 *)
LEMMA StillMatchKeeps ==
  ASSUME SessionInv,
         UNCHANGED <<roundVars, phase, matchVars, planVars, hasRound, record>>
  PROVE  RoundInv' /\ StageInv' /\ LockInv' /\ RecordInv' /\ ClosingInv'
<1>1. RoundInv'
  BY StillRoundKeepsInv DEF SessionInv
<1> USE DEF roundVars, worldVars, poolVars, matchVars, planVars
<1>2. StageInv' /\ LockInv'
  BY DEF SessionInv, StageInv, LockInv, Over
<1>3. RecordFollowsRound'
  BY DEF SessionInv, RecordInv, RecordFollowsRound, LastRound, LoadoutsOf
<1>4. RecordInv'
  <2>1. \A s : WonIn(record.rounds, s)' = WonIn(record.rounds, s)
    BY DEF WonIn
  <2>2. Chained(record.rounds)' /\ LeftBy(record.rounds)' = LeftBy(record.rounds)
    BY DEF SessionInv, RecordInv, Chained, LeftBy, FullBases
  <2> QED BY <1>3, <2>1, <2>2 DEF SessionInv, RecordInv
<1>5. ClosingInv'
  BY DEF SessionInv, ClosingInv, Over, ShownBases, Earned
<1> QED BY <1>1, <1>2, <1>4, <1>5

LEMMA ClaimKeepsInv ==
  ASSUME SessionInv, NEW s \in Side, Claim(s)
  PROVE  SessionInv'
<1>1. RoundInv' /\ StageInv' /\ LockInv' /\ RecordInv' /\ ClosingInv'
  BY StillMatchKeeps DEF Claim
<1>2. MatchTypeOK'
  BY DEF SessionInv, MatchTypeOK, Claim, matchVars, planVars, commandVars
<1> QED BY <1>1, <1>2 DEF SessionInv

-----------------------------------------------------------------------------
(* Locking in, and the battle it may start.                                 *)

LEMMA FieldedType ==
  ASSUME NEW ps \in [Side -> Plan \cup {NoPlan}]
  PROVE  /\ Fielded(ps) \in [Side -> Plan]
         /\ LoadoutsOf(Fielded(ps)) \in [Side -> SUBSET Spell]
         /\ \A s \in Side : ps[s] # NoPlan => Fielded(ps)[s] = ps[s]
<1>1. Fielded(ps) \in [Side -> Plan]
  BY SessionAssumption DEF Fielded
<1>2. \A f \in [Side -> Plan] : LoadoutsOf(f) \in [Side -> SUBSET Spell]
  BY SessionAssumption DEF LoadoutsOf
<1>3. \A s \in Side : ps[s] # NoPlan => Fielded(ps)[s] = ps[s]
  BY DEF Fielded
<1> QED BY <1>1, <1>2, <1>3

(* A match that goes on stands on bases a round may open on.                *)
LEMMA StandingBases ==
  ASSUME SessionInv, ~Over
  PROVE  baseHp \in [Side -> 1..MaxHp]
<1>1. baseHp \in [Side -> 0..MaxHp] /\ \A s \in Side : baseHp[s] > 0
  BY DEF SessionInv, MatchTypeOK, StageInv
<1>2. \A s \in Side : baseHp[s] \in 1..MaxHp
  BY <1>1, BattleAssumption
<1> QED BY <1>1, <1>2

LEMMA StartBattleKeepsInv ==
  ASSUME SessionInv, phase = "planning",
         NEW ps \in [Side -> Plan \cup {NoPlan}], StartBattle(ps),
         locked' \in [Side -> BOOLEAN], UNCHANGED <<matchVars, claimed, commandVars>>
  PROVE  SessionInv'
<1> DEFINE F == Fielded(ps)
           L == LoadoutsOf(F)
           rs == record.rounds
           e == [number |-> roundNumber, opened |-> baseHp, plans |-> F,
                 casts |-> << >>, ending |-> NoEnding, left |-> baseHp]
           q == Append(rs, e)
<1>1. F \in [Side -> Plan] /\ L \in [Side -> SUBSET Spell]
  BY FieldedType
<1>2. /\ plans' = F /\ OpenRound(baseHp, L) /\ hasRound' = TRUE
      /\ phase' = "battle" /\ phaseTicks' = 0
  BY DEF StartBattle, OpeningBases
<1>3. record' = [record EXCEPT !.rounds = q]
  BY DEF StartBattle, OpeningBases
<1>4. UNCHANGED <<roundNumber, roundsWon, baseHp, matchResult, claimed, ledger, answers>>
  BY DEF matchVars, commandVars
<1>5. /\ hp' = baseHp /\ equipped' = L /\ casts' = << >> /\ nextOrder' = 1
      /\ ending' = NoEnding
  BY <1>2 DEF OpenRound
<1>6. ~Over /\ ~hasRound
  BY DEF Over, SessionInv, StageInv
<1>7. baseHp \in [Side -> 1..MaxHp]
  BY <1>6, StandingBases
<1>8. RoundInv'
  BY <1>1, <1>2, <1>7, OpenRoundKeepsInv
<1>9. MatchTypeOK /\ RecordInv /\ ClosingInv
  BY DEF SessionInv
<1>10. e \in RoundRecord
  <2>1. << >> \in Seq(Resolved)
    BY EmptySeq
  <2>2. roundNumber \in Nat /\ baseHp \in [Side -> 0..MaxHp]
    BY <1>9 DEF MatchTypeOK
  <2> QED BY <1>1, <2>1, <2>2 DEF RoundRecord
<1>11. /\ rs \in Seq(RoundRecord) /\ Chained(rs) /\ baseHp = LeftBy(rs)
       /\ \A i \in DOMAIN rs : rs[i].ending # NoEnding
       /\ Len(rs) = roundNumber - 1 /\ roundNumber \in Nat
  BY <1>6, <1>9 DEF RecordInv, MatchTypeOK, Record
<1>12. /\ e.number = roundNumber /\ e.opened = baseHp /\ e.plans = F
       /\ e.casts = << >> /\ e.ending = NoEnding /\ e.left = baseHp
  OBVIOUS
<1> HIDE DEF F, L, rs, e
<1>13. /\ Chained(q) /\ LeftBy(q) = baseHp
       /\ \A s \in Side : WonIn(q, s) = WonIn(rs, s)
  <2>1. e.number = Len(rs) + 1 /\ e.opened = LeftBy(rs)
    BY <1>11, <1>12
  <2>2. e.ending = NoEnding /\ e.left = baseHp
    BY <1>12
  <2> QED BY <1>10, <1>11, <2>1, <2>2, ChainGrows
<1>14. /\ q \in Seq(RoundRecord) /\ Len(q) = roundNumber /\ q[Len(q)] = e
  BY <1>10, <1>11
<1> HIDE DEF q
<1>15. /\ record' \in Record /\ record'.rounds = q /\ record'.ending = record.ending
       /\ record'.won = record.won /\ record'.bases = record.bases
  BY <1>3, <1>9, <1>14, RoundsOfRecord DEF MatchTypeOK
<1>16. MatchTypeOK'
  <2>1. plans' \in [Side -> Plan \cup {NoPlan}]
    BY <1>1, <1>2
  <2>2. phase' \in Phase
    BY <1>2 DEF Phase
  <2> QED BY <1>2, <1>4, <1>9, <1>15, <2>1, <2>2 DEF MatchTypeOK
<1>17. StageInv'
  <2>1. \A s \in Side : baseHp[s] > 0
    BY <1>6 DEF SessionInv, StageInv
  <2> QED BY <1>2, <1>4, <1>5, <2>1 DEF StageInv
<1>18. LockInv'
  BY <1>1, <1>2, SessionAssumption DEF LockInv
<1>19. RecordInv'
  <2>1. RecordFollowsRound'
    <3>1. record'.rounds[LastRound'] = e
      BY <1>14, <1>15 DEF LastRound
    <3>2. equipped' = LoadoutsOf(e.plans)
      BY <1>5, <1>12 DEF L
    <3> QED BY <1>2, <1>4, <1>5, <1>12, <3>1, <3>2 DEF RecordFollowsRound, LoadoutsOf
  <2>2. \A s \in Side : roundsWon'[s] = Cardinality(WonIn(q, s))
    BY <1>4, <1>9, <1>13 DEF RecordInv, rs
  <2>3. nextOrder' = Len(casts') + 1
    BY <1>5
  <2> QED BY <1>2, <1>4, <1>13, <1>14, <1>15, <2>1, <2>2, <2>3
          DEF RecordInv, Chained, LeftBy, WonIn, FullBases
<1>20. ClosingInv'
  <2>1. record.ending = Unfinished
    BY <1>6, <1>9 DEF ClosingInv
  <2> QED BY <1>2, <1>4, <1>6, <1>9, <1>15, <2>1 DEF ClosingInv, Over
<1> QED BY <1>8, <1>16, <1>17, <1>18, <1>19, <1>20 DEF SessionInv

(* Waiting for the other seat, the match only has one plan more.            *)
LEMMA LockInKeepsInv ==
  ASSUME SessionInv, NEW s \in Side, NEW p \in Plan, LockIn(s, p)
  PROVE  SessionInv'
<1> DEFINE ps == [plans EXCEPT ![s] = p]
<1>1. /\ phase = "planning" /\ locked' = [locked EXCEPT ![s] = TRUE]
      /\ UNCHANGED <<matchVars, claimed, commandVars>>
  BY DEF LockIn, MayLock
<1>2. /\ MatchTypeOK /\ LockInv /\ ps \in [Side -> Plan \cup {NoPlan}]
      /\ locked' \in [Side -> BOOLEAN]
  BY <1>1 DEF SessionInv, MatchTypeOK
<1>3. CASE \A side \in Side : locked'[side]
  <2>1. StartBattle(ps)
    BY <1>3 DEF LockIn
  <2> HIDE DEF ps
  <2> QED BY <1>1, <1>2, <2>1, StartBattleKeepsInv
<1>4. CASE ~ \A side \in Side : locked'[side]
  <2>1. plans' = ps /\ UNCHANGED <<roundVars, hasRound, record, phase, phaseTicks>>
    BY <1>4 DEF LockIn
  <2>2. MatchTypeOK'
    BY <1>1, <1>2, <2>1 DEF MatchTypeOK, matchVars, commandVars
  <2>3. LockInv'
    BY <1>1, <1>2, <2>1, SessionAssumption DEF LockInv, MatchTypeOK
  <2>4. RoundInv'
    BY <2>1, StillRoundKeepsInv DEF SessionInv
  <2>5. ~hasRound /\ ~Over
    BY <1>1 DEF SessionInv, StageInv, Over
  <2>6. StageInv'
    BY <1>1, <2>1 DEF SessionInv, StageInv, Over, roundVars, worldVars, matchVars
  <2>7. RecordInv'
    BY <1>1, <2>1, <2>5 DEF SessionInv, RecordInv, RecordFollowsRound, Chained, LeftBy,
                            WonIn, FullBases, roundVars, matchVars
  <2>8. ClosingInv'
    BY <1>1, <2>1, <2>5 DEF SessionInv, ClosingInv, Over, matchVars
  <2> QED BY <2>2, <2>3, <2>4, <2>6, <2>7, <2>8 DEF SessionInv
<1> QED BY <1>3, <1>4

-----------------------------------------------------------------------------
(* Casts.                                                                   *)

LEMMA AnswerKeepsTypes ==
  ASSUME MatchTypeOK, NEW s \in Side, NEW entry \in LedgerEntry, Answer(s, entry)
  PROVE  ledger' \in [Side -> Seq(LedgerEntry)] /\ answers' \subseteq MessageType
<1>1. Recorded(ledger[s], entry) \in Seq(LedgerEntry)
  BY RecordedType DEF MatchTypeOK
<1>2. ledger' = [ledger EXCEPT ![s] = Recorded(ledger[s], entry)]
  BY DEF Answer
<1>3. ledger' \in [Side -> Seq(LedgerEntry)]
  <2> DEFINE new == Recorded(ledger[s], entry)
  <2>1. new \in Seq(LedgerEntry) /\ ledger' = [ledger EXCEPT ![s] = new]
    BY <1>1, <1>2
  <2> HIDE DEF new
  <2> QED BY <2>1 DEF MatchTypeOK
<1>4. Message(s, entry) \in MessageType
  BY DEF Message, MessageType, LedgerEntry
<1> QED BY <1>3, <1>4 DEF Answer, MatchTypeOK

LEMMA RejectedType ==
  ASSUME NEW c \in Command, NEW why \in Reason, NEW n \in Nat
  PROVE  Rejected(c, why, n) \in LedgerEntry
BY DEF Rejected, LedgerEntry, Command

(* A cast the round does not take changes the ledger and the answers only.  *)
LEMMA UntakenCastKeepsInv ==
  ASSUME SessionInv, NEW s \in Side, NEW c \in Command,
         Retry(s, c) \/ CastOutsideBattle(s, c) \/ CastRefused(s, c),
         UNCHANGED <<phase, matchVars, phaseTicks, claimed, planVars, hasRound>>
  PROVE  SessionInv'
<1>1. UNCHANGED <<roundVars, record>>
  BY DEF Retry, CastOutsideBattle, CastRefused
<1>2. RoundInv' /\ StageInv' /\ LockInv' /\ RecordInv' /\ ClosingInv'
  BY <1>1, StillMatchKeeps
<1>3. MatchTypeOK
  BY DEF SessionInv
<1>4. ledger' \in [Side -> Seq(LedgerEntry)] /\ answers' \subseteq MessageType
  <2>1. CASE Retry(s, c)
    <3> DEFINE entry == AnswerOf(ledger[s], c.id)
    <3>1. entry \in LedgerEntry
      BY <1>3, <2>1, AnswerOfType DEF Retry, MatchTypeOK
    <3>2. answers' = answers \cup {Message(s, entry)} /\ ledger' = ledger
      BY <2>1 DEF Retry
    <3> HIDE DEF entry
    <3>3. Message(s, entry) \in MessageType
      BY <3>1 DEF Message, MessageType, LedgerEntry
    <3> QED BY <1>3, <3>2, <3>3 DEF MatchTypeOK
  <2>2. CASE CastOutsideBattle(s, c)
    <3> DEFINE why == IF phase = "planning" THEN "wrongPhase" ELSE "roundOver"
    <3>1. why \in Reason /\ Answer(s, Rejected(c, why, 0))
      BY <2>2 DEF CastOutsideBattle, Reason
    <3> HIDE DEF why
    <3>2. Rejected(c, why, 0) \in LedgerEntry
      BY <3>1, RejectedType
    <3> QED BY <1>3, <3>1, <3>2, AnswerKeepsTypes
  <2>3. CASE CastRefused(s, c)
    <3>1. Refusal(s, c) \in Reason /\ Answer(s, Rejected(c, Refusal(s, c), roundNumber))
      BY <2>3 DEF CastRefused, Refusal, Reason
    <3>2. Rejected(c, Refusal(s, c), roundNumber) \in LedgerEntry
      BY <1>3, <3>1, RejectedType DEF MatchTypeOK
    <3> QED BY <1>3, <3>1, <3>2, AnswerKeepsTypes
  <2> QED BY <2>1, <2>2, <2>3
<1>5. MatchTypeOK'
  BY <1>1, <1>3, <1>4 DEF MatchTypeOK, matchVars, planVars
<1> QED BY <1>2, <1>5 DEF SessionInv

(* The record takes a cast as the round does, at the end of the round being *)
(* played.                                                                  *)
LEMMA TakenCastKeepsInv ==
  ASSUME SessionInv, NEW s \in Side, NEW c \in Command, CastAccepted(s, c),
         UNCHANGED <<phase, matchVars, phaseTicks, claimed, planVars, hasRound>>
  PROVE  SessionInv'
<1> DEFINE rs == record.rounds
           n == Len(rs)
           cast == [id |-> c.id, spell |-> c.spell, side |-> s, at |-> c.at,
                    tick |-> TargetTick, order |-> nextOrder]
           e == [rs[n] EXCEPT !.casts = casts']
           q == Rewritten(rs, e)
<1>1. /\ phase = "battle" /\ AcceptCast(s, c) /\ Answer(s, Accepted(c))
      /\ record' = CastRecorded(casts'[Len(casts')])
  BY DEF CastAccepted
<1>2. MatchTypeOK /\ RoundInv /\ StageInv /\ RecordInv /\ ClosingInv
      /\ hasRound /\ ending = NoEnding /\ ~Over
  BY <1>1 DEF SessionInv, StageInv, Over
<1>3. RoundInv'
  BY <1>1, <1>2, CastKeepsInv
<1>4. /\ casts' = Append(casts, cast) /\ nextOrder' = nextOrder + 1
      /\ UNCHANGED <<tick, hp, equipped, ending>>
  BY <1>1 DEF AcceptCast
<1>5. casts \in Seq(Resolved) /\ casts' \in Seq(Resolved) /\ nextOrder = Len(casts) + 1
  BY <1>2, <1>3 DEF RoundInv, RoundTypeOK, RecordInv
<1>6. cast.order = nextOrder
  OBVIOUS
<1> HIDE DEF cast
<1>7. /\ Len(casts') = nextOrder /\ casts'[Len(casts')] = cast
      /\ \A i \in DOMAIN casts' : i # nextOrder => i \in DOMAIN casts /\ casts'[i] = casts[i]
  BY <1>4, <1>5
<1>8. /\ rs \in Seq(RoundRecord) /\ n = roundNumber /\ n \in Nat \ {0}
      /\ Chained(rs) /\ record \in Record
  BY <1>2 DEF RecordInv, MatchTypeOK, Record
<1>9. /\ rs # << >> /\ n \in DOMAIN rs /\ rs[n] \in RoundRecord
  BY <1>8
<1>10. /\ rs[n].number = roundNumber /\ rs[n].plans = plans
       /\ equipped = LoadoutsOf(rs[n].plans) /\ rs[n].casts = casts
       /\ rs[n].ending = ending /\ \A i \in DOMAIN casts : casts[i].order = i
  BY <1>2 DEF RecordInv, RecordFollowsRound, LastRound
<1>11. record' = [record EXCEPT !.rounds = q]
  <2>1. record' = [record EXCEPT !.rounds[n].casts = Append(@, cast)]
    BY <1>1, <1>7 DEF CastRecorded, LastRound
  <2>2. Append(rs[n].casts, cast) = casts'
    BY <1>4, <1>10
  <2> QED BY <2>1, <2>2 DEF Rewritten
<1>12. /\ e \in RoundRecord /\ e.number = rs[n].number /\ e.opened = rs[n].opened
       /\ e.plans = rs[n].plans /\ e.casts = casts' /\ e.ending = rs[n].ending
       /\ e.left = rs[n].left
  BY <1>5, <1>9 DEF RoundRecord
<1> HIDE DEF e, rs
<1>13. /\ q \in Seq(RoundRecord) /\ q # << >> /\ Len(q) = n /\ q[n] = e
       /\ Chained(q) /\ LeftBy(q) = e.left
       /\ \A x : WonIn(q, x) = (WonIn(rs, x) \ {n})
                                 \cup (IF e.ending.winner = x THEN {n} ELSE {})
  <2>1. /\ rs \in Seq(RoundRecord) /\ rs # << >> /\ Chained(rs) /\ e \in RoundRecord
        /\ e.number = rs[Len(rs)].number /\ e.opened = rs[Len(rs)].opened
    BY <1>8, <1>9, <1>12
  <2> QED BY <2>1, LastRewritten
<1> HIDE DEF q
<1>14. /\ record' \in Record /\ record'.rounds = q /\ record'.ending = record.ending
       /\ record'.won = record.won /\ record'.bases = record.bases
  BY <1>8, <1>11, <1>13, RoundsOfRecord
<1>15. ASSUME NEW x \in Side PROVE WonIn(q, x) = WonIn(rs, x)
  <2>1. e.ending.winner # x /\ rs[n].ending.winner # x
    BY <1>2, <1>10, <1>12, OpposingSides DEF NoEnding
  <2>2. n \notin WonIn(rs, x)
    BY <2>1 DEF WonIn
  <2>3. WonIn(q, x) = WonIn(rs, x) \ {n}
    BY <1>13, <2>1
  <2> QED BY <2>2, <2>3
<1>16. MatchTypeOK'
  <2>1. Accepted(c) \in LedgerEntry
    <3>1. TargetTick \in Nat /\ nextOrder \in Nat /\ roundNumber \in Nat /\ c.id \in CommandId
      BY <1>2, FieldType DEF RoundInv, RoundTypeOK, MatchTypeOK, TargetTick, Command
    <3> QED BY <3>1 DEF Accepted, LedgerEntry, Reason
  <2>2. ledger' \in [Side -> Seq(LedgerEntry)] /\ answers' \subseteq MessageType
    BY <1>1, <1>2, <2>1, AnswerKeepsTypes
  <2> QED BY <1>2, <1>14, <2>2 DEF MatchTypeOK, matchVars, planVars
<1>17. StageInv' /\ LockInv'
  BY <1>2, <1>4 DEF SessionInv, StageInv, LockInv, Over, matchVars, planVars
<1>18. RecordInv'
  <2>1. RecordFollowsRound'
    <3>1. record'.rounds[LastRound'] = e
      BY <1>13, <1>14 DEF LastRound
    <3>2. \A i \in DOMAIN casts' : casts'[i].order = i
      BY <1>6, <1>7, <1>10
    <3> QED BY <1>4, <1>10, <1>12, <3>1, <3>2
            DEF RecordFollowsRound, LoadoutsOf, matchVars, planVars
  <2>2. \A x \in Side : roundsWon'[x] = Cardinality(WonIn(q, x))
    BY <1>2, <1>15 DEF RecordInv, rs, matchVars
  <2>3. nextOrder' = Len(casts') + 1
    BY <1>4, <1>7
  <2>4. baseHp' = LeftBy(q)
    <3>1. LeftBy(rs) = rs[n].left
      BY <1>9 DEF LeftBy
    <3> QED BY <1>2, <1>12, <1>13, <3>1 DEF RecordInv, rs, matchVars
  <2>5. hasRound' /\ Len(q) = roundNumber'
    BY <1>2, <1>8, <1>13 DEF matchVars
  <2>6. /\ Chained(record.rounds)' /\ LeftBy(record.rounds)' = LeftBy(q)
        /\ \A x : WonIn(record.rounds, x)' = WonIn(q, x)
    BY <1>13, <1>14 DEF Chained, LeftBy, WonIn, FullBases
  <2> QED BY <1>14, <2>1, <2>2, <2>3, <2>4, <2>5, <2>6 DEF RecordInv
<1>19. ClosingInv'
  <2>1. record.ending = Unfinished
    BY <1>2 DEF ClosingInv
  <2> QED BY <1>2, <1>14, <2>1 DEF ClosingInv, Over, matchVars
<1> QED BY <1>3, <1>16, <1>17, <1>18, <1>19 DEF SessionInv

LEMMA CastKeepsSession ==
  ASSUME SessionInv, NEW s \in Side, NEW c \in Command, Cast(s, c)
  PROVE  SessionInv'
BY UntakenCastKeepsInv, TakenCastKeepsInv DEF Cast

-----------------------------------------------------------------------------
(* The clock.                                                               *)

LEMMA CountedType ==
  ASSUME MatchTypeOK
  PROVE  Counted \in Nat
BY SessionAssumption DEF MatchTypeOK, Counted, Least, Greatest

(* A tick that only counts.                                                 *)
LEMMA CountKeepsInv ==
  ASSUME SessionInv, phaseTicks' = Counted,
         UNCHANGED <<roundVars, phase, matchVars, planVars, hasRound, record,
                     claimed, commandVars>>
  PROVE  SessionInv'
<1>1. RoundInv' /\ StageInv' /\ LockInv' /\ RecordInv' /\ ClosingInv'
  BY StillMatchKeeps
<1>2. MatchTypeOK'
  BY CountedType DEF SessionInv, MatchTypeOK, matchVars, planVars, commandVars
<1> QED BY <1>1, <1>2 DEF SessionInv

LEMMA PlanningTickKeepsInv ==
  ASSUME SessionInv, PlanningTick
  PROVE  SessionInv'
<1>1. CASE BackstopDue
  <2>1. plans \in [Side -> Plan \cup {NoPlan}] /\ locked \in [Side -> BOOLEAN]
    BY DEF SessionInv, MatchTypeOK
  <2>2. /\ phase = "planning" /\ StartBattle(plans) /\ locked' = locked
        /\ UNCHANGED <<matchVars, claimed, commandVars>>
    BY <1>1 DEF PlanningTick
  <2> QED BY <2>1, <2>2, StartBattleKeepsInv
<1>2. CASE ~BackstopDue
  <2>1. /\ phaseTicks' = Counted
        /\ UNCHANGED <<roundVars, phase, matchVars, planVars, hasRound, record,
                       claimed, commandVars>>
    BY <1>2 DEF PlanningTick, planVars
  <2> QED BY <2>1, CountKeepsInv
<1> QED BY <1>1, <1>2

(* What a step of the battle does to the match around it.                   *)
LEMMA StepFacts ==
  ASSUME RoundInv, SomeStep
  PROVE  /\ RoundInv' /\ ending = NoEnding /\ UNCHANGED <<equipped, casts, nextOrder>>
         /\ \A s \in Side : hp'[s] <= hp[s]
<1>1. PICK damage \in TickDamage, survivors \in TickSurvivors :
        \E points \in TickPoints(survivors) : Step(damage, points, survivors)
  BY DEF SomeStep
<1>2. PICK points \in TickPoints(survivors) : Step(damage, points, survivors)
  BY <1>1
<1>3. RoundInv'
  BY <1>2, StepKeepsInv
<1>4. ending = NoEnding /\ UNCHANGED <<equipped, casts, nextOrder>>
  BY <1>2 DEF Step
<1>5. BattleTick(damage, points, survivors)
  BY <1>2, <1>4, OpenBattle DEF Step
<1>6. ASSUME NEW s \in Side PROVE hp'[s] <= hp[s]
  <2>1. hp'[s] = Greatest(0, hp[s] - damage[s])
    BY <1>5 DEF BattleTick
  <2>2. hp[s] \in Nat /\ damage[s] \in Nat
    BY FieldType, BattleAssumption DEF RoundInv, TickDamage
  <2> QED BY <2>1, <2>2 DEF Greatest
<1> QED BY <1>3, <1>4, <1>6

(* A round decides the match by the count when it is the last of a demo, or *)
(* gives its winner the wins of a series.                                   *)
Decisive(e, won) ==
  IF TestProfile THEN PlayedOut
  ELSE e.winner # NoSide /\ won[e.winner] >= RoundsToWin

(* What the ending of a round makes of the match, when only the winner of   *)
(* the round can have reached the wins of a series.                         *)
LEMMA MatchEndingExact ==
  ASSUME NEW e \in Ending, NEW won \in [Side -> Nat],
         ~TestProfile => \A s \in Side : e.winner # s => won[s] < RoundsToWin
  PROVE  MatchEnding(e, won) =
           IF e.kind = "baseDestroyed" THEN Life!Ending("baseDestroyed", e.winner)
           ELSE IF Decisive(e, won)
           THEN Life!Ending(IF TestProfile THEN "testComplete" ELSE "roundsWon", e.winner)
           ELSE Unfinished
<1>1. e.winner \in Side \cup {NoSide}
  BY DEF Ending
<1>2. CASE e.kind = "baseDestroyed"
  BY <1>2 DEF MatchEnding, Life!Ending
<1>3. CASE e.kind # "baseDestroyed" /\ TestProfile
  BY <1>3 DEF MatchEnding, CountEnding, Decisive, Life!Ending
<1>4. CASE e.kind # "baseDestroyed" /\ ~TestProfile
  <2> DEFINE w == IF HasWon(won, "north") THEN "north" ELSE "south"
  <2>1. MatchEnding(e, won) = IF \E s \in Side : HasWon(won, s)
                              THEN [kind |-> "roundsWon", winner |-> w] ELSE Unfinished
    BY <1>4 DEF MatchEnding, CountEnding
  <2>2. ASSUME NEW s \in Side PROVE HasWon(won, s) <=> e.winner = s /\ Decisive(e, won)
    <3>1. won[s] \in Nat /\ RoundsToWin \in Nat
      BY SessionAssumption
    <3>2. e.winner # s => ~(won[s] >= RoundsToWin)
      BY <1>4, <3>1
    <3> QED BY <1>1, <1>4, <3>2, OpposingSides DEF HasWon, Decisive
  <2>3. CASE Decisive(e, won)
    <3>1. e.winner \in Side
      BY <1>1, <1>4, <2>3 DEF Decisive
    <3>2. HasWon(won, e.winner) /\ w = e.winner
      BY <2>2, <2>3, <3>1 DEF Side
    <3> QED BY <1>4, <2>1, <2>3, <3>1, <3>2 DEF Life!Ending
  <2>4. CASE ~Decisive(e, won)
    BY <1>4, <2>1, <2>2, <2>4
  <2> QED BY <2>3, <2>4
<1> QED BY <1>2, <1>3, <1>4

LEMMA MatchEndingFacts ==
  ASSUME NEW e \in Ending, NEW won \in [Side -> Nat],
         ~TestProfile => \A s \in Side : e.winner # s => won[s] < RoundsToWin,
         NEW t, t = MatchEnding(e, won)
  PROVE  /\ t \in Terminal \cup {Unfinished}
         /\ t # Unfinished <=> e.kind = "baseDestroyed" \/ Decisive(e, won)
         /\ t # Unfinished => t.winner = e.winner
         /\ t.kind # "abandoned"
         /\ t # Unfinished => TerminalReason(t, e) \in ClosingReason
<1>1. e.winner \in Side \cup {NoSide} /\ e.reason \in ClosingReason
  BY DEF Ending, ClosingReason
<1>2. \A r : TerminalReason(r, e) \in ClosingReason
  BY <1>1 DEF TerminalReason, ClosingReason
<1>3. ASSUME NEW k \in {"baseDestroyed", "testComplete", "roundsWon"}
      PROVE  /\ Life!Ending(k, e.winner) \in Terminal
             /\ Life!Ending(k, e.winner) # Unfinished
             /\ Life!Ending(k, e.winner).winner = e.winner
             /\ Life!Ending(k, e.winner).kind # "abandoned"
  <2>1. Life!Ending(k, e.winner).kind = k /\ Unfinished.kind = "none"
    BY DEF Life!Ending, Unfinished
  <2> QED BY <1>1, <2>1 DEF Life!Ending, Terminal
<1>4. Unfinished.kind # "abandoned"
  BY DEF Unfinished
<1>5. t = IF e.kind = "baseDestroyed" THEN Life!Ending("baseDestroyed", e.winner)
          ELSE IF Decisive(e, won)
          THEN Life!Ending(IF TestProfile THEN "testComplete" ELSE "roundsWon", e.winner)
          ELSE Unfinished
  BY MatchEndingExact
<1> QED BY <1>2, <1>3, <1>4, <1>5

(* The side a fallen base leaves standing, nobody when both fell.           *)
StandingAlone(fallen) ==
  IF fallen = Side THEN NoSide ELSE CHOOSE s \in Side : s \notin fallen

LEMMA FallenBaseNow == RoundInv => FallenBaseDecides
BY FieldType, DecideEndingWinner DEF RoundInv, FallenBaseDecides

LEMMA FallenBaseWinner ==
  ASSUME RoundInv, NEW fallen, fallen = {s \in Side : hp[s] = 0}
  PROVE  /\ fallen # {} <=> ending.kind = "baseDestroyed"
         /\ fallen # {} => ending.winner = StandingAlone(fallen)
<1>1. FallenBaseDecides /\ hp \in [Side -> Nat]
  <2>1. hp \in [Side -> Nat]
    BY FieldType DEF RoundInv
  <2> QED BY <2>1, FallenBaseNow
<1>2. fallen # {} <=> ending.kind = "baseDestroyed"
  BY <1>1 DEF FallenBaseDecides
<1>3. ASSUME fallen # {} PROVE ending = BaseEnding(fallen)
  <2>1. fallen = {s \in Side : hp[s] <= 0}
    BY <1>1
  <2> QED BY <1>3, <2>1 DEF RoundInv, DecideEnding
<1>4. CASE fallen = Side
  <2>1. ending = BaseDestroyed(NoSide)
    BY <1>3, <1>4, BothDown DEF Side
  <2> QED BY <1>2, <1>4, <2>1 DEF BaseDestroyed, StandingAlone
<1>5. ASSUME NEW s \in Side, fallen = {s}
      PROVE  ending.winner = StandingAlone(fallen)
  <2>1. ending = BaseDestroyed(Opposing(s))
    BY <1>3, <1>5, OneDown
  <2>2. fallen # Side /\ StandingAlone(fallen) = Opposing(s)
    BY <1>5 DEF StandingAlone, Opposing, Side
  <2> QED BY <2>1, <2>2 DEF BaseDestroyed
<1>6. fallen \subseteq Side
  OBVIOUS
<1> QED BY <1>2, <1>4, <1>5, <1>6, SomeSides DEF Side

LEMMA FallenBaseWinnerNext ==
  RoundInv' =>
    LET fallen == {s \in Side : hp'[s] = 0}
    IN  /\ fallen # {} <=> ending'.kind = "baseDestroyed"
        /\ fallen # {} => ending'.winner = StandingAlone(fallen)
<1>1. RoundInv => LET fallen == {s \in Side : hp[s] = 0}
                  IN  /\ fallen # {} <=> ending.kind = "baseDestroyed"
                      /\ fallen # {} => ending.winner = StandingAlone(fallen)
  BY FallenBaseWinner
<1>2. RoundInv' => (LET fallen == {s \in Side : hp[s] = 0}
                    IN  /\ fallen # {} <=> ending.kind = "baseDestroyed"
                        /\ fallen # {} => ending.winner = StandingAlone(fallen))'
  BY <1>1, PTL
<1> QED BY <1>2 DEF StandingAlone

(* A series ends for whoever earned it.                                     *)
LEMMA SeriesIsEarned ==
  ASSUME NEW e, e.winner \in Side \cup {NoSide}, NEW won \in [Side -> Nat],
         NEW bases \in [Side -> Nat], NEW fallen, fallen = {s \in Side : bases[s] = 0},
         ~TestProfile, \A s \in Side : e.winner # s => won[s] < RoundsToWin,
         fallen # {} => e.winner = StandingAlone(fallen),
         fallen = {} => Decisive(e, won)
  PROVE  Earned(e.winner, bases, won)
<1> DEFINE ahead == {s \in Side : won[s] >= RoundsToWin}
<1>1. CASE fallen = {}
  <2>1. e.winner \in Side /\ won[e.winner] >= RoundsToWin
    BY <1>1 DEF Decisive
  <2>2. \A s \in Side : s # e.winner => ~(won[s] >= RoundsToWin)
    BY SessionAssumption
  <2>3. ahead = {e.winner}
    BY <2>1, <2>2
  <2>4. Cardinality(ahead) = 1
    <3> HIDE DEF ahead
    <3> QED BY <2>3, FS_Singleton
  <2> QED BY <1>1, <2>1, <2>3, <2>4 DEF Earned
<1>2. CASE fallen # {}
  <2>1. {e.winner} \cap Side = Side \ fallen
    <3>1. CASE fallen = Side
      BY <1>2, <3>1, OpposingSides DEF StandingAlone
    <3>2. CASE fallen # Side
      <4>1. fallen \subseteq Side
        OBVIOUS
      <4>2. PICK s \in Side : fallen = {s}
        BY <1>2, <3>2, <4>1, SomeSides DEF Side
      <4> QED BY <1>2, <3>2, <4>2 DEF StandingAlone, Side
    <3> QED BY <3>1, <3>2
  <2> QED BY <1>2, <2>1 DEF Earned
<1> QED BY <1>1, <1>2

LEMMA TallyType ==
  ASSUME MatchTypeOK, NEW e \in Ending
  PROVE  /\ Tally(e) \in [Side -> Nat]
         /\ \A s \in Side : Tally(e)[s] = IF e.winner = s THEN roundsWon[s] + 1
                                                          ELSE roundsWon[s]
<1>1. roundsWon \in [Side -> Nat] /\ e.winner \in Side \cup {NoSide}
  BY DEF MatchTypeOK, Ending
<1>2. CASE e.winner = NoSide
  BY <1>1, <1>2, OpposingSides DEF Tally
<1>3. CASE e.winner \in Side
  BY <1>1, <1>3, OpposingSides DEF Tally
<1> QED BY <1>1, <1>2, <1>3

LEMMA FallenBaseNext == RoundInv' => FallenBaseDecides'
BY FallenBaseNow, PTL

(* The round that a tick decides is written down with what it left, counted *)
(* for its winner, and ends the match or not.                               *)
LEMMA FinishKeepsInv ==
  ASSUME SessionInv, BattlePhaseTick, ending' # NoEnding
  PROVE  SessionInv'
<1> DEFINE rs == record.rounds
           n == Len(rs)
           won == Tally(ending')
           t == MatchEnding(ending', won)
           e == [rs[n] EXCEPT !.ending = ending', !.left = hp']
           q == Rewritten(rs, e)
<1>1. /\ phase = "battle" /\ SomeStep /\ FinishRound
      /\ UNCHANGED <<roundNumber, claimed, planVars, hasRound, commandVars>>
  BY DEF BattlePhaseTick
<1>2. /\ MatchTypeOK /\ RoundInv /\ StageInv /\ LockInv /\ RecordInv /\ ClosingInv
      /\ hasRound /\ ~Over
  BY <1>1 DEF SessionInv, StageInv, Over
<1>3. /\ RoundInv' /\ ending = NoEnding /\ UNCHANGED <<equipped, casts, nextOrder>>
  BY <1>1, <1>2, StepFacts
<1>4. /\ ending' \in Ending /\ hp' \in [Side -> 0..MaxHp]
  BY <1>3 DEF RoundInv, RoundTypeOK
<1>5. FallenBaseDecides'
  BY <1>3, FallenBaseNext
<1>6. /\ won \in [Side -> Nat]
      /\ \A s \in Side : won[s] = IF ending'.winner = s THEN roundsWon[s] + 1
                                                        ELSE roundsWon[s]
  BY <1>2, <1>4, TallyType
<1>7. /\ t \in Terminal \cup {Unfinished} /\ t.kind # "abandoned"
      /\ t # Unfinished <=> ending'.kind = "baseDestroyed" \/ Decisive(ending', won)
      /\ t # Unfinished => TerminalReason(t, ending') \in ClosingReason
      /\ t # Unfinished => t.winner = ending'.winner
      /\ ~TestProfile => \A s \in Side : ending'.winner # s => won[s] < RoundsToWin
  <2>1. ~TestProfile => \A s \in Side : ending'.winner # s => won[s] < RoundsToWin
    BY <1>2, <1>6 DEF ClosingInv
  <2> HIDE DEF won
  <2> QED BY <1>4, <1>6, <2>1, MatchEndingFacts
<1>8. /\ rs \in Seq(RoundRecord) /\ n = roundNumber /\ n \in Nat \ {0}
      /\ Chained(rs) /\ record \in Record
  BY <1>2 DEF RecordInv, MatchTypeOK, Record
<1>9. /\ rs # << >> /\ n \in DOMAIN rs /\ rs[n] \in RoundRecord
  BY <1>8
<1>10. /\ rs[n].number = roundNumber /\ rs[n].plans = plans
       /\ equipped = LoadoutsOf(rs[n].plans) /\ rs[n].casts = casts
       /\ rs[n].ending = ending /\ \A i \in DOMAIN casts : casts[i].order = i
  BY <1>2 DEF RecordInv, RecordFollowsRound, LastRound
<1>11. /\ e \in RoundRecord /\ e.number = rs[n].number /\ e.opened = rs[n].opened
       /\ e.plans = rs[n].plans /\ e.casts = rs[n].casts /\ e.ending = ending'
       /\ e.left = hp'
  BY <1>4, <1>9 DEF RoundRecord
<1>12. /\ baseHp' = hp' /\ roundsWon' = won /\ phaseTicks' = 0
       /\ IF t # Unfinished
          THEN /\ phase' = "matchOver"
               /\ matchResult' = [ending |-> t, won |-> won, bases |-> hp']
               /\ record' = [rounds |-> q, ending |-> t,
                             reason |-> TerminalReason(t, ending'),
                             won |-> won, bases |-> hp']
          ELSE /\ phase' = "roundOver"
               /\ record' = [record EXCEPT !.rounds = q]
               /\ UNCHANGED matchResult
  <2>1. q = [record.rounds EXCEPT ![LastRound].ending = ending', ![LastRound].left = hp']
    BY <1>8, <1>9 DEF Rewritten, LastRound
  <2> QED BY <1>1, <2>1 DEF FinishRound, CarriedBases
<1> HIDE DEF rs, won, t, e
<1>13. /\ q \in Seq(RoundRecord) /\ q # << >> /\ Len(q) = n /\ q[n] = e
       /\ Chained(q) /\ LeftBy(q) = e.left
       /\ \A x : WonIn(q, x) = (WonIn(rs, x) \ {n})
                                 \cup (IF e.ending.winner = x THEN {n} ELSE {})
  <2>1. /\ rs \in Seq(RoundRecord) /\ rs # << >> /\ Chained(rs) /\ e \in RoundRecord
        /\ e.number = rs[Len(rs)].number /\ e.opened = rs[Len(rs)].opened
    BY <1>8, <1>9, <1>11
  <2> QED BY <2>1, LastRewritten
<1> HIDE DEF q
<1>14. ASSUME NEW x \in Side PROVE won[x] = Cardinality(WonIn(q, x))
  <2> DEFINE W == WonIn(rs, x)
  <2>1. n \notin W
    <3>1. rs[n].ending.winner # x
      BY <1>3, <1>10, OpposingSides DEF NoEnding
    <3> QED BY <3>1 DEF WonIn
  <2>2. roundsWon[x] = Cardinality(W) /\ IsFiniteSet(W)
    BY <1>2, <1>8, WinsAreFinite DEF RecordInv, rs
  <2> HIDE DEF W
  <2>3. CASE ending'.winner = x
    <3>1. WonIn(q, x) = W \cup {n}
      <4>1. WonIn(q, x) = (W \ {n}) \cup {n}
        BY <1>11, <1>13, <2>3 DEF W
      <4> QED BY <4>1
    <3>2. Cardinality(W \cup {n}) = Cardinality(W) + 1
      BY <2>1, <2>2, FS_AddElement
    <3> QED BY <1>6, <2>2, <2>3, <3>1, <3>2
  <2>4. CASE ending'.winner # x
    <3>1. WonIn(q, x) = W \ {n}
      BY <1>11, <1>13, <2>4 DEF W
    <3>2. W \ {n} = W
      BY <2>1
    <3> QED BY <1>6, <2>2, <2>4, <3>1, <3>2
  <2> QED BY <2>3, <2>4
<1>15. /\ record' \in Record /\ record'.rounds = q
       /\ t = Unfinished => record'.ending = record.ending
       /\ t # Unfinished => record'.ending = t /\ record'.won = won /\ record'.bases = hp'
  <2>1. CASE t = Unfinished
    BY <1>8, <1>12, <1>13, <2>1, RoundsOfRecord
  <2>2. CASE t # Unfinished
    <3> DEFINE why == TerminalReason(t, ending')
    <3>1. /\ record' = [rounds |-> q, ending |-> t, reason |-> why, won |-> won,
                        bases |-> hp']
          /\ why \in ClosingReason
      BY <1>7, <1>12, <2>2
    <3> HIDE DEF why
    <3> QED BY <1>4, <1>6, <1>7, <1>13, <2>2, <3>1 DEF Record
  <2> QED BY <2>1, <2>2
<1>16. MatchTypeOK'
  <2>1. matchResult' \in Result
    BY <1>2, <1>4, <1>6, <1>7, <1>12 DEF Result, MatchTypeOK
  <2>2. phase' \in Phase
    BY <1>12 DEF Phase
  <2> QED BY <1>1, <1>2, <1>4, <1>6, <1>12, <1>15, <2>1, <2>2
          DEF MatchTypeOK, planVars, commandVars
<1>17. StageInv'
  <2>1. phase' \in {"roundOver", "matchOver"} /\ hasRound' /\ hp' = baseHp'
    BY <1>1, <1>2, <1>12
  <2>2. ASSUME phase' = "roundOver" PROVE \A s \in Side : hp'[s] > 0
    <3>1. t = Unfinished
      BY <1>12, <2>2
    <3>2. \A s \in Side : hp'[s] # 0
      BY <1>5, <1>7, <3>1 DEF FallenBaseDecides
    <3> QED BY <1>4, <3>2, BattleAssumption
  <2> QED BY <2>1, <2>2 DEF StageInv, Over
<1>18. LockInv'
  BY <1>1, <1>2 DEF LockInv, planVars
<1>19. RecordInv'
  <2>1. RecordFollowsRound'
    <3>1. record'.rounds[LastRound'] = e
      BY <1>13, <1>15 DEF LastRound
    <3> QED BY <1>1, <1>3, <1>10, <1>11, <3>1
            DEF RecordFollowsRound, LoadoutsOf, planVars
  <2>2. nextOrder' = Len(casts') + 1
    BY <1>2, <1>3 DEF RecordInv
  <2>3. baseHp' = LeftBy(q)
    BY <1>11, <1>12, <1>13
  <2>4. hasRound' /\ Len(q) = roundNumber'
    BY <1>1, <1>2, <1>8, <1>13
  <2>5. /\ Chained(record.rounds)' /\ LeftBy(record.rounds)' = LeftBy(q)
        /\ \A x : WonIn(record.rounds, x)' = WonIn(q, x)
    BY <1>13, <1>15 DEF Chained, LeftBy, WonIn, FullBases
  <2> QED BY <1>12, <1>14, <1>15, <2>1, <2>2, <2>3, <2>4, <2>5 DEF RecordInv
<1>20. ClosingInv'
  <2>1. CASE t = Unfinished
    <3>1. ASSUME ~TestProfile, NEW s \in Side PROVE won[s] < RoundsToWin
      <4>1. won[s] \in Nat /\ RoundsToWin \in Nat
        BY <1>6, SessionAssumption
      <4>2. CASE ending'.winner = s
        <5>1. ~(won[s] >= RoundsToWin)
          BY <1>7, <2>1, <3>1, <4>2, OpposingSides DEF Decisive
        <5> QED BY <4>1, <5>1
      <4> QED BY <1>7, <3>1, <4>2
    <3> QED BY <1>2, <1>12, <1>15, <2>1, <3>1 DEF ClosingInv, Over
  <2>2. CASE t # Unfinished
    <3>1. /\ matchResult'.ending = t /\ record'.ending = t /\ record'.won = roundsWon'
          /\ record'.bases = hp' /\ hasRound' /\ phase' = "matchOver"
      BY <1>1, <1>2, <1>12, <1>15, <2>2
    <3>2. ASSUME ~TestProfile PROVE Earned(t.winner, hp', won)
      <4> DEFINE fallen == {s \in Side : hp'[s] = 0}
      <4>1. /\ fallen # {} <=> ending'.kind = "baseDestroyed"
            /\ fallen # {} => ending'.winner = StandingAlone(fallen)
        BY <1>3, FallenBaseWinnerNext
      <4>2. /\ t.winner = ending'.winner
            /\ fallen = {} => Decisive(ending', won)
        BY <1>7, <2>2, <4>1
      <4>3. /\ ending'.winner \in Side \cup {NoSide} /\ hp' \in [Side -> Nat]
            /\ fallen = {s \in Side : hp'[s] = 0}
        BY <1>4, BattleAssumption DEF Ending
      <4> HIDE DEF fallen
      <4>4. Earned(ending'.winner, hp', won)
        BY <1>6, <1>7, <3>2, <4>1, <4>2, <4>3, SeriesIsEarned
      <4> QED BY <4>2, <4>4
    <3>3. /\ Over' /\ record'.ending # Unfinished /\ ShownBases' = hp'
      BY <2>2, <3>1 DEF Over, ShownBases
    <3> QED BY <1>12, <3>1, <3>2, <3>3 DEF ClosingInv, Earned
  <2> QED BY <2>1, <2>2
<1> QED BY <1>3, <1>16, <1>17, <1>18, <1>19, <1>20 DEF SessionInv

LEMMA BattlePhaseTickKeepsInv ==
  ASSUME SessionInv, BattlePhaseTick
  PROVE  SessionInv'
<1>1. CASE ending' # NoEnding
  BY <1>1, FinishKeepsInv
<1>2. CASE ending' = NoEnding
  <2>1. /\ phase = "battle" /\ SomeStep /\ phaseTicks' = Counted
        /\ UNCHANGED <<phase, roundNumber, roundsWon, baseHp, matchResult, record,
                       claimed, plans, locked, hasRound, ledger, answers>>
    BY <1>2 DEF BattlePhaseTick, planVars, commandVars
  <2>2. /\ MatchTypeOK /\ RoundInv /\ StageInv /\ LockInv /\ RecordInv /\ ClosingInv
        /\ hasRound /\ ~Over
    BY <2>1 DEF SessionInv, StageInv, Over
  <2>3. /\ RoundInv' /\ ending = NoEnding /\ UNCHANGED <<equipped, casts, nextOrder>>
    BY <2>1, <2>2, StepFacts
  <2>4. MatchTypeOK'
    BY <2>1, <2>2, CountedType DEF MatchTypeOK
  <2>5. StageInv' /\ LockInv'
    BY <1>2, <2>1, <2>2 DEF StageInv, LockInv, Over
  <2>6. RecordFollowsRound'
    BY <1>2, <2>1, <2>2, <2>3 DEF RecordInv, RecordFollowsRound, LastRound, LoadoutsOf
  <2>7. RecordInv'
    <3>1. \A s : WonIn(record.rounds, s)' = WonIn(record.rounds, s)
      BY <2>1 DEF WonIn
    <3>2. Chained(record.rounds)' /\ LeftBy(record.rounds)' = LeftBy(record.rounds)
      BY <2>1, <2>2 DEF RecordInv, Chained, LeftBy, FullBases
    <3> QED BY <2>1, <2>2, <2>3, <2>6, <3>1, <3>2 DEF RecordInv
  <2>8. ClosingInv'
    BY <2>1, <2>2 DEF ClosingInv, Over
  <2> QED BY <2>3, <2>4, <2>5, <2>7, <2>8 DEF SessionInv
<1> QED BY <1>1, <1>2

(* The next plan phase: nobody has a plan, and no round stands.             *)
LEMMA RoundOverTickKeepsInv ==
  ASSUME SessionInv, RoundOverTick
  PROVE  SessionInv'
<1>1. CASE phaseTicks + 1 >= RoundOverTicks
  <2>1. /\ phase = "roundOver" /\ NextRound
        /\ UNCHANGED <<roundsWon, baseHp, matchResult, claimed, ledger, answers, record>>
    BY <1>1 DEF RoundOverTick, commandVars
  <2>2. /\ roundNumber' = roundNumber + 1 /\ plans' = [s \in Side |-> NoPlan]
        /\ locked' = [s \in Side |-> FALSE] /\ hasRound' = FALSE
        /\ OpenRound(baseHp, NoLoadout) /\ phase' = "planning" /\ phaseTicks' = 0
    BY <2>1 DEF NextRound
  <2>3. /\ MatchTypeOK /\ StageInv /\ RecordInv /\ ClosingInv
        /\ hasRound /\ ending # NoEnding /\ ~Over
    BY <2>1 DEF SessionInv, StageInv, Over
  <2>4. RoundInv'
    <3>1. baseHp \in [Side -> 1..MaxHp] /\ NoLoadout \in [Side -> SUBSET Spell]
      BY <2>3, StandingBases DEF NoLoadout
    <3> QED BY <2>2, <3>1, OpenRoundKeepsInv
  <2>5. /\ hp' = baseHp /\ ending' = NoEnding /\ casts' = << >> /\ nextOrder' = 1
    BY <2>2 DEF OpenRound
  <2>6. MatchTypeOK'
    <3>1. /\ plans' \in [Side -> Plan \cup {NoPlan}] /\ locked' \in [Side -> BOOLEAN]
          /\ phase' \in Phase /\ hasRound' \in BOOLEAN
      BY <2>2 DEF Phase
    <3>2. roundNumber' \in Nat \ {0} /\ phaseTicks' \in Nat
      BY <2>2, <2>3 DEF MatchTypeOK
    <3> QED BY <2>1, <2>3, <3>1, <3>2 DEF MatchTypeOK
  <2>7. StageInv' /\ LockInv'
    <3>1. \A s \in Side : baseHp[s] > 0
      BY <2>3 DEF StageInv
    <3> QED BY <2>1, <2>2, <2>5, <3>1 DEF StageInv, LockInv, Over
  <2>8. RecordInv'
    <3>1. /\ Len(record.rounds) = roundNumber /\ roundNumber \in Nat
          /\ record.rounds \in Seq(RoundRecord)
      BY <2>3 DEF RecordInv, MatchTypeOK, Record
    <3>2. ASSUME NEW i \in DOMAIN record.rounds
          PROVE  record.rounds[i].ending # NoEnding
      <4>1. CASE i < Len(record.rounds)
        BY <2>3, <3>2, <4>1 DEF RecordInv, Chained
      <4>2. CASE i = Len(record.rounds)
        BY <2>3, <4>2 DEF RecordInv, RecordFollowsRound, LastRound
      <4> QED BY <3>1, <3>2, <4>1, <4>2
    <3>3. Len(record'.rounds) = roundNumber' - 1
      BY <2>1, <2>2, <3>1
    <3>4. RecordFollowsRound'
      BY <2>2 DEF RecordFollowsRound
    <3>5. /\ Chained(record.rounds)' /\ LeftBy(record.rounds)' = LeftBy(record.rounds)
          /\ \A s : WonIn(record.rounds, s)' = WonIn(record.rounds, s)
      BY <2>1, <2>3 DEF RecordInv, Chained, LeftBy, WonIn, FullBases
    <3>6. nextOrder' = Len(casts') + 1
      BY <2>5
    <3> QED BY <2>1, <2>2, <2>3, <3>2, <3>3, <3>4, <3>5, <3>6 DEF RecordInv
  <2>9. ClosingInv'
    BY <2>1, <2>2, <2>3 DEF ClosingInv, Over
  <2> QED BY <2>4, <2>6, <2>7, <2>8, <2>9 DEF SessionInv
<1>2. CASE ~(phaseTicks + 1 >= RoundOverTicks)
  <2>1. /\ phaseTicks' = Counted
        /\ UNCHANGED <<roundVars, phase, matchVars, planVars, hasRound, record,
                       claimed, commandVars>>
    BY <1>2 DEF RoundOverTick, matchVars
  <2> QED BY <2>1, CountKeepsInv
<1> QED BY <1>1, <1>2

(* Given up, the match closes on the bases it last showed.                  *)
LEMMA AbandonKeepsInv ==
  ASSUME SessionInv, Abandon
  PROVE  SessionInv'
<1> DEFINE t == [kind |-> "abandoned", winner |-> NoSide]
<1>1. /\ ~Over /\ phase' = "matchOver" /\ phaseTicks' = 0
      /\ UNCHANGED <<roundVars, roundNumber, roundsWon, baseHp, claimed, planVars,
                     hasRound, commandVars>>
  BY DEF Abandon, MayAbandon
<1>2. /\ matchResult' = [ending |-> t, won |-> roundsWon, bases |-> ShownBases]
      /\ record' = [record EXCEPT !.ending = t, !.reason = "abandoned",
                                  !.won = roundsWon, !.bases = ShownBases]
  BY DEF Abandon, ClosingBases
<1>3. /\ MatchTypeOK /\ RoundInv /\ StageInv /\ LockInv /\ RecordInv /\ ClosingInv
  BY DEF SessionInv
<1>4. t \in Terminal /\ t.kind = "abandoned" /\ t.winner = NoSide /\ t # Unfinished
  <2>1. t.kind = "abandoned" /\ Unfinished.kind = "none"
    BY DEF Unfinished
  <2> QED BY <2>1 DEF Terminal
<1>5. ShownBases \in [Side -> 0..MaxHp] /\ ShownBases' = ShownBases
  BY <1>1, <1>3 DEF ShownBases, MatchTypeOK, RoundInv, RoundTypeOK, roundVars, worldVars
<1> HIDE DEF t
<1>6. /\ record' \in Record /\ record'.rounds = record.rounds /\ record'.ending = t
      /\ record'.won = roundsWon /\ record'.bases = ShownBases
  <2>1. record \in Record /\ "abandoned" \in ClosingReason /\ roundsWon \in [Side -> Nat]
    BY <1>3 DEF MatchTypeOK, ClosingReason
  <2> QED BY <1>2, <1>4, <1>5, <2>1 DEF Record
<1>7. MatchTypeOK'
  <2>1. matchResult' \in Result /\ phase' \in Phase
    BY <1>1, <1>2, <1>3, <1>4, <1>5 DEF Result, MatchTypeOK, Phase
  <2> QED BY <1>1, <1>3, <1>6, <2>1 DEF MatchTypeOK, planVars, commandVars
<1>8. RoundInv'
  BY <1>1, <1>3, StillRoundKeepsInv
<1>9. StageInv' /\ LockInv'
  BY <1>1, <1>3 DEF StageInv, LockInv, Over, planVars, roundVars, worldVars
<1>10. RecordInv'
  <2>1. RecordFollowsRound'
    BY <1>1, <1>3, <1>6 DEF RecordInv, RecordFollowsRound, LastRound, LoadoutsOf,
                            planVars, roundVars
  <2>2. /\ Chained(record.rounds)' /\ LeftBy(record.rounds)' = LeftBy(record.rounds)
        /\ \A s : WonIn(record.rounds, s)' = WonIn(record.rounds, s)
    BY <1>3, <1>6 DEF RecordInv, Chained, LeftBy, WonIn, FullBases
  <2> QED BY <1>1, <1>3, <1>6, <2>1, <2>2 DEF RecordInv, roundVars
<1>11. ClosingInv'
  <2>1. matchResult'.ending = t
    BY <1>2
  <2> QED BY <1>1, <1>4, <1>5, <1>6, <2>1 DEF ClosingInv, Over
<1> QED BY <1>7, <1>8, <1>9, <1>10, <1>11 DEF SessionInv

-----------------------------------------------------------------------------
(* The invariant holds of every match, in every state it reaches.           *)

LEMMA SessionStep ==
  ASSUME SessionInv, [SessionNext]_vars
  PROVE  SessionInv'
<1>1. CASE \E s \in Side : SeatAction(s)
  <2>1. PICK s \in Side : SeatAction(s)
    BY <1>1
  <2>2. CASE Claim(s)
    BY <2>2, ClaimKeepsInv
  <2>3. CASE \E p \in Plan : LockIn(s, p)
    BY <2>3, LockInKeepsInv
  <2>4. CASE \E c \in Command : Cast(s, c)
    BY <2>4, CastKeepsSession
  <2> QED BY <2>1, <2>2, <2>3, <2>4 DEF SeatAction
<1>2. CASE Tick
  BY <1>2, PlanningTickKeepsInv, BattlePhaseTickKeepsInv, RoundOverTickKeepsInv DEF Tick
<1>3. CASE Abandon
  BY <1>3, AbandonKeepsInv
<1>4. CASE UNCHANGED vars
  <2>1. /\ UNCHANGED <<roundVars, phase, matchVars, planVars, hasRound, record>>
        /\ UNCHANGED <<phaseTicks, claimed, commandVars>>
    BY <1>4 DEF vars
  <2>2. RoundInv' /\ StageInv' /\ LockInv' /\ RecordInv' /\ ClosingInv'
    BY <2>1, StillMatchKeeps
  <2>3. MatchTypeOK'
    BY <2>1 DEF SessionInv, MatchTypeOK, matchVars, planVars, commandVars
  <2> QED BY <2>2, <2>3 DEF SessionInv
<1> QED BY <1>1, <1>2, <1>3, <1>4 DEF SessionNext

THEOREM SessionInvariant == SessionSpec => []SessionInv
<1>1. SessionInit => SessionInv
  BY SessionInvInit
<1>2. SessionInv /\ [SessionNext]_vars => SessionInv'
  BY SessionStep
<1> QED BY <1>1, <1>2, PTL DEF SessionSpec

-----------------------------------------------------------------------------
(* What follows from the invariant.                                         *)

(* Every variable of a match keeps its type, its round's and its record's   *)
(* included (session.py, MatchSession).                                     *)
THEOREM SessionTypeCorrect == SessionSpec => []SessionTypeOK
<1>1. SessionInv => SessionTypeOK
  BY DEF SessionInv, MatchTypeOK, RoundInv, SessionTypeOK
<1> QED BY <1>1, SessionInvariant, PTL

(* The run record of every match is a chain of rounds, each opened on what  *)
(* the one before it left, whose endings give the wins counted, and closed  *)
(* with the match and never before (run_record.py, RunRecorder).            *)
THEOREM TheRecordIsAChain == SessionSpec => []RecordIsAChain
<1>1. SessionInv => RecordIsAChain
  <2> SUFFICES ASSUME SessionInv PROVE RecordIsAChain
    OBVIOUS
  <2> DEFINE rs == record.rounds
  <2>1. RecordInv /\ ClosingInv
    BY DEF SessionInv
  <2>2. \A i \in DOMAIN rs :
          /\ rs[i].number = i
          /\ rs[i].opened = IF i = 1 THEN FullBases ELSE rs[i - 1].left
          /\ i < Len(rs) => rs[i].ending # NoEnding
    BY <2>1 DEF RecordInv, Chained
  <2>3. \A s \in Side :
          roundsWon[s] = Cardinality({i \in DOMAIN rs : rs[i].ending.winner = s})
    BY <2>1 DEF RecordInv, WonIn
  <2>4. /\ Over <=> record.ending # Unfinished
        /\ Over => /\ record.ending = matchResult.ending
                   /\ record.bases = ShownBases
                   /\ record.won = roundsWon
    BY <2>1 DEF ClosingInv
  <2> QED BY <2>2, <2>3, <2>4 DEF RecordIsAChain
<1> QED BY <1>1, SessionInvariant, PTL

(* The last round of the record is the round being played: its plans, the   *)
(* loadouts they give, its casts in the order given out and its ending      *)
(* (run_record.py, record_cast and end_round).                              *)
THEOREM TheRecordFollowsTheRound == SessionSpec => []RecordFollowsRound
<1>1. SessionInv => RecordFollowsRound
  BY DEF SessionInv, RecordInv
<1> QED BY <1>1, SessionInvariant, PTL

(* A series that ended on its own names whoever earned it and nobody else:  *)
(* the side left standing when a base fell, nobody when both did, and       *)
(* otherwise the one side with the wins it asks for (session.py,            *)
(* _match_ending and result_report).                                        *)
THEOREM ResultsAreEarned == SessionSpec => []RatedResultsAreEarned
<1>1. SessionInv => RatedResultsAreEarned
  <2> SUFFICES ASSUME SessionInv, Over, ResultReport.status = "COMPLETED"
               PROVE  Earned(matchResult.ending.winner, ShownBases, roundsWon)
                      /\ ResultReport.winners = {matchResult.ending.winner} \cap Side
    BY DEF RatedResultsAreEarned, Earned
  <2> DEFINE t == matchResult.ending
  <2>1. ResultReport =
          IF t.kind = "abandoned"
          THEN [status |-> "ABANDONED", winners |-> {t.winner} \cap Side]
          ELSE IF TestProfile THEN [status |-> "CANCELLED", winners |-> {}]
          ELSE [status |-> "COMPLETED", winners |-> {t.winner} \cap Side]
    BY DEF ResultReport
  <2> HIDE DEF t
  <2>2. t.kind # "abandoned" /\ ~TestProfile
    BY <2>1
  <2>3. ResultReport.winners = {t.winner} \cap Side
    BY <2>1, <2>2
  <2>4. Earned(t.winner, ShownBases, roundsWon)
    BY <2>2 DEF SessionInv, ClosingInv, t
  <2> QED BY <2>3, <2>4 DEF t
<1> QED BY <1>1, SessionInvariant, PTL

(* Bases are shown as they were by every step but a tick of the battle.     *)
LEMMA OnlyTheBattleWears ==
  ASSUME SessionInv, SessionNext, ~BattlePhaseTick
  PROVE  ShownBases' = ShownBases
<1>1. ASSUME UNCHANGED <<hp, baseHp, hasRound>> PROVE ShownBases' = ShownBases
  BY <1>1 DEF ShownBases
<1>2. ASSUME NEW ps, StartBattle(ps), phase = "planning" PROVE ShownBases' = ShownBases
  BY <1>2 DEF StartBattle, OpenRound, OpeningBases, ShownBases, SessionInv, StageInv
<1>3. CASE \E s \in Side : SeatAction(s)
  <2>1. PICK s \in Side : SeatAction(s)
    BY <1>3
  <2>2. CASE Claim(s)
    BY <1>1, <2>2 DEF Claim, roundVars, worldVars, matchVars
  <2>3. ASSUME NEW p \in Plan, LockIn(s, p) PROVE ShownBases' = ShownBases
    <3>1. phase = "planning" /\ baseHp' = baseHp
      BY <2>3 DEF LockIn, MayLock, matchVars
    <3>2. \/ StartBattle([plans EXCEPT ![s] = p])
          \/ UNCHANGED <<roundVars, hasRound>>
      BY <2>3 DEF LockIn
    <3> QED BY <1>1, <1>2, <3>1, <3>2 DEF roundVars, worldVars
  <2>4. ASSUME NEW c \in Command, Cast(s, c) PROVE ShownBases' = ShownBases
    <3>1. baseHp' = baseHp /\ hasRound' = hasRound
      BY <2>4 DEF Cast, matchVars
    <3>2. hp' = hp
      BY <2>4 DEF Cast, Retry, CastOutsideBattle, CastRefused, CastAccepted,
                  AcceptCast, roundVars, worldVars
    <3> QED BY <1>1, <3>1, <3>2
  <2> QED BY <2>1, <2>2, <2>3, <2>4 DEF SeatAction
<1>4. CASE PlanningTick
  <2>1. /\ phase = "planning" /\ baseHp' = baseHp
        /\ \/ StartBattle(plans)
           \/ UNCHANGED <<roundVars, hasRound>>
    BY <1>4 DEF PlanningTick, matchVars
  <2> QED BY <1>1, <1>2, <2>1 DEF roundVars, worldVars
<1>5. CASE RoundOverTick
  <2>1. /\ phase = "roundOver" /\ baseHp' = baseHp
        /\ NextRound \/ UNCHANGED <<roundVars, hasRound>>
    BY <1>5 DEF RoundOverTick
  <2>2. hp = baseHp /\ hasRound
    BY <2>1 DEF SessionInv, StageInv
  <2>3. ASSUME NextRound PROVE ShownBases' = ShownBases
    BY <2>1, <2>2, <2>3 DEF NextRound, ShownBases
  <2> QED BY <1>1, <2>1, <2>3 DEF roundVars, worldVars
<1>6. CASE Abandon
  BY <1>1, <1>6 DEF Abandon, roundVars, worldVars
<1> QED BY <1>3, <1>4, <1>5, <1>6 DEF SessionNext, Tick

(* And a tick of the battle wears them down.                                *)
LEMMA TheBattleWears ==
  ASSUME SessionInv, BattlePhaseTick
  PROVE  /\ ShownBases = hp /\ ShownBases' = hp' /\ RoundInv'
         /\ \A s \in Side : hp'[s] \in 0..hp[s]
<1>1. hasRound /\ hasRound' /\ SomeStep /\ RoundInv
  BY DEF BattlePhaseTick, SessionInv, StageInv
<1>2. RoundInv' /\ \A s \in Side : hp'[s] <= hp[s]
  BY <1>1, StepFacts
<1>3. \A s \in Side : hp'[s] \in Nat /\ hp[s] \in Nat
  BY <1>1, <1>2, BattleAssumption DEF RoundInv, RoundTypeOK
<1> QED BY <1>1, <1>2, <1>3 DEF ShownBases

(* Nothing a match does gives a base hit points back: not a tick, not the   *)
(* next round, not the abandoning of a battle (session.py, _base_hp).       *)
THEOREM NothingRefillsABase == SessionSpec => BasesNeverRecover
<1>1. SessionInv /\ [SessionNext]_vars
        => [\A s \in Side : ShownBases'[s] <= ShownBases[s]]_vars
  <2> SUFFICES ASSUME SessionInv, SessionNext
               PROVE  \A s \in Side : ShownBases'[s] <= ShownBases[s]
    OBVIOUS
  <2>1. hp \in [Side -> Nat] /\ baseHp \in [Side -> Nat]
    BY FieldType, BattleAssumption DEF SessionInv, RoundInv, MatchTypeOK
  <2>2. ShownBases \in [Side -> Nat]
    BY <2>1 DEF ShownBases
  <2>3. CASE BattlePhaseTick
    BY <2>1, <2>3, TheBattleWears
  <2>4. CASE ~BattlePhaseTick
    BY <2>2, <2>4, OnlyTheBattleWears
  <2> QED BY <2>3, <2>4
<1> QED BY <1>1, SessionInvariant, PTL DEF SessionSpec, BasesNeverRecover

(* A plan once locked in stays until the next round's plan phase: neither   *)
(* the other seat's lock nor the backstop replaces it (session.py, lock_in  *)
(* and _start_battle).                                                      *)
THEOREM ALockedPlanStands == SessionSpec => LockedPlansStand
<1>1. SessionInv /\ [SessionNext]_vars
        => [\A s \in Side : locked[s] /\ plans'[s] # plans[s]
                              => roundNumber' = roundNumber + 1]_vars
  <2> SUFFICES ASSUME SessionInv, SessionNext, NEW s \in Side, locked[s],
                      roundNumber' # roundNumber + 1
               PROVE  plans'[s] = plans[s]
    OBVIOUS
  <2>1. /\ plans \in [Side -> Plan \cup {NoPlan}] /\ plans[s] # NoPlan
    BY DEF SessionInv, MatchTypeOK, LockInv
  <2>2. ASSUME NEW ps \in [Side -> Plan \cup {NoPlan}], ps[s] = plans[s], StartBattle(ps)
        PROVE  plans'[s] = plans[s]
    BY <2>1, <2>2, FieldedType DEF StartBattle
  <2>3. CASE \E x \in Side : SeatAction(x)
    <3>1. PICK x \in Side : SeatAction(x)
      BY <2>3
    <3>2. CASE Claim(x)
      BY <3>2 DEF Claim, planVars
    <3>3. ASSUME NEW p \in Plan, LockIn(x, p) PROVE plans'[s] = plans[s]
      <4> DEFINE ps == [plans EXCEPT ![x] = p]
      <4>1. x # s
        BY <3>3 DEF LockIn, MayLock
      <4>2. ps \in [Side -> Plan \cup {NoPlan}] /\ ps[s] = plans[s]
        BY <2>1, <4>1
      <4>3. StartBattle(ps) \/ plans' = ps
        BY <3>3 DEF LockIn
      <4> HIDE DEF ps
      <4> QED BY <2>2, <4>2, <4>3
    <3>4. CASE \E c \in Command : Cast(x, c)
      BY <3>4 DEF Cast, planVars
    <3> QED BY <3>1, <3>2, <3>3, <3>4 DEF SeatAction
  <2>4. CASE PlanningTick
    <3>1. StartBattle(plans) \/ plans' = plans
      BY <2>4 DEF PlanningTick
    <3> QED BY <2>1, <2>2, <3>1
  <2>5. CASE BattlePhaseTick
    BY <2>5 DEF BattlePhaseTick, planVars
  <2>6. CASE RoundOverTick
    BY <2>6 DEF RoundOverTick, NextRound, planVars
  <2>7. CASE Abandon
    BY <2>7 DEF Abandon, planVars
  <2> QED BY <2>3, <2>4, <2>5, <2>6, <2>7 DEF SessionNext, Tick
<1> QED BY <1>1, SessionInvariant, PTL DEF SessionSpec, LockedPlansStand

-----------------------------------------------------------------------------
(* The refinement: a handler is a step of the life of a match, or none.     *)

LEMMA StartIsFight ==
  ASSUME SessionInv, phase = "planning", NEW ps, StartBattle(ps),
         UNCHANGED matchVars, ShownBases' = ShownBases
  PROVE  Life!Fight
<1>1. ending = NoEnding /\ ending' = NoEnding /\ phase' = "battle"
  BY DEF StartBattle, OpenRound, SessionInv, StageInv
<1>2. Played' = Played
  BY <1>1 DEF Played, matchVars
<1> QED BY <1>1, <1>2 DEF Life!Fight, matchVars

(* What a tick of the battle does to the bases, seen from the life.         *)
LEMMA BattleIsWear ==
  ASSUME SessionInv, BattlePhaseTick
  PROVE  Life!Wear /\ Life!Fallen = {s \in Side : hp'[s] = 0}
BY TheBattleWears DEF Life!Wear, Life!Fallen

(* A tick that decides nothing leaves both bases standing.                  *)
LEMMA TickIsBatter ==
  ASSUME SessionInv, BattlePhaseTick, ending' = NoEnding
  PROVE  Life!Batter
<1>1. /\ phase = "battle" /\ UNCHANGED <<phase, roundNumber, roundsWon, matchResult>>
      /\ ending = NoEnding
  BY DEF BattlePhaseTick, SessionInv, StageInv
<1>2. Life!Wear /\ Life!Fallen = {s \in Side : hp'[s] = 0}
  BY BattleIsWear
<1>3. Life!Fallen = {}
  <2>1. ending'.kind # "baseDestroyed"
    BY DEF NoEnding
  <2> QED BY <1>2, <2>1, TheBattleWears, FallenBaseWinnerNext
<1>4. Played' = Played
  BY <1>1 DEF Played
<1> QED BY <1>1, <1>2, <1>3, <1>4 DEF Life!Batter

(* A tick that decides the round ends the match over a fallen base, for the *)
(* side standing, and otherwise as the count says.                          *)
LEMMA FinishIsEnding ==
  ASSUME SessionInv, BattlePhaseTick, ending' # NoEnding
  PROVE  \E winner \in Side \cup {NoSide} : Life!Storm(winner) \/ Life!EndRound(winner)
<1> DEFINE won == Tally(ending')
           t == MatchEnding(ending', won)
           w == ending'.winner
           fallen == {s \in Side : hp'[s] = 0}
<1>1. /\ phase = "battle" /\ SomeStep /\ FinishRound /\ roundNumber' = roundNumber
      /\ MatchTypeOK /\ RoundInv /\ ending = NoEnding /\ ClosingInv /\ ~Over
  BY DEF BattlePhaseTick, SessionInv, StageInv, Over
<1>2. ending' \in Ending
  BY <1>1, StepFacts DEF RoundInv, RoundTypeOK
<1>3. w \in Side \cup {NoSide}
  BY <1>2 DEF Ending
<1>4. /\ roundsWon' = won
      /\ won = IF w = NoSide THEN roundsWon ELSE [roundsWon EXCEPT ![w] = @ + 1]
      /\ phase' = IF t # Unfinished THEN "matchOver" ELSE "roundOver"
      /\ matchResult'.ending = IF t # Unfinished THEN t ELSE matchResult.ending
  BY <1>1 DEF FinishRound, Tally
<1>5. /\ won \in [Side -> Nat]
      /\ ~TestProfile => \A s \in Side : w # s => won[s] < RoundsToWin
  <2>1. /\ won \in [Side -> Nat]
        /\ \A s \in Side : won[s] = IF w = s THEN roundsWon[s] + 1 ELSE roundsWon[s]
    BY <1>1, <1>2, TallyType
  <2> QED BY <1>1, <2>1 DEF ClosingInv
<1>6. Played' = roundNumber /\ Played = roundNumber - 1 /\ Played' = Played + 1
  BY <1>1 DEF Played, MatchTypeOK
<1>7. Life!Count(w)
  BY <1>4, <1>6 DEF Life!Count
<1>8. Life!Wear /\ Life!Fallen = fallen
  BY BattleIsWear
<1>9. /\ fallen # {} <=> ending'.kind = "baseDestroyed"
      /\ fallen # {} => w = StandingAlone(fallen)
  BY TheBattleWears, FallenBaseWinnerNext
<1>10. t = IF fallen # {} THEN Life!Ending("baseDestroyed", w)
           ELSE IF Decisive(ending', won)
           THEN Life!Ending(IF TestProfile THEN "testComplete" ELSE "roundsWon", w)
           ELSE Unfinished
  <2> HIDE DEF won, fallen
  <2> QED BY <1>2, <1>5, <1>9, MatchEndingExact
<1>11. \A k \in {"baseDestroyed", "testComplete", "roundsWon"} :
         Life!Ending(k, w) # Unfinished
  <2>1. \A k : Life!Ending(k, w).kind = k
    BY DEF Life!Ending
  <2> QED BY <2>1 DEF Unfinished
<1>12. Decisive(ending', won) <=>
         IF TestProfile THEN Played' >= RoundsToWin
         ELSE w # NoSide /\ roundsWon'[w] >= RoundsToWin
  BY <1>4, <1>6 DEF Decisive, PlayedOut
<1> HIDE DEF t, won, w, fallen
<1>13. CASE fallen # {}
  <2>1. phase' = "matchOver" /\ matchResult'.ending = Life!Ending("baseDestroyed", w)
    BY <1>4, <1>10, <1>11, <1>13
  <2>2. w = IF Life!Fallen = Side THEN NoSide
            ELSE CHOOSE s \in Side : s \notin Life!Fallen
    BY <1>8, <1>9, <1>13 DEF StandingAlone
  <2>3. Life!Storm(w)
    BY <1>1, <1>7, <1>8, <1>13, <2>1, <2>2 DEF Life!Storm
  <2> QED BY <1>3, <2>3
<1>14. CASE fallen = {}
  <2> DEFINE last == IF TestProfile THEN Played' >= RoundsToWin
                     ELSE w # NoSide /\ roundsWon'[w] >= RoundsToWin
             kind == IF TestProfile THEN "testComplete" ELSE "roundsWon"
  <2>1. t = IF last THEN Life!Ending(kind, w) ELSE Unfinished
    BY <1>10, <1>12, <1>14
  <2>2. Life!Ending(kind, w) # Unfinished
    BY <1>11
  <2>3. /\ phase' = IF last THEN "matchOver" ELSE "roundOver"
        /\ matchResult'.ending = IF ~last THEN matchResult.ending ELSE Life!Ending(kind, w)
    BY <1>4, <2>1, <2>2
  <2>4. Life!EndRound(w)
    BY <1>1, <1>7, <1>8, <1>14, <2>3 DEF Life!EndRound
  <2> QED BY <1>3, <2>4
<1> QED BY <1>13, <1>14

(* Every match lives the life its players see.  The bases they are shown    *)
(* are only worn down, and only in battle; a base that falls ends the match *)
(* on that tick, for the side standing; on standing bases it ends on the    *)
(* last round of a demo or the round that gives a side its wins, and on no  *)
(* other; a round is counted once, for one winner at most; and the ending   *)
(* of the match, once it has one, stands (session.py, _finish_round,        *)
(* _match_ending and abandon).                                              *)
THEOREM EveryMatchFollowsLifecycle == SessionSpec => FollowsLifecycle
<1>1. SessionInit => Life!Init
  BY DEF SessionInit, RoundInit, Life!Init, Played, NoWins, FullBases, ShownBases
<1>2. SessionInv /\ [SessionNext]_vars => [Life!Next]_(Life!lifeVars)
  <2> SUFFICES ASSUME SessionInv, [SessionNext]_vars
               PROVE  [Life!Next]_(Life!lifeVars)
    OBVIOUS
  <2>1. ASSUME UNCHANGED <<phase, ending, roundNumber, roundsWon, matchResult>>,
               ShownBases' = ShownBases
        PROVE  UNCHANGED Life!lifeVars
    BY <2>1 DEF Life!lifeVars, Played
  <2>2. CASE BattlePhaseTick
    BY <2>2, TickIsBatter, FinishIsEnding DEF Life!Next
  <2>3. CASE SessionNext /\ ~BattlePhaseTick
    <3>1. ShownBases' = ShownBases
      BY <2>3, OnlyTheBattleWears
    <3>2. CASE \E s \in Side : SeatAction(s)
      <4>1. PICK s \in Side : SeatAction(s)
        BY <3>2
      <4>2. CASE Claim(s)
        BY <2>1, <3>1, <4>2 DEF Claim, roundVars, matchVars
      <4>3. ASSUME NEW p \in Plan, LockIn(s, p) PROVE [Life!Next]_(Life!lifeVars)
        <5>1. phase = "planning" /\ UNCHANGED matchVars
          BY <4>3 DEF LockIn, MayLock
        <5>2. \/ StartBattle([plans EXCEPT ![s] = p])
              \/ UNCHANGED <<roundVars, phase>>
          BY <4>3 DEF LockIn
        <5>3. CASE StartBattle([plans EXCEPT ![s] = p])
          BY <3>1, <5>1, <5>3, StartIsFight DEF Life!Next
        <5>4. CASE UNCHANGED <<roundVars, phase>>
          BY <2>1, <3>1, <5>1, <5>4 DEF roundVars, matchVars
        <5> QED BY <5>2, <5>3, <5>4
      <4>4. ASSUME NEW c \in Command, Cast(s, c) PROVE UNCHANGED Life!lifeVars
        <5>1. UNCHANGED <<phase, roundNumber, roundsWon, matchResult>>
          BY <4>4 DEF Cast, matchVars
        <5>2. ending' = ending
          BY <4>4 DEF Cast, Retry, CastOutsideBattle, CastRefused, CastAccepted,
                      AcceptCast, roundVars
        <5> QED BY <2>1, <3>1, <5>1, <5>2
      <4> QED BY <4>1, <4>2, <4>3, <4>4 DEF SeatAction
    <3>3. CASE PlanningTick
      <4>1. /\ phase = "planning" /\ UNCHANGED matchVars
            /\ StartBattle(plans) \/ UNCHANGED <<roundVars, phase>>
        BY <3>3 DEF PlanningTick
      <4>2. CASE StartBattle(plans)
        BY <3>1, <4>1, <4>2, StartIsFight DEF Life!Next
      <4>3. CASE UNCHANGED <<roundVars, phase>>
        BY <2>1, <3>1, <4>1, <4>3 DEF roundVars, matchVars
      <4> QED BY <4>1, <4>2, <4>3
    <3>4. CASE RoundOverTick
      <4>1. /\ phase = "roundOver" /\ UNCHANGED <<roundsWon, matchResult>>
            /\ ending # NoEnding /\ roundNumber \in Nat
            /\ NextRound \/ UNCHANGED <<roundVars, phase, roundNumber>>
        BY <3>4 DEF RoundOverTick, SessionInv, StageInv, MatchTypeOK
      <4>2. CASE NextRound
        <5>1. /\ phase' = "planning" /\ roundNumber' = roundNumber + 1
              /\ ending' = NoEnding
          BY <4>2 DEF NextRound, OpenRound
        <5>2. Played' = Played
          BY <4>1, <5>1 DEF Played
        <5>3. Life!Replan
          BY <3>1, <4>1, <5>1, <5>2 DEF Life!Replan
        <5> QED BY <5>3 DEF Life!Next
      <4>3. CASE UNCHANGED <<roundVars, phase, roundNumber>>
        BY <2>1, <3>1, <4>1, <4>3 DEF roundVars
      <4> QED BY <4>1, <4>2, <4>3
    <3>5. CASE Abandon
      <4>1. /\ phase # "matchOver" /\ phase' = "matchOver"
            /\ matchResult'.ending = Life!Ending("abandoned", NoSide)
            /\ UNCHANGED <<ending, roundNumber, roundsWon>>
        BY <3>5 DEF Abandon, MayAbandon, Over, roundVars, Life!Ending
      <4>2. Life!GiveUp
        BY <3>1, <4>1 DEF Life!GiveUp, Played
      <4> QED BY <4>2 DEF Life!Next
    <3> QED BY <2>3, <3>2, <3>3, <3>4, <3>5 DEF SessionNext, Tick
  <2>4. CASE UNCHANGED vars
    BY <2>1, <2>4 DEF vars, roundVars, worldVars, matchVars, ShownBases
  <2> QED BY <2>2, <2>3, <2>4
<1> QED BY <1>1, <1>2, SessionInvariant, PTL DEF SessionSpec, FollowsLifecycle, Life!Spec

-----------------------------------------------------------------------------
(* The promise about casts.                                                 *)

(* A seat's ledger holds one answer per command, and the casts charged for  *)
(* a command are finitely many.                                             *)
OneEach(entries) ==
  \A i, j \in DOMAIN entries : entries[i].id = entries[j].id => i = j

OnceInv ==
  /\ SessionInv
  /\ \A s \in Side : OneEach(ledger[s])
  /\ \A s \in Side, id \in CommandId : IsFiniteSet(Charged(s, id))

(* With one answer per command, the answer found is the one that is there.  *)
LEMMA AnswerFound ==
  ASSUME NEW entries, OneEach(entries), NEW i \in DOMAIN entries
  PROVE  Answered(entries, entries[i].id) /\ AnswerOf(entries, entries[i].id) = entries[i]
<1> DEFINE j == CHOOSE k \in DOMAIN entries : entries[k].id = entries[i].id
<1>1. j \in DOMAIN entries /\ entries[j].id = entries[i].id
  OBVIOUS
<1>2. AnswerOf(entries, entries[i].id) = entries[j]
  BY DEF AnswerOf
<1> HIDE DEF j
<1>3. j = i
  BY <1>1 DEF OneEach
<1> QED BY <1>2, <1>3 DEF Answered

(* A new command's answer goes at the end, and the others' stand.           *)
LEMMA AnswerAdded ==
  ASSUME NEW S, NEW entries \in Seq(S), OneEach(entries), NEW entry \in S,
         ~Answered(entries, entry.id)
  PROVE  /\ OneEach(Append(entries, entry))
         /\ \A id : Answered(Append(entries, entry), id)
                      <=> Answered(entries, id) \/ id = entry.id
         /\ AnswerOf(Append(entries, entry), entry.id) = entry
         /\ \A id : Answered(entries, id)
                      => AnswerOf(Append(entries, entry), id) = AnswerOf(entries, id)
<1> DEFINE q == Append(entries, entry)
           n == Len(entries)
<1>1. /\ n \in Nat /\ DOMAIN entries = 1..n /\ DOMAIN q = 1..(n + 1)
      /\ q[n + 1] = entry /\ \A i \in 1..n : q[i] = entries[i]
  OBVIOUS
<1> HIDE DEF q, n
<1>2. \A i \in 1..n : entries[i].id # entry.id
  BY <1>1 DEF Answered
<1>3. OneEach(q)
  <2> SUFFICES ASSUME NEW i \in 1..(n + 1), NEW j \in 1..(n + 1), q[i].id = q[j].id
               PROVE  i = j
    BY <1>1 DEF OneEach
  <2>1. \A k \in 1..(n + 1) : k \in 1..n \/ k = n + 1
    BY <1>1
  <2>2. CASE i \in 1..n /\ j \in 1..n
    BY <2>2, <1>1 DEF OneEach
  <2>3. CASE i = n + 1 /\ j \in 1..n
    BY <2>3, <1>1, <1>2
  <2>4. CASE i \in 1..n /\ j = n + 1
    BY <2>4, <1>1, <1>2
  <2> QED BY <2>1, <2>2, <2>3, <2>4
<1>4. ASSUME NEW id PROVE Answered(q, id) <=> Answered(entries, id) \/ id = entry.id
  <2>1. ASSUME Answered(q, id) PROVE Answered(entries, id) \/ id = entry.id
    <3>1. PICK i \in 1..(n + 1) : q[i].id = id
      BY <2>1, <1>1 DEF Answered
    <3>2. i \in 1..n \/ i = n + 1
      BY <1>1
    <3> QED BY <3>1, <3>2, <1>1 DEF Answered
  <2>2. ASSUME Answered(entries, id) PROVE Answered(q, id)
    <3>1. PICK i \in 1..n : entries[i].id = id
      BY <2>2, <1>1 DEF Answered
    <3>2. i \in 1..(n + 1) /\ q[i].id = id
      BY <3>1, <1>1
    <3> QED BY <3>2, <1>1 DEF Answered
  <2>3. ASSUME id = entry.id PROVE Answered(q, id)
    <3>1. n + 1 \in 1..(n + 1)
      BY <1>1
    <3> QED BY <2>3, <3>1, <1>1 DEF Answered
  <2> QED BY <2>1, <2>2, <2>3
<1>5. AnswerOf(q, entry.id) = entry
  <2>1. n + 1 \in DOMAIN q
    BY <1>1
  <2>2. AnswerOf(q, q[n + 1].id) = q[n + 1]
    BY <1>3, <2>1, AnswerFound
  <2> QED BY <2>2, <1>1
<1>6. ASSUME NEW id, Answered(entries, id) PROVE AnswerOf(q, id) = AnswerOf(entries, id)
  <2>1. PICK i \in 1..n : entries[i].id = id
    BY <1>1, <1>6 DEF Answered
  <2>2. AnswerOf(entries, entries[i].id) = entries[i]
    BY <1>1, AnswerFound
  <2>3. i \in DOMAIN q /\ q[i] = entries[i]
    BY <1>1
  <2>4. AnswerOf(q, q[i].id) = q[i]
    BY <1>3, <2>3, AnswerFound
  <2> QED BY <2>1, <2>2, <2>3, <2>4
<1> QED BY <1>3, <1>4, <1>5, <1>6 DEF q

(* Whatever the ledger drops, it holds one answer per command.              *)
LEMMA RecordedOnce ==
  ASSUME NEW S, NEW entries \in Seq(S), OneEach(entries), NEW entry \in S
  PROVE  OneEach(Recorded(entries, entry))
<1>1. CASE Answered(entries, entry.id)
  BY <1>1 DEF Recorded
<1>2. CASE ~Answered(entries, entry.id) /\ Len(entries) < MaxEntries
  BY <1>2, AnswerAdded DEF Recorded
<1>3. CASE ~Answered(entries, entry.id) /\ ~(Len(entries) < MaxEntries)
  <2> DEFINE t == Tail(entries)
  <2>1. entries # << >> /\ Len(entries) \in Nat
    BY <1>3, LedgerAssumption
  <2>2. /\ t \in Seq(S) /\ DOMAIN t = 1..(Len(entries) - 1)
        /\ \A i \in DOMAIN t : i + 1 \in DOMAIN entries /\ t[i] = entries[i + 1]
    BY <2>1
  <2>3. Recorded(entries, entry) = Append(t, entry)
    BY <1>3 DEF Recorded
  <2> HIDE DEF t
  <2>4. OneEach(t)
    <3> SUFFICES ASSUME NEW i \in DOMAIN t, NEW j \in DOMAIN t, t[i].id = t[j].id
                 PROVE  i = j
      BY DEF OneEach
    <3>1. i + 1 = j + 1
      BY <2>2 DEF OneEach
    <3> QED BY <3>1, <2>1, <2>2
  <2>5. ~Answered(t, entry.id)
    BY <1>3, <2>2 DEF Answered
  <2> QED BY <2>2, <2>3, <2>4, <2>5, AnswerAdded
<1> QED BY <1>1, <1>2, <1>3

(* The casts charged for are those of the record's rounds, so a record that *)
(* keeps each round's casts, and adds rounds without any, charges nobody.   *)
SameCasts(new, old) ==
  /\ DOMAIN old \subseteq DOMAIN new
  /\ \A r \in DOMAIN old : new[r].casts = old[r].casts
  /\ \A r \in DOMAIN new : r \notin DOMAIN old => new[r].casts = << >>

LEMMA NobodyCharged ==
  ASSUME SameCasts(record'.rounds, record.rounds), NEW s, NEW id
  PROVE  Charged(s, id)' = Charged(s, id)
<1> DEFINE At(rs, r) == {k \in DOMAIN rs[r].casts : rs[r].casts[k].side = s
                                                    /\ rs[r].casts[k].id = id}
<1>1. \A r \in DOMAIN record.rounds :
        r \in DOMAIN record'.rounds /\ At(record'.rounds, r) = At(record.rounds, r)
  BY DEF SameCasts
<1>2. \A r \in DOMAIN record'.rounds :
        r \notin DOMAIN record.rounds => At(record'.rounds, r) = {}
  BY DEF SameCasts
<1>3. Charged(s, id) = UNION {{<<r, k>> : k \in At(record.rounds, r)} : r \in DOMAIN record.rounds}
  BY DEF Charged
<1>4. Charged(s, id)' = UNION {{<<r, k>> : k \in At(record'.rounds, r)} : r \in DOMAIN record'.rounds}
  BY DEF Charged
<1> HIDE DEF At
<1>5. ASSUME NEW x PROVE x \in Charged(s, id)' <=> x \in Charged(s, id)
  <2>1. x \in Charged(s, id)' <=>
          \E r \in DOMAIN record'.rounds : \E k \in At(record'.rounds, r) : x = <<r, k>>
    BY <1>4
  <2>2. x \in Charged(s, id) <=>
          \E r \in DOMAIN record.rounds : \E k \in At(record.rounds, r) : x = <<r, k>>
    BY <1>3
  <2> QED BY <2>1, <2>2, <1>1, <1>2
<1> QED BY <1>5

(* A cast taken is charged once, to its seat and its command.               *)
LEMMA TakenIsCharged ==
  ASSUME SessionInv, NEW s \in Side, NEW c \in Command, CastAccepted(s, c)
  PROVE  \E pair :
           /\ pair \notin Charged(s, c.id)
           /\ \A x, id : Charged(x, id)' =
                IF x = s /\ id = c.id THEN Charged(x, id) \cup {pair} ELSE Charged(x, id)
<1> DEFINE rs == record.rounds
           n == Len(rs)
           m == Len(casts) + 1
           cast == [id |-> c.id, spell |-> c.spell, side |-> s, at |-> c.at,
                    tick |-> TargetTick, order |-> nextOrder]
           e == [rs[n] EXCEPT !.casts = casts']
           q == record'.rounds
<1>1. /\ phase = "battle" /\ AcceptCast(s, c)
      /\ record' = CastRecorded(casts'[Len(casts')])
  BY DEF CastAccepted
<1>2. MatchTypeOK /\ RoundInv /\ RecordInv /\ hasRound
  BY <1>1 DEF SessionInv, StageInv
<1>3. casts' = Append(casts, cast) /\ casts \in Seq(Resolved)
  BY <1>1, <1>2 DEF AcceptCast, RoundInv, RoundTypeOK
<1>4. cast.id = c.id /\ cast.side = s
  OBVIOUS
<1> HIDE DEF cast
<1>5. /\ m \in Nat \ {0} /\ DOMAIN casts = 1..(m - 1) /\ DOMAIN casts' = 1..m
      /\ casts'[m] = cast /\ casts'[Len(casts')] = cast
      /\ \A i \in 1..(m - 1) : casts'[i] = casts[i]
  BY <1>3
<1> HIDE DEF m
<1>6. /\ rs \in Seq(RoundRecord) /\ n = roundNumber /\ n \in Nat \ {0}
      /\ record \in Record
  BY <1>2 DEF RecordInv, MatchTypeOK, Record
<1>7. n \in DOMAIN rs /\ rs[n] \in RoundRecord /\ rs[n].casts = casts
  BY <1>2, <1>6 DEF RecordInv, RecordFollowsRound, LastRound
<1>8. q = [rs EXCEPT ![n] = e]
  <2>1. record' = [record EXCEPT !.rounds[n].casts = Append(@, cast)]
    BY <1>1, <1>5 DEF CastRecorded, LastRound
  <2>2. Append(rs[n].casts, cast) = casts'
    BY <1>3, <1>7
  <2> QED BY <2>1, <2>2, <1>6 DEF Record
<1>9. e.casts = casts'
  BY <1>7 DEF RoundRecord
<1> HIDE DEF e, rs, n
<1>10. /\ DOMAIN q = DOMAIN rs /\ q[n].casts = casts'
       /\ \A r \in DOMAIN rs : r # n => q[r] = rs[r]
  BY <1>7, <1>8, <1>9
<1> HIDE DEF q
<1> DEFINE At(z, r, x, id) == {k \in DOMAIN z[r].casts : z[r].casts[k].side = x
                                                          /\ z[r].casts[k].id = id}
<1>11. \A x, id : Charged(x, id)
                  = UNION {{<<r, k>> : k \in At(rs, r, x, id)} : r \in DOMAIN rs}
  BY DEF Charged, rs
<1>12. \A x, id : Charged(x, id)'
                  = UNION {{<<r, k>> : k \in At(q, r, x, id)} : r \in DOMAIN q}
  BY DEF Charged, q
<1>13. \A x, id, r : r \in DOMAIN rs /\ r # n => At(q, r, x, id) = At(rs, r, x, id)
  BY <1>10
<1>14. ASSUME NEW x, NEW id
       PROVE  /\ m \notin At(rs, n, x, id)
              /\ x = s /\ id = c.id => At(q, n, x, id) = At(rs, n, x, id) \cup {m}
              /\ ~(x = s /\ id = c.id) => At(q, n, x, id) = At(rs, n, x, id)
  <2>1. At(rs, n, x, id) = {k \in 1..(m - 1) : casts[k].side = x /\ casts[k].id = id}
    BY <1>5, <1>7
  <2>2. At(q, n, x, id) = {k \in 1..m : casts'[k].side = x /\ casts'[k].id = id}
    BY <1>5, <1>10
  <2>3. m \notin 1..(m - 1) /\ m \in 1..m /\ \A k : k \in 1..m <=> k \in 1..(m - 1) \/ k = m
    BY <1>5
  <2> HIDE DEF At
  <2>4. \A k : k \in At(q, n, x, id) <=>
                 k \in At(rs, n, x, id) \/ (k = m /\ x = s /\ id = c.id)
    BY <2>1, <2>2, <2>3, <1>4, <1>5
  <2> QED BY <2>1, <2>3, <2>4
<1> HIDE DEF At
<1>15. <<n, m>> \notin Charged(s, c.id)
  BY <1>11, <1>14
<1>16. ASSUME NEW x, NEW id
       PROVE  Charged(x, id)' = IF x = s /\ id = c.id THEN Charged(x, id) \cup {<<n, m>>}
                                ELSE Charged(x, id)
  <2>1. ASSUME NEW y
        PROVE  /\ y \in Charged(x, id)' <=>
                    \E r \in DOMAIN rs : \E k \in At(q, r, x, id) : y = <<r, k>>
               /\ y \in Charged(x, id) <=>
                    \E r \in DOMAIN rs : \E k \in At(rs, r, x, id) : y = <<r, k>>
    BY <1>10, <1>11, <1>12
  <2>2. CASE x = s /\ id = c.id
    <3>1. At(q, n, x, id) = At(rs, n, x, id) \cup {m}
      BY <2>2, <1>14
    <3>2. ASSUME NEW y PROVE y \in Charged(x, id)' <=> y \in Charged(x, id) \cup {<<n, m>>}
      BY <2>1, <3>1, <1>7, <1>13
    <3> QED BY <2>2, <3>2
  <2>3. CASE ~(x = s /\ id = c.id)
    <3>1. At(q, n, x, id) = At(rs, n, x, id)
      BY <2>3, <1>14
    <3>2. ASSUME NEW y PROVE y \in Charged(x, id)' <=> y \in Charged(x, id)
      BY <2>1, <3>1, <1>7, <1>13
    <3>3. Charged(x, id)' = Charged(x, id)
      BY <3>2
    <3> QED BY <2>3, <3>3, Zenon
  <2> QED BY <2>2, <2>3
<1> QED BY <1>15, <1>16

(* Only a cast that is taken touches the casts of the record.               *)
LEMMA StartTakesNoCast ==
  ASSUME MatchTypeOK, NEW ps, StartBattle(ps)
  PROVE  SameCasts(record'.rounds, record.rounds)
<1> DEFINE rs == record.rounds
           e == [number |-> roundNumber, opened |-> OpeningBases,
                 plans |-> Fielded(ps), casts |-> << >>,
                 ending |-> NoEnding, left |-> OpeningBases]
<1>1. rs \in Seq(RoundRecord) /\ record \in Record
  BY DEF MatchTypeOK, Record
<1>2. record'.rounds = Append(rs, e)
  BY <1>1 DEF StartBattle, Record
<1>3. e.casts = << >>
  OBVIOUS
<1> HIDE DEF e, rs
<1>4. /\ Len(rs) \in Nat /\ DOMAIN rs = 1..Len(rs)
      /\ DOMAIN Append(rs, e) = 1..(Len(rs) + 1)
      /\ Append(rs, e)[Len(rs) + 1] = e
      /\ \A i \in 1..Len(rs) : Append(rs, e)[i] = rs[i]
  BY <1>1
<1> DEFINE q == Append(rs, e)
<1> HIDE DEF q
<1>5. \A i \in 1..(Len(rs) + 1) : i \in 1..Len(rs) \/ i = Len(rs) + 1
  BY <1>4
<1>6. \A i \in 1..Len(rs) : i \in 1..(Len(rs) + 1)
  BY <1>4
<1> QED BY <1>2, <1>3, <1>4, <1>5, <1>6 DEF SameCasts, q, rs

LEMMA FinishTakesNoCast ==
  ASSUME SessionInv, BattlePhaseTick
  PROVE  SameCasts(record'.rounds, record.rounds)
<1> DEFINE rs == record.rounds
           q == [rs EXCEPT ![LastRound].ending = ending', ![LastRound].left = hp']
<1>1. rs \in Seq(RoundRecord) /\ record \in Record
  BY DEF SessionInv, MatchTypeOK, Record
<1>2. CASE record' = record
  BY <1>2 DEF SameCasts
<1>3. CASE record'.rounds = q
  <2>1. DOMAIN q = DOMAIN rs
    OBVIOUS
  <2>2. ASSUME NEW r \in DOMAIN rs PROVE q[r].casts = rs[r].casts
    <3>1. rs[r] \in RoundRecord
      BY <1>1, ElementOfSeq
    <3> QED BY <3>1 DEF RoundRecord
  <2> HIDE DEF q
  <2> QED BY <1>3, <2>1, <2>2 DEF SameCasts
<1>4. record' = record \/ record'.rounds = q
  <2>1. CASE FinishRound
    <3>1. \/ record' = [record EXCEPT !.rounds = q]
          \/ record'.rounds = q
      <4>1. CASE MatchEnding(ending', Tally(ending')) # Unfinished
        BY <2>1, <4>1 DEF FinishRound
      <4>2. CASE ~(MatchEnding(ending', Tally(ending')) # Unfinished)
        BY <2>1, <4>2 DEF FinishRound
      <4> QED BY <4>1, <4>2
    <3> HIDE DEF q, rs
    <3> QED BY <3>1, <1>1 DEF Record
  <2>2. CASE record' = record
    BY <2>2
  <2> QED BY <2>1, <2>2 DEF BattlePhaseTick
<1> QED BY <1>2, <1>3, <1>4

(* What the other actions do to the ledger and to the casts: nothing.       *)
LEMMA OnlyCastsCharge ==
  ASSUME SessionInv, [SessionNext]_vars,
         ~\E s \in Side, c \in Command : Cast(s, c)
  PROVE  UNCHANGED commandVars /\ SameCasts(record'.rounds, record.rounds)
<1>0. MatchTypeOK
  BY DEF SessionInv
<1>1. record' = record => SameCasts(record'.rounds, record.rounds)
  BY DEF SameCasts
<1>2. CASE \E s \in Side : SeatAction(s)
  <2>1. PICK s \in Side : SeatAction(s)
    BY <1>2
  <2>2. CASE Claim(s)
    BY <1>1, <2>2 DEF Claim
  <2>3. ASSUME NEW p \in Plan, LockIn(s, p)
        PROVE  UNCHANGED commandVars /\ SameCasts(record'.rounds, record.rounds)
    <3>1. StartBattle([plans EXCEPT ![s] = p]) \/ record' = record
      BY <2>3 DEF LockIn
    <3> QED BY <1>0, <1>1, <2>3, <3>1, StartTakesNoCast DEF LockIn
  <2> QED BY <2>1, <2>2, <2>3 DEF SeatAction
<1>3. CASE PlanningTick
  <2>1. StartBattle(plans) \/ record' = record
    BY <1>3 DEF PlanningTick
  <2> QED BY <1>0, <1>1, <1>3, <2>1, StartTakesNoCast DEF PlanningTick
<1>4. CASE BattlePhaseTick
  BY <1>4, FinishTakesNoCast DEF BattlePhaseTick
<1>5. CASE RoundOverTick
  BY <1>1, <1>5 DEF RoundOverTick
<1>6. CASE Abandon
  <2>1. record'.rounds = record.rounds
    BY <1>0, <1>6 DEF Abandon, MatchTypeOK, Record
  <2> QED BY <1>6, <2>1 DEF Abandon, SameCasts
<1>7. CASE UNCHANGED vars
  BY <1>1, <1>7 DEF vars
<1> QED BY <1>2, <1>3, <1>4, <1>5, <1>6, <1>7 DEF SessionNext, Tick

(* A command that gets an answer it did not have.                           *)
Entry(s, c) ==
  IF phase = "battle"
  THEN IF Refusal(s, c) = "none" THEN Accepted(c)
       ELSE Rejected(c, Refusal(s, c), roundNumber)
  ELSE Rejected(c, IF phase = "planning" THEN "wrongPhase" ELSE "roundOver", 0)

LEMMA FirstAnswer ==
  ASSUME SessionInv, NEW s \in Side, NEW c \in Command, Cast(s, c), ~Retry(s, c)
  PROVE  /\ ~Answered(ledger[s], c.id)
         /\ Answer(s, Entry(s, c))
         /\ Entry(s, c) \in LedgerEntry /\ Entry(s, c).id = c.id
         /\ \/ CastAccepted(s, c) /\ Entry(s, c).accepted
            \/ record' = record /\ ~Entry(s, c).accepted
<1>0. MatchTypeOK /\ RoundInv
  BY DEF SessionInv
<1>1. c.id \in CommandId
  BY DEF Command
<1>2. CASE CastOutsideBattle(s, c)
  <2> DEFINE why == IF phase = "planning" THEN "wrongPhase" ELSE "roundOver"
  <2>1. why \in Reason /\ Entry(s, c) = Rejected(c, why, 0)
    BY <1>2 DEF CastOutsideBattle, Reason, Entry
  <2>2. Answer(s, Rejected(c, why, 0)) /\ ~Answered(ledger[s], c.id) /\ record' = record
    BY <1>2 DEF CastOutsideBattle
  <2> HIDE DEF why
  <2>3. Rejected(c, why, 0) \in LedgerEntry
    BY <2>1, RejectedType
  <2> QED BY <2>1, <2>2, <2>3 DEF Rejected
<1>3. CASE CastRefused(s, c)
  <2>1. /\ Refusal(s, c) \in Reason /\ Refusal(s, c) # "none" /\ phase = "battle"
        /\ Answer(s, Rejected(c, Refusal(s, c), roundNumber))
        /\ ~Answered(ledger[s], c.id) /\ record' = record
    BY <1>3 DEF CastRefused, Refusal, Reason
  <2>2. Entry(s, c) = Rejected(c, Refusal(s, c), roundNumber)
    BY <2>1 DEF Entry
  <2>3. Rejected(c, Refusal(s, c), roundNumber) \in LedgerEntry
    BY <1>0, <2>1, RejectedType DEF MatchTypeOK
  <2> QED BY <2>1, <2>2, <2>3 DEF Rejected
<1>4. CASE CastAccepted(s, c)
  <2>1. /\ Refusal(s, c) = "none" /\ phase = "battle" /\ Answer(s, Accepted(c))
        /\ ~Answered(ledger[s], c.id)
    BY <1>4 DEF CastAccepted, AcceptCast
  <2>2. Entry(s, c) = Accepted(c)
    BY <2>1 DEF Entry
  <2>3. TargetTick \in Nat /\ nextOrder \in Nat /\ roundNumber \in Nat
    BY <1>0, FieldType DEF RoundInv, RoundTypeOK, MatchTypeOK, TargetTick
  <2>4. Accepted(c) \in LedgerEntry
    BY <1>1, <2>3 DEF Accepted, LedgerEntry, Reason
  <2>5. Accepted(c).id = c.id /\ Accepted(c).accepted
    BY DEF Accepted
  <2>6. Entry(s, c).id = c.id /\ Entry(s, c).accepted
    BY <2>2, <2>5
  <2>7. Answer(s, Entry(s, c)) /\ Entry(s, c) \in LedgerEntry
    BY <2>1, <2>2, <2>4
  <2> QED BY <1>4, <2>1, <2>6, <2>7, Zenon
<1> QED BY <1>2, <1>3, <1>4 DEF Cast

LEMMA OnceStep ==
  ASSUME OnceInv, [SessionNext]_vars
  PROVE  OnceInv'
<1>0. SessionInv /\ SessionInv' /\ MatchTypeOK
  BY SessionStep DEF OnceInv, SessionInv
<1>1. ASSUME UNCHANGED commandVars, SameCasts(record'.rounds, record.rounds)
      PROVE  OnceInv'
  <2>1. \A s, id : Charged(s, id)' = Charged(s, id)
    BY <1>1, NobodyCharged
  <2>2. \A s \in Side : OneEach(ledger'[s])
    BY <1>1 DEF OnceInv, commandVars
  <2> QED BY <1>0, <2>1, <2>2 DEF OnceInv, OneEach
<1>2. ASSUME NEW s \in Side, NEW c \in Command, Cast(s, c)
      PROVE  OnceInv'
  <2>1. CASE Retry(s, c)
    <3>1. ledger' = ledger /\ record' = record
      BY <2>1 DEF Retry
    <3>2. \A x, id : Charged(x, id)' = Charged(x, id)
      BY <3>1 DEF Charged
    <3> QED BY <1>0, <3>1, <3>2 DEF OnceInv, OneEach
  <2>2. CASE ~Retry(s, c)
    <3> DEFINE new == Recorded(ledger[s], Entry(s, c))
    <3>1. /\ ledger' = [ledger EXCEPT ![s] = new]
          /\ Entry(s, c) \in LedgerEntry
          /\ CastAccepted(s, c) \/ record' = record
      BY <1>0, <1>2, <2>2, FirstAnswer DEF Answer
    <3>2. OneEach(new)
      BY <1>0, <3>1, RecordedOnce DEF OnceInv, MatchTypeOK
    <3> HIDE DEF new
    <3>3. \A x \in Side : OneEach(ledger'[x])
      BY <1>0, <3>1, <3>2 DEF OnceInv, MatchTypeOK
    <3>4. \A x \in Side, id \in CommandId : IsFiniteSet(Charged(x, id)')
      <4>1. CASE CastAccepted(s, c)
        <5>1. PICK pair :
                /\ pair \notin Charged(s, c.id)
                /\ \A x, id : Charged(x, id)' =
                     IF x = s /\ id = c.id THEN Charged(x, id) \cup {pair}
                                           ELSE Charged(x, id)
          BY <1>0, <4>1, TakenIsCharged
        <5>2. \A x \in Side, id \in CommandId : IsFiniteSet(Charged(x, id))
          BY DEF OnceInv
        <5>3. ASSUME NEW x \in Side, NEW id \in CommandId
              PROVE  IsFiniteSet(Charged(x, id)')
          <6>1. IsFiniteSet(Charged(x, id)) /\ IsFiniteSet(Charged(x, id) \cup {pair})
            BY <5>2, FS_AddElement
          <6> QED BY <5>1, <6>1
        <5> QED BY <5>3
      <4>2. CASE record' = record
        BY <4>2 DEF Charged, OnceInv
      <4> QED BY <3>1, <4>1, <4>2
    <3> QED BY <1>0, <3>3, <3>4 DEF OnceInv, OneEach
  <2> QED BY <2>1, <2>2
<1> QED BY <1>0, <1>1, <1>2, OnlyCastsCharge

(* The invariant holds of every match, forgetful ledger or not.             *)
LEMMA OnceInvariant == SessionSpec => []OnceInv
<1>1. SessionInit => OnceInv
  <2> SUFFICES ASSUME SessionInit PROVE OnceInv
    OBVIOUS
  <2>1. record.rounds = << >> /\ \A s \in Side : ledger[s] = << >>
    BY DEF SessionInit
  <2>2. \A s, id : Charged(s, id) = {}
    BY <2>1 DEF Charged
  <2>3. \A s \in Side : OneEach(ledger[s])
    BY <2>1 DEF OneEach
  <2>4. \A s \in Side, id \in CommandId : IsFiniteSet(Charged(s, id))
    BY <2>2, FS_EmptySet
  <2> QED BY <2>3, <2>4, SessionInvInit DEF OnceInv
<1>2. OnceInv /\ [SessionNext]_vars => OnceInv'
  BY OnceStep
<1> QED BY <1>1, <1>2, PTL DEF SessionSpec

(* As long as the ledger forgets no command it answered.                    *)
Remembers == \A s \in Side : \A i \in DOMAIN ledger[s] :
               Answered(ledger'[s], ledger[s][i].id)
NothingForgotten == [][Remembers]_vars

(* It then only ever grows at its end.                                      *)
LEMMA RecordedGrows ==
  ASSUME NEW S, NEW entries \in Seq(S), OneEach(entries), NEW entry \in S,
         ~Answered(entries, entry.id),
         \A i \in DOMAIN entries : Answered(Recorded(entries, entry), entries[i].id)
  PROVE  Recorded(entries, entry) = Append(entries, entry)
<1>1. CASE Len(entries) < MaxEntries
  BY <1>1 DEF Recorded
<1>2. CASE ~(Len(entries) < MaxEntries)
  <2> DEFINE t == Tail(entries)
             q == Append(t, entry)
             n == Len(entries)
  <2>1. entries # << >> /\ n \in Nat \ {0} /\ DOMAIN entries = 1..n
    BY <1>2, LedgerAssumption
  <2>2. /\ t \in Seq(S) /\ Len(t) = n - 1
        /\ \A i \in 1..(n - 1) : t[i] = entries[i + 1]
    BY <2>1
  <2>3. Recorded(entries, entry) = q
    BY <1>2 DEF Recorded
  <2>4. 1 \in DOMAIN entries
    BY <2>1
  <2>5. Answered(q, entries[1].id)
    BY <2>3, <2>4
  <2> HIDE DEF t, n
  <2>6. /\ DOMAIN q = 1..n /\ q[n] = entry
        /\ \A i \in 1..(n - 1) : q[i] = entries[i + 1]
    BY <2>1, <2>2
  <2> HIDE DEF q
  <2>7. PICK i \in 1..n : q[i].id = entries[1].id
    BY <2>5, <2>6 DEF Answered
  <2>8. CASE i = n
    BY <2>4, <2>6, <2>7, <2>8 DEF Answered
  <2>9. CASE i # n
    <3>1. i \in 1..(n - 1) /\ i + 1 \in DOMAIN entries /\ i + 1 # 1
      BY <2>1, <2>9
    <3>2. entries[i + 1].id = entries[1].id
      BY <2>6, <2>7, <3>1
    <3> QED BY <2>4, <3>1, <3>2 DEF OneEach
  <2> QED BY <2>8, <2>9
<1> QED BY <1>1, <1>2

(* The contract's state, as the session keeps it.                           *)
Told == {<< <<m.to, m.id>>, IF m.accepted THEN "accepted" ELSE "refused">> :
           m \in answers}
Verdicts == [c \in Side \X CommandId |-> VerdictOf(c[1], c[2])]
Charges == [c \in Side \X CommandId |-> Cardinality(Charged(c[1], c[2]))]

(* A new message is told, and nothing else becomes or ceases to be.         *)
LEMMA MessageTold ==
  ASSUME NEW s, NEW entry, answers' = answers \cup {Message(s, entry)}
  PROVE  Told' = Told \cup
           {<< <<s, entry.id>>, IF entry.accepted THEN "accepted" ELSE "refused">>}
<1> DEFINE T(m) == << <<m.to, m.id>>, IF m.accepted THEN "accepted" ELSE "refused">>
<1>1. Told = {T(m) : m \in answers} /\ Told' = {T(m) : m \in answers'}
  BY DEF Told
<1>2. T(Message(s, entry))
        = << <<s, entry.id>>, IF entry.accepted THEN "accepted" ELSE "refused">>
  BY DEF Message
<1> HIDE DEF T
<1> QED BY <1>1, <1>2

(* A retry is the contract's repeat.                                        *)
LEMMA RetryRepeats ==
  ASSUME OnceInv, NEW s \in Side, NEW c \in Command, Cast(s, c), Retry(s, c)
  PROVE  Contract!Repeat(<<s, c.id>>)
<1> DEFINE entry == AnswerOf(ledger[s], c.id)
           p == <<s, c.id>>
<1>1. p \in Side \X CommandId /\ p[1] = s /\ p[2] = c.id
  BY DEF Command
<1>2. /\ Answered(ledger[s], c.id) /\ answers' = answers \cup {Message(s, entry)}
      /\ ledger' = ledger /\ record' = record
  BY DEF Retry
<1>3. entry.id = c.id
  <2>1. PICK i \in DOMAIN ledger[s] : ledger[s][i].id = c.id
    BY <1>2 DEF Answered
  <2>2. AnswerOf(ledger[s], ledger[s][i].id) = ledger[s][i]
    BY AnswerFound DEF OnceInv
  <2> QED BY <2>1, <2>2
<1>4. Verdicts[p] = (IF entry.accepted THEN "accepted" ELSE "refused")
  <2>1. Verdicts[p] = VerdictOf(s, c.id)
    BY <1>1 DEF Verdicts
  <2> QED BY <2>1, <1>2 DEF VerdictOf
<1> HIDE DEF entry, p
<1>5. Verdicts[p] # "undecided"
  BY <1>4
<1>6. Told' = Told \cup {<<p, Verdicts[p]>>}
  BY <1>2, <1>3, <1>4, MessageTold DEF p
<1>7. Verdicts' = Verdicts /\ Charges' = Charges
  BY <1>2 DEF Verdicts, Charges, VerdictOf, Charged
<1> QED BY <1>5, <1>6, <1>7 DEF Contract!Repeat, Told, Verdicts, Charges, p

(* A first answer is the contract's decision.                               *)
LEMMA AnswerDecides ==
  ASSUME OnceInv, Remembers, NEW s \in Side, NEW c \in Command, Cast(s, c), ~Retry(s, c)
  PROVE  Contract!Decide(<<s, c.id>>,
                         IF Entry(s, c).accepted THEN "accepted" ELSE "refused")
<1> DEFINE entry == Entry(s, c)
           p == <<s, c.id>>
           v == IF entry.accepted THEN "accepted" ELSE "refused"
           both == Side \X CommandId
<1>0. SessionInv /\ MatchTypeOK
  BY DEF OnceInv, SessionInv
<1>1. p \in both /\ p[1] = s /\ p[2] = c.id
  BY DEF Command
<1>2. /\ ~Answered(ledger[s], entry.id) /\ entry.id = c.id
      /\ ledger' = [ledger EXCEPT ![s] = Recorded(ledger[s], entry)]
      /\ answers' = answers \cup {Message(s, entry)}
      /\ entry \in LedgerEntry
      /\ \/ CastAccepted(s, c) /\ entry.accepted
         \/ record' = record /\ ~entry.accepted
  BY <1>0, FirstAnswer DEF Answer
<1> HIDE DEF entry
<1>3. /\ ledger \in [Side -> Seq(LedgerEntry)] /\ ledger[s] \in Seq(LedgerEntry)
      /\ OneEach(ledger[s])
  BY <1>0 DEF MatchTypeOK, OnceInv
<1> DEFINE new == Recorded(ledger[s], entry)
<1>4. new = Append(ledger[s], entry)
  <2>1. ledger'[s] = new
    BY <1>2, <1>3
  <2>2. \A i \in DOMAIN ledger[s] : Answered(new, ledger[s][i].id)
    BY <2>1 DEF Remembers
  <2> QED BY <1>2, <1>3, <2>2, RecordedGrows
<1> HIDE DEF new
<1>5. /\ ledger'[s] = new /\ \A x \in Side : x # s => ledger'[x] = ledger[x]
  BY <1>2, <1>3 DEF new
<1>6. /\ \A id : Answered(new, id) <=> Answered(ledger[s], id) \/ id = c.id
      /\ AnswerOf(new, c.id) = entry
      /\ \A id : Answered(ledger[s], id) => AnswerOf(new, id) = AnswerOf(ledger[s], id)
  BY <1>2, <1>3, <1>4, AnswerAdded
<1>7. VerdictOf(s, c.id) = "undecided" /\ VerdictOf(s, c.id)' = v
  BY <1>2, <1>5, <1>6 DEF VerdictOf
<1>8. ASSUME NEW x \in Side, NEW id, ~(x = s /\ id = c.id)
      PROVE  VerdictOf(x, id)' = VerdictOf(x, id)
  <2>1. CASE x = s
    BY <2>1, <1>5, <1>6, <1>8 DEF VerdictOf
  <2>2. CASE x # s
    BY <2>2, <1>5 DEF VerdictOf
  <2> QED BY <2>1, <2>2
<1>9. v \in {"accepted", "refused"} /\ (v = "accepted" <=> entry.accepted)
  OBVIOUS
<1> HIDE DEF v, p, both
<1>10. ASSUME NEW y \in both PROVE y[1] \in Side /\ y[2] \in CommandId /\ y = <<y[1], y[2]>>
  BY DEF both
<1>11. Verdicts[p] = "undecided" /\ Verdicts' = [Verdicts EXCEPT ![p] = v]
  <2>1. /\ Verdicts = [y \in both |-> VerdictOf(y[1], y[2])]
        /\ Verdicts' = [y \in both |-> VerdictOf(y[1], y[2])']
    BY DEF Verdicts, both
  <2>2. ASSUME NEW y \in both
        PROVE  VerdictOf(y[1], y[2])' = IF y = p THEN v ELSE VerdictOf(y[1], y[2])
    <3>1. CASE y = p
      BY <3>1, <1>1, <1>7
    <3>2. CASE y # p
      <4>1. ~(y[1] = s /\ y[2] = c.id)
        BY <3>2, <1>10 DEF p
      <4> QED BY <3>2, <4>1, <1>8, <1>10
    <3> QED BY <3>1, <3>2
  <2>3. Verdicts' = [y \in both |-> IF y = p THEN v ELSE VerdictOf(y[1], y[2])]
    BY <2>1, <2>2
  <2> QED BY <2>1, <2>3, <1>1, <1>7
<1>12. Told' = Told \cup {<<p, v>>}
  BY <1>2, MessageTold DEF p, v
<1>13. Charges' = IF v = "accepted" THEN [Charges EXCEPT ![p] = @ + 1] ELSE Charges
  <2>1. /\ Charges = [y \in both |-> Cardinality(Charged(y[1], y[2]))]
        /\ Charges' = [y \in both |-> Cardinality(Charged(y[1], y[2])')]
    BY DEF Charges, both
  <2>2. CASE record' = record /\ ~entry.accepted
    <3>1. \A x, id : Charged(x, id)' = Charged(x, id)
      BY <2>2 DEF Charged
    <3> QED BY <2>1, <2>2, <3>1, <1>9
  <2>3. CASE CastAccepted(s, c) /\ entry.accepted
    <3>1. PICK pair :
            /\ pair \notin Charged(s, c.id)
            /\ \A x, id : Charged(x, id)' =
                 IF x = s /\ id = c.id THEN Charged(x, id) \cup {pair}
                                       ELSE Charged(x, id)
      BY <1>0, <2>3, TakenIsCharged
    <3>2. c.id \in CommandId /\ IsFiniteSet(Charged(s, c.id))
      BY DEF OnceInv, Command
    <3>3. Cardinality(Charged(s, c.id) \cup {pair}) = Cardinality(Charged(s, c.id)) + 1
      BY <3>1, <3>2, FS_AddElement
    <3>4. ASSUME NEW y \in both
          PROVE  Cardinality(Charged(y[1], y[2])')
                   = IF y = p THEN Charges[p] + 1 ELSE Cardinality(Charged(y[1], y[2]))
      <4>1. CASE y = p
        <5>1. Charges[p] = Cardinality(Charged(s, c.id))
          BY <2>1, <1>1
        <5>2. Charged(y[1], y[2])' = Charged(s, c.id) \cup {pair}
          BY <3>1, <4>1, <1>1
        <5> QED BY <3>3, <4>1, <5>1, <5>2
      <4>2. CASE y # p
        <5>1. ~(y[1] = s /\ y[2] = c.id)
          BY <4>2, <1>10 DEF p
        <5>2. Charged(y[1], y[2])' = Charged(y[1], y[2])
          BY <3>1, <5>1
        <5> QED BY <4>2, <5>2
      <4> QED BY <4>1, <4>2
    <3>5. Charges' = [y \in both |-> IF y = p THEN Charges[p] + 1
                                     ELSE Cardinality(Charged(y[1], y[2]))]
      BY <2>1, <3>4
    <3>6. Charges' = [Charges EXCEPT ![p] = Charges[p] + 1]
      BY <2>1, <3>5, <1>1
    <3> QED BY <2>3, <3>6, <1>9
  <2> QED BY <1>2, <2>2, <2>3
<1>14. Contract!Decide(p, v)
  BY <1>11, <1>12, <1>13 DEF Contract!Decide, Told, Verdicts, Charges
<1> QED BY <1>14 DEF p, v, entry

(* The match keeps its promise about casts as long as its ledger forgets no *)
(* command: a command is decided once, whatever is said of it afterwards,   *)
(* in that battle or a later round, repeats the decision, and it is charged *)
(* for once and only if it was accepted (session.py, cast; commands.py).    *)
THEOREM CastsKeepContract == SessionSpec /\ NothingForgotten => KeepsContract
<1>1. SessionInit => Contract!Init
  <2> SUFFICES ASSUME SessionInit PROVE Contract!Init
    OBVIOUS
  <2>1. record.rounds = << >> /\ answers = {} /\ \A s \in Side : ledger[s] = << >>
    BY DEF SessionInit
  <2>2. \A s, id : Charged(s, id) = {}
    BY <2>1 DEF Charged
  <2>3. \A s \in Side, id \in CommandId : VerdictOf(s, id) = "undecided"
    BY <2>1 DEF VerdictOf, Answered
  <2>4. Verdicts = [c \in Side \X CommandId |-> "undecided"]
    BY <2>3 DEF Verdicts
  <2>5. Charges = [c \in Side \X CommandId |-> 0]
    BY <2>2, FS_EmptySet DEF Charges
  <2>6. Told = {}
    BY <2>1 DEF Told
  <2> QED BY <2>4, <2>5, <2>6 DEF Contract!Init, Told, Verdicts, Charges
<1>2. OnceInv /\ [SessionNext]_vars /\ [Remembers]_vars
        => [Contract!Next]_(Contract!contractVars)
  <2> SUFFICES ASSUME OnceInv, [SessionNext]_vars, [Remembers]_vars
               PROVE  [Contract!Next]_(Contract!contractVars)
    OBVIOUS
  <2>1. ASSUME Told' = Told, Verdicts' = Verdicts, Charges' = Charges
        PROVE  UNCHANGED Contract!contractVars
    BY <2>1 DEF Contract!contractVars, Told, Verdicts, Charges
  <2>2. CASE \E s \in Side, c \in Command : Cast(s, c)
    <3>1. PICK s \in Side, c \in Command : Cast(s, c)
      BY <2>2
    <3>2. <<s, c.id>> \in Side \X CommandId
      BY DEF Command
    <3>3. CASE Retry(s, c)
      <4>1. Contract!Repeat(<<s, c.id>>)
        BY <3>1, <3>3, RetryRepeats
      <4> QED BY <3>2, <4>1 DEF Contract!Next
    <3>4. CASE ~Retry(s, c) /\ Remembers
      <4>1. Contract!Decide(<<s, c.id>>,
                            IF Entry(s, c).accepted THEN "accepted" ELSE "refused")
        BY <3>1, <3>4, AnswerDecides
      <4>2. \/ Contract!Decide(<<s, c.id>>, "accepted")
            \/ Contract!Decide(<<s, c.id>>, "refused")
        BY <4>1 DEF Contract!Decide
      <4> QED BY <3>2, <4>2 DEF Contract!Next, Contract!Verdict
    <3>5. CASE vars' = vars
      <4>1. Told' = Told /\ Verdicts' = Verdicts /\ Charges' = Charges
        BY <3>5 DEF Told, Verdicts, Charges, VerdictOf, Charged, vars, commandVars
      <4> QED BY <2>1, <4>1
    <3> QED BY <3>3, <3>4, <3>5
  <2>3. CASE ~\E s \in Side, c \in Command : Cast(s, c)
    <3>1. UNCHANGED commandVars /\ SameCasts(record'.rounds, record.rounds)
      BY <2>3, OnlyCastsCharge DEF OnceInv
    <3>2. \A s, id : Charged(s, id)' = Charged(s, id)
      BY <3>1, NobodyCharged
    <3>3. Told' = Told /\ Verdicts' = Verdicts /\ Charges' = Charges
      BY <3>1, <3>2 DEF Told, Verdicts, Charges, VerdictOf, commandVars
    <3> QED BY <2>1, <3>3
  <2> QED BY <2>2, <2>3
<1> QED BY <1>1, <1>2, OnceInvariant, PTL
        DEF SessionSpec, KeepsContract, Contract!Spec, NothingForgotten

(* A ledger with room for every command there is forgets none.              *)
THEOREM RoomForAllRemembers ==
  ASSUME IsFiniteSet(CommandId), Cardinality(CommandId) <= MaxEntries
  PROVE  SessionSpec => NothingForgotten
<1>1. ASSUME NEW entries \in Seq(LedgerEntry), OneEach(entries), NEW entry \in LedgerEntry
      PROVE  \A i \in DOMAIN entries : Answered(Recorded(entries, entry), entries[i].id)
  <2>1. CASE Answered(entries, entry.id)
    BY <2>1 DEF Recorded, Answered
  <2>2. CASE ~Answered(entries, entry.id)
    <3> DEFINE n == Len(entries)
               ids == CommandId \ {entry.id}
    <3>1. n \in Nat /\ DOMAIN entries = 1..n
      OBVIOUS
    <3>2. entry.id \in CommandId /\ \A i \in 1..n : entries[i].id \in CommandId
      <4>1. \A i \in 1..n : entries[i] \in LedgerEntry
        BY <3>1, ElementOfSeq
      <4> QED BY <4>1 DEF LedgerEntry
    <3>3. IsFiniteSet(ids) /\ Cardinality(ids) = Cardinality(CommandId) - 1
      BY <3>2, FS_RemoveElement
    <3> DEFINE f == [i \in 1..n |-> entries[i].id]
    <3>4. f \in Injection(1..n, ids)
      <4>1. f \in [1..n -> ids]
        BY <2>2, <3>1, <3>2 DEF Answered
      <4>2. \A i, j \in 1..n : f[i] = f[j] => i = j
        BY <1>1, <3>1 DEF OneEach
      <4> QED BY <4>1, <4>2 DEF Injection, IsInjective
    <3>5. Cardinality(1..n) <= Cardinality(ids)
      BY <3>3, <3>4, FS_Injection
    <3>6. Cardinality(1..n) = n
      BY <3>1, FS_Interval
    <3>7. n < MaxEntries
      <4>1. Cardinality(CommandId) \in Nat
        BY FS_CardinalityType
      <4> QED BY <3>1, <3>3, <3>5, <3>6, <4>1, LedgerAssumption
    <3>8. Recorded(entries, entry) = Append(entries, entry)
      BY <2>2, <3>7 DEF Recorded
    <3>9. \A i \in DOMAIN entries : Answered(entries, entries[i].id)
      BY DEF Answered
    <3> QED BY <1>1, <2>2, <3>8, <3>9, AnswerAdded
  <2> QED BY <2>1, <2>2
<1>2. OnceInv /\ [SessionNext]_vars => [Remembers]_vars
  <2> SUFFICES ASSUME OnceInv, [SessionNext]_vars PROVE Remembers
    OBVIOUS
  <2>1. ASSUME ledger' = ledger PROVE Remembers
    BY <2>1 DEF Remembers, Answered
  <2>2. CASE ~\E s \in Side, c \in Command : Cast(s, c)
    BY <2>1, <2>2, OnlyCastsCharge DEF OnceInv, commandVars
  <2>3. ASSUME NEW s \in Side, NEW c \in Command, Cast(s, c) PROVE Remembers
    <3>1. CASE Retry(s, c)
      BY <2>1, <3>1 DEF Retry
    <3>2. CASE ~Retry(s, c)
      <4> DEFINE new == Recorded(ledger[s], Entry(s, c))
      <4>1. /\ ledger' = [ledger EXCEPT ![s] = new] /\ Entry(s, c) \in LedgerEntry
            /\ ledger \in [Side -> Seq(LedgerEntry)] /\ OneEach(ledger[s])
        BY <2>3, <3>2, FirstAnswer DEF Answer, OnceInv, SessionInv, MatchTypeOK
      <4>2. \A i \in DOMAIN ledger[s] : Answered(new, ledger[s][i].id)
        BY <1>1, <4>1
      <4> HIDE DEF new
      <4>3. /\ ledger'[s] = new /\ \A x \in Side : x # s => ledger'[x] = ledger[x]
        BY <4>1
      <4>4. \A x \in Side : x # s => \A i \in DOMAIN ledger[x] : Answered(ledger'[x], ledger[x][i].id)
        BY <4>3 DEF Answered
      <4> QED BY <4>2, <4>3, <4>4 DEF Remembers
    <3> QED BY <3>1, <3>2
  <2> QED BY <2>2, <2>3
<1> QED BY <1>2, OnceInvariant, PTL DEF SessionSpec, NothingForgotten


=============================================================================
