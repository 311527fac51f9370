------------------------- MODULE GameServiceProofs -------------------------
(***************************************************************************)
(* What GameService promises, for any requests in flight, users, seats,    *)
(* reservations, tokens and restarts.                                      *)
(*                                                                         *)
(* Every request is cut at its awaits, so the invariant has to say what a  *)
(* request that waits in the middle may rely on: RequestInv.  LoopInv ties *)
(* the clock's task to the session it plays, and StoredInv carries what is *)
(* persisted from the first step of the finish path to its report.         *)
(***************************************************************************)
EXTENDS GameService, FiniteSetTheorems, WellFoundedInduction, TLAPS

(* A session exists for a stored match only, under its run, and seats       *)
(* nobody the store does not.                                               *)
SessionInv ==
  /\ live.present => Exists /\ SessionMatchesStore
  /\ ~live.present => live = NoSession /\ loop = "none"

(* What a request may rely on after each of its awaits.                     *)
RequestInv ==
  \A r \in Caller :
    LET q == requests[r] IN
    /\ q.at = "session" => Exists
    /\ q.at \in {"claim", "land"} => live.present /\ q.seat \in Seats
    /\ q.at = "land" =>
         /\ q.player # 0 /\ seats[q.seat].player = q.player
         /\ ~ReservedForAnother(q.seat, q.user)
    /\ q.kind = "tokenClaim" => q.user # NoUser

(* The task is past its last tick exactly when the match is over, and has   *)
(* not begun only while nobody sits.                                        *)
LoopInv ==
  /\ live.over <=> loop \notin {"none", "ticking"}
  /\ loop = "none" => \A s \in Seats : live.player[s] = 0

(* From the record on, every reserved user's row holds this play.           *)
StoredInv ==
  /\ \A u \in User : results[u] =< Play
  /\ \A s \in Seats : live.present /\ Reserved[s] # NoUser => live.user[s] = Reserved[s]
  /\ loop \in {"record", "report", "mark"} =>
       \A s \in Seats : Reserved[s] # NoUser => results[Reserved[s]] >= Play
  /\ ToldIsStored

ServiceInv == ServiceTypeOK /\ SessionInv /\ RequestInv /\ LoopInv /\ StoredInv

-----------------------------------------------------------------------------
(* Lemmas on the operators.                                                 *)

(* Min of a set of naturals is in it.                                       *)
LEMMA LeastIsMember ==
  ASSUME NEW S \in SUBSET Nat, S # {}
  PROVE  Min(S) \in S
<1> DEFINE Less == {p \in Nat \X Nat : p[1] < p[2]}
<1>1. IsWellFoundedOn(Less, Nat)
  BY NatLessThanWellFounded DEF OpToRel
<1> HIDE DEF Less
<1>2. PICK x \in S : \A y \in S : <<y, x>> \notin Less
  BY <1>1, WFMin
<1>3. ASSUME NEW y \in S
      PROVE  x =< y
  <2>1. y < x => <<y, x>> \in Less
    BY DEF Less
  <2>2. QED
    BY <1>2, <2>1
<1>4. QED
  BY <1>3 DEF Min

(* The finish path, step by step.                                           *)
LEMMA FinishPathOrder ==
  /\ FinishPath[1] = "results"
  /\ After("results") = "record"
  /\ After("record") = "report"
  /\ After("report") = "mark"
  /\ After("mark") = "done"
<1>1. /\ DOMAIN FinishPath = 1..4 /\ Len(FinishPath) = 4
      /\ FinishPath[1] = "results" /\ FinishPath[2] = "record"
      /\ FinishPath[3] = "report" /\ FinishPath[4] = "mark"
  BY DEF FinishPath
<1>2. ASSUME NEW i \in 1..4, NEW j \in 1..4
      PROVE  FinishPath[i] = FinishPath[j] => i = j
  BY <1>1
<1>3. ASSUME NEW i \in 1..4
      PROVE  After(FinishPath[i]) = IF i = 4 THEN "done" ELSE FinishPath[i + 1]
  <2>1. (CHOOSE j \in DOMAIN FinishPath : FinishPath[j] = FinishPath[i]) = i
    BY <1>1, <1>2
  <2>2. QED
    BY <2>1, <1>1 DEF After
<1>4. QED
  BY <1>1, <1>3

(* A credential minted for an open seat is numbered within the seats.       *)
LEMMA MintedFits ==
  ASSUME ServiceTypeOK, NEW s \in Seats, ~Taken(s)
  PROVE  Minted \in 1..Cardinality(Seats)
<1> DEFINE Held == {t \in Seats : Taken(t)}
<1>1. IsFiniteSet(Seats) /\ Cardinality(Seats) \in Nat
  BY ServiceAssumption, FS_CardinalityType
<1>2. IsFiniteSet(Held) /\ Cardinality(Held) \in Nat
  BY <1>1, FS_Subset, FS_CardinalityType
<1>3. Held \cup {s} \in SUBSET Seats /\ s \notin Held
  OBVIOUS
<1> HIDE DEF Held
<1>4. Cardinality(Held \cup {s}) = Cardinality(Held) + 1
  BY <1>2, <1>3, FS_AddElement
<1>5. Cardinality(Held \cup {s}) =< Cardinality(Seats)
  BY <1>1, <1>3, FS_Subset
<1>6. Minted = Cardinality(Held) + 1
  BY DEF Minted, Held
<1>7. QED
  BY <1>1, <1>2, <1>4, <1>5, <1>6

(* The player id a welcome claim is answered with.                          *)
LEMMA PlayerIdFits ==
  ASSUME ServiceTypeOK, NEW s \in Seats, NEW u, Welcome(s, u)
  PROVE  PlayerId(s, u) \in Player \ {0}
<1>1. Cardinality(Seats) \in Nat
  BY ServiceAssumption, FS_CardinalityType
<1>2. CASE Taken(s)
  BY <1>2, <1>1 DEF ServiceTypeOK, Kept, Welcome, PlayerId, IsHolder, Taken, Player
<1>3. CASE ~Taken(s)
  <2>1. PlayerId(s, u) = Minted
    BY <1>3 DEF PlayerId, IsHolder
  <2>2. QED
    BY <2>1, <1>3, <1>1, MintedFits DEF Player
<1>4. QED
  BY <1>2, <1>3

(* A claim that is welcome leaves a taken seat as it is.                    *)
LEMMA ReturningKeepsTheSeat ==
  ASSUME ServiceTypeOK, NEW s \in Seats, NEW u, Welcome(s, u), Taken(s)
  PROVE  [user |-> u, player |-> PlayerId(s, u)] = seats[s]
<1>1. seats[s] \in Kept
  BY DEF ServiceTypeOK
<1>2. seats[s].user = u /\ PlayerId(s, u) = seats[s].player
  BY DEF Welcome, IsHolder, PlayerId
<1>3. QED
  BY <1>1, <1>2 DEF Kept

(* The session no request has made yet has the type of a session.           *)
LEMMA NoSessionType == NoSession \in Session
<1>1. 0 \in Player
  BY ServiceAssumption, FS_CardinalityType DEF Player
<1>2. /\ [s \in Seats |-> NoUser] \in [Seats -> User \cup {NoUser}]
      /\ [s \in Seats |-> 0] \in [Seats -> Player]
  BY <1>1
<1>3. QED
  BY <1>2 DEF NoSession, Session

(* The session a request finds or makes is one of the stored match.         *)
LEMMA EnsuredSession ==
  ASSUME ServiceInv, Exists, NEW hasToken \in BOOLEAN, EnsureSession(hasToken),
         UNCHANGED <<storeVars, loop, told, restarts>>
  PROVE  /\ live' \in Session /\ live'.present
         /\ live.present => live' = live
         /\ SessionInv' /\ LoopInv' /\ StoredInv'
<1>1. CASE live.present
  <2>1. live' = live
    BY <1>1 DEF EnsureSession
  <2>2. QED
    BY <2>1, <1>1 DEF ServiceInv, ServiceTypeOK, SessionInv, SessionMatchesStore,
         LoopInv, StoredInv, ToldIsStored, Play, Exists, storeVars
<1>2. CASE ~live.present
  <2>1. live' = [NoSession EXCEPT
                   !.present = TRUE,
                   !.token = Lobbied /\ (hasToken \/ StoresToken),
                   !.run = row.run,
                   !.user = [s \in Seats |-> IF Reserved[s] # NoUser THEN Reserved[s]
                                             ELSE seats[s].user]]
    BY <1>2 DEF EnsureSession
  <2> DEFINE Known == [s \in Seats |-> IF Reserved[s] # NoUser THEN Reserved[s]
                                       ELSE seats[s].user]
             Authorised == Lobbied /\ (hasToken \/ StoresToken)
  <2>2. /\ Known \in [Seats -> User \cup {NoUser}] /\ Authorised \in BOOLEAN
        /\ row.run \in 0..1
    BY ServiceAssumption DEF ServiceInv, ServiceTypeOK, Kept
  <2>3. live' \in Session
    <3>1. live' = [NoSession EXCEPT !.present = TRUE, !.token = Authorised,
                                    !.run = row.run, !.user = Known]
      BY <2>1
    <3> HIDE DEF Known, Authorised
    <3>2. QED
      BY <3>1, <2>2, NoSessionType DEF Session
  <2>4. /\ live'.present /\ ~live'.over /\ live'.run = row.run
        /\ \A s \in Seats : live'.player[s] = 0
        /\ \A s \in Seats : Reserved[s] # NoUser => live'.user[s] = Reserved[s]
    BY <2>1 DEF NoSession
  <2>5. loop = "none" /\ ~live.over
    BY <1>2 DEF ServiceInv, SessionInv, NoSession
  <2>6. QED
    BY <1>2, <2>3, <2>4, <2>5 DEF ServiceInv, ServiceTypeOK, SessionInv,
       SessionMatchesStore, LoopInv, StoredInv, ToldIsStored, Play, Exists, storeVars
<1>3. QED
  BY <1>1, <1>2

-----------------------------------------------------------------------------
(* The invariant holds at the start.                                        *)
LEMMA ServiceStart == ServiceInit => ServiceInv
<1> SUFFICES ASSUME ServiceInit PROVE ServiceInv
  OBVIOUS
<1>1. Cardinality(Seats) \in Nat
  BY ServiceAssumption, FS_CardinalityType
<1>2. ServiceTypeOK
  <2>1. live \in Session
    BY NoSessionType DEF ServiceInit
  <2>2. requests \in [Caller -> Request]
    BY <1>1 DEF ServiceInit, Request, NoRequest, Player
  <2>3. seats \in [Seats -> Kept]
    BY <1>1 DEF ServiceInit, Kept, Player
  <2>4. row \in [run : 0..1, finished : BOOLEAN, reported : BOOLEAN]
    BY DEF ServiceInit
  <2>5. results \in [User -> 0..MaxRestarts + 1] /\ restarts \in 0..MaxRestarts
    BY ServiceAssumption DEF ServiceInit
  <2>6. QED
    BY <2>1, <2>2, <2>3, <2>4, <2>5 DEF ServiceInit, ServiceTypeOK
<1>3. SessionInv /\ LoopInv
  BY DEF ServiceInit, SessionInv, LoopInv, NoSession
<1>4. RequestInv
  BY DEF ServiceInit, RequestInv, NoRequest
<1>5. StoredInv
  BY DEF ServiceInit, StoredInv, ToldIsStored, Play, NoSession
<1>6. QED
  BY <1>2, <1>3, <1>4, <1>5 DEF ServiceInv

-----------------------------------------------------------------------------
(* Every step keeps the invariant: one lemma per group of actions.          *)

(* A request goes back to none, or one step on.                             *)
LEMMA RequestTyped ==
  ASSUME ServiceTypeOK, NEW r \in Caller,
         Done(r) \/ \E step \in {"read", "upsert", "session", "claim", "land"} :
                       Onward(r, step)
  PROVE  requests' \in [Caller -> Request]
<1>1. NoRequest \in Request
  BY ServiceAssumption, FS_CardinalityType DEF NoRequest, Request, Player
<1>2. CASE Done(r)
  BY <1>1, <1>2 DEF Done, ServiceTypeOK
<1>3. ASSUME NEW step \in {"read", "upsert", "session", "claim", "land"}, Onward(r, step)
      PROVE  requests' \in [Caller -> Request]
  BY <1>3 DEF Onward, ServiceTypeOK, Request
<1>4. QED
  BY <1>2, <1>3

LEMMA ArriveKeeps ==
  ASSUME ServiceInv, NEW r \in Caller, Arrive(r)
  PROVE  ServiceInv'
<1>1. UNCHANGED <<row, seats, results, live, loop, acked, told, restarts>>
  BY DEF Arrive, storeVars
<1>2. requests[r] = NoRequest /\ requests \in [Caller -> Request]
  BY DEF Arrive, ServiceInv, ServiceTypeOK
<1>3. PICK q \in Request :
        /\ requests' = [requests EXCEPT ![r] = q]
        /\ q.at = "read"
        /\ q.kind = "tokenClaim" => q.user # NoUser
  <2>1. CASE requests' = [requests EXCEPT ![r].kind = "push", ![r].at = "read"]
    <3> DEFINE q == [requests[r] EXCEPT !.kind = "push", !.at = "read"]
    <3>1. q \in Request /\ q.at = "read" /\ q.kind = "push"
      BY <1>2 DEF Request
    <3>2. requests' = [requests EXCEPT ![r] = q]
      BY <2>1
    <3>3. QED
      BY <3>1, <3>2
  <2>2. ASSUME NEW t \in Tokens,
               requests' = [requests EXCEPT ![r].kind = "tokenClaim", ![r].at = "read",
                                            ![r].user = t[1], ![r].seat = t[2]]
        PROVE  \E q \in Request :
                 /\ requests' = [requests EXCEPT ![r] = q]
                 /\ q.at = "read"
                 /\ q.kind = "tokenClaim" => q.user # NoUser
    <3> DEFINE q == [requests[r] EXCEPT !.kind = "tokenClaim", !.at = "read",
                                        !.user = t[1], !.seat = t[2]]
    <3>1. t[1] \in User /\ t[2] \in Seats /\ t[1] # NoUser
      BY ServiceAssumption
    <3>2. q \in Request /\ q.at = "read" /\ q.user # NoUser
      BY <1>2, <3>1 DEF Request
    <3>3. requests' = [requests EXCEPT ![r] = q]
      BY <2>2
    <3>4. QED
      BY <3>2, <3>3
  <2>3. ASSUME NEW s \in Seats \cup {AnySeat},
               requests' = [requests EXCEPT ![r].kind = "openClaim", ![r].at = "read",
                                            ![r].seat = s]
        PROVE  \E q \in Request :
                 /\ requests' = [requests EXCEPT ![r] = q]
                 /\ q.at = "read"
                 /\ q.kind = "tokenClaim" => q.user # NoUser
    <3> DEFINE q == [requests[r] EXCEPT !.kind = "openClaim", !.at = "read", !.seat = s]
    <3>1. q \in Request /\ q.at = "read" /\ q.kind = "openClaim"
      BY <1>2 DEF Request
    <3>2. requests' = [requests EXCEPT ![r] = q]
      BY <2>3
    <3>3. QED
      BY <3>1, <3>2
  <2>4. QED
    BY <2>1, <2>2, <2>3 DEF Arrive
<1>4. ServiceTypeOK'
  BY <1>1, <1>2, <1>3 DEF ServiceInv, ServiceTypeOK
<1>5. RequestInv'
  BY <1>1, <1>2, <1>3 DEF ServiceInv, RequestInv, Exists, ReservedForAnother
<1>6. SessionInv' /\ LoopInv' /\ StoredInv'
  BY <1>1 DEF ServiceInv, SessionInv, SessionMatchesStore, LoopInv, StoredInv,
     ToldIsStored, Play, Exists
<1>7. QED
  BY <1>4, <1>5, <1>6 DEF ServiceInv

LEMMA PushReadKeeps ==
  ASSUME ServiceInv, NEW r \in Caller, PushRead(r)
  PROVE  ServiceInv'
<1>1. UNCHANGED <<row, seats, results, loop, acked, told, restarts>>
  BY DEF PushRead, storeVars
<1>2. requests' \in [Caller -> Request]
  BY RequestTyped DEF PushRead, ServiceInv
<1>3. CASE Exists /\ EnsureSession(TRUE) /\ Done(r)
  <2>1. /\ live' \in Session /\ live'.present
        /\ SessionInv' /\ LoopInv' /\ StoredInv'
    BY <1>1, <1>3, EnsuredSession DEF storeVars
  <2>2. RequestInv'
    BY <1>1, <1>3, <2>1 DEF ServiceInv, ServiceTypeOK, RequestInv, Done, NoRequest, Exists,
       ReservedForAnother
  <2>3. QED
    BY <1>1, <1>2, <2>1, <2>2 DEF ServiceInv, ServiceTypeOK
<1>4. CASE Onward(r, "upsert") /\ live' = live
  <2>1. RequestInv'
    BY <1>1, <1>4 DEF ServiceInv, ServiceTypeOK, RequestInv, Onward, Exists,
       ReservedForAnother, Request
  <2>2. QED
    BY <1>1, <1>2, <1>4, <2>1 DEF ServiceInv, ServiceTypeOK, SessionInv,
       SessionMatchesStore, LoopInv, StoredInv, ToldIsStored, Play, Exists
<1>5. QED
  BY <1>3, <1>4 DEF PushRead

LEMMA PushUpsertKeeps ==
  ASSUME ServiceInv, NEW r \in Caller, PushUpsert(r)
  PROVE  ServiceInv'
<1>1. UNCHANGED <<seats, results, live, loop, acked, told, restarts>>
  BY DEF PushUpsert
<1>2. requests' \in [Caller -> Request]
  BY RequestTyped DEF PushUpsert, ServiceInv
<1>3. /\ row' \in [run : 0..1, finished : BOOLEAN, reported : BOOLEAN]
      /\ Exists' /\ (Exists => row' = row)
  BY DEF PushUpsert, UpsertRow, Exists, ServiceInv, ServiceTypeOK
<1>4. RequestInv'
  BY <1>1, <1>3 DEF PushUpsert, Onward, ServiceInv, ServiceTypeOK, Request, RequestInv,
     ReservedForAnother
<1>5. SessionInv' /\ LoopInv' /\ StoredInv'
  BY <1>1, <1>3 DEF ServiceInv, SessionInv, SessionMatchesStore, LoopInv, StoredInv,
     ToldIsStored, Play
<1>6. QED
  BY <1>1, <1>2, <1>3, <1>4, <1>5 DEF ServiceInv, ServiceTypeOK

LEMMA PushSessionKeeps ==
  ASSUME ServiceInv, NEW r \in Caller, PushSession(r)
  PROVE  ServiceInv'
<1>1. UNCHANGED <<row, seats, results, loop, acked, told, restarts>>
  BY DEF PushSession, storeVars
<1>2. requests' \in [Caller -> Request]
  BY RequestTyped DEF PushSession, ServiceInv
<1>3. Exists
  BY DEF PushSession, ServiceInv, RequestInv
<1>4. /\ live' \in Session /\ live'.present
      /\ SessionInv' /\ LoopInv' /\ StoredInv'
  BY <1>1, <1>3, EnsuredSession DEF PushSession, storeVars
<1>5. RequestInv'
  BY <1>1, <1>3, <1>4 DEF PushSession, ServiceInv, ServiceTypeOK, RequestInv, Done,
     NoRequest, Exists, ReservedForAnother
<1>6. QED
  BY <1>1, <1>2, <1>4, <1>5 DEF ServiceInv, ServiceTypeOK

LEMMA ClaimReadKeeps ==
  ASSUME ServiceInv, NEW r \in Caller, ClaimRead(r)
  PROVE  ServiceInv'
<1>1. UNCHANGED <<row, seats, results, loop, acked, told, restarts>>
  BY DEF ClaimRead, storeVars
<1>2. CASE Done(r) /\ live' = live
  <2>1. requests' \in [Caller -> Request]
    BY <1>2, RequestTyped DEF ServiceInv
  <2>2. RequestInv'
    BY <1>1, <1>2 DEF ServiceInv, ServiceTypeOK, RequestInv, Done, NoRequest, Exists,
       ReservedForAnother
  <2>3. QED
    BY <1>1, <1>2, <2>1, <2>2 DEF ServiceInv, ServiceTypeOK, SessionInv,
       SessionMatchesStore, LoopInv, StoredInv, ToldIsStored, Play, Exists
<1>3. CASE /\ Exists
           /\ requests[r].seat = AnySeat => OpenSeats # {}
           /\ EnsureSession(FALSE)
           /\ requests' = [requests EXCEPT
                             ![r].at = "claim",
                             ![r].seat = IF @ = AnySeat THEN Min(OpenSeats) ELSE @]
  <2>1. /\ live' \in Session /\ live'.present
        /\ SessionInv' /\ LoopInv' /\ StoredInv'
    BY <1>1, <1>3, EnsuredSession DEF storeVars
  <2> DEFINE seat == IF requests[r].seat = AnySeat THEN Min(OpenSeats)
                                                  ELSE requests[r].seat
  <2>2. seat \in Seats
    <3>1. OpenSeats \in SUBSET Seats /\ OpenSeats \in SUBSET Nat
      <4>1. Seats \in SUBSET Nat
        BY ServiceAssumption, FS_CardinalityType
      <4>2. QED
        BY <4>1 DEF OpenSeats
    <3>2. requests[r].seat \in Seats \cup {AnySeat}
      BY DEF ServiceInv, ServiceTypeOK, Request
    <3>3. QED
      BY <1>3, <3>1, <3>2, LeastIsMember
  <2>3. requests' = [requests EXCEPT ![r].at = "claim", ![r].seat = seat]
    BY <1>3 DEF ServiceInv, ServiceTypeOK
  <2> HIDE DEF seat
  <2>4. requests' \in [Caller -> Request]
    <3>1. [requests[r] EXCEPT !.at = "claim", !.seat = seat] \in Request
      BY <2>2 DEF ServiceInv, ServiceTypeOK, Request
    <3>2. requests' = [requests EXCEPT ![r] = [requests[r] EXCEPT !.at = "claim", !.seat = seat]]
      BY <2>3
    <3>3. QED
      BY <3>1, <3>2 DEF ServiceInv, ServiceTypeOK
  <2>5. RequestInv'
    BY <1>1, <1>3, <2>1, <2>2, <2>3 DEF ServiceInv, ServiceTypeOK, Request, RequestInv,
       Exists, ReservedForAnother
  <2>6. QED
    BY <1>1, <2>1, <2>4, <2>5 DEF ServiceInv, ServiceTypeOK
<1>4. QED
  BY <1>2, <1>3 DEF ClaimRead

LEMMA ClaimSeatKeeps ==
  ASSUME ServiceInv, NEW r \in Caller, ClaimSeat(r)
  PROVE  ServiceInv'
<1> DEFINE s == requests[r].seat
           u == requests[r].user
<1>1. UNCHANGED <<row, results, live, loop, acked, told, restarts>>
  BY DEF ClaimSeat
<1>2. s \in Seats /\ u \in User \cup {NoUser} /\ live.present
  BY DEF ClaimSeat, ServiceInv, ServiceTypeOK, Request, RequestInv
<1>3. CASE /\ Welcome(s, u)
           /\ seats' = [seats EXCEPT ![s] = [user |-> u, player |-> PlayerId(s, u)]]
           /\ requests' = [requests EXCEPT ![r].at = "land", ![r].player = PlayerId(s, u)]
  <2> DEFINE id == PlayerId(s, u)
  <2>1. id \in Player \ {0}
    BY <1>2, <1>3, PlayerIdFits DEF ServiceInv
  <2>2. ~ReservedForAnother(s, u)
    BY <1>3 DEF Welcome
  <2>3. seats' = [seats EXCEPT ![s] = [user |-> u, player |-> id]]
    BY <1>3
  <2>4. requests' = [requests EXCEPT ![r].at = "land", ![r].player = id]
    BY <1>3
  <2>5. Taken(s) => seats' = seats
    BY <1>2, <1>3, <2>3, ReturningKeepsTheSeat DEF ServiceInv, ServiceTypeOK
  <2>6. \A t \in Seats : seats[t].player # 0 => seats'[t] = seats[t]
    BY <1>2, <2>3, <2>5 DEF Taken, ServiceInv, ServiceTypeOK
  <2> HIDE DEF id
  <2>7. seats' \in [Seats -> Kept] /\ requests' \in [Caller -> Request]
    <3>1. seats' \in [Seats -> Kept]
      BY <1>2, <2>1, <2>3 DEF ServiceInv, ServiceTypeOK, Kept
    <3>2. [requests[r] EXCEPT !.at = "land", !.player = id] \in Request
      BY <2>1 DEF ServiceInv, ServiceTypeOK, Request
    <3>3. requests' = [requests EXCEPT ![r] = [requests[r] EXCEPT !.at = "land", !.player = id]]
      BY <2>4
    <3>4. QED
      BY <3>1, <3>2, <3>3 DEF ServiceInv, ServiceTypeOK
  <2>8. seats'[s].player = id
    BY <1>2, <2>3 DEF ServiceInv, ServiceTypeOK
  <2>9. RequestInv'
    <3>1. ASSUME NEW q \in Caller
          PROVE  LET w == requests'[q] IN
                 /\ w.at = "session" => Exists
                 /\ w.at \in {"claim", "land"} => live.present /\ w.seat \in Seats
                 /\ w.at = "land" =>
                      /\ w.player # 0 /\ seats'[w.seat].player = w.player
                      /\ ~ReservedForAnother(w.seat, w.user)
                 /\ w.kind = "tokenClaim" => w.user # NoUser
      <4>1. CASE q = r
        BY <4>1, <1>2, <2>1, <2>2, <2>4, <2>8 DEF ServiceInv, ServiceTypeOK, Request, RequestInv
      <4>2. CASE q # r
        BY <4>2, <2>4, <2>6 DEF ServiceInv, ServiceTypeOK, Request, RequestInv
      <4>3. QED
        BY <4>1, <4>2
    <3>2. QED
      BY <3>1, <1>1 DEF RequestInv, Exists, ReservedForAnother
  <2>10. SessionInv'
    <3>1. \A t \in Seats : live.player[t] \in {0, seats'[t].player}
      BY <1>2, <2>6 DEF ServiceInv, SessionInv, SessionMatchesStore
    <3>2. QED
      BY <3>1, <1>1 DEF ServiceInv, SessionInv, SessionMatchesStore, Exists
  <2>11. LoopInv' /\ StoredInv'
    BY <1>1 DEF ServiceInv, LoopInv, StoredInv, ToldIsStored, Play
  <2>12. QED
    BY <1>1, <2>7, <2>9, <2>10, <2>11 DEF ServiceInv, ServiceTypeOK
<1>4. CASE Done(r) /\ seats' = seats
  <2>1. requests' \in [Caller -> Request]
    BY <1>4, RequestTyped DEF ServiceInv
  <2>2. RequestInv'
    BY <1>1, <1>4 DEF ServiceInv, ServiceTypeOK, RequestInv, Done, NoRequest, Exists,
       ReservedForAnother
  <2>3. QED
    BY <1>1, <1>4, <2>1, <2>2 DEF ServiceInv, ServiceTypeOK, SessionInv,
       SessionMatchesStore, LoopInv, StoredInv, ToldIsStored, Play, Exists
<1>5. QED
  BY <1>3, <1>4 DEF ClaimSeat

LEMMA ClaimLandKeeps ==
  ASSUME ServiceInv, NEW r \in Caller, ClaimLand(r)
  PROVE  ServiceInv'
<1> DEFINE s == requests[r].seat
           u == requests[r].user
           id == requests[r].player
           name == IF requests[r].kind = "tokenClaim" THEN u ELSE live.user[s]
<1>1. UNCHANGED <<row, seats, results, acked, told, restarts>>
  BY DEF ClaimLand, storeVars
<1>2. /\ s \in Seats /\ live.present /\ Exists
      /\ id # 0 /\ seats[s].player = id
      /\ ~ReservedForAnother(s, u)
      /\ requests[r].kind = "tokenClaim" => u # NoUser
  BY DEF ClaimLand, ServiceInv, RequestInv, SessionInv
<1>3. u \in User \cup {NoUser} /\ id \in Player /\ live \in Session
  BY DEF ServiceInv, ServiceTypeOK, Request
<1>4. name \in User \cup {NoUser} /\ (Reserved[s] # NoUser => name = Reserved[s])
  BY <1>2, <1>3 DEF Session, ServiceInv, StoredInv, ReservedForAnother
<1>5. live' = [live EXCEPT !.player[s] = id, !.user[s] = name]
  BY <1>2, <1>3 DEF ClaimLand, Session
<1>6. loop' = IF MayStart THEN "ticking" ELSE loop
  BY DEF ClaimLand, StartClock
<1>7. requests' \in [Caller -> Request] /\ requests' = [requests EXCEPT ![r] = NoRequest]
  BY RequestTyped DEF ClaimLand, ServiceInv, Done
<1> HIDE DEF s, u, id, name
<1>8. /\ live' \in Session
      /\ live'.present /\ live'.over = live.over /\ live'.run = live.run
      /\ live'.player = [live.player EXCEPT ![s] = id]
      /\ live'.user = [live.user EXCEPT ![s] = name]
  BY <1>2, <1>3, <1>4, <1>5 DEF Session
<1>9. /\ loop' # "none"
      /\ live.over <=> loop' \notin {"none", "ticking"}
      /\ loop' # "ticking" => loop' = loop
  BY <1>6 DEF MayStart, Running, ServiceInv, LoopInv
<1>10. ServiceTypeOK'
  BY <1>1, <1>6, <1>7, <1>8 DEF ServiceInv, ServiceTypeOK
<1>11. RequestInv'
  BY <1>1, <1>7, <1>8 DEF ServiceInv, ServiceTypeOK, RequestInv, NoRequest, Exists,
     ReservedForAnother
<1>12. SessionInv'
  BY <1>1, <1>2, <1>3, <1>8 DEF ServiceInv, SessionInv, SessionMatchesStore, Exists, Session
<1>13. LoopInv' /\ StoredInv'
  BY <1>1, <1>2, <1>3, <1>4, <1>8, <1>9 DEF ServiceInv, LoopInv, StoredInv, ToldIsStored,
     Play, Session
<1>14. QED
  BY <1>10, <1>11, <1>12, <1>13 DEF ServiceInv

(* The task's own steps touch neither seats nor requests.                   *)
LEMMA TickKeeps ==
  ASSUME ServiceInv, Tick
  PROVE  ServiceInv'
<1>1. UNCHANGED <<row, seats, results, acked, requests, told, restarts>>
  BY DEF Tick, storeVars
<1>2. PICK over \in BOOLEAN :
        /\ live' = [live EXCEPT !.over = over]
        /\ loop' = IF over THEN "results" ELSE loop
  BY FinishPathOrder DEF Tick
<1>3. loop = "ticking" /\ live \in Session /\ live.present
  BY DEF Tick, ServiceInv, ServiceTypeOK, SessionInv
<1>4. /\ live' \in Session /\ live'.present /\ live'.over = over
      /\ live'.run = live.run /\ live'.user = live.user /\ live'.player = live.player
  BY <1>2, <1>3 DEF Session
<1>5. ServiceTypeOK'
  BY <1>1, <1>2, <1>3, <1>4 DEF ServiceInv, ServiceTypeOK
<1>6. SessionInv' /\ RequestInv'
  BY <1>1, <1>3, <1>4 DEF ServiceInv, SessionInv, SessionMatchesStore, RequestInv, Exists,
     ReservedForAnother
<1>7. LoopInv'
  BY <1>2, <1>3, <1>4 DEF LoopInv
<1>8. StoredInv'
  BY <1>1, <1>2, <1>3, <1>4 DEF ServiceInv, StoredInv, ToldIsStored, Play
<1>9. QED
  BY <1>5, <1>6, <1>7, <1>8 DEF ServiceInv

LEMMA PersistResultsKeeps ==
  ASSUME ServiceInv, PersistResults
  PROVE  ServiceInv'
<1>1. UNCHANGED <<row, seats, live, acked, requests, told, restarts>> /\ loop = "results"
  BY DEF PersistResults
<1>2. live.present /\ live \in Session /\ live.over
  BY <1>1 DEF ServiceInv, ServiceTypeOK, SessionInv, LoopInv
<1>3. restarts \in 0..MaxRestarts /\ results \in [User -> 0..MaxRestarts + 1]
  BY DEF ServiceInv, ServiceTypeOK
<1>4. SessionInv' /\ RequestInv'
  BY <1>1, <1>2 DEF ServiceInv, SessionInv, SessionMatchesStore, RequestInv, Exists,
     ReservedForAnother
<1>5. CASE Owed = {} /\ loop' = "record" /\ results' = results
  <2>1. \A s \in Seats : Reserved[s] # NoUser => results[Reserved[s]] >= Play
    <3>1. ASSUME NEW s \in Seats, Reserved[s] # NoUser
          PROVE  results[Reserved[s]] >= Play
      <4>1. live.user[s] = Reserved[s] /\ Reserved[s] \in User
        BY <1>2, <3>1, ServiceAssumption DEF ServiceInv, StoredInv
      <4>2. ~(results[live.user[s]] < Play)
        BY <1>5, <3>1, <4>1 DEF Owed
      <4>3. QED
        BY <4>1, <4>2, <1>3, ServiceAssumption DEF Play
    <3>2. QED
      BY <3>1
  <2>2. LoopInv' /\ StoredInv'
    BY <1>1, <1>2, <1>5, <2>1 DEF ServiceInv, LoopInv, StoredInv, ToldIsStored, Play
  <2>3. QED
    BY <1>1, <1>4, <1>5, <2>2 DEF ServiceInv, ServiceTypeOK
<1>6. CASE /\ Owed # {}
           /\ results' = [results EXCEPT ![live.user[Min(Owed)]] = Play]
           /\ loop' = loop
  <2>1. Min(Owed) \in Owed
    <3>1. Owed \in SUBSET Nat
      <4>1. Seats \in SUBSET Nat
        BY ServiceAssumption, FS_CardinalityType
      <4>2. QED
        BY <4>1 DEF Owed
    <3>2. QED
      BY <1>6, <3>1, LeastIsMember
  <2>2. live.user[Min(Owed)] \in User
    BY <1>2, <2>1 DEF Owed, Session
  <2>3. Play \in 0..MaxRestarts + 1
    BY <1>3, ServiceAssumption DEF Play
  <2>4. /\ results' \in [User -> 0..MaxRestarts + 1]
        /\ \A v \in User : results'[v] >= results[v] /\ results'[v] =< Play
    BY <1>3, <1>6, <2>2, <2>3 DEF ServiceInv, StoredInv
  <2>5. StoredInv'
    <3>1. \A v \in User : results'[v] =< Play'
      BY <1>1, <2>4 DEF Play
    <3>2. ToldIsStored'
      <4>1. ASSUME NEW play \in told, NEW s \in Seats, Reserved[s] # NoUser
            PROVE  results'[Reserved[s]] >= play
        <5>1. Reserved[s] \in User /\ results[Reserved[s]] >= play
          BY <4>1, ServiceAssumption DEF ServiceInv, StoredInv, ToldIsStored
        <5>2. play \in Int /\ results[Reserved[s]] \in Int /\ results'[Reserved[s]] \in Int
          BY <1>3, <2>4, <5>1, ServiceAssumption DEF ServiceInv, ServiceTypeOK
        <5>3. QED
          BY <2>4, <5>1, <5>2
      <4>2. QED
        BY <1>1, <4>1 DEF ToldIsStored
    <3>3. QED
      BY <1>1, <1>6, <3>1, <3>2 DEF ServiceInv, StoredInv
  <2>6. LoopInv'
    BY <1>1, <1>6 DEF ServiceInv, LoopInv
  <2>7. QED
    BY <1>1, <1>4, <1>6, <2>4, <2>5, <2>6 DEF ServiceInv, ServiceTypeOK
<1>7. QED
  BY <1>1, <1>5, <1>6, FinishPathOrder DEF PersistResults

LEMMA PersistRecordKeeps ==
  ASSUME ServiceInv, PersistRecord
  PROVE  ServiceInv'
<1>1. UNCHANGED <<row, seats, results, live, acked, requests, told, restarts>>
  BY DEF PersistRecord, storeVars
<1>2. loop = "record" /\ loop' = "report"
  BY FinishPathOrder DEF PersistRecord
<1>3. QED
  BY <1>1, <1>2 DEF ServiceInv, ServiceTypeOK, SessionInv, SessionMatchesStore, RequestInv,
     LoopInv, StoredInv, ToldIsStored, Play, Exists, ReservedForAnother

LEMMA ReportKeeps ==
  ASSUME ServiceInv, Report
  PROVE  ServiceInv'
<1>1. UNCHANGED <<row, seats, results, requests, restarts>>
  BY DEF Report, storeVars
<1>2. loop = "report" /\ loop' = "mark"
  BY FinishPathOrder DEF Report
<1>3. live.present /\ live \in Session
  BY <1>2 DEF ServiceInv, ServiceTypeOK, SessionInv
<1>4. /\ live' \in Session /\ live'.present = live.present /\ live'.over = live.over
      /\ live'.run = live.run /\ live'.user = live.user /\ live'.player = live.player
      /\ acked' \in BOOLEAN
      /\ told' \subseteq told \cup {Play}
  <2>1. CASE /\ live.reported \/ ~Lobbied
             /\ acked' = live.reported /\ UNCHANGED <<live, told>>
    BY <1>3, <2>1 DEF Session
  <2>2. CASE \E received, answered \in BOOLEAN :
               /\ told' = IF received THEN told \cup {Play} ELSE told
               /\ acked' = answered
               /\ live' = [live EXCEPT !.reported = answered]
    <3>1. PICK received \in BOOLEAN, answered \in BOOLEAN :
            /\ told' = IF received THEN told \cup {Play} ELSE told
            /\ acked' = answered
            /\ live' = [live EXCEPT !.reported = answered]
      BY <2>2
    <3>2. QED
      BY <1>3, <3>1 DEF Session
  <2>3. QED
    BY <2>1, <2>2 DEF Report
<1>5. Play \in 1..MaxRestarts + 1
  BY ServiceAssumption DEF Play, ServiceInv, ServiceTypeOK
<1>6. ServiceTypeOK'
  BY <1>1, <1>2, <1>4, <1>5 DEF ServiceInv, ServiceTypeOK
<1>7. SessionInv' /\ RequestInv' /\ LoopInv'
  BY <1>1, <1>2, <1>3, <1>4 DEF ServiceInv, SessionInv, SessionMatchesStore, RequestInv,
     LoopInv, Exists, ReservedForAnother
<1>8. StoredInv'
  BY <1>1, <1>2, <1>3, <1>4 DEF ServiceInv, StoredInv, ToldIsStored, Play
<1>9. QED
  BY <1>6, <1>7, <1>8 DEF ServiceInv

LEMMA MarkKeeps ==
  ASSUME ServiceInv, Mark
  PROVE  ServiceInv'
<1>1. UNCHANGED <<seats, results, live, requests, told, restarts>> /\ acked' = FALSE
  BY DEF Mark
<1>2. loop = "mark" /\ loop' = "done"
  BY FinishPathOrder DEF Mark
<1>3. row' \in [run : 0..1, finished : BOOLEAN, reported : BOOLEAN] /\ row'.run = row.run
  BY DEF Mark, MarkRow, ServiceInv, ServiceTypeOK
<1>4. QED
  BY <1>1, <1>2, <1>3 DEF ServiceInv, ServiceTypeOK, SessionInv, SessionMatchesStore,
     RequestInv, LoopInv, StoredInv, ToldIsStored, Play, Exists, ReservedForAnother

LEMMA StoreFailsKeeps ==
  ASSUME ServiceInv, StoreFails
  PROVE  ServiceInv'
<1>1. UNCHANGED <<row, seats, results, live, requests, told, restarts>> /\ acked' = FALSE
  BY DEF StoreFails, storeVars
<1>2. loop \in {"results", "record", "mark"} /\ loop' = "failed"
  BY DEF StoreFails
<1>3. QED
  BY <1>1, <1>2 DEF ServiceInv, ServiceTypeOK, SessionInv, SessionMatchesStore, RequestInv,
     LoopInv, StoredInv, ToldIsStored, Play, Exists, ReservedForAnother

(* A restart starts the next play: what is stored of the last ones stays    *)
(* within bounds, and no session or request is left to rely on anything.    *)
LEMMA RestartKeeps ==
  ASSUME ServiceInv, Restart
  PROVE  ServiceInv'
<1>1. /\ UNCHANGED <<row, seats, results, told>>
      /\ live' = NoSession /\ loop' = "none" /\ acked' = FALSE
      /\ requests' = [r \in Caller |-> NoRequest]
      /\ restarts' = restarts + 1 /\ restarts < MaxRestarts
  BY DEF Restart, storeVars
<1>2. NoRequest \in Request
  BY ServiceAssumption, FS_CardinalityType DEF NoRequest, Request, Player
<1>3. restarts \in 0..MaxRestarts /\ restarts' \in 0..MaxRestarts
  BY <1>1, ServiceAssumption DEF ServiceInv, ServiceTypeOK
<1>4. ServiceTypeOK'
  BY <1>1, <1>2, <1>3, NoSessionType DEF ServiceInv, ServiceTypeOK
<1>5. SessionInv' /\ LoopInv'
  BY <1>1 DEF SessionInv, LoopInv, NoSession
<1>6. RequestInv'
  BY <1>1 DEF RequestInv, NoRequest
<1>7. StoredInv'
  <2>1. \A u \in User : results'[u] =< Play'
    BY <1>1, <1>3, ServiceAssumption DEF ServiceInv, ServiceTypeOK, StoredInv, Play
  <2>2. ToldIsStored'
    BY <1>1 DEF ServiceInv, StoredInv, ToldIsStored
  <2>3. ~live'.present
    BY <1>1 DEF NoSession
  <2>4. QED
    BY <1>1, <2>1, <2>2, <2>3 DEF StoredInv
<1>8. QED
  BY <1>4, <1>5, <1>6, <1>7 DEF ServiceInv

LEMMA ServiceStep == ServiceInv /\ [ServiceNext]_serviceVars => ServiceInv'
<1> SUFFICES ASSUME ServiceInv, [ServiceNext]_serviceVars
             PROVE  ServiceInv'
  OBVIOUS
<1>1. ASSUME NEW r \in Caller, Arrive(r)
      PROVE  ServiceInv'
  BY <1>1, ArriveKeeps
<1>2. ASSUME NEW r \in Caller, RequestStep(r)
      PROVE  ServiceInv'
  BY <1>2, PushReadKeeps, PushUpsertKeeps, PushSessionKeeps, ClaimReadKeeps,
     ClaimSeatKeeps, ClaimLandKeeps DEF RequestStep
<1>3. CASE LoopStep
  BY <1>3, TickKeeps, PersistResultsKeeps, PersistRecordKeeps, ReportKeeps, MarkKeeps
     DEF LoopStep
<1>4. CASE StoreFails
  BY <1>4, StoreFailsKeeps
<1>5. CASE Restart
  BY <1>5, RestartKeeps
<1>6. CASE UNCHANGED serviceVars
  BY <1>6 DEF serviceVars, storeVars, ServiceInv, ServiceTypeOK, SessionInv,
     SessionMatchesStore, RequestInv, LoopInv, StoredInv, ToldIsStored, Play, Exists,
     ReservedForAnother
<1>7. QED
  BY <1>1, <1>2, <1>3, <1>4, <1>5, <1>6 DEF ServiceNext

-----------------------------------------------------------------------------
(* The inductive invariant of the service (service.py, between any two      *)
(* awaits and across any restart).                                          *)
THEOREM ServiceInvariant == ServiceSpec => []ServiceInv
<1>1. QED
  BY ServiceStart, ServiceStep, PTL DEF ServiceSpec

(* The type of every variable, for any number of seats: no player id is     *)
(* minted beyond the number of seats (pg_repository.py, claim_seat).        *)
THEOREM ServiceTypeCorrect == ServiceSpec => []ServiceTypeOK
<1>1. ServiceInv => ServiceTypeOK
  BY DEF ServiceInv
<1>2. QED
  BY <1>1, ServiceInvariant, PTL

(* The session never holds another run than the store, nor another player   *)
(* on a seat, however pushes and claims overlap at their awaits             *)
(* (service.py, ensure_match_from_assignment and the claims).               *)
THEOREM TheSessionMatchesTheStore == ServiceSpec => []SessionMatchesStore
<1>1. ServiceInv => SessionMatchesStore
  BY DEF ServiceInv, SessionInv, SessionMatchesStore
<1>2. QED
  BY <1>1, ServiceInvariant, PTL

(* A match somebody sits in is ticking until it is over (service.py,        *)
(* start_clock, called by every claim).                                     *)
THEOREM ASeatedMatchTicks == ServiceSpec => []SeatedMatchTicks
<1>1. ServiceInv => SeatedMatchTicks
  BY DEF ServiceInv, LoopInv, SeatedMatchTicks
<1>2. QED
  BY <1>1, ServiceInvariant, PTL

(* Whatever fails or dies on the finish path, the Lobby never hears of a    *)
(* result that a reserved player's history does not hold (service.py,       *)
(* _on_match_finished: results, then record, then report).                  *)
THEOREM ToldResultsAreStored == ServiceSpec => []ToldIsStored
<1>1. ServiceInv => ToldIsStored
  BY DEF ServiceInv, StoredInv
<1>2. QED
  BY <1>1, ServiceInvariant, PTL

(* A taken seat keeps its holder and its credential, through every claim,   *)
(* race and restart (pg_repository.py, claim_seat under the row's lock).    *)
THEOREM ATakenSeatIsKept == ServiceSpec => SeatIsKept
<1>1. ServiceInv /\ [ServiceNext]_serviceVars
        => [\A s \in Seats : Taken(s) => seats'[s] = seats[s]]_serviceVars
  <2> SUFFICES ASSUME ServiceInv, ServiceNext, NEW s \in Seats, Taken(s)
               PROVE  seats'[s] = seats[s]
    OBVIOUS
  <2>1. CASE seats' = seats
    BY <2>1
  <2>2. ASSUME NEW r \in Caller, ClaimSeat(r)
        PROVE  seats'[s] = seats[s]
    <3> DEFINE t == requests[r].seat
               u == requests[r].user
    <3>1. t \in Seats
      BY <2>2 DEF ClaimSeat, ServiceInv, RequestInv
    <3>2. CASE /\ Welcome(t, u)
               /\ seats' = [seats EXCEPT ![t] = [user |-> u, player |-> PlayerId(t, u)]]
      <4>1. CASE t = s
        BY <3>1, <3>2, <4>1, ReturningKeepsTheSeat DEF ServiceInv, ServiceTypeOK
      <4>2. CASE t # s
        BY <3>1, <3>2, <4>2 DEF ServiceInv, ServiceTypeOK
      <4>3. QED
        BY <4>1, <4>2
    <3>3. QED
      BY <2>1, <2>2, <3>2 DEF ClaimSeat
  <2>3. QED
    BY <2>1, <2>2 DEF ServiceNext, Arrive, RequestStep, PushRead, PushUpsert, PushSession,
       ClaimRead, ClaimLand, LoopStep, Tick, PersistResults, PersistRecord, Report, Mark,
       StoreFails, Restart, storeVars
<1>2. QED
  BY <1>1, ServiceInvariant, PTL DEF ServiceSpec, SeatIsKept
=============================================================================
