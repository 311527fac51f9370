---------------------------- MODULE GameService ----------------------------
(***************************************************************************)
(* The service around one match: api/app/service.py over a store that      *)
(* outlives the process (api/app/pg_repository.py, repository.py) and a    *)
(* session and a clock that do not.                                        *)
(*                                                                         *)
(* Every await lets another handler run, so a request is several actions:  *)
(* one per awaited call, with the code up to the next await.  What a       *)
(* session plays is MatchSession's business; here it is over or it is not. *)
(* A restart loses everything but the store.                               *)
(***************************************************************************)
EXTENDS Naturals, FiniteSets, FiniteSetsExt, Sequences

CONSTANTS
  Caller,       \* requests that may be in flight at once
  User,         \* Lobby users
  NoUser,       \* no Lobby user: an anonymous claim, an unreserved seat
  Seats,        \* seat keys, numbered by position
  Reserved,     \* reserved_for_lobby_user
  Tokens,       \* the users and seats of the tokens the Lobby has signed
  Lobbied,      \* was the match pushed by a Lobby, with an endpoint to report to
  RequireLobbyAuth, \* config.require_lobby_auth: no claim without a Lobby's token
  StoresToken,  \* does the store keep the service token: memory does, Postgres not
  MaxRestarts   \* bound: restarts followed

ASSUME ServiceAssumption ==
  /\ NoUser \notin User
  /\ Seats = 1..Cardinality(Seats) /\ IsFiniteSet(Seats)
  /\ Reserved \in [Seats -> User \cup {NoUser}]
  /\ Tokens \subseteq User \X Seats
  /\ Lobbied \in BOOLEAN /\ RequireLobbyAuth \in BOOLEAN /\ StoresToken \in BOOLEAN
  /\ MaxRestarts \in Nat

VARIABLES
  row,        \* the matches row: run (0 is no row), finished, reported
  seats,      \* the seats' rows: the holder and the player id, 0 if open
  results,    \* match_results: the play each user's row was last written in
  live,       \* the session: present, over, reported, token, run, user, player
  loop,       \* the clock's task: none, ticking, a finishing step, done, failed
  acked,      \* ok, the Lobby's answer between the report and the mark
  requests,   \* the requests in flight
  told,       \* the plays whose result the Lobby received
  restarts    \* restarts so far: the play is numbered from 1

storeVars == <<row, seats, results>>
serviceVars == <<storeVars, live, loop, acked, requests, told, restarts>>

-----------------------------------------------------------------------------

Play == restarts + 1

NoSession == [present |-> FALSE, over |-> FALSE, reported |-> FALSE,
              token |-> FALSE, run |-> 0,
              user |-> [s \in Seats |-> NoUser], player |-> [s \in Seats |-> 0]]
AnySeat == 0
NoRequest == [kind |-> "none", at |-> "idle", seat |-> AnySeat, user |-> NoUser,
              player |-> 0]

Exists == row.run # 0
Taken(s) == seats[s].player # 0
Running == loop \notin {"none", "done", "failed"}

(* _on_match_finished: the steps of the finish path, in order.              *)
ReportFirst == <<"report", "mark", "results", "record">>  \* slip: the Lobby first
FinishPath == <<"results", "record", "report", "mark">>

After(step) ==
  LET i == CHOOSE i \in DOMAIN FinishPath : FinishPath[i] = step
  IN  IF i = Len(FinishPath) THEN "done" ELSE FinishPath[i + 1]

-----------------------------------------------------------------------------
(* _ensure_session: the session if there is one, else a fresh one, planning *)
(* its first round whatever the row says.  A push brings the service token; *)
(* anyone else has what the store kept of it.                               *)
EnsureSession(hasToken) ==
  live' = IF live.present THEN live
          ELSE [NoSession EXCEPT
                  !.present = TRUE,
                  !.token = Lobbied /\ (hasToken \/ StoresToken),
                  !.run = row.run,
                  !.user = [s \in Seats |-> IF Reserved[s] # NoUser THEN Reserved[s]
                                            ELSE seats[s].user]]

Done(r) == requests' = [requests EXCEPT ![r] = NoRequest]
Onward(r, step) == requests' = [requests EXCEPT ![r].at = step]

(* What may arrive.  A Lobby pushes as often as it likes; a standalone match *)
(* is created once, under a fresh id that nobody knows before.  Players      *)
(* bring a Lobby's token, or, where none is required, nothing.               *)
Creating == {r \in Caller : requests[r].kind = "push"}

Arrive(r) ==
  /\ requests[r] = NoRequest
  /\ \/ /\ Lobbied \/ (~Exists /\ Creating = {})
        /\ requests' = [requests EXCEPT ![r].kind = "push", ![r].at = "read"]
     \/ /\ Lobbied
        /\ \E t \in Tokens :
             requests' = [requests EXCEPT ![r].kind = "tokenClaim", ![r].at = "read",
                                          ![r].user = t[1], ![r].seat = t[2]]
     \/ /\ ~RequireLobbyAuth
        /\ Lobbied \/ Creating = {}
        /\ \E s \in Seats \cup {AnySeat} :
             requests' = [requests EXCEPT ![r].kind = "openClaim", ![r].at = "read",
                                          ![r].seat = s]
  /\ UNCHANGED <<storeVars, live, loop, acked, told, restarts>>

(* ensure_match_from_assignment: an existing match needs its session only.  *)
PushRead(r) ==
  /\ requests[r].kind = "push" /\ requests[r].at = "read"
  /\ IF Exists
     THEN EnsureSession(TRUE) /\ Done(r)
     ELSE Onward(r, "upsert") /\ UNCHANGED live
  /\ UNCHANGED <<storeVars, loop, acked, told, restarts>>

(* upsert_match: the row another push wrote meanwhile keeps its run id.     *)
UpsertAgain == row' = [row EXCEPT !.run = @ + 1]  \* slip: a conflict writes a new run id
UpsertRow == row' = IF Exists THEN row ELSE [row EXCEPT !.run = 1]

PushUpsert(r) ==
  /\ requests[r].at = "upsert"
  /\ UpsertRow
  /\ Onward(r, "session")
  /\ UNCHANGED <<seats, results, live, loop, acked, told, restarts>>

PushSession(r) ==
  /\ requests[r].at = "session"
  /\ EnsureSession(TRUE)
  /\ Done(r)
  /\ UNCHANGED <<storeVars, loop, acked, told, restarts>>

-----------------------------------------------------------------------------
(* Claims.                                                                  *)

(* The first part of both claims: the match, the seat asked for, and the    *)
(* session.  A caller who names no seat is given the first open one that    *)
(* is not reserved, as the match stood when it was read.                    *)
OpenSeats == {s \in Seats : ~Taken(s) /\ Reserved[s] = NoUser}

ClaimRead(r) ==
  /\ requests[r].kind \in {"tokenClaim", "openClaim"} /\ requests[r].at = "read"
  /\ \/ /\ ~Exists \/ (requests[r].seat = AnySeat /\ OpenSeats = {})
        /\ Done(r)
        /\ UNCHANGED live
     \/ /\ Exists
        /\ requests[r].seat = AnySeat => OpenSeats # {}
        /\ EnsureSession(FALSE)
        /\ requests' = [requests EXCEPT
                          ![r].at = "claim",
                          ![r].seat = IF @ = AnySeat THEN Min(OpenSeats) ELSE @]
  /\ UNCHANGED <<storeVars, loop, acked, told, restarts>>

(* claim_seat: who may have the seat, under the row's lock.                 *)
ReservedForAnother(s, u) == Reserved[s] # NoUser /\ u # NoUser /\ Reserved[s] # u
IsHolder(s, u) == Taken(s) /\ u # NoUser /\ seats[s].user = u
WelcomeAnonymous(s, u) ==  \* slip: nobody asked who sits there already
  ~ReservedForAnother(s, u) /\ (Taken(s) => u = NoUser \/ IsHolder(s, u))
Welcome(s, u) == ~ReservedForAnother(s, u) /\ (Taken(s) => IsHolder(s, u))

(* A player id is minted for a first sitting and kept for every return.     *)
Minted == Cardinality({s \in Seats : Taken(s)}) + 1
PlayerId(s, u) == IF IsHolder(s, u) THEN seats[s].player ELSE Minted

ClaimSeat(r) ==
  /\ requests[r].at = "claim"
  /\ LET s == requests[r].seat
         u == requests[r].user
     IN  /\ IF Welcome(s, u)
            THEN /\ seats' = [seats EXCEPT ![s] = [user |-> u, player |-> PlayerId(s, u)]]
                 /\ requests' = [requests EXCEPT ![r].at = "land",
                                                 ![r].player = PlayerId(s, u)]
            ELSE Done(r) /\ UNCHANGED seats
  /\ UNCHANGED <<row, results, live, loop, acked, told, restarts>>

(* start_clock: a match that is over starts nothing, and a running clock is *)
(* left alone.                                                              *)
MayStart == ~live.over /\ ~Running

StartClockWhenFull(r) ==  \* slip: the clock waits for the last player
  loop' = IF MayStart /\ \A t \in Seats \ {requests[r].seat} : live.player[t] # 0
          THEN "ticking" ELSE loop
StartClock(r) == loop' = IF MayStart THEN "ticking" ELSE loop

(* The rest of a claim: the session learns who sits, and its clock starts.  *)
ClaimLand(r) ==
  /\ requests[r].at = "land"
  /\ live' = [live EXCEPT
                !.player[requests[r].seat] = requests[r].player,
                !.user[requests[r].seat] =
                   IF requests[r].kind = "tokenClaim" THEN requests[r].user ELSE @]
  /\ StartClock(r)
  /\ Done(r)
  /\ UNCHANGED <<storeVars, acked, told, restarts>>

-----------------------------------------------------------------------------
(* The clock's task (clock.py, _run) and the finish path it ends in.        *)

Tick ==
  /\ loop = "ticking"
  /\ \E over \in BOOLEAN :
       /\ live' = [live EXCEPT !.over = over]
       /\ loop' = IF over THEN FinishPath[1] ELSE loop
  /\ UNCHANGED <<storeVars, acked, requests, told, restarts>>

(* persist_result: a row for every seat that has a Lobby user, one awaited  *)
(* write after another, so that a crash can leave the first alone.          *)
Owed == {s \in Seats : live.user[s] # NoUser /\ results[live.user[s]] < Play}

PersistResults ==
  /\ loop = "results"
  /\ IF Owed = {}
     THEN loop' = After(loop) /\ UNCHANGED results
     ELSE results' = [results EXCEPT ![live.user[Min(Owed)]] = Play] /\ UNCHANGED loop
  /\ UNCHANGED <<row, seats, live, acked, requests, told, restarts>>

(* persist_run_record; the record itself is MatchSession's.                 *)
PersistRecord ==
  /\ loop = "record"
  /\ loop' = After(loop)
  /\ UNCHANGED <<storeVars, live, acked, requests, told, restarts>>

(* report_to_lobby: without an endpoint nothing is sent, and a result the   *)
(* Lobby has acknowledged is not sent again.  A call may be lost, or its    *)
(* answer; a call without the service token is turned down.                 *)
Report ==
  /\ loop = "report"
  /\ IF live.reported \/ ~Lobbied
     THEN acked' = live.reported /\ UNCHANGED <<live, told>>
     ELSE \E received, answered \in BOOLEAN :
            /\ received => live.token
            /\ answered => received
            /\ told' = IF received THEN told \cup {Play} ELSE told
            /\ acked' = answered
            /\ live' = [live EXCEPT !.reported = answered]
  /\ loop' = After(loop)
  /\ UNCHANGED <<storeVars, requests, restarts>>

(* mark_finished: finished whatever the Lobby said, reported if it said so. *)
MarkIfReported ==  \* slip: an unreported match is left open
  row' = [row EXCEPT !.finished = @ \/ acked, !.reported = @ \/ acked]
MarkRow == row' = [row EXCEPT !.finished = TRUE, !.reported = @ \/ acked]

Mark ==
  /\ loop = "mark"
  /\ MarkRow
  /\ loop' = After(loop)
  /\ acked' = FALSE
  /\ UNCHANGED <<seats, results, live, requests, told, restarts>>

(* A write the store refuses ends the task where it stands: nothing catches *)
(* what the finish path raises.                                             *)
StoreFails ==
  /\ loop \in {"results", "record", "mark"}
  /\ loop' = "failed"
  /\ acked' = FALSE
  /\ UNCHANGED <<storeVars, live, requests, told, restarts>>

LoopStep == Tick \/ PersistResults \/ PersistRecord \/ Report \/ Mark

-----------------------------------------------------------------------------
(* The process dies and comes back with the store alone.                    *)
Restart ==
  /\ restarts < MaxRestarts
  /\ restarts' = restarts + 1
  /\ live' = NoSession
  /\ loop' = "none"
  /\ acked' = FALSE
  /\ requests' = [r \in Caller |-> NoRequest]
  /\ UNCHANGED <<storeVars, told>>

RequestStep(r) ==
  \/ PushRead(r) \/ PushUpsert(r) \/ PushSession(r)
  \/ ClaimRead(r) \/ ClaimSeat(r) \/ ClaimLand(r)

ServiceInit ==
  /\ row = [run |-> 0, finished |-> FALSE, reported |-> FALSE]
  /\ seats = [s \in Seats |-> [user |-> NoUser, player |-> 0]]
  /\ results = [u \in User |-> 0]
  /\ live = NoSession
  /\ loop = "none"
  /\ acked = FALSE
  /\ requests = [r \in Caller |-> NoRequest]
  /\ told = {}
  /\ restarts = 0

ServiceNext ==
  \/ \E r \in Caller : Arrive(r) \/ RequestStep(r)
  \/ LoopStep
  \/ StoreFails
  \/ Restart

ServiceSpec == ServiceInit /\ [][ServiceNext]_serviceVars
FairService ==
  ServiceSpec /\ WF_serviceVars(LoopStep)
  /\ \A r \in Caller : WF_serviceVars(RequestStep(r))

-----------------------------------------------------------------------------
(* The type of every variable.                                              *)
Player == 0..Cardinality(Seats)
Kept == [user : User \cup {NoUser}, player : Player]
Session == [present : BOOLEAN, over : BOOLEAN, reported : BOOLEAN, token : BOOLEAN,
            run : 0..1, user : [Seats -> User \cup {NoUser}], player : [Seats -> Player]]
Request == [kind : {"none", "push", "tokenClaim", "openClaim"},
            at : {"idle", "read", "upsert", "session", "claim", "land"},
            seat : Seats \cup {AnySeat}, user : User \cup {NoUser}, player : Player]
ServiceTypeOK ==
  /\ row \in [run : 0..1, finished : BOOLEAN, reported : BOOLEAN]
  /\ seats \in [Seats -> Kept]
  /\ results \in [User -> 0..MaxRestarts + 1]
  /\ live \in Session
  /\ loop \in {"none", "ticking", "results", "record", "report", "mark", "done", "failed"}
  /\ acked \in BOOLEAN
  /\ requests \in [Caller -> Request]
  /\ told \subseteq 1..MaxRestarts + 1
  /\ restarts \in 0..MaxRestarts

(* The store and the session never disagree about the run or about who sits *)
(* where, whatever claims and pushes overlap and wherever the process died: *)
(* a seat of the session is empty or has the store's player.                *)
SessionMatchesStore ==
  live.present =>
    /\ live.run = row.run
    /\ \A s \in Seats : live.player[s] \in {0, seats[s].player}

(* A seat once taken stays with its holder, under the same credential.      *)
SeatIsKept == [][\A s \in Seats : Taken(s) => seats'[s] = seats[s]]_serviceVars

(* A player who came back after a restart finds the match moving: a session *)
(* with anybody in it ticks until it is over.                               *)
SeatedMatchTicks ==
  live.present /\ ~live.over /\ (\E s \in Seats : live.player[s] # 0)
    => loop = "ticking"

(* The Lobby hears of no result that is not already in the players'         *)
(* history, whatever crashed in between.                                    *)
ToldIsStored ==
  \A play \in told, s \in Seats :
    Reserved[s] # NoUser => results[Reserved[s]] >= play

(* A match that is over comes to be marked finished, reported or not,       *)
(* unless the process dies or a write fails first.                          *)
FinishedIsMarked ==
  (live.present /\ live.over) ~> (row.finished \/ ~live.present \/ loop = "failed")

(* A finished match starts nothing (service.py, start_clock).               *)
FinishedStartsNothing == row.finished => loop # "ticking"
=============================================================================
