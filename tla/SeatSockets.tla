---------------------------- MODULE SeatSockets ----------------------------
(***************************************************************************)
(* The sockets of one match: api/app/ws.py (SeatConnection) over the hub   *)
(* of api/app/match/hub.py.  A player may hold several sockets on a seat   *)
(* at once: the one a phone lost, not yet closed, and the one it came back *)
(* on.                                                                     *)
(*                                                                         *)
(* A publish runs every listener; each schedules a push, a task of its own *)
(* that takes its snapshot when it runs.  Writing to a socket does not     *)
(* yield before the bytes are queued, so a push is one step.               *)
(***************************************************************************)
EXTENDS Naturals, FiniteSets, Sequences, SequencesExt

CONSTANTS
  Socket,      \* connections
  Seat,        \* the seats whose players have claimed them
  NoSeat,      \* SeatConnection._side is None
  MaxVersion,  \* bound: changes published
  MaxSubs      \* bound: subscriptions to one seat

ASSUME SocketAssumption ==
  /\ IsFiniteSet(Socket)
  /\ NoSeat \notin Seat
  /\ MaxVersion \in Nat \ {0} /\ MaxSubs \in Nat

VARIABLES
  open,        \* sockets whose receive loop runs
  side,        \* SeatConnection._side
  listeners,   \* MatchHub._listeners for the match, in order
  pushes,      \* push tasks scheduled and not yet run
  shown,       \* the version of the match each socket was last sent, and for whom
  connected,   \* Seat.connected
  socketsSeen, \* Seat.sockets_seen
  version      \* the session's state, as the number of its last change

socketVars == <<open, side, listeners, pushes, shown, connected, socketsSeen, version>>

Unseen == [version |-> 0, as |-> NoSeat]

-----------------------------------------------------------------------------

Accept(k) ==
  /\ k \notin open
  /\ side[k] = NoSeat /\ pushes[k] = 0
  /\ open' = open \cup {k}
  /\ shown' = [shown EXCEPT ![k] = Unseen]
  /\ UNCHANGED <<side, listeners, pushes, connected, socketsSeen, version>>

(* push_state: nothing for a socket without a seat, else the match as it is *)
(* now, projected for the seat the socket has now.                          *)
PushedIfNewer(k, s) ==  \* slip: a version is sent to a socket once
  IF shown[k].version = version THEN shown
  ELSE [shown EXCEPT ![k] = [version |-> version, as |-> s]]
Pushed(k, s) == [shown EXCEPT ![k] = [version |-> version, as |-> s]]

(* unsubscribe takes this socket's listener out, once, and drops a match    *)
(* nobody listens to.                                                       *)
ClearedForAll(k, queue) == << >>  \* slip: the match is dropped with the listener
Released(k, queue) == RemoveFirst(queue, k)

(* subscribe, for a seat its player holds.  A socket may move to another    *)
(* seat: its old listener goes, its old seat is left as it is.              *)
Subscribe(k, s) ==
  /\ k \in open
  /\ socketsSeen[s] < MaxSubs
  /\ listeners' = Append(Released(k, listeners), k)
  /\ side' = [side EXCEPT ![k] = s]
  /\ connected' = [connected EXCEPT ![s] = TRUE]
  /\ socketsSeen' = [socketsSeen EXCEPT ![s] = @ + 1]
  /\ shown' = Pushed(k, s)
  /\ UNCHANGED <<open, pushes, version>>

(* A change of the session, from the clock or from any socket's command,    *)
(* and the publish that follows it: one push per listener.                  *)
DeliveredToFirst ==  \* slip: one listener's failure stops the rest
  [k \in Socket |-> IF listeners # << >> /\ Head(listeners) = k THEN pushes[k] + 1
                                                               ELSE pushes[k]]
Delivered ==
  [k \in Socket |-> pushes[k] + Cardinality({i \in DOMAIN listeners : listeners[i] = k})]

ChangeAndPublish ==
  /\ version < MaxVersion
  /\ version' = version + 1
  /\ pushes' = Delivered
  /\ UNCHANGED <<open, side, listeners, shown, connected, socketsSeen>>

(* A push task runs; the socket may have moved or gone since the publish.   *)
RunPush(k) ==
  /\ pushes[k] > 0
  /\ pushes' = [pushes EXCEPT ![k] = @ - 1]
  /\ shown' = IF side[k] = NoSeat \/ k \notin open THEN shown ELSE Pushed(k, side[k])
  /\ UNCHANGED <<open, side, listeners, connected, socketsSeen, version>>

(* close, however the receive loop ended: presence and nothing else.        *)
Close(k) ==
  /\ k \in open
  /\ open' = open \ {k}
  /\ listeners' = Released(k, listeners)
  /\ connected' = IF side[k] = NoSeat THEN connected
                  ELSE [connected EXCEPT ![side[k]] = FALSE]
  /\ side' = [side EXCEPT ![k] = NoSeat]
  /\ UNCHANGED <<pushes, shown, socketsSeen, version>>

-----------------------------------------------------------------------------

SocketInit ==
  /\ open = {}
  /\ side = [k \in Socket |-> NoSeat]
  /\ listeners = << >>
  /\ pushes = [k \in Socket |-> 0]
  /\ shown = [k \in Socket |-> Unseen]
  /\ connected = [s \in Seat |-> FALSE]
  /\ socketsSeen = [s \in Seat |-> 0]
  /\ version = 1

SocketNext ==
  \/ ChangeAndPublish
  \/ \E k \in Socket :
       Accept(k) \/ RunPush(k) \/ Close(k) \/ \E s \in Seat : Subscribe(k, s)

SocketSpec == SocketInit /\ [][SocketNext]_socketVars
(* The event loop runs every task it was given.                             *)
FairSockets == SocketSpec /\ \A k \in Socket : WF_socketVars(RunPush(k))

-----------------------------------------------------------------------------
(* The type of every variable.                                              *)
SocketTypeOK ==
  /\ open \subseteq Socket
  /\ side \in [Socket -> Seat \cup {NoSeat}]
  /\ listeners \in Seq(Socket) /\ Len(listeners) <= Cardinality(Socket)
  /\ pushes \in [Socket -> Nat]
  /\ shown \in [Socket -> [version : Nat, as : Seat \cup {NoSeat}]]
  /\ connected \in [Seat -> BOOLEAN]
  /\ socketsSeen \in [Seat -> 0..MaxSubs]
  /\ version \in 1..MaxVersion

(* The hub's list is exactly the sockets that hold a seat, each once: none  *)
(* is pushed to twice, none leaks after it closed, none was forgotten.      *)
HubHoldsTheSeated ==
  /\ ToSet(listeners) = {k \in open : side[k] # NoSeat}
  /\ IsInjective(listeners)

(* What a socket was sent last is a view of the seat it holds, even when it *)
(* moved to another seat with pushes still waiting to run.                  *)
ViewsAreOwn == \A k \in open : side[k] # NoSeat => shown[k].as = side[k]

(* A socket that stays on comes to show the match as it is: pushes may run  *)
(* late and in any number, but none is lost, whoever else comes and goes.   *)
CatchesUp ==
  \A k \in Socket :
    (side[k] # NoSeat) ~> (side[k] = NoSeat \/ shown[k].version = version)
=============================================================================
