------------------------- MODULE SeatSocketsProofs -------------------------
(***************************************************************************)
(* What SeatSockets promises, for any number of sockets and seats: the     *)
(* hub's list is exactly the sockets that hold a seat, each once, and what *)
(* a socket shows is its own seat's view.                                  *)
(*                                                                         *)
(* The two need each other: a listener taken out by a close is the only    *)
(* one of its socket because the list has no socket twice, and that the    *)
(* list holds none but the seated is what makes the next Append keep it.   *)
(***************************************************************************)
EXTENDS SeatSockets, FiniteSetTheorems, SequenceTheorems, TLAPS

(* A socket whose loop ended holds no seat.                                 *)
GoneHoldNothing == \A k \in Socket : side[k] # NoSeat => k \in open

SocketInv == SocketTypeOK /\ GoneHoldNothing /\ HubHoldsTheSeated /\ ViewsAreOwn

-----------------------------------------------------------------------------
(* Lemmas on the list of listeners.                                         *)

(* Taking a socket's listener out of a list that has it once leaves a list  *)
(* of all the others, in a list that is no longer.                          *)
LEMMA ReleasedIsOut ==
  ASSUME NEW q \in Seq(Socket), IsInjective(q), NEW k \in Socket
  PROVE  /\ Released(k, q) \in Seq(Socket)
         /\ Len(Released(k, q)) =< Len(q)
         /\ IsInjective(Released(k, q))
         /\ ToSet(Released(k, q)) = ToSet(q) \ {k}
<1>1. /\ Len(q) \in Nat /\ DOMAIN q = 1..Len(q)
      /\ \A i \in 1..Len(q) : q[i] \in Socket
  BY LenProperties, ElementOfSeq
<1>2. CASE ~\E i \in 1..Len(q) : q[i] = k
  BY <1>1, <1>2 DEF Released, RemoveFirst, ToSet
<1>3. ASSUME NEW i \in 1..Len(q), q[i] = k
      PROVE  /\ Released(k, q) \in Seq(Socket)
             /\ Len(Released(k, q)) =< Len(q)
             /\ IsInjective(Released(k, q))
             /\ ToSet(Released(k, q)) = ToSet(q) \ {k}
  <2> DEFINE left == SubSeq(q, 1, i - 1)
             right == SubSeq(q, i + 1, Len(q))
             rest == left \o right
  <2>1. SelectInSeq(q, LAMBDA v : v = k) = i
    <3>1. {j \in 1..Len(q) : q[j] = k} = {i}
      BY <1>1, <1>3 DEF IsInjective
    <3>2. Min({i}) = i
      BY <1>1 DEF Min
    <3>3. QED
      BY <3>1, <3>2 DEF SelectInSeq
  <2>2. Released(k, q) = rest
    BY <1>3, <2>1 DEF Released, RemoveFirst, RemoveAt
  <2>3. /\ left \in Seq(Socket) /\ Len(left) = i - 1
        /\ \A j \in 1..i - 1 : left[j] = q[j]
    <3>1. \A j \in 1..i - 1 : q[j] \in Socket
      BY <1>1
    <3>2. QED
      BY <1>1, <3>1, SubSeqProperties
  <2>4. /\ right \in Seq(Socket) /\ Len(right) = Len(q) - i
        /\ \A j \in 1..Len(q) - i : right[j] = q[j + i]
    <3> DEFINE from == i + 1
               to == Len(q)
    <3>1. from \in Int /\ to \in Int /\ \A j \in from..to : q[j] \in Socket
      BY <1>1
    <3> HIDE DEF from, to
    <3>2. /\ SubSeq(q, from, to) \in Seq(Socket)
          /\ Len(SubSeq(q, from, to)) = IF from =< to THEN to - from + 1 ELSE 0
          /\ \A j \in 1..to - from + 1 : SubSeq(q, from, to)[j] = q[from + j - 1]
      BY <3>1, SubSeqProperties
    <3>3. /\ i \in Nat /\ to \in Nat /\ i =< to
          /\ to - from + 1 = to - i
          /\ (IF from =< to THEN to - from + 1 ELSE 0) = to - i
      <4>1. to \in Nat /\ i \in 1..to
        BY <1>1 DEF to
      <4>2. QED
        BY <4>1 DEF from
    <3>4. \A j \in 1..Len(q) - i : from + j - 1 = j + i
      BY <1>1 DEF from
    <3>5. QED
      BY <3>2, <3>3, <3>4 DEF from, to
  <2> HIDE DEF left, right
  <2>5. /\ rest \in Seq(Socket) /\ Len(rest) = Len(q) - 1
        /\ \A j \in 1..Len(q) - 1 : rest[j] = IF j =< i - 1 THEN left[j]
                                              ELSE right[j - (i - 1)]
    <3>1. /\ rest \in Seq(Socket) /\ Len(rest) = Len(left) + Len(right)
          /\ \A j \in 1..Len(left) + Len(right) :
               rest[j] = IF j =< Len(left) THEN left[j] ELSE right[j - Len(left)]
      BY <2>3, <2>4, ConcatProperties
    <3>2. Len(left) + Len(right) = Len(q) - 1
      BY <1>1, <2>3, <2>4
    <3> HIDE DEF rest
    <3>3. QED
      BY <2>3, <3>1, <3>2
  <2> HIDE DEF rest
  <2>6. \A j \in 1..Len(q) - 1 : rest[j] = IF j < i THEN q[j] ELSE q[j + 1]
    BY <1>1, <2>3, <2>4, <2>5
  <2>7. DOMAIN rest = 1..Len(q) - 1
    BY <2>5, LenProperties
  <2>8. IsInjective(rest)
    BY <1>1, <2>6, <2>7 DEF IsInjective
  <2>9. ToSet(rest) = ToSet(q) \ {k}
    <3>1. ASSUME NEW j \in 1..Len(q) - 1
          PROVE  rest[j] \in ToSet(q) \ {k}
      BY <1>1, <1>3, <2>6 DEF IsInjective, ToSet
    <3>2. ASSUME NEW j \in 1..Len(q), q[j] # k
          PROVE  \E m \in 1..Len(q) - 1 : rest[m] = q[j]
      <4>1. CASE j < i
        BY <1>1, <2>6, <4>1
      <4>2. CASE j > i
        <5>1. j - 1 \in 1..Len(q) - 1 /\ rest[j - 1] = q[j]
          BY <1>1, <2>6, <4>2
        <5>2. QED
          BY <5>1
      <4>3. QED
        BY <1>1, <1>3, <3>2, <4>1, <4>2
    <3>3. /\ ToSet(rest) = {rest[j] : j \in 1..Len(q) - 1}
          /\ ToSet(q) = {q[j] : j \in 1..Len(q)}
      BY <1>1, <2>7 DEF ToSet
    <3>4. ASSUME NEW l \in ToSet(q) \ {k}
          PROVE  l \in ToSet(rest)
      <4>1. PICK j \in 1..Len(q) : q[j] = l
        BY <3>3
      <4>2. QED
        BY <4>1, <3>2, <3>3
    <3>5. ASSUME NEW l \in ToSet(rest)
          PROVE  l \in ToSet(q) \ {k}
      BY <3>1, <3>3
    <3>6. QED
      BY <3>4, <3>5
  <2>10. QED
    BY <1>1, <2>2, <2>5, <2>8, <2>9
<1>4. QED
  BY <1>2, <1>3

(* A list with no socket twice is no longer than there are sockets.         *)
LEMMA NoLongerThanSockets ==
  ASSUME NEW q \in Seq(Socket), IsInjective(q)
  PROVE  Len(q) =< Cardinality(Socket)
<1>1. Len(q) \in Nat /\ q \in [1..Len(q) -> Socket]
  BY LenProperties
<1>2. q \in Injection(1..Len(q), Socket)
  BY <1>1 DEF Injection
<1>3. Cardinality(1..Len(q)) = Len(q)
  BY <1>1, FS_Interval
<1>4. QED
  BY <1>2, <1>3, FS_Injection, SocketAssumption

(* Appending a socket the list does not have.                               *)
LEMMA AppendedIsIn ==
  ASSUME NEW q \in Seq(Socket), IsInjective(q), NEW k \in Socket, k \notin ToSet(q)
  PROVE  /\ Append(q, k) \in Seq(Socket)
         /\ IsInjective(Append(q, k))
         /\ ToSet(Append(q, k)) = ToSet(q) \cup {k}
<1> DEFINE longer == Append(q, k)
<1>1. Len(q) \in Nat /\ DOMAIN q = 1..Len(q)
  BY LenProperties
<1>2. /\ longer \in Seq(Socket) /\ Len(longer) = Len(q) + 1
      /\ \A i \in 1..Len(q) : longer[i] = q[i]
      /\ longer[Len(q) + 1] = k
  BY AppendProperties
<1> HIDE DEF longer
<1>3. DOMAIN longer = 1..Len(q) + 1
  BY <1>2, LenProperties
<1>4. \A i \in 1..Len(q) : q[i] # k
  BY <1>1 DEF ToSet
<1>5. IsInjective(longer)
  BY <1>1, <1>2, <1>3, <1>4 DEF IsInjective
<1>6. ToSet(longer) = ToSet(q) \cup {k}
  BY <1>1, <1>2, <1>3 DEF ToSet
<1>7. QED
  BY <1>2, <1>5, <1>6 DEF longer

-----------------------------------------------------------------------------
(* The invariant holds at the start.                                        *)
LEMMA SocketStart == SocketInit => SocketInv
<1> SUFFICES ASSUME SocketInit PROVE SocketInv
  OBVIOUS
<1>1. << >> \in Seq(Socket) /\ Len(<< >>) = 0 /\ DOMAIN << >> = {}
  BY EmptySeq
<1>2. Cardinality(Socket) \in Nat
  BY SocketAssumption, FS_CardinalityType
<1>3. SocketTypeOK
  <2>1. shown \in [Socket -> [version : Nat, as : Seat \cup {NoSeat}]]
    BY DEF SocketInit, Unseen
  <2>2. version \in 1..MaxVersion
    BY SocketAssumption DEF SocketInit
  <2>3. listeners \in Seq(Socket) /\ Len(listeners) =< Cardinality(Socket)
    BY <1>1, <1>2 DEF SocketInit
  <2>4. QED
    BY <2>1, <2>2, <2>3, SocketAssumption DEF SocketInit, SocketTypeOK
<1>4. HubHoldsTheSeated
  BY <1>1 DEF SocketInit, HubHoldsTheSeated, ToSet, IsInjective
<1>5. GoneHoldNothing /\ ViewsAreOwn
  BY DEF SocketInit, GoneHoldNothing, ViewsAreOwn
<1>6. QED
  BY <1>3, <1>4, <1>5 DEF SocketInv

(* Every step keeps the invariant: one lemma per action.                    *)
LEMMA AcceptKeeps ==
  ASSUME SocketInv, NEW k \in Socket, Accept(k)
  PROVE  SocketInv'
<1>1. /\ open' = open \cup {k} /\ side[k] = NoSeat
      /\ shown' = [shown EXCEPT ![k] = Unseen]
      /\ UNCHANGED <<side, listeners, pushes, connected, socketsSeen, version>>
  BY DEF Accept
<1>2. SocketTypeOK'
  BY <1>1 DEF SocketInv, SocketTypeOK, Unseen
<1>3. HubHoldsTheSeated'
  BY <1>1 DEF SocketInv, HubHoldsTheSeated
<1>4. GoneHoldNothing' /\ ViewsAreOwn'
  BY <1>1 DEF SocketInv, SocketTypeOK, GoneHoldNothing, ViewsAreOwn
<1>5. QED
  BY <1>2, <1>3, <1>4 DEF SocketInv

LEMMA SubscribeKeeps ==
  ASSUME SocketInv, NEW k \in Socket, NEW s \in Seat, Subscribe(k, s)
  PROVE  SocketInv'
<1> DEFINE left == Released(k, listeners)
<1>1. /\ k \in open /\ socketsSeen[s] < MaxSubs /\ s # NoSeat
      /\ listeners' = Append(left, k)
      /\ side' = [side EXCEPT ![k] = s]
      /\ connected' = [connected EXCEPT ![s] = TRUE]
      /\ socketsSeen' = [socketsSeen EXCEPT ![s] = @ + 1]
      /\ shown' = [shown EXCEPT ![k] = [version |-> version, as |-> s]]
      /\ UNCHANGED <<open, pushes, version>>
  BY SocketAssumption DEF Subscribe, Pushed
<1>2. /\ left \in Seq(Socket) /\ IsInjective(left)
      /\ ToSet(left) = {j \in open : side[j] # NoSeat} \ {k}
  BY ReleasedIsOut DEF SocketInv, SocketTypeOK, HubHoldsTheSeated
<1> HIDE DEF left
<1>3. /\ listeners' \in Seq(Socket) /\ IsInjective(listeners')
      /\ ToSet(listeners') = ToSet(left) \cup {k}
  BY <1>1, <1>2, AppendedIsIn
<1>4. Len(listeners') =< Cardinality(Socket)
  BY <1>3, NoLongerThanSockets
<1>5. HubHoldsTheSeated'
  BY <1>1, <1>2, <1>3 DEF HubHoldsTheSeated, SocketInv, SocketTypeOK
<1>6. SocketTypeOK'
  <2>1. shown' \in [Socket -> [version : Nat, as : Seat \cup {NoSeat}]]
    BY <1>1, SocketAssumption DEF SocketInv, SocketTypeOK
  <2>2. socketsSeen' \in [Seat -> 0..MaxSubs]
    BY <1>1, SocketAssumption DEF SocketInv, SocketTypeOK
  <2>3. QED
    BY <1>1, <1>3, <1>4, <2>1, <2>2 DEF SocketInv, SocketTypeOK
<1>7. GoneHoldNothing' /\ ViewsAreOwn'
  BY <1>1 DEF SocketInv, SocketTypeOK, GoneHoldNothing, ViewsAreOwn
<1>8. QED
  BY <1>5, <1>6, <1>7 DEF SocketInv

LEMMA ChangeAndPublishKeeps ==
  ASSUME SocketInv, ChangeAndPublish
  PROVE  SocketInv'
<1>1. /\ version < MaxVersion /\ version' = version + 1 /\ pushes' = Delivered
      /\ UNCHANGED <<open, side, listeners, shown, connected, socketsSeen>>
  BY DEF ChangeAndPublish
<1>2. pushes' \in [Socket -> Nat]
  <2>1. ASSUME NEW k \in Socket
        PROVE  Cardinality({i \in DOMAIN listeners : listeners[i] = k}) \in Nat
    <3>1. DOMAIN listeners = 1..Len(listeners) /\ Len(listeners) \in Nat
      BY LenProperties DEF SocketInv, SocketTypeOK
    <3>2. IsFiniteSet(1..Len(listeners))
      BY <3>1, FS_Interval
    <3>3. {i \in DOMAIN listeners : listeners[i] = k} \in SUBSET (1..Len(listeners))
      BY <3>1
    <3>4. QED
      BY <3>2, <3>3, FS_Subset, FS_CardinalityType
  <2> DEFINE heard == [k \in Socket |-> Cardinality({i \in DOMAIN listeners : listeners[i] = k})]
  <2>2. heard \in [Socket -> Nat]
    BY <2>1
  <2>3. pushes' = [k \in Socket |-> pushes[k] + heard[k]]
    BY <1>1 DEF Delivered
  <2> HIDE DEF heard
  <2>4. QED
    BY <2>2, <2>3 DEF SocketInv, SocketTypeOK
<1>3. version' \in 1..MaxVersion
  BY <1>1, SocketAssumption DEF SocketInv, SocketTypeOK
<1>4. QED
  BY <1>1, <1>2, <1>3 DEF SocketInv, SocketTypeOK, HubHoldsTheSeated, GoneHoldNothing,
     ViewsAreOwn

LEMMA RunPushKeeps ==
  ASSUME SocketInv, NEW k \in Socket, RunPush(k)
  PROVE  SocketInv'
<1>1. /\ pushes[k] > 0 /\ pushes' = [pushes EXCEPT ![k] = @ - 1]
      /\ shown' = shown \/ shown' = [shown EXCEPT ![k] = [version |-> version, as |-> side[k]]]
      /\ UNCHANGED <<open, side, listeners, connected, socketsSeen, version>>
  BY DEF RunPush, Pushed
<1>2. pushes' \in [Socket -> Nat]
  BY <1>1 DEF SocketInv, SocketTypeOK
<1>3. /\ shown' \in [Socket -> [version : Nat, as : Seat \cup {NoSeat}]]
      /\ ViewsAreOwn'
  <2>1. CASE shown' = shown
    BY <1>1, <2>1 DEF SocketInv, SocketTypeOK, ViewsAreOwn
  <2>2. CASE shown' = [shown EXCEPT ![k] = [version |-> version, as |-> side[k]]]
    <3>1. [version |-> version, as |-> side[k]] \in [version : Nat, as : Seat \cup {NoSeat}]
      BY SocketAssumption DEF SocketInv, SocketTypeOK
    <3>2. shown' \in [Socket -> [version : Nat, as : Seat \cup {NoSeat}]]
      BY <2>2, <3>1 DEF SocketInv, SocketTypeOK
    <3>3. shown'[k].as = side[k] /\ \A j \in Socket \ {k} : shown'[j] = shown[j]
      BY <2>2 DEF SocketInv, SocketTypeOK
    <3>4. QED
      BY <1>1, <3>2, <3>3 DEF SocketInv, SocketTypeOK, ViewsAreOwn
  <2>3. QED
    BY <1>1, <2>1, <2>2
<1>4. QED
  BY <1>1, <1>2, <1>3 DEF SocketInv, SocketTypeOK, HubHoldsTheSeated, GoneHoldNothing

LEMMA CloseKeeps ==
  ASSUME SocketInv, NEW k \in Socket, Close(k)
  PROVE  SocketInv'
<1>1. /\ open' = open \ {k}
      /\ listeners' = Released(k, listeners)
      /\ connected' = IF side[k] = NoSeat THEN connected
                      ELSE [connected EXCEPT ![side[k]] = FALSE]
      /\ side' = [side EXCEPT ![k] = NoSeat]
      /\ UNCHANGED <<pushes, shown, socketsSeen, version>>
  BY DEF Close
<1>2. /\ listeners' \in Seq(Socket) /\ IsInjective(listeners')
      /\ ToSet(listeners') = {j \in open : side[j] # NoSeat} \ {k}
  BY <1>1, ReleasedIsOut DEF SocketInv, SocketTypeOK, HubHoldsTheSeated
<1>3. Len(listeners') =< Cardinality(Socket)
  BY <1>2, NoLongerThanSockets
<1>4. HubHoldsTheSeated'
  BY <1>1, <1>2 DEF HubHoldsTheSeated, SocketInv, SocketTypeOK
<1>5. SocketTypeOK'
  BY <1>1, <1>2, <1>3 DEF SocketInv, SocketTypeOK
<1>6. GoneHoldNothing' /\ ViewsAreOwn'
  BY <1>1 DEF SocketInv, SocketTypeOK, GoneHoldNothing, ViewsAreOwn
<1>7. QED
  BY <1>4, <1>5, <1>6 DEF SocketInv

LEMMA SocketStep == SocketInv /\ [SocketNext]_socketVars => SocketInv'
<1> SUFFICES ASSUME SocketInv, [SocketNext]_socketVars
             PROVE  SocketInv'
  OBVIOUS
<1>1. CASE ChangeAndPublish
  BY <1>1, ChangeAndPublishKeeps
<1>2. ASSUME NEW k \in Socket,
             Accept(k) \/ RunPush(k) \/ Close(k) \/ \E s \in Seat : Subscribe(k, s)
      PROVE  SocketInv'
  BY <1>2, AcceptKeeps, RunPushKeeps, CloseKeeps, SubscribeKeeps
<1>3. CASE UNCHANGED socketVars
  BY <1>3 DEF socketVars, SocketInv, SocketTypeOK, HubHoldsTheSeated, GoneHoldNothing,
     ViewsAreOwn
<1>4. QED
  BY <1>1, <1>2, <1>3 DEF SocketNext

-----------------------------------------------------------------------------
(* The inductive invariant of the sockets (ws.py over match/hub.py).        *)
THEOREM SocketInvariant == SocketSpec => []SocketInv
<1>1. QED
  BY SocketStart, SocketStep, PTL DEF SocketSpec

(* The type of every variable; the hub's list is never longer than there    *)
(* are sockets (hub.py, subscribe and unsubscribe).                         *)
THEOREM SocketTypeCorrect == SocketSpec => []SocketTypeOK
<1>1. SocketInv => SocketTypeOK
  BY DEF SocketInv
<1>2. QED
  BY <1>1, SocketInvariant, PTL

(* The hub pushes to every socket that holds a seat, once, and to nobody    *)
(* else, however sockets move between seats and close (ws.py, subscribe and *)
(* _release).                                                               *)
THEOREM TheHubHoldsTheSeated == SocketSpec => []HubHoldsTheSeated
<1>1. SocketInv => HubHoldsTheSeated
  BY DEF SocketInv
<1>2. QED
  BY <1>1, SocketInvariant, PTL

(* A socket never shows another seat's view, whichever pushes were waiting  *)
(* when it moved (ws.py, push_state reads the seat when it runs).           *)
THEOREM ASocketShowsItsOwnSeat == SocketSpec => []ViewsAreOwn
<1>1. SocketInv => ViewsAreOwn
  BY DEF SocketInv
<1>2. QED
  BY <1>1, SocketInvariant, PTL
=============================================================================
