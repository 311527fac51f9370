\* Sockets that come, move, lag and go while the match changes.
SPECIFICATION FairSockets
CONSTANTS
  k1 = k1
  k2 = k2
  k3 = k3
  Socket <- MCSockets
  Seat = {north, south}
  NoSeat = NoSeat
  MaxVersion = 3
  MaxSubs = 2
INVARIANTS
  HubHoldsTheSeated
  ViewsAreOwn
PROPERTIES
  CatchesUp
CHECK_DEADLOCK FALSE
