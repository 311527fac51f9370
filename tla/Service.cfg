\* A match pushed by a Lobby, one seat of it reserved, over one restart.
SPECIFICATION FairService
CONSTANTS
  u1 = u1
  u2 = u2
  Caller = {r1, r2}
  User = {u1, u2}
  NoUser = NoUser
  Seats <- MCSeats
  Reserved <- MCReserved
  Tokens <- MCTokens
  Lobbied = TRUE
  RequireLobbyAuth = FALSE
  StoresToken = FALSE
  MaxRestarts = 1
INVARIANTS
  SessionMatchesStore
  SeatedMatchTicks
  ToldIsStored
PROPERTIES
  SeatIsKept
  FinishedIsMarked
CHECK_DEADLOCK FALSE
