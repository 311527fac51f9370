\* A finished match after a restart.
SPECIFICATION FairService
CONSTANTS
  u1 = u1
  u2 = u2
  Caller = {r1, r2}
  User = {u1, u2}
  NoUser = NoUser
  Seats <- MCSeats
  Reserved <- MCReserved
  Tokens <- MCTokens
  Lobbied = TRUE
  RequireLobbyAuth = FALSE
  StoresToken = FALSE
  MaxRestarts = 1
INVARIANTS
  FinishedStartsNothing
CHECK_DEADLOCK FALSE
