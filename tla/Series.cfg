\* A starter series, best of three, with nobody casting.
SPECIFICATION SessionSpec
CONSTANTS
  CommandId = {}
  Spell = {}
  Spot = {}
  OnMap = {}
  Cost <- MCCost
  Loadouts <- MCLoadouts
  StartingEnergy = 0
  EnergyCap = 0
  EnergyPerTick = 0
  StaleTicks = 1
  TickLimit = 1
  MaxHp = 2
  MaxDamage = 1
  LanePoints = 1
  ScoreThreshold = 1
  MaxEntries = 1
  Plan = {default, other}
  DefaultPlan = default
  NoPlan = NoPlan
  LoadoutOf <- MCLoadoutOf
  TestProfile = FALSE
  RoundsToWin = 2
  RoundOverTicks = 1
  Backstop = 2
  MaxRounds = 3
INVARIANTS
  RecordIsAChain
  RatedResultsAreEarned
PROPERTIES
  BasesNeverRecover
  LockedPlansStand
  FollowsLifecycle
CHECK_DEADLOCK FALSE
