\* Casts, retries and late retries over two rounds of a match.
SPECIFICATION SessionSpec
CONSTANTS
  CommandId = {c1, c2}
  Spell = {1}
  Spot = {1}
  OnMap = {1}
  Cost <- MCCost
  Loadouts <- MCLoadouts
  StartingEnergy = 1
  EnergyCap = 1
  EnergyPerTick = 1
  StaleTicks = 1
  TickLimit = 1
  MaxHp = 1
  MaxDamage = 0
  LanePoints = 0
  ScoreThreshold = 1
  MaxEntries = 2
  Plan = {default}
  DefaultPlan = default
  NoPlan = NoPlan
  LoadoutOf <- MCLoadoutOf
  TestProfile = TRUE
  RoundsToWin = 2
  RoundOverTicks = 1
  Backstop = 1
  MaxRounds = 2
INVARIANTS
  RecordFollowsRound
PROPERTIES
  KeepsContract
CHECK_DEADLOCK FALSE
