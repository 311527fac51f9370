\* Two seats casting into one round that can end in every way.
SPECIFICATION FairSpec
CONSTANTS
  CommandId = {c1}
  Spell = {1, 2}
  Spot = {0, 1}
  OnMap = {1}
  Cost <- MCCost
  Loadouts <- MCLoadouts
  StartingEnergy = 3
  EnergyCap = 2
  EnergyPerTick = 1
  StaleTicks = 1
  TickLimit = 3
  MaxHp = 2
  MaxDamage = 1
  LanePoints = 1
  ScoreThreshold = 1
INVARIANTS
  NothingLeftWaiting
  LandingOrder
  EveryCastLandsOnce
  PoolWithinCap
  SidesAreAlike
  RunnerStopsWithRound
  FallenBaseDecides
PROPERTIES
  RoundEnds
CHECK_DEADLOCK FALSE
