\* pursuit.py:85, a chase that ends bars another: a unit goes after the same bait again at once.
SPECIFICATION Spec
CONSTANTS
  Unit <- MCUnit
  Card <- MCCard
  Catalog <- MCCatalog
  Leaders <- MCLeaders
  Trait <- SampleTraits
  Personality <- SamplePersonalities
  Profile <- SampleProfiles
  Override <- MCOverride
  Refs <- MCRefs
  SideOf <- MCSideOf
  TroopOf <- MCTroopOf
  Ability <- MCAbility
  TicksPerSecond = 2
  Minded <- MCMinded
  Post <- MCPost
  None = None
  BasePlace <- MCBasePlace
  Pushing <- MCPushing
  Leader <- MCLeader
  Start <- MCStart
  Haunt <- MCHaunt
  Wounds <- MCWounds
  BaseRadius = 10
  MaxCharges = 2
PROPERTIES
  ChasesAreSpaced
