\* A mage and its hound, baited by a hound that comes and goes and may be hurt, with a sprite behind it.
SPECIFICATION Spec
CONSTANTS
  Unit <- MCUnit
  Card <- MCCard
  Catalog <- MCCatalog
  Leaders <- MCLeaders
  Trait <- SampleTraits
  Personality <- SamplePersonalities
  Profile <- SampleProfiles
  Override <- MCOverride
  Refs <- MCRefs
  SideOf <- MCSideOf
  TroopOf <- MCTroopOf
  Ability <- MCAbility
  TicksPerSecond = 2
  Minded <- MCMinded
  Post <- MCPost
  None = None
  BasePlace <- MCBasePlace
  Pushing <- MCPushing
  Leader <- MCLeader
  Start <- MCStart
  Haunt <- MCHaunt
  Wounds <- MCWounds
  BaseRadius = 10
  MaxCharges = 2
INVARIANTS
  OneChaseIsBounded
  HelpIsWellSpent
PROPERTIES
  RecoveryIsServed
