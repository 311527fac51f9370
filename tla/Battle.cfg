\* Two troops fight it out over a short lane, with a spell and two changes of mind.
SPECIFICATION Spec
CONSTANTS
  Troop <- MCTroop
  Type <- MCType
  Station = {2, 5, 6, 11, 12, 14}
  Kit <- MCKit
  Opening <- MCOpening
  Catalog <- MCCatalog
  Pace <- MCPace
  Bare <- MCBare
  SideOf <- MCSideOf
  TroopRank <- MCTroopRank
  Width = 16
  BasePlace <- MCBasePlace
  Footprint = 1
  BaseHp = 3
  Zone = {"W"}
  Hotspot <- MCHotspot
  Points = 1
  Pushing <- MCPushing
  Ability <- MCAbility
  Spells <- MCSpells
  School <- MCSchool
  Meter <- Meters
  Curve <- MCCurve
  EnergyRule <- MCEnergyRule
  TickRate = 1
  EnergyRate <- MCEnergyRate
  EnergyMultiplier <- MCEnergyMultiplier
  Moods <- MCMoods
  DecisionTicks = {3}
  Spot = {2, 13}
  MaxSpells = 1
  TickLimit = 6
  None = None
INVARIANTS
  SlotsAccounted
  BondHolds
  StreamAccountsForAll
  TroopInv
PROPERTIES
  RebuildsKeepPace
  WalkingKeepsOff
  TroopSpec
