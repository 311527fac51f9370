\* A player plans, locks in, casts and loses the connection, twice over.
SPECIFICATION Spec
CONSTANTS
  NoSpell = NoSpell
  NoPlan = NoPlan
  Content <- MCContent
  OpeningPlans <- MCOpeningPlans
  Scenarios <- MCScenarios
  Spell = {"fireball", "cinderVeil", "scorch"}
  SpellCost <- MCSpellCost
  NoneArmed = NoneArmed
  NoBattle = NoBattle
  NoEnding = NoEnding
  OpeningEnergy = 2
  EnergyGain = 1
  EnergyCap = 3
  ConnectTime = 1
  LockTime = 1
  CastTime = 3
  TickTime = 2
  DropTime = 5
  MaxTicks = 6
  MaxCasts = 2
INVARIANTS
  OnlyHoldsAndDoubles
  ToldIsTrue
  LiveIsCurrent
PROPERTIES
  StaleStaysPut
  PlayedOut
CHECK_DEADLOCK FALSE
