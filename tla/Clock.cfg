\* Ticks that take time, under stalls shorter and longer than what is made up.
SPECIFICATION FairClock
CONSTANTS
  Interval = 2
  MaxCatchUp = 2
  TickCosts <- Slow
  Stalls <- Long
  Horizon = 24
INVARIANTS
  KeepsTime
PROPERTIES
  OverIsFinished
CHECK_DEADLOCK FALSE
