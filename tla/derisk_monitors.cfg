CONSTANTS
  p1 = p1
  p2 = p2
  NoPosition = none
  Positions <- TwoPositions
  Losers = {p1}
  Poison = {p2}
  Allocated = {p2}
  MaxHeld = 1
  Cooldown = 3
  Window = 1
  OpenLock = 2
  Gap = 1
  MaxTick = 1
  MaxFailures = 1
SPECIFICATION FairSpec
INVARIANTS TypeOK
PROPERTIES AggregateSeesInFlight NoRebuy StopsReach
