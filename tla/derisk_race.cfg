CONSTANTS
  p1 = p1
  p2 = p2
  NoPosition = none
  Positions <- TwoPositions
  Losers = {p1}
  Poison = {p2}
  Allocated = {p2}
  MaxHeld = 1
  Cooldown = 5
  Window = 3
  OpenLock = 2
  Gap = 1
  MaxTick = 1
  MaxFailures = 0
SPECIFICATION Spec
PROPERTY StopLossFirst
