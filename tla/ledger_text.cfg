SPECIFICATION Spec
CONSTANTS
  w1 = w1
  w2 = w2
  r1 = r1
  s1 = s1
  s2 = s2
  NoWriter = NoWriter
  NoStrategy = NoStrategy
  Writers <- OneWriter
  Readers <- NoReader
  Strategies <- TwoStrategies
  Fills <- OneUnit
  Whole = 2
  Sqlite = TRUE
  MaxRows = 4
SYMMETRY Alike
INVARIANT OpenerOwnsStreak
