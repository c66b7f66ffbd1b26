SPECIFICATION Spec
CONSTANTS
  w1 = w1
  w2 = w2
  r1 = r1
  s1 = s1
  s2 = s2
  NoWriter = NoWriter
  NoStrategy = NoStrategy
  Writers <- TwoWriters
  Readers <- OneReader
  Strategies <- TwoStrategies
  Fills <- MixedFills
  Whole = 2
  Sqlite = FALSE
  MaxRows = 4
SYMMETRY Alike
INVARIANTS
  TypeOK
  ChainUnbroken
  AuthoritiesAgree
  MoneyAddsUp
  AnswerIsAPosition
  OpenerOwnsStreak
  AgeCountsPosition
