\* One run of a schema-1 experiment, two coroutines of one owner that may die.
SPECIFICATION FairSpec
CONSTANTS
  r1 = r1
  w1 = w1
  w2 = w2
  o1 = o1
  NoOwner = NoOwner
  Runs <- OneRun
  Workers <- TwoWorkers
  Owner <- SharedOwner
  TTL = 2
  MaxAttempt = 3
  SchemaVersion = 1
  Unavailable <- NoRuns
  LaneOutcomes <- AllOutcomes
INVARIANTS
  TypeOK
  AttemptsDistinct
  OneDriver
PROPERTIES
  ImplementsAttemptLog
  AttemptEnds
CHECK_DEADLOCK FALSE
