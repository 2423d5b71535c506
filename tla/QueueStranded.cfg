\* A requeued run keeps its cancellation flag and is never claimed again.
SPECIFICATION Spec
CONSTANTS
  r1 = r1
  w1 = w1
  w2 = w2
  o1 = o1
  NoOwner = NoOwner
  Runs <- OneRun
  Workers <- TwoWorkers
  Owner <- SharedOwner
  TTL = 1
  MaxAttempt = 2
  SchemaVersion = 1
  Unavailable <- NoRuns
  LaneOutcomes <- AllOutcomes
INVARIANTS
  NoStrandedRun
CHECK_DEADLOCK FALSE
