\* A recovery attempt is cancelled.
SPECIFICATION Spec
CONSTANTS
  r1 = r1
  r2 = r2
  w1 = w1
  w2 = w2
  o1 = o1
  NoOwner = NoOwner
  Runs <- OneRun
  Workers <- OneWorker
  Owner <- SharedOwner
  MaxRecovery = 1
  TTL = 1
  Maximum = 1
  Ceiling = 2
  Controls <- RetryAndCancelRun
  OverlappedCancel = FALSE
PROPERTIES
  PrimaryOutcomeFrozen
CHECK_DEADLOCK FALSE
