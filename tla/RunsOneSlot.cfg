\* One run, two coroutines of one executor, every control.
SPECIFICATION FairSpec
CONSTANTS
  r1 = r1
  r2 = r2
  w1 = w1
  w2 = w2
  o1 = o1
  NoOwner = NoOwner
  Runs <- OneRun
  Workers <- TwoWorkers
  Owner <- SharedOwner
  MaxRecovery = 1
  TTL = 2
  Maximum = 1
  Ceiling = 2
  Controls <- AllControls
  OverlappedCancel = TRUE
INVARIANTS
  TypeOK
  StatusFollowsAttempt
  ReservationFollowsRun
  OneDriver
  CancelledExperimentStops
PROPERTIES
  CancelledNeverEvidence
  LostWorkIsTerminalized
CHECK_DEADLOCK FALSE
