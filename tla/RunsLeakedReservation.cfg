\* A CANCEL meets a claimed run.
SPECIFICATION Spec
CONSTANTS
  r1 = r1
  r2 = r2
  w1 = w1
  w2 = w2
  o1 = o1
  NoOwner = NoOwner
  Runs <- OneRun
  Workers <- OneWorker
  Owner <- SharedOwner
  MaxRecovery = 1
  TTL = 1
  Maximum = 1
  Ceiling = 2
  Controls <- CancelOnly
  OverlappedCancel = FALSE
INVARIANTS
  TerminalAttemptsReconciled
CHECK_DEADLOCK FALSE
