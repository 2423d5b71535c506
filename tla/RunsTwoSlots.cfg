\* Two runs competing for one budget, two coroutines, retries and atomic CANCELs.
SPECIFICATION Spec
CONSTANTS
  r1 = r1
  r2 = r2
  w1 = w1
  w2 = w2
  o1 = o1
  NoOwner = NoOwner
  Runs <- TwoRuns
  Workers <- TwoWorkers
  Owner <- SharedOwner
  MaxRecovery = 1
  TTL = 1
  Maximum = 1
  Ceiling = 2
  Controls <- RetryAndCancel
  OverlappedCancel = FALSE
INVARIANTS
  BudgetWithinCeiling
  LedgerBalances
PROPERTIES
  ImplementsRunLifecycle
CHECK_DEADLOCK FALSE
SYMMETRY Symmetry
