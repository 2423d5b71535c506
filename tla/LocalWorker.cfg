\* One run, three processes that may die anywhere, finitely many failures in the end.
SPECIFICATION FairSpec
CONSTANTS
  p1 = p1
  w1 = w1
  w2 = w2
  w3 = w3
  NoWorker = NoWorker
  NoRun = NoRun
  Runs <- OneRun
  Workers <- ThreeWorkers
  LeaseTicks = 2
INVARIANTS
  TypeOK
  TerminalIsClean
  LockExcludes
  ResultMatchesLease
  VerdictsSurvive
PROPERTIES
  ImplementsSingleAttempt
  AuthorizedRunEnds
