\* The task store, the canary journal, the evidence store and the sandbox, one after the other.
SPECIFICATION Spec
CONSTANTS
  a1 = a1
  a2 = a2
  b1 = b1
  p1 = p1
  p2 = p2
  q1 = q1
  q2 = q2
  s1 = s1
  s2 = s2
  Nobody = Nobody
  Missing = Missing
  Garbled = Garbled
  Partial = Partial
  Importers <- TwoProcesses
  Packages <- ThreePackages
  TaskOf <- TwoTasks
  MaxImports = 4
  Lone = p1
  Executors <- TwoProcesses
  N = 3
  MaxLaunches = 2
  Processes <- TwoProcesses
  Records <- TwoRecords
  Snapshots <- TwoSnapshots
  RecordFiles = 2
  MaxFiles = 8
INVARIANTS
  LaunchedOnce
  NoLaunchPastFailure
  OneVerification
  RecordedMeansGone
PROPERTIES
  TasksAreImmutable
  SnapshotsKeepEnvelope
CHECK_DEADLOCK FALSE
