\* Two processes, one investigation, connections and processes that fail.
SPECIFICATION FairSpec
CONSTANTS
  p1 = p1
  p2 = p2
  k1 = k1
  k2 = k2
  k3 = k3
  q1 = q1
  NoPlan = NoPlan
  NoProcess = NoProcess
  Processes <- TwoProcesses
  Keys <- ThreeKeys
  CallSets <- SomeCalls
  Plans <- OnePlan
  MaxDecisions = 3
  MaxTools = 2
  ProviderRequests = 2
  RequestBound = 2
  TokenCeiling = 3
INVARIANTS
  TypeOK
  OneRequestOutstanding
  UsageIsExact
  TokensWithinCeiling
  ToolsRunOnce
  ApprovalMatchesPlan
PROPERTIES
  JournalGrows
  SessionEnds
CHECK_DEADLOCK FALSE
