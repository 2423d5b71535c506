\* One coordinator that may crash, abort and resume over three slots in two blocks,
\* or two that overlap on the first two slots.
SPECIFICATION Spec
CONSTANTS
  r1 = r1
  r2 = r2
  r3 = r3
  c1 = c1
  c2 = c2
  p1 = p1
  p2 = p2
  NoOwner = NoOwner
  Runs <- ThreeRuns
  TTL = 1
  LaneOutcomes <- NoOutcomes
  MaxAttempt = 2
  Coordinators <- TwoCoordinators
  OwnerOf <- OwnOwner
  Schedule <- TwoBlocks
  UnavailableBlocks <- NoBlocks
  LaneClass <- Lanes
  Provider <- Providers
  GlobalConcurrency = 2
  LaneCap <- OnePerLane
  ProviderCap <- OnePerProvider
  Cancellable <- FirstTwo
  Deployments <- OneOrTwo
SYMMETRY Symmetry
INVARIANTS
  PlacesAreHeld
  LiveWithinCaps
PROPERTIES
  LaterBlocksWait
  FrozenOrder
CHECK_DEADLOCK FALSE
