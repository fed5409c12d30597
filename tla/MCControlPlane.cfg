CONSTANTS
  Callers = {a1, a2}
  MaxRev = 3
  Attempts = 2
  Tries = {2}
  AskedPolicies = {"Default", "Foreground"}
  Graces = {0, 1}
  Preconditions = {"uid"}
  ServiceNames = {s1, s2}
  IPs = {i1}
  NodePorts = {p1}
  MaxPorts = 2
  Submissions <- SubmittedServices
  Requesters = {r1, r2}
  ServiceMaxRev = 3
  Clients = {c1, c2}
  Nobody = Nobody
  TTL = 3
  Size = 2
  MaxPods = 4
  Orphans = {1}
  MaxReplicas = 3
  Burst = 2
  MaxLag = 1
  MaxEvents = 1
  NoNode = none
  Arrays <- RankedArrays
  RelatedPods <- PodsNearby
  TimeNow = 9
SYMMETRY Symmetry
SPECIFICATION PlaneSpec
INVARIANTS
  StoreIsSound
  DeleteIsHonoured
  AllocationsAreSound
  RangeIsSound
  CountsItsOwn
  RankingIsSound
PROPERTIES
  ObjectsLiveOnce
  NeverTooMany
  DeploymentSteps
  ClusterSteps
CHECK_DEADLOCK FALSE
