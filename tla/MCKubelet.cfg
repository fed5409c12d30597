CONSTANTS
  UIDs = {u1}
  DeletionGraces = {2}
  SpecGrace = 3
  Leftover = {u1}
  MaxEvents = 3
  PodIds = {p}
  MaxChanges = 2
  MaxTime = 2
  MaxFailures = 1
  MaxPods = 2
  MaxStatusChanges = 1
  NetworkPods = {"w"}
  DnsPods = {}
  MaxSandboxes = 2
  LastAddress = 1
  Names = {}
  ClusterIPs = {}
  NodePorts = {}
  NodeIPs = {}
  Nodes = {}
  Aliases = {}
  DnsIP = 0
  Hosts <- MCHosts
  MaxRequests = 1
  ProbeSets = {{"readiness", "liveness"}, {"liveness"}, {"readiness", "startup"}}
  RestartChoices = {TRUE, FALSE}
  SuccessThreshold = 1
  FailureThresholds = {1, 2}
  MaxContainers = 2
  MaxUpdates = 2
SPECIFICATION KubeletSpec
INVARIANTS
  WorkersAreSound
  PlegIsSound
  ProbesAreSound
  TerminalIsTrue
  NetworkServes
PROPERTIES
  OnlyOnward
  PodSteps
  StatusSteps
CHECK_DEADLOCK FALSE
