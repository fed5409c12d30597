CONSTANTS
  Templates = {"a", "b"}
  MaxReplicas = 1
  MaxCollisions = 0
  Strategies = {"Recreate"}
  SurgePercent = 25
  UnavailablePercent = 25
  HistoryLimit = 0
  MaxChanges = 1
SPECIFICATION DeploymentSpec
PROPERTY ChangeReplacesEveryPod
CHECK_DEADLOCK FALSE
