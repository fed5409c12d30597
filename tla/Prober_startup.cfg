CONSTANTS
  ProbeSets = {{"startup", "readiness"}}
  RestartChoices = {TRUE}
  SuccessThreshold = 1
  FailureThresholds = {2}
  MaxContainers = 2
  MaxUpdates = 2
SPECIFICATION ProbeSpec
PROPERTY StartupFirst
CHECK_DEADLOCK FALSE
