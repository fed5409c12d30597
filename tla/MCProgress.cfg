SPECIFICATION ProgressSpec
PROPERTIES
  WatchersHear
  QueuesServe
  ReplicasConverge
  ClusterConverges
  PodsProgress
  StatusArrives
CHECK_DEADLOCK FALSE
