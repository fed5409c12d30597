CONSTANTS
  PullPods = {p, q}
  Images = {i}
  PullPolicies = {"Always"}
  MaxParallel = 1
  Initial = 1
  Most = 2
  Burst = 2
  Rate = 1
  MaxClock = 0
  MaxPulls = 2
SPECIFICATION FairImageSpec
PROPERTY EveryPullIsMade
CHECK_DEADLOCK FALSE
