CONSTANTS
  Keys = {k1, k2}
  MatchChoices = {TRUE}
  ListFailures = FALSE
  Compactions = TRUE
  MaxRev = 3
SPECIFICATION FairSpec
INVARIANT NeverGivesUp
CHECK_DEADLOCK FALSE
