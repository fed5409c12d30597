CONSTANTS
  Callers = {a1, a2}
  MaxRev = 4
  Attempts = 2
  Tries = {2}
  AskedPolicies = {"Default", "Foreground"}
  Graces = {0, 1}
  Preconditions = {"mod"}
SPECIFICATION Spec
PROPERTY PreconditionsHold
CHECK_DEADLOCK FALSE
