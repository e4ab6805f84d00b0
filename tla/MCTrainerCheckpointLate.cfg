SPECIFICATION Spec
CONSTANTS
  R = 2
  Loader = 3
  UpdateFreq = 2
  Steps = 4
  Config <- MCLate
INVARIANT RatesKept
CHECK_DEADLOCK FALSE
