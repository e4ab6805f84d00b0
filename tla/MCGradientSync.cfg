SPECIFICATION FairSpec
CONSTANTS
  R = 4
  Iters = 2
  Config <- MCConfig
INVARIANTS
  StepUsesAll
  ReplicasAgree
PROPERTIES
  InFlightKept
  Implements
