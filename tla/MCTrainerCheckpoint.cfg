SPECIFICATION FairSpec
CONSTANTS
  R = 2
  Loader = 3
  UpdateFreq = 2
  Steps = 4
  Config <- MCConfig
INVARIANTS
  AsUninterrupted
  CheckpointsSound
  KeepsLastN
  BestIsLowest
PROPERTIES
  Implements
