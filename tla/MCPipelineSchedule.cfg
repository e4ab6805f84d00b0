SPECIFICATION PipelineFairSpec
CONSTANTS
  Device <- MCDevice
  Plan <- MCPlan
INVARIANTS
  MicrobatchesMatch
  ActivationBound
PROPERTIES
  ImplementsOrder
