SPECIFICATION Spec
CONSTANTS
    Nodes = 2
    MaxCalls = 4
    MaxCuts = 0
    Confs <- MCConfs
INVARIANT
    MatchReuses
CHECK_DEADLOCK FALSE
