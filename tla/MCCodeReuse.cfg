SPECIFICATION Spec
CONSTANTS
    Nodes = 2
    MaxCalls = 4
    MaxCuts = 1
    Confs <- MCConfs
INVARIANTS
    NeverStuck
PROPERTIES
    LoadedTogether
    CodeKept
CHECK_DEADLOCK FALSE
