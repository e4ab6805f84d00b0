SPECIFICATION LineagesSpec
CONSTANTS
    Weights <- MCWeights
    Worlds <- LocalWorlds
INVARIANT
    LocalFinalsDiscovered
