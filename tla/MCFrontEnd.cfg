SPECIFICATION FrontEndSpec
CONSTANTS
    Ids <- MCIds
    WeightIds <- MCWeightIds
    Programs <- MCPrograms
    Weights <- MCWeights
    Worlds <- AllWorlds
    Tensors <- MCTensors
    Nodes <- MCNodes
    In <- MCIn
    Out <- MCOut
    Initialized <- MCInitialized
    Lineages <- MCLineages
    Ts <- MCTs
    Tps <- MCTps
    Sample <- MCSample
    Known <- MCKnown
    KnownNodes <- MCKnownNodes
    Dependency <- MCDependency
    Orders <- MCOrders
INVARIANTS
    SingleAssignment
    ReadsEverythingOnce
    ClaimsHold
    FinalsDiscovered
    ReducedAfterInputs
    TypeOK
    SuccessSound
    NothingDropped
    StageComputesOutputs
