SPECIFICATION Spec
CONSTANTS
    Runs = {r1, r2}
    Other = other
    None = none
    MaxMoves = 2
SYMMETRY Symmetry
INVARIANTS
    PublishedComplete
    NoLeftover
PROPERTIES
    NeverReplaced
    SuccessIsOwn
    UnrelatedKept
CHECK_DEADLOCK FALSE
