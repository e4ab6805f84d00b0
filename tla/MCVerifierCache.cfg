SPECIFICATION Spec
CONSTANTS
    Runs = {r1, r2}
    Jobs <- MCJobs
    Stem <- MCStem
SYMMETRY Symmetry
INVARIANTS
    ServesOwnGraphs
    QuietCacheWhole
    LoneRunRecovers
CHECK_DEADLOCK FALSE
