SPECIFICATION FairSpec
CONSTANTS
    N = 3
    Procs = {p1, p2}
    MaxTasks = 2
    MaxKills = 1
INVARIANTS
    TypeOK
    SuccessSound
    RefusedOnlyOnError
PROPERTIES
    Implements
    Answers
CHECK_DEADLOCK FALSE
