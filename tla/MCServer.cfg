SPECIFICATION FairSpec
CONSTANTS
    Conns = {c1, c2, c3}
    Grace = 2
    MaxNeed = 3
INVARIANTS
    ExitIsHonest
PROPERTIES
    StopEnds
CHECK_DEADLOCK FALSE
