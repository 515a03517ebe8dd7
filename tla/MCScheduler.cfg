SPECIFICATION FairSpec
CONSTANTS
    Workers = {w1, w2}
    Period = 2
    CatchUp = 1
    MaxTime = 3
    MaxUpsets = 1
CHECK_DEADLOCK FALSE
INVARIANTS SaidOnce RunsAlone
PROPERTIES NothingLost DueIsSettled
