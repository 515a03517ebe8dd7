SPECIFICATION FairSpec
CONSTANTS
    r = r
    k1 = k1
    k2 = k2
    k3 = k3
    s0 = s0
    s1 = s1
    Tasks = {r, k1, k2, k3, s0, s1}
    Root = r
    NoTask = NoTask
    Parent <- UnderTheRoot
    Above <- UpToTheRoot
    Successors = {s0, s1}
    Cyclic = {s1}
    Runs = {m1}
    Workers = {w1, w2}
    HopMax = 1
    FanOutMax = 2
    Batch = 1
    MaxCrashes = 1
CHECK_DEADLOCK FALSE
INVARIANTS FanOutOvershoot LeftBehindWereUnderWay LedgerIsTrue
PROPERTIES HandoffsAreDecided
