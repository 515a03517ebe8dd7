SPECIFICATION Spec
CONSTANTS
    w1 = w1  w2 = w2  r1 = r1  r2 = r2  r3 = r3  a = a  b = b  ka = ka  kb = kb
    Workers = {w1, w2}
    NoWorker = NoWorker
    Runs = {r1, r2, r3}
    WorkerOf <- MCWorkerOf
    Tasks = {a, b}
    NoTask = NoTask
    Keys = {ka, kb}
    NoKey = NoKey
    TaskOf <- MCTaskOf
    Places = {1, 2}
    MaxFailures = 1
    MaxLost = 1
CHECK_DEADLOCK FALSE
INVARIANTS PlaceIsUsed
PROPERTIES TakenWithinLimit
