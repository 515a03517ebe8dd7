SPECIFICATION Spec
CONSTANTS
  a = a
  b = b
  c = c
  lane = lane
  wide = wide
  narrow = narrow
  NoWorker = NoWorker
  NoTask = NoTask
  NoLane = NoLane
  Tasks = {a, b, c}
  Workers = {w1, w2}
  Parent <- NoParents
  Division <- NarrowForTwo
  Lane <- LaneOfTwo
  MaxConcurrency <- Places
  Timed <- NoTasks
  Account <- OneAccount
  Reserve <- OneEach
  Rooms = {3}
  AttemptMax = 1
SYMMETRY MCSymmetry
INVARIANTS DivisionWithinLimit LaneWorksOne EndedNamesNoWorker
CHECK_DEADLOCK FALSE
