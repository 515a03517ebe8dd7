SPECIFICATION Spec
CONSTANTS
  a = a
  b = b
  c = c
  lane = lane
  wide = wide
  narrow = narrow
  NoWorker = NoWorker
  NoTask = NoTask
  NoLane = NoLane
  Tasks = {a, b}
  Workers = {w1, w2}
  Parent <- ChildParent
  Division <- AllWide
  Lane <- NoLanes
  MaxConcurrency <- Places
  Timed <- NoTasks
  Account <- OneAccount
  Reserve <- OneEach
  Rooms = {3}
  AttemptMax = 2
PROPERTIES WaitsForTheOwner
CHECK_DEADLOCK FALSE
