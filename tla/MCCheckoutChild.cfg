SPECIFICATION FairSpec
CONSTANTS
  a = a
  b = b
  c = c
  lane = lane
  wide = wide
  narrow = narrow
  NoWorker = NoWorker
  NoTask = NoTask
  NoLane = NoLane
  Tasks = {a, b, c}
  Workers = {w1}
  Parent <- BUnderA
  Division <- NarrowForTwo
  Lane <- LaneNotB
  MaxConcurrency <- Places
  Timed <- TheChild
  Account <- OneAccount
  Reserve <- OneEach
  Rooms = {0, 2}
  AttemptMax = 1

PROPERTIES StatusMachine AnsweredGoesOn
CHECK_DEADLOCK FALSE
