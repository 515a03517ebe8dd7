SPECIFICATION FairSpec
CONSTANTS
  Workers = {w1, w2}
  NoWorker = NoWorker
  Lease = 2
  MaxReclaims = 3
INVARIANTS CrashLoopStops UpgradesAreNotLosses
PROPERTIES StatusMachine LostWorkIsTakenBack
CHECK_DEADLOCK FALSE
