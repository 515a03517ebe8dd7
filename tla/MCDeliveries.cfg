SPECIFICATION DeliveriesFairSpec
CONSTANTS
  NoKey = NoKey
  Hooks = {h1, h2, h3}
  Requests = {q1, q2}
  Drainers = {w1}
  Entries = {e1}
  MaxPerHour = 1
  MaxCrashes = 1
INVARIANTS RateOvershoot RefusedIsNotStarted
PROPERTIES MadeIsClaimed WakesAreSpent
CHECK_DEADLOCK FALSE
