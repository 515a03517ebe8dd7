SPECIFICATION KeeperFairSpec
CONSTANTS
  LeaseMs = 3
  Every = 1
  ChildWait = 4
  Forever = 5
  DelayMax = 1
 
PROPERTIES StuckRunIsGivenUp
CHECK_DEADLOCK FALSE
