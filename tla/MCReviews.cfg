SPECIFICATION FairSpec
CONSTANTS
  NoAction = NoAction
  Actions = {a}
  StageMoves = {}
  Runs = {p1}
  Workers = {w1, w2}
  MaxRevisions = 1
  MaxCrashes = 1
  MaxCards = 2
INVARIANTS ActsOnApproval RoundsFollowRevisions OneVerdictOfAReview
PROPERTIES WaitingIsAnswered
CHECK_DEADLOCK FALSE
