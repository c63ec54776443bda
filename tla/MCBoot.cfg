CONSTANTS
  Pids = {0, 1, 2, 3, 4, 5}
  WeightValues <- MCWeights
  CommandLines <- Lines
  MAX_INIT_ARGS = 2
  Levels <- MCLevels
  Followed <- MCFollowed
SPECIFICATION Spec
CHECK_DEADLOCK FALSE
INVARIANTS HandOver CalledOnce InitInvocation AnswersRight
PROPERTY Progress
