SPECIFICATION FairSpec
CONSTANTS
  N = 3
  After <- Stages
  MaxLapses = 2
  MaxKills = 2
INVARIANTS CompletedIsReal NothingForgotten
PROPERTIES SlurmIsJudged EventuallyReported
CHECK_DEADLOCK FALSE
