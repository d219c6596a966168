SPECIFICATION GwoscFairSpec
CONSTANTS
  Event <- Events
  Key <- Keys
  Config <- Configs
  Name <- Names
  NoName = "none"
  Unfit = {3}
  MaxRetry = 2
  MaxKills = 1
INVARIANTS SuccessIsWhole ClosedPartialHasJob
PROPERTIES EventsAreJudged EventuallyClosed
CHECK_DEADLOCK FALSE
