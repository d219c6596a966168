SPECIFICATION FairSpec
CONSTANTS
  Sname <- TwoSnames
  Withdrawable <- NoSname
  PageSize = 1
  MaxRetry = 2
  MaxLook = 1
  MaxTs = 2
  MaxFaults = 0
PROPERTY EventuallySettled
