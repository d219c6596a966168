SPECIFICATION Spec
CONSTANTS
  Sname <- TwoSnames
  Withdrawable <- OneSname
  PageSize = 1
  MaxRetry = 2
  MaxLook = 1
  MaxTs = 2
  MaxFaults = 1
INVARIANTS NoLostUpdate OwedToChildren
PROPERTIES WatermarkNeverRetreats MirrorsPortal
