SPECIFICATION FairSpec
CONSTANTS
  Sname <- Superevents
  Uid = {u1, u2}
  NoUid = NoUid
  MaxRetry = 2
  MaxFiles = 1
  MaxEdits = 2
  MaxCrashes = 1
  MaxShort = 1
INVARIANTS NothingForgotten OrphanHasRef
PROPERTIES GiveUpIsFinal MarkerOutlivesWork EventuallyLinked
