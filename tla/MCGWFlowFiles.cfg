SPECIFICATION FairSpec
CONSTANTS
  Path <- Paths
  Volatile <- Changing
  Thread = {t1, t2}
  MaxRetry = 2
  MaxFiles = 1
  MaxVer = 2
  MaxDrops = 1
  MaxKills = 1
INVARIANTS UploadedIsGenuine NoFileWithoutRow
PROPERTIES EventuallyMirrored
