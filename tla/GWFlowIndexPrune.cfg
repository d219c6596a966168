SPECIFICATION FairSpec
CONSTANTS
  Sname = {s1, s2}
  RetryCap = 2
  MaxEdits = 4
PROPERTIES EventuallyPruned
