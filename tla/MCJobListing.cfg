SPECIFICATION Spec
CONSTANTS
  open = open
  closed = closed
  NoJob = NoJob
  w1 = w1
  w2 = w2
  Job <- Jobs
  Embargoed <- Hidden
  Writer <- Writers
  MaxStarts = 3
SYMMETRY Interchangeable
INVARIANTS LoneSaveRepairs CalmAnswerIsComplete
