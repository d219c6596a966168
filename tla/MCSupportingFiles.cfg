SPECIFICATION Spec
CONSTANTS
  File = {f1, f2}
  Req = {r1, r2}
  MaxPosts = 2
  MaxKills = 1
SYMMETRY Symmetric
INVARIANTS SomebodySubmits AcceptedHasId
PROPERTIES SubmittedComplete
