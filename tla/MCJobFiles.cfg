SPECIFICATION Spec
CONSTANTS
  u1 = u1
  u2 = u2
  t1 = t1
  t2 = t2
  r1 = r1
  r2 = r2
  NoToken = NoToken
  Upload <- Uploads
  Token <- Tokens
  Of <- OneEach
  Reader <- Readers
SYMMETRY Interchangeable
INVARIANTS WholeOrNothing UploadsHadPass
PROPERTIES ServedIsOwed LiveIsServed
CHECK_DEADLOCK FALSE
