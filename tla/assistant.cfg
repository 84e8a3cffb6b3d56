CONSTANTS
  m1 = m1
  m2 = m2
  k1 = k1
  k2 = k2
  KeyCount = 2
  Sessions = {}
  Calls = {k1, k2}
  None = None
  Users = {u1}
  Posts = {m1, m2}
  CallOf <- MCCallOf
  HumanMax = 1
  MayAbort = TRUE
SPECIFICATION FairSpec
INVARIANTS OneReplyPerMessage
PROPERTIES AnsweredInTime
