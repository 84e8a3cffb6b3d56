CONSTANTS
  b1 = b1
  b2 = b2
  b3 = b3
  t1 = t1
  t2 = t2
  r1 = r1
  r2 = r2
  r3 = r3
  c1 = c1
  c2 = c2
  None = None
  Bookings = {b1}
  Techs = {t1}
  Requests = {r1, r2, r3}
  Codes = {c1, c2}
  Endpoints <- ArrivalEndpoints
  PatchTargets <- AppPatches
  MayAbort = FALSE
  MaxRevisions = 0
CHECK_DEADLOCK FALSE
SPECIFICATION FairSpec
INVARIANTS ArrivedHasCode
PROPERTIES ArrivedGetsCode
