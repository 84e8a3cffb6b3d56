CONSTANTS
  p1 = p1
  p2 = p2
  t1 = t1
  t2 = t2
  c1 = c1
  c2 = c2
  r1 = r1
  r2 = r2
  o1 = o1
  o2 = o2
  Ids = {p1, p2}
  Users = {t1, t2}
  TechnicianOf <- MCTechnicianOf
  Commission <- MCCommission
  Codes = {c1, c2}
  Orders = {o1, o2}
  Limit = 1
  MaxAttempts = 2
  Requests = {r1, r2}
  None = None
  MayAbort = TRUE
SYMMETRY Symmetry
SPECIFICATION Spec
INVARIANTS ConfirmedByCode GuessesAreCounted ClearedIsCollected
