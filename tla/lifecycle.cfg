CONSTANTS
  b1 = b1
  b2 = b2
  b3 = b3
  t1 = t1
  t2 = t2
  r1 = r1
  r2 = r2
  r3 = r3
  c1 = c1
  c2 = c2
  None = None
  Bookings = {b1}
  Techs = {t1, t2}
  Requests = {r1, r2, r3}
  Codes = {c1}
  Endpoints <- AllEndpoints
  PatchTargets <- WorkPatches
  MayAbort = TRUE
  MaxRevisions = 1
SPECIFICATION Spec
SYMMETRY Interchangeable
INVARIANTS IInv WinnerHoldsJob FieldWorkHasTechnician CompletedIsInvoiced
PROPERTIES TechnicianBound ImplementsAssignment
