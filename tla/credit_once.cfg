CONSTANTS
  b1 = b1
  b2 = b2
  p1 = p1
  p2 = p2
  p3 = p3
  tech = tech
  customer = customer
  r1 = r1
  r2 = r2
  r3 = r3
  None = None
  Bookings = {b1}
  Ids = {p1}
  Users = {tech, customer}
  TechnicianOf <- OneTechnician
  CustomerOf <- OneCustomer
  OpeningBalance <- EmptyWallets
  Requests = {r1, r2}
  Endpoints <- CaptureEndpoints
  MayAbort = FALSE
SPECIFICATION Spec
CHECK_DEADLOCK FALSE
INVARIANT EarningCreditedOnce
