CONSTANTS
  b1 = b1
  b2 = b2
  p1 = p1
  p2 = p2
  p3 = p3
  tech = tech
  customer = customer
  r1 = r1
  r2 = r2
  r3 = r3
  None = None
  Bookings = {b1, b2}
  Ids = {p1, p2}
  Users = {tech, customer}
  TechnicianOf <- OneTechnician
  CustomerOf <- OneCustomer
  OpeningBalance <- NoWallets
  Requests = {r1, r2}
  Endpoints <- WalletEndpoints
  MayAbort = TRUE
SPECIFICATION Spec
SYMMETRY Interchangeable
INVARIANTS IInv PaidCashHasDue BookingFollowsMoney EntriesFollowPayment BalanceIsLedger
PROPERTIES ImplementsLife
