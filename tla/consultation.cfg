CONSTANTS
  k1 = k1
  k2 = k2
  b1 = b1
  b2 = b2
  u1 = u1
  u2 = u2
  u3 = u3
  t1 = t1
  t2 = t2
  r1 = r1
  r2 = r2
  r3 = r3
  None = None
  Consultations = {k1}
  Bookings = {b1}
  Users = {u1, u2, u3}
  Techs = {t1, t2}
  Requests = {r1, r2}
  Customers = {u1}
  ProfileOf <- Profiles
  Endpoints <- AllEndpoints
  MayAbort = TRUE
SPECIFICATION FairSpec
INVARIANTS IInv NobodyOverlooked VisitGoesToCaller
PROPERTIES TechnicianBound SearchEnds
