CONSTANTS
  th1 = th1
  th2 = th2
  cu = cu
  tu = tu
  ou = ou
  s1 = s1
  s2 = s2
  s3 = s3
  Threads = {th1}
  BookingThreads = {th1}
  Users = {cu, tu, ou}
  CustomerOf <- TheCustomer
  TechnicianOf <- TheTechnician
  Sockets = {s1, s2, s3}
  UsersOf <- TheUsers
  Callers = {cu}
  MaxCalls = 2
  MaxPending = 1
SPECIFICATION FairSpec
INVARIANTS BothTold HistoryMakesSense
PROPERTIES HistoryIsKept EmptyRoomEndsCall
