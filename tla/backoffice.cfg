CONSTANTS
  None = None
  Null = Null
  NoRequest = NoRequest
  Twins = {w1, w2}
  Requests = {r1, r2}
  Parts = {p1}
  Orders = {o1, o2}
  Quantity = 2
  Txs = {x1, x2}
  Technicians = {"t1"}
  Bookings = {1, 2, 3, 4}
  TechnicianOf <- MCTechnicianOf
  KeyCount = 2
  Sessions = {"s1"}
  Calls = {r1, r2}
  DisputeIds = {w1, w2}
  PaidBookings = {"b1"}
  Consultations = {"q1"}
  Customers = {"u1"}
  CustomerOf <- MCCustomerOf
  PaymentIds = {y1, y2}
  BookingOf <- MCBookingOf
  Decisions = {r1, r2}
  MaxRows = 1
  Providers = {"u1"}
  Categories = {"c1", "c2"}
  ProfileIds = {w1, w2}
  Registrations = {r1, r2}
  AccountIds = {w1, w2}
  Phones = {"p1"}
  Emails = {"e1"}
  Googles = {"g1"}
  GoogleEmail <- MCGoogleEmail
  Codes = {"c1", "c2"}
  SignIns = {r1, r2}
  ChatBookings = {"b1", "b2"}
  ChatUsers = {"u1", "u2", "u3"}
  Admins = {"u3"}
  ChatCustomer <- MCChatCustomer
  ChatTechnician <- MCChatTechnician
  MaxMessages = 1
  ChatRequests = {r1, r2}
  Recipients = {"u1", "u2"}
  Tokens = {w1, w2}
  Sends = {r1, r2}
  Pushes = TRUE
  Processes = {w1, w2}
  MaxFailures = 1
SYMMETRY Symmetry
CHECK_DEADLOCK FALSE
SPECIFICATION Spec
INVARIANTS StockIsLogged RatingNearMean RefundedIsPaidBack ProfilesAreConsistent AccountsAreConsistent GroqIsConsistent ChatIsConsistent NoticesAreConsistent SchemaIsHealed
