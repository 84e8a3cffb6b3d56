------------------------------ MODULE BackOffice ------------------------------
(***************************************************************************)
(* The components that share no state, and what they promise.  Those whose *)
(* names would collide are instantiated, and their promises are given      *)
(* names here.                                                             *)
(***************************************************************************)
EXTENDS Inventory, Reviews, GroqService

CONSTANTS \* of Disputes, with the Technicians of Reviews
  DisputeIds, PaidBookings, Consultations, Customers, CustomerOf, PaymentIds,
  BookingOf, Decisions, MaxRows

CONSTANTS \* of Technicians
  Providers, Categories, ProfileIds, Registrations

CONSTANTS \* of Accounts
  AccountIds, Phones, Emails, Googles, GoogleEmail, Codes, SignIns

CONSTANTS \* of BookingChat
  ChatBookings, ChatUsers, Admins, ChatCustomer, ChatTechnician, MaxMessages,
  ChatRequests

CONSTANTS \* of Notifications
  Recipients, Tokens, Sends, Pushes

CONSTANTS \* of StartUp
  Processes, MaxFailures

VARIABLES
  dispute, posts, technician, payment, marked, confirming, remarked,
  decisions,
  technicians, registrations, backfill, uncategorised,
  users, calling, issued,
  chat, serving, shown, unseen,
  token, alive, sends, rows, delivered,
  pc, failed, schema, password

disputeVars ==
  <<dispute, posts, technician, payment, marked, confirming,
    remarked, decisions>>
technicianVars == <<technicians, registrations, backfill, uncategorised>>
accountVars == <<users, calling, issued>>
chatVars == <<chat, serving, shown, unseen>>
noticeVars == <<token, alive, sends, rows, delivered>>
startVars == <<pc, failed, schema, password>>

Dsp == INSTANCE Disputes WITH Ids <- DisputeIds, Bookings <- PaidBookings

Tch == INSTANCE Technicians WITH
  Users <- Providers, Technicians <- ProfileIds, cut <- uncategorised

Acc == INSTANCE Accounts WITH
  Users <- AccountIds, Requests <- SignIns, requests <- calling

Cht == INSTANCE BookingChat WITH
  Bookings <- ChatBookings, Users <- ChatUsers, CustomerOf <- ChatCustomer,
  TechnicianOf <- ChatTechnician, Requests <- ChatRequests,
  messages <- chat, reqs <- serving, cut <- unseen

Ntf == INSTANCE Notifications WITH Users <- Recipients

Stt == INSTANCE StartUp

ASSUME PartsAssumption ==
  /\ Dsp!PartyAssumption
  /\ Tch!NoUserAssumption
  /\ Acc!GoogleEmailAssumption
  /\ Cht!PeopleAssumption
  /\ Ntf!TokenAssumption
  /\ Stt!FailuresAssumption

\* NULL is no row of a table, and no code.
ASSUME NullAssumption ==
  None \notin
    Dsp!Dispute \cup Tch!Technician \cup Acc!User \cup Codes \cup Ntf!Row

-----------------------------------------------------------------------------
(* What the components promise, each with its type invariant.                *)

\* A dispute resolved by a refund has a payment of its booking refunded, and the
\* booking shows it unless a confirmation wrote over it.
RefundedIsPaidBack == Dsp!TypeOK /\ Dsp!RefundedIsPaidBack

\* A user has one technician profile, a technician's primary category is among
\* those served, and who is approved and available is found under it, whatever
\* registrations, updates and boots crossed.
ProfilesAreConsistent ==
  /\ Tch!TypeOK /\ Tch!OneProfilePerUser /\ Tch!PrimaryIsServed
  /\ Tch!ApprovedIsFound

\* Each identity leads to one account, and a pending phone code was generated
\* for that phone.
AccountsAreConsistent ==
  Acc!TypeOK /\ Acc!OneAccountPerIdentity /\ Acc!PhoneCodeWasIssued

\* Each answer of a session follows its question, once, and a call nobody else
\* turns the ring under gives up only after every key.
GroqIsConsistent ==
  GroqTypeOK /\ LoneCallTriesEveryKey /\ AnswersFollowQuestions

\* A message marked read was shown to somebody it is for, and a badge fits the
\* preview beside it.
ChatIsConsistent == Cht!TypeOK /\ Cht!ReadWasShown /\ Cht!BadgeFitsPreview

\* A call that was not cut off left its notice, and what the notice calls pushed
\* did reach a device.
NoticesAreConsistent == Ntf!TypeOK /\ Ntf!NoticeIsKept

\* A process whose schema fixes were all served ends with what the repositories
\* use, but for the call log's, and with a finance account.
SchemaIsHealed == Stt!TypeOK /\ Stt!BootHeals
=============================================================================
