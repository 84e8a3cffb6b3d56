# HomeFix: a formal model of the booking and billing backend

HomeFix is a home-repair marketplace: a Flutter app (`src/Frontend`) for
customers and technicians, and a Go server (`src/Backend`) that keeps all state
in PostgreSQL. The server is where correctness lives. Each HTTP request runs in
a goroutine of its own, and almost every service method is *read, decide,
write, write, write*, where each write commits by itself. There is no lock and
no transaction around a method. This project models those methods statement by
statement, lets requests interleave and be cut off anywhere, and says what
holds nevertheless, and what does not.

## Inventory

Paths are below `src/Backend/internal`.

| component | state | operations | interacts with | what makes it correct |
|---|---|---|---|---|
| **Booking lifecycle** `service/booking_service.go`, `repository/booking_repo.go` | `bookings`, `booking_estimates` | Create, Accept, Reject, UpdateStatus, VerifyOTP, SubmitEstimate, RespondToEstimate, Complete, Cancel, RaiseWarrantyClaim | technicians (lookup), notifications, payments (columns of the booking) | one technician per job; nobody on site without a technician, and no work without one except on an estimate; nothing completed without a price; arrival gets a code; terminal states are final |
| **Payments** `service/razorpay_service.go`, `repository/payment_repo.go` | `payments` | open (online, cash), VerifyAndCapture, ConfirmCashPayment, MarkFailed, Refund | Razorpay, bookings, wallets, dues, cash OTP | paid once, refunded once, only if paid; booking and ledger agree with the payment; no cash payment without its due |
| **Legacy UPI** `service/upi_service.go` | `payments` | Refund (from the admin panel); the rest is unreachable | as payments | as payments |
| **Wallets** `repository/wallet_repo.go` | `wallets`, `wallet_transactions` | GetOrCreate, Credit, Debit | payments, refunds | balance equals ledger, never negative, no credit lost |
| **COD dues** `service/due_service.go` | `technician_dues`, `due_settlements` | AddDue, CreateSettlementOrder, VerifySettlement, CheckCodAllowed | cash payments, Razorpay | a due is cleared only by money collected for it |
| **Cash OTP** `service/cash_otp_service.go`, `repository/cash_otp_repo.go` | columns of `payments` | GetCashOTP, RefreshCashOTP, Verify | cash payments | cash only with the customer's code; no guess goes uncounted |
| **Consultations** `service/consultation_service.go` | `consultations` | Request, Confirm/DeclineScheduled, Accept, Reject, End, rate, RecommendOnsite, DeclineRecommendation, Escalate, Cancel | bookings, technicians, calls | nobody is overlooked or swapped; the visit goes to the technician of the call; the search ends |
| **Call signaling** `handler/call_handler.go`, `repository/call_log_repo.go` | rooms in memory, `call_logs` | InitiateCall, join, relay, leave, heartbeat | websockets, call logs | two participants per room, both told of each other; the history makes sense and is kept |
| **Disputes** `service/dispute_service.go` | `disputes`, evidence, messages | raise, comment, review, resolve (may refund) | payments | resolved as refunded means a payment refunded, and shown so unless a confirmation writes over it |
| **Booking chat** `repository/booking_repo.go`, `handler/booking_handler.go` | `booking_messages` | send, open, list | bookings | what is marked read was shown; badge and preview agree |
| **Authentication, users** `service/auth_service.go`, `repository/user_repo.go` | `users` | phone codes, sign-up, Google, e-mail codes, password reset | mail | one account per identity; a code was issued for that phone |
| **Technicians** `service/technician_service.go` | `technicians`, `technician_categories` | register, update, approve, badge, availability, backfill at boot | users, categories | one profile per user; who is approved can be found |
| **Reviews** `repository/review_repo.go`, trigger in `001_init.sql` | `reviews`, columns of `technicians` | Create | bookings | a booking counts once; the average is near the mean |
| **AI diagnosis** `service/groq_service.go` | ring of API keys, sessions and messages | Diagnose, transcribe, chat | Groq | answers follow their questions; no key is skipped by a call alone |
| **Support chat** `service/support_service.go` | `support_messages` | send, reply by rule, by AI, by hand | Groq | one automatic reply per message, in time |
| **Notifications** `service/firebase_service.go` | `fcm_token` of users, `notifications` | SendToUser, list, mark read | FCM, everybody | the notice is kept and claims no push that did not arrive |
| **Inventory** `repository/inventory_repo.go` | parts, movements, purchase orders | adjust, order, receive | admin panel | stock never drifts from its log, and no movement takes it below zero |
| **Start-up** `cmd/server/main.go` | the schema, a seeded account | schema fixes at boot | all | once a boot's fixes are served, what the repositories use is there (but `call_type`), in whatever processes |
| Admin panel | sessions, pages | pages and JSON over the above | all | - |
| Status history, CMS, analytics, audit, uploads, categories | own tables, files | append, read | - | order |
| Router, middleware, configuration | - | wiring | all | - |
| Flutter app | client state | calls the endpoints | all endpoints | - |

What is hard in this code is always the same thing in another place: a decision
taken on a row that another request changes before the write (stale state); two
or more statements that belong together and commit apart (atomicity, partial
failure); a guarded `UPDATE` whose "no row changed" nobody looks at
(retries); `SELECT` then `INSERT` (races to create). `PROJECT.json` lists each
hazard with its line, and the properties that would catch it going wrong.

## The modules

| module | what it is |
|---|---|
| `JobAssignment` | abstract: what is promised about who does a job |
| `BookingLifecycle` | the booking service over its repository, one action per statement; implements `JobAssignment` |
| `PaymentLife` | abstract: what is promised about one payment |
| `Payments` | the payment services over the payment, booking, wallet and due repositories; implements `PaymentLife` |
| `CashDues` | the codes that confirm cash and the settlement of dues |
| `Consultation` | consultations, over the bookings of `JobAssignment` |
| `CallSignaling` | rooms in memory and the call history |
| `GroqService` | the shared client of the AI, its ring of keys, diagnosis sessions |
| `SupportChat` | the support chat; extends `GroqService` |
| `Disputes` | disputes and their resolution |
| `BookingChat` | the chat of a booking and its badges |
| `Accounts` | accounts, identities and their codes |
| `Technicians` | technicians' profiles and categories |
| `Reviews` | reviews and the rating they make |
| `Notifications` | pushes and notices |
| `Inventory` | stock and purchase orders |
| `StartUp` | the schema fixes of a boot |
| `BackOffice` | the components that share no state, `Disputes` to `StartUp` above and `GroqService`, and what each promises |
| `...Proofs` | theorems about the component of that name; those about the nine of `BackOffice` are in `BackOfficeProofs` and `GroqServiceProofs` |
| `MC...` | instances for TLC |

Components meet in four ways. `BookingLifecycle` and `Payments` are shown to
implement an abstract specification; the abstract one of bookings,
`JobAssignment`, is what `Consultation` is composed with: escalating a
consultation posts and offers a job, and the jobs move meanwhile as the booking
component promises. That `TechnicianBound` holds of both is why `Payments` and
`CallSignaling` may take the technician of a booking or a thread as a constant.
`SupportChat` runs on top of `GroqService`: each reply is one of its calls.
`Payments` has the due's part in confirming a payment and `CashDues` has what
becomes of it. The components in `BackOffice` share no
variable with any other; a behaviour of `MCBackOffice` chooses one of them and
runs it alone, so that one run covers all without multiplying their states.

### How a request is modelled

`reqs` holds the requests being served. A slot is `Idle`, or a record whose
field `at` names the statement its handler runs next, with what the handler
carries in its local variables. Three kinds of actions use it:

* An action named after a **service method** (`Accept`, `Complete`, `Refund`,
  ...) takes an idle slot. Its conditions are the checks the method makes on the
  snapshot it reads; a check that fails answers an error and changes nothing, so
  it is no action. It leaves the slot at the method's first statement.
* An action prefixed **`Db`** is one committed statement or transaction of a
  repository; its guards and its `IF`s are the `WHERE` clause. It moves the slot
  on, or frees it when the method returns. `GatewayRefund` is a call to Razorpay.
* **`Abort`** frees a slot at any point: the client went away and its context
  was cancelled, a statement failed, or the process died. What was committed
  stays.

Between any two of them every other request may move. Reading the snapshot and
checking it is one step because nothing is written in it: only what was read
matters, and it was read at one moment (prepareCharge, which reads three rows,
uses only one of them for anything that is modelled).

`Serve` is the union of the service methods, `Execute` of the statements.
`CashDues`, `Disputes`, `BookingChat`, `Accounts`, `Technicians`, `Reviews`,
`Notifications` and `Inventory` use the same slots, under the name of what is
in flight (`requests`, `decisions`, `registrations`, `sends`, `txs`), and a
method with a single statement is a single action.

### `BookingLifecycle`

* `row[b]` is the row of `bookings`: status, technician, arrival code and
  whether it is verified, whether there is a final price, the warranty, whether
  it is marked as a claim. `estimate[b]` is the row of `booking_estimates`, with a
  revision number for its content. `status = "absent"` is "no such row".
* `won`, `origin` and `decidedOn` are history variables: they record what a
  client was told or knew. No action reads them.
* `NewRow` is what the `INSERT` stores. It names neither `is_warranty_claim` nor
  `warranty_claim_of`, so `claim` is `FALSE` even for a claim.
* `Reject` runs `Decline`, `UpdateStatus` runs `UpdateStatus` and, on arrival,
  `SetOTP`; `VerifyOTP` runs `StampOTP` then `UpdateStatus`; `Complete` runs
  `SetFinalPrice`, `SetWarranty`, `UpdateStatus`; `RespondToEstimate` runs
  `SetEstimateStatus`, `UpdateStatus`; `RaiseWarrantyClaim` runs `CreateClaim`,
  `AssignTechnician`.

Assumptions, and where they come from:

* `PatchAssumption`: the API accepts any valid status in
  `PATCH /bookings/:id/status`; the app sends `on_the_way` and `arrived`
  (`Frontend/lib/screens/technician/technician_jobs_screen.dart`,
  `Frontend/lib/providers/booking_provider.dart`). The theorems need only that
  no client patches a booking to `requested`, `pending_technician`, `accepted`
  or `completed`. The transition table allows the first from
  `pending_technician`, and a client that did it on a stale snapshot would take
  a job from the technician who has just confirmed it.
* `booking_estimates` has the unique key on `booking_id` that `UpsertEstimate`'s
  `ON CONFLICT` needs. Migration 017 does not create it; without it every
  submission fails and there is nothing to model.
* `generateOTP` may draw any code, also the same one twice.

### `Payments`

* `payment[p]` is the row of `payments`: status, booking, method, and whether it
  bills the visit charge. `booking[b]` has the two columns of `bookings` that
  payments write, `wallet` and `ledger` are `wallets` and `wallet_transactions`
  (entries about a payment; those about none are counted in `spent`), `due` is
  `technician_dues`, `gateway` is Razorpay's view of an order.
* Amounts are all one unit, so a wallet counts payments. What the model can tell
  is *whether* and *how often* money moves; how the amount is split into fees,
  GST, commission and earning is arithmetic it leaves out. So it leaves out the
  limit on cash jobs too (`CheckCodAllowed`), which refuses and changes nothing.
* A booking's technician and customer are constants. The technician is bound
  once a job is accepted (`TechnicianBound`, proved), and payments follow that.
* `Credit` and `Open` are the two outcomes of `WalletRepository.adjust`: with a
  row it is one locked transaction. Without one it is `SELECT`, then
  `INSERT`, and another request may insert in between: then the `INSERT`
  fails on the unique key. All callers discard the error.
* A wrong, missing or locked cash OTP ends the confirmation: `DbVerifyCashOtp`
  may always do so. It asks for the row only while it is `created`. How codes are
  issued, compared and counted is in `CashDues`.
* External: Razorpay captures an order whenever the customer pays it, also after
  the app has reported it failed; a refund at Razorpay may fail, and the code
  goes on either way.
* Not there: payments of type visit fee (nothing creates one), an
  administrator's manual credits (an opening balance stands for them), legacy
  UPI initiation and verification (no route).

### `CashDues`

* `otp`, `attempts` and `payment` are columns of `payments`; `due`, `old` (dues
  past `maxDays`), `settlement` and `captured` are the ledger and Razorpay's view
  of a settlement's order. `wrong` and `confirmed` are history.
* A cash order is opened (`InsertPayment`) if what is owed would stay within
  `Limit` with its commission and nothing owed is old. `GetCashOTP` draws a code when there is none yet, in two
  statements, so two first views may each draw one; `RefreshCashOTP` always does.
* Checking a code is `DbLockOtp` (`SELECT ... FOR UPDATE`) and `DbCountWrong` (the
  `UPDATE` and commit) under `locked`, so a refresh waits. A right code leads to
  `DbAddDue`, which does not insert a due twice, and `DbMarkVerifiedPaidCash`.
* A settlement order covers the dues pending when it is asked for; it is stored
  later, paid at Razorpay at any time, and verified, which marks the dues of the
  order paid in one transaction, whatever else has happened to them.

### `Consultation`

* `row` is `consultations`. `Request` inserts a row, looks for a technician, and
  writes the match (`AssignTechnician`, `AssignTechnicianScheduled`) or its
  failure (`UpdateStatus` to `no_technician`) in a later statement. Answers and
  recommendations are unconditional `UPDATE`s after a look at the row.
* `Escalate` runs `CreateBooking`, `AssignPendingTechnician`,
  `SetEscalatedBooking`, `UpdateRecommendationStatus`; `phase` and `holder` are
  the bookings as `JobAssignment` has them, and `JobMoves` is everything the
  booking component may do with them meanwhile.
* `from` is history: the consultation a booking came from. `cut` is history:
  consultations about which a request was cut off.

### `CallSignaling`

* A socket's goroutine is `sock[s]`: authorised, in its room (joined under the
  mutex) or out of it, with peers it has yet to tell: `peer-joined` while it is in,
  `peer-left` once it has left, both after the mutex is given back. `WriteMessage`
  is one such write, so a newcomer can join between a leave and the news of it.
  `dead` clients are found out by `ReadTimeout`. What is relayed passes unseen.
* The two writes of the call log are goroutines, one more for each join or leave
  that asks for it, counted by `answering` and `ending` until they begin. Each is an
  `UPDATE ... WHERE id = (SELECT ...)` in two steps, `DbPick...` and `DbMark...`:
  an `UPDATE` that has to wait for the row its subquery picked does not ask the
  subquery again. `picked` and `closing` count, for each row, those between the two
  steps; several may have picked the same row. `Crash` loses rooms, sockets and goroutines, not rows.

### `GroqService` and `SupportChat`

* A call stands at its history, its request or its save. The ring's mutex is held
  only to read and to turn, so `idx` moves under a call that is waiting; a call
  makes as many tries as there are keys.
* `SupportChat` stores the customer's message, answers by a rule in the same
  request, or leaves the reply to a goroutine with a deadline of 25 seconds:
  `Deadline` may come at any time, and everything on its context fails from
  then on. `Abort` is the death of the process.
* The AI is optional: `SetAI` hands it to the service, and nothing in the
  repository calls it. So the server as it is built has `ai = FALSE` and replies by
  rule or with an acknowledgement; the model has both wirings, chosen once.
* A reply longer than 700 bytes is cut at a byte, maybe inside a UTF-8 character;
  the database then refuses it. `"broken"` is such a reply: its save fails.

### The components of `BackOffice`

* `Disputes`: `Resolve` reads the dispute and, for a refund, a payment of its booking
  that is still paid; then the payment, the booking and the dispute are written, one
  by one. Meanwhile the technician of a booking changes (`Reassign`), and each payment
  of the booking is confirmed or fails: a confirmation finds it open (`Confirm`), and
  marks the booking paid in a statement of its own however late (`DbSetPaid`); a refund
  without a dispute writes the same two columns (`RefundApart`, `SetRefundedApart`).
  `remarked` is history: bookings last marked paid over a refund. `posts` counts evidence and
  messages. The wallet entries of a refund are best effort, and in `Payments`.
* `BookingChat`: opening a thread is `mark` then `list`; the chat list is the
  counts, then the previews. `shown` is history.
* `Accounts`: a look-up, then a write, for each way of signing in; unique columns
  make a write fail (`Free`). A phone number and an e-mail address have a code each;
  the one of the address serves verification and password reset.
* `Technicians`: registration is three statements; an update of categories is one
  transaction; the backfill of a boot reads before it inserts.
* `Reviews`: the check and the insert are two steps; the insert and its trigger
  one. Ratings are hundredths of a star, rounded as `NUMERIC(3,2)` rounds.
* `Notifications`: read the token, push, clear a token that FCM turned down, store
  the notice. A push may reach the device though its caller sees an error: the answer
  was lost, or the context done. FCM may also blame the message (`InvalidArgument`,
  `SenderIDMismatch`), and a live token is cleared.
* `Inventory`: a transaction is a slot between its `SELECT ... FOR UPDATE` and its
  commit; `moved` is the sum of the logged movements. `opening` is the stock a part
  was created with, which may be negative: the panel takes any integer and the table
  has no `CHECK`.
* `StartUp`: a fix is one `Exec`; it needs tables and adds columns, tables or
  constraints. The schema it starts from is what the migrations have up to 029,
  loaded by hand. `Uses` is what the statements of the repositories name, read there
  and not from the fixes.

## What is checked

The safety runs use symmetry over the interchangeable constants; runs with a
liveness property do not.

| run | instance | shows |
|---|---|---|
| `lifecycle` | 1 booking, 2 technicians, 3 requests, 1 code, 1 revision, all endpoints, `WorkPatches`, cut-offs; 1.46 million states | `IInv`, `WinnerHoldsJob`, `FieldWorkHasTechnician`, `CompletedIsInvoiced`, `TechnicianBound`, refinement of `JobAssignment` |
| `warranty` | 2 bookings, 2 technicians, 2 requests, cut-offs | `WinnerHoldsJob` when one booking is a claim on the other |
| `arrival` | 1 booking, 1 technician, 3 requests, 2 codes, fair, no cut-offs | `ArrivedHasCode`, `ArrivedGetsCode` |
| `payments` | 2 bookings (one without a technician), 2 payments, 2 requests, no wallets yet, users open theirs meanwhile, cut-offs; 1.71 million states | `IInv`, `PaidCashHasDue`, `BookingFollowsMoney`, `EntriesFollowPayment`, `BalanceIsLedger`, refinement of `PaymentLife` |
| `settling` | 1 payment, 3 requests, a technician with a wallet to spend from, fair, no cut-offs | `EarningArrives`, `BookingIsMarked` |
| `cashdues` | 2 cash payments of one technician, 2 codes, 2 orders, 2 requests, a limit of 1, 2 wrong tries, cut-offs | `ConfirmedByCode`, `GuessesAreCounted`, `ClearedIsCollected` |
| `consultation` | 1 consultation, 1 booking, a customer and two technicians, 2 requests, all endpoints, fair, cut-offs; 440 000 states | `IInv`, `NobodyOverlooked`, `VisitGoesToCaller`, `TechnicianBound`, `SearchEnds` |
| `calls` | 1 thread, 3 sockets, 3 users (one a stranger), 2 calls, `MaxPending = 1`, vanishing clients, crashes, fair; 256 000 states | `BothTold`, `HistoryMakesSense`, `HistoryIsKept`, `EmptyRoomEndsCall` |
| `assistant` | 2 messages of one customer, 2 keys, with and without the AI, 1 reply by hand, deadlines, deaths, fair; 495 000 states | `OneReplyPerMessage`, `AnsweredInTime` |
| `backoffice` | one of nine components, two of whatever can cross, two payments of one booking; 738 000 states | `StockIsLogged`, `RatingNearMean`, `RefundedIsPaidBack`, `ProfilesAreConsistent`, `AccountsAreConsistent`, `GroqIsConsistent`, `ChatIsConsistent`, `NoticesAreConsistent`, `SchemaIsHealed` |
| `terminal_race`, `credit_once` | see below | two statements of the repository that the program violates |

Each module's type invariant is part of one of its properties: of `IInv` in the
first three components, of `GuessesAreCounted` in `CashDues`, and of the
promises in `BackOffice`.

What is said about who does the work needs care. `FieldWorkHasTechnician` gives
a booking a technician while somebody is on the way, on site, at the inspection, waiting for
the estimate's approval or repairing. For `in_progress` it says less: a
technician, or an estimate. Any technician may submit an estimate for a booking
in the pool, and the customer's approval puts it in progress with nobody assigned.
`WorkPatches` lets clients patch a booking to `repair_in_progress` and `in_progress` too,
which the API accepts and the app does not send, so that these are reached in both ways.

The bounds. Nearly every hazard is a race of two requests over one row: two
requests at a time are enough for it. For bookings a third puts the row
back into a state where the race starts again (two accepts and a late
decline), and so three are served there; elsewhere no statement reopens anything, and
what the outside does (a capture, a visit to the wallet, a crash) takes no slot.
A slot is reused without limit, so runs are arbitrarily long. Two technicians
are needed for a double booking, and a third differs from them in nothing. One
booking suffices except where bookings meet: a claim (two) and a claim on a
claim (three). `MaxRevisions` bounds how often an estimate is submitted. Two
payments, each of either booking, include two payments of one booking.
With a single consultation `VisitGoesToCaller` cannot confuse two, so its part about
the visits of other consultations is vacuous in `consultation`; the theorem `VisitsGoToCallers` has it for
any number. `Limit = 1` with a commission of 1 allows an order, refuses the next, and lets two
opened together exceed the limit; `MaxAttempts = 2` has a first wrong entry and the
one that locks. In `calls` three sockets are two sides and a reconnect or a stranger, and
`MaxCalls = 2` has the writes of one call meet the row of the next;
`MaxPending = 1` lets one goroutine of each kind wait to begin while others stand
between their two steps, on the same row or on another. `UsersOf` says whose a
socket may be: one is the customer's, one the technician's, the third one the customer's or
a stranger's. Two sockets of the technician would differ in nothing a property looks at. Two keys let one call turn the ring under the other. `HumanMax`,
`MaxRows` and `MaxMessages` bound what people write where only whether, not how
often, matters. Four reviews of one technician are enough for the rounding to
accumulate (an average that weighs the reviews wrongly fails on the third). `Quantity = 2` makes two adjustments
that fit one by one but not together. `MaxFailures = 1` has a fix fail in a boot and be
repaired by the next.

Fairness. `FairSpec` lets a handler or goroutine that has started run on: the
Go scheduler runs every goroutine and the database answers. In `Consultation`
that is `WF_vars(Execute(r))` for each slot. In `CallSignaling` it covers the log writes, each
pending message and `ReadTimeout`, the read deadline that finds a dead client. In
`SupportChat` it covers the reply and the AI's calls, whose HTTP client has a timeout. Nothing is
assumed of clients, of the customer who pays, of people at support, of Razorpay
or of the booking component beneath consultations. Where handlers can be cut off, the liveness
properties say so in their conclusion (`cut`, `crashed`, `late`), because no code
resumes a handler that died (`EmptyRoomEndsCall` so says nothing of a call that a
crash left open); for bookings and payments they are stated
without cut-offs. `EarningArrives` needs the technician to have a
wallet; without one the credit may be lost (`PaidIsCredited`, below).

`CHECK_DEADLOCK FALSE` is in the runs without `Abort` or with only some
endpoints, and in `backoffice`: there the clients may have nothing left to ask
for (all messages sent, all orders received), which is no defect. The other runs
check deadlock.

### What the repository says and the program does not do

Two runs check a sentence of the repository (quoted in `PROJECT.json`), and TLC
finds a behaviour that violates it: `terminal_race` (`TerminalIsFinal`: a patch
validated before a cancellation is written after it) and `credit_once`
(`EarningCreditedOnce`: two confirmations both credit the technician).

The modules state more such sentences, each as a definition with its source
and its wording. They can be given to TLC as a property of the instance named here, and
fail with the trace described.

| module | property | instance | in short |
|---|---|---|---|
| `BookingLifecycle` | `NoClaimOfClaim` | 3 bookings, `WarrantyEndpoints` | a stored claim does not say that it is one |
| | `ApprovedWasRead` | `EstimateEndpoints`, `MaxRevisions = 2` | the approval goes to a revision the customer has not read |
| `Payments` | `ClawbackWasCredited` | `RefundEndpoints`, `EarnedBefore` | a cash refund debits an earning never credited |
| | `VisitBilledOnce` | `SettlingEndpoints`, 2 payments | two open orders both bill the visit charge |
| | `PaidIsCredited` | `FirstLookEndpoints`, `NoWallets` | the credit loses the race to create the wallet |
| `Consultation` | `AcceptedWasRinging` | as `consultation` | Accept looks at the technician, not at the status: a cancelled call is accepted |
| | `DeclinedIsFinal` | as `consultation` | Escalate asks neither who calls nor what was answered |
| `CallSignaling` | `SettledIsFinal` | as `calls` | a late MarkAnswered turns a missed call into a received one |
| | `LeftIsAlone` | as `calls` | a reconnect joins before `peer-left` is written, and the client that stayed hears it of its new call, which its screen then ends |
| | `AnsweredByBoth` | as `calls` | two sockets of one user answer their own call |
| `GroqService` | `ExhaustedMeansAllTried` | 2 calls | another call turns the ring, and one key is tried twice |
| `SupportChat` | `EveryMessageAnswered` | as `assistant` | the canned reply is saved on the context whose deadline has passed |
| `Disputes` | `RefundedIsReflected` | as `backoffice` | a confirmation has marked its payment paid and not yet the booking; a dispute refunds the payment and marks the booking; the confirmation marks the booking paid |
| `BookingChat` | `ReadByOtherSide` | as `backoffice` | an admin's look marks the messages of both parties |
| `Accounts` | `ReturningGoogleUser` | as `backoffice`, 2 Google accounts | linking overwrites the Google account of the address |
| `Technicians` | `GivenUpStaysGivenUp` | as `backoffice` | the backfill brings back a category given up while it ran |
| `Notifications` | `OnlyDeadIsCleared` | as `backoffice` | the clearing does not name the dead token, and removes a new one; also a live one, when FCM blames the message |
| | `SentIsTold` | as `backoffice` | a push reaches the device, its answer does not reach the server, and the notice says that nothing was pushed |
| `StartUp` | `ChangedStaysChanged` | as `backoffice` | each boot seeds the finance password again |
| | `CallsAreLogged` | as `backoffice` | all fixes of a boot are served, and `call_logs` has no column `call_type`: it is in `migrations/041` and in no fix, and `call_log_repo.go` inserts it, so no call is logged (`CallSignaling` is about a database that has the column) |

What else the models show, each in a short trace, and no property states:

* `Complete` on a cancelled booking completes it (the other way to violate
  `TerminalIsFinal`): it checks nothing but that the booking exists.
* A repeated arrival between `StampOTP` and the write of `inspecting` leaves a
  booking that is being inspected with a new, unverified code.
* A technician can set out without an approved estimate, which the comment on
  the estimate statuses in `models/booking.go` rules out.
* Two refunds of one payment that both read `paid` both credit the customer,
  like two confirmations. A payment of a booking that is confirmed after another one
  was refunded leaves the booking shown as paid, like the late mark of
  `RefundedIsReflected`.
* A due in two settlement orders is paid for twice if both are captured. The
  limit on cash is checked when an order is opened, not when its due comes.
* The match of a consultation is written without a condition: after a
  cancellation it makes the consultation ring. Two Escalates each book a visit, and
  the second link replaces the first. A technician who asks for a consultation does
  not find it among their own.
* MarkEnded before MarkAnswered logs an answered call as missed; the MarkEnded of
  one call closes the row of the next; a consultation's call has no row; a
  crash leaves rows open until the next call of the thread settles them.
* Two disputes about one booking are decided by themselves; a technician who was
  replaced loses sight of a dispute they raised; `resolved_partial` refunds in
  full.
* Checking a phone code clears whatever code is stored by then. A new e-mail
  address keeps the old one's verification. A logout on one device silences the
  other. A registration's own approval overwrites an administrator's rejection.
* The automatic reply may come after one written by hand, and a diagnosis that is
  tried again stores its question again.
* Requests are served before the schema is there.

Observed while reading: `Refund` gives an online payment back
through Razorpay *and* credits the customer's wallet, as its own comment says,
while the comment of `RefundVisitFee` calls that paying twice. The comment on
the last schema fix of `main.go` says that no earlier fix creates the columns of the e-mail
code; the second one does. The initial stock of a part has no
movement, and nothing keeps it from being negative.

## What is proved

For every value of the constants that satisfies the named assumptions, TLAPS
proves:

| module | theorems (property of a run) |
|---|---|
| `BookingLifecycleProofs` | `TypeCorrect`, `Invariance` (`IInv`), `NoDoubleBooking` (`WinnerHoldsJob`), `FieldWork` (`FieldWorkHasTechnician`), `Invoiced`, `Bound` (`TechnicianBound`), `Implementation` (of `JobAssignment`), `ArrivalsHaveCodes` (`ArrivedHasCode`, if no handler is cut off) |
| `PaymentsProofs` | `Invariance` (`IInv`), `TypeCorrect`, `CashHasDue` (`PaidCashHasDue`), `BookingsFollow` (`BookingFollowsMoney`), `EntriesFollow` (`EntriesFollowPayment`), `LedgerBalances` (`BalanceIsLedger`), `Implementation` (of `PaymentLife`) |
| `CashDuesProofs` | `CashInvariant`, `CashIsConfirmed` (`ConfirmedByCode`), `GuessesNeverLost` (`GuessesAreCounted`), `DuesAreCollected` (`ClearedIsCollected`) |
| `ConsultationProofs` | `ConsultationInvariant` (`IInv`), `VisitsGoToCallers` (`VisitGoesToCaller`), `NobodyLeftOut` (`NobodyOverlooked`), `TechnicianStays` (`TechnicianBound`), `AnswersAreKept` |
| `CallSignalingProofs` | `Invariance`, `TypeCorrect`, `TwoAreTold` (`BothTold`), `HistorySense` (`HistoryMakesSense`), `HistoryStays` (`HistoryIsKept`) |
| `GroqServiceProofs` | `GroqInvariant`, `LoneCallsTryAll`, `AnswersFollow` |
| `SupportChatProofs` | `ChatInvariant`, `ChatTypeCorrect`, `RepliedToOnce` (`OneReplyPerMessage`) |
| `BackOfficeProofs` | `StockInvariant`, `StockNeverDrifts` (`StockIsLogged`), `RatingInvariant`, `RatingStaysNear` (`RatingNearMean`), `ReviewsCountOnce`, `GroqStaysConsistent` (`GroqIsConsistent`), `RefundsAreReal` (`RefundedIsPaidBack`), `ProfilesStayFound` (`ProfilesAreConsistent`), `AccountsStayApart` (`AccountsAreConsistent`), `ChatsStayTrue` (`ChatIsConsistent`), `NoticesStayTrue` (`NoticesAreConsistent`), `BootsHeal` (`SchemaIsHealed`) |

So every safety property of the passing runs is a theorem. The assumptions are
the ones the modules name, and no proof adds any except where its table entry
says so. `PatchAssumption` (above) is the only one about behaviour. The
others say that a map from bookings to people has that type, that a bound is a
number, that the sets summed over are finite, that there is an API key, and that
what stands for `NULL` or for an idle slot is not a value of the column or the slot
(`NullAssumption` of `BackOffice`, which also takes together the assumptions of
its components as `PartsAssumption`). `MCBackOffice` evaluates them, and each of
the inductive invariants below was checked by TLC on the instance of its run before
it was proved.

**Bookings.** None of the safety properties is inductive, because the dangerous
writes (`UpdateStatus`, `SetOTP`, `StampOTP`) are unconditional and may come
arbitrarily late. `IInv` adds what makes them harmless: `RowOK`, a fact about
each row alone, and `PendingWriteOK`, what a handler may still rely on when its
write comes. A write of an on-site status is only pending for a booking that is
`Held`: out of the pool and with a technician. It was so in the snapshot (a
row with an arrival code, or in a status that leads to an on-site one, is held
by `RowOK`), and it stays so (lemma `Lasting`: no statement undoes `Held`,
`Exists` or `priced`). That is where `PatchAssumption` is needed. A write of
`in_progress` may come for a booking in the pool, but then it has an estimate
(`WorkAgreed`, lemma `WorkBegins`), and estimates are never withdrawn
(`EstimatesLast`). The proof is
layered accordingly: `RowStep` says what any step does to a row, `Lasting` what
it never undoes, `BegunOK` and `GoesOnOK` that a slot is fit for its next
statement, `PendingKept` that it stays so while others move, and then each
conjunct in turn. `ArrivalsHaveCodes` adds that the only write of `arrived` is
by a handler that stores a code next (`CodeComes`), and that a handler about to
store one does (`CodeStillComes`).

**Payments.** `PaymentOK` ties a payment's columns together and to the money: a
settled payment has it, be it captured by Razorpay or confirmed by the customer's
code and recorded as a due. `PendingOK` says what each kind of late statement
relies on: `MarkPaid` that the money is there, `AddDue` that the payment is cash
and either still open or already due, the wallet statements of a refund that the
payment *is* refunded. All of these last: a method and a booking never
change once set, money and dues are never withdrawn, refunded is final (lemma
`Lasting`). The delicate case is the refund's guarded `UPDATE`, which goes on
even if it changed nothing. It only reaches its next statement with a payment
that was `paid` when the handler read it, so it is refunded either way.

**Ledger.** `BalanceIsLedger` needs no strengthening, as `adjust` changes the
balance and inserts the entry under one row lock. What it needs is arithmetic of
sums over all payments: a sum over a finite set changes by what one summand
changes. That is an induction over the set, and the library's
induction theorems take an operator, which the provers cannot instantiate; the
lemmas argue from a smallest counterexample instead.

**Cash.** `CashInv` adds `RequestOK` to the three properties: a wrong entry is
counted under the lock it was compared under, so the attempts it read are
current; who records a due or a payment has had the code entered; and an order
covers dues of the one who asked. `locked` keeps the first of these while
others move: a refresh, which resets the counter, waits for the row.

**Consultations.** A technician is never withdrawn from a consultation; nearly
everything rests on that. `PendingWriteOK` says of a match that its row has no
technician yet, of answers, recommendations and offers that it has one, which is
the one the offer names. `MatchedOnce` is what makes the unconditional match
harmless: a consultation has at most one request matching it, the one that
created it. That escalation moves jobs as `JobAssignment` allows holds by
construction, because the model composes with that specification; it is no theorem.

**Calls.** `BothTold` is about sockets at rest; `WillBeTold` says of every moment
that whoever has company in a room has been told, or that somebody in there has
yet to write it. It rests on `NewsIsForRoom`: who leaves is struck off everybody's
list, so nobody waits to tell a socket that is gone. Two facts about the room
complete it, that it is finite and holds two (`NoThird`). For the history,
`WritesOK` says what survives from the subquery of a late `UPDATE` to the write: every
row that some goroutine has picked, however many have, is still there, and one that
is picked to be marked answered had both sides in the room.

**Ring and sessions.** A call that nobody else turned the ring under has tried
exactly the keys just behind the index, one for each round of its loop (`TriedOK`,
counted by `Behind`): after as many rounds as there are keys, all. `RowsOK` says
that the question stands in the session before the model is asked, and that an
answer stands there only when its call is over, below the question and once.

**Support chat.** Its steps are steps of `GroqService` or leave it alone, so
`ChatInv` contains `GroqInv`, used as proved. `RepliesAreFinal` is the point: a
message has an automatic reply only when its goroutine is over, so a goroutine that
is about to save one is the first.

**Disputes.** `DecisionOK` says what a decision has done by the statement it
stands at: a payment refunded before the booking is marked, both before the dispute is.
`MoneyStays` is what every step grants: no refund is taken back, and a booking loses the mark
of one only by leaving a trace in `remarked`. So decisions about one
dispute may cross, with each other and with confirmations, or break off, and a
dispute ends as refunded only over a refund that has happened.

**Technicians.** A technician whose primary category is not among those served
has a registration about to store it (`Pending`) or has lost it to a cut-off; the
backfill mends the latter. What a boot has read is old by the time it inserts:
`BackfillOK` says that it is still the primary category, or that the profile was
put right meanwhile. `RegistrationOK` keeps a registration with the profile it
inserted and the category shown first among those it will store.

**Accounts.** `SignInOK` says what a call that stands at its write may rely on of
what it read: accounts are never deleted and never change their phone. That
two calls do not both insert is left to the unique columns, as in the code.
`CodeOK` ties a stored phone code to one that was issued for that number.

**Booking chat.** `ReadOK` covers the moment between the two statements of
opening a thread: a message marked read was shown, or a request is about to list
it to somebody it is for. `BadgeOK` uses that threads only grow: what was
counted is among what is previewed later.

**Notices.** `SendOK` follows a call through its statements: the token pushed to is
the one read, and if the call remembers a success then the push was delivered to that token.
The converse is false (`SentIsTold`).

**Start-up.** `FixesAreIn` says that a process whose fixes were all served has
those it is past in the schema. It lasts because the schema only grows,
whatever other processes do; what each fix needs is in the base schema or added
by the fixes before it. `UsesAreAdded` compares the result with what the repositories
use, which is stated independently of the fixes.

**Stock and ratings.** `TxOK` says that what a transaction has read under its
row lock stays true until it commits, so stock is below zero only where a part was
opened below zero, and then not below its opening. `RatingInv` needs nothing beyond the
properties, but `RatingNearMean` is stated so that it is inductive: with each
review the bound on the error times the count grows by half a hundredth times
the count, which is what one rounding can add; and one to five stars are kept by rounding to a
hundredth, as the ends of the scale are whole hundredths.

**Only model-checked**: liveness (`ArrivedGetsCode`, `EarningArrives`,
`BookingIsMarked`, `SearchEnds`, `EmptyRoomEndsCall`, `AnsweredInTime`), which is
beyond the prover, as is `ENABLED`; and the sentences of the repository that do
not hold, which TLC refutes on an instance.

## What is not modelled

* The status history: entries are appended in the transaction of each status
  change, dated by its start, and only displayed.
* Reads: lists, searches, distances, service histories, analytics, reports.
* Content: texts, templates, prices, parsing of what the AI says, mail, uploads,
  photos; CMS and audit log, which are single inserts and updates.
* Passwords, tokens, sessions and middleware.
* Amounts: fees, GST, commission rates and discounts are arithmetic outside the
  races; a payment is one unit of money.
* What nothing calls: `CreateOrder` and `ConfirmPayment` of the legacy UPI
  service have no route; `PromoteDueScheduled`, which would make scheduled
  consultations ring, and `CreateForConsultation` of the reviews have no caller;
  nor has `SupportService.SetAI`, so no support reply of the deployed server is
  written by the AI (both wirings are modelled all the same).
* Writes to one websocket connection by several goroutines at once, which its
  library leaves undefined: each message is delivered whole.
* The Flutter app, except for what it sends.

What could come next: `BookingLifecycle` in the place of `JobAssignment` beneath `Consultation` in
one run; two consultations that compete for one technician.
