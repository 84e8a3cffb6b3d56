------------------------------- MODULE Payments -------------------------------
(***************************************************************************)
(* Paying for bookings: RazorpayService and UpiService (internal/service)  *)
(* over the payment, booking, wallet and due repositories.                 *)
(*                                                                         *)
(* As in BookingLifecycle, a request is a slot of reqs that names the      *)
(* statement its handler runs next: the services' methods take a slot, the *)
(* statements (prefixed Db, one committed transaction each) and the calls  *)
(* to Razorpay (prefixed Gateway) move it on, and other requests run in    *)
(* between.  All payments are of one amount: wallets count payments.       *)
(***************************************************************************)
EXTENDS Integers, FiniteSetsExt

CONSTANTS
  Bookings,       \* bookings to pay for
  Ids,            \* primary keys of the table payments
  Users,          \* owners of wallets
  TechnicianOf,   \* the user who is each booking's technician
  CustomerOf,     \* the user who is each booking's customer
  OpeningBalance, \* each user's balance at the start; None: no wallet yet
  Requests,       \* slots for requests served at the same time
  None,           \* NULL
  Endpoints,      \* the endpoints this instance's clients call
  MayAbort        \* whether a handler may be cut off between two statements

ASSUME NoneAssumption == None \notin Users \cup Bookings \cup Ids \cup Nat

\* Keys are UUIDs, and there are finitely many.
ASSUME IdsAssumption == IsFiniteSet(Ids)

ASSUME PeopleAssumption ==
  /\ TechnicianOf \in [Bookings -> Users \cup {None}]
  /\ CustomerOf \in [Bookings -> Users]
  /\ OpeningBalance \in [Users -> Nat \cup {None}]
  /\ MayAbort \in BOOLEAN

VARIABLES
  payment,   \* table payments
  booking,   \* the columns payment_status and visit_fee_charged of bookings
  wallet,    \* table wallets: each user's balance
  ledger,    \* table wallet_transactions: entries about each payment
  due,       \* table technician_dues: the payments whose commission is due
  gateway,   \* Razorpay's view of each payment's order
  spent,     \* the entries there about no payment: what each user spent
  reqs       \* the requests being served

vars == <<payment, booking, wallet, ledger, due, gateway, spent, reqs>>

Statuses == {"absent", "created", "paid", "failed", "refunded"}

Payment == [status : Statuses, b : Bookings \cup {None},
            method : {"none", "online", "cash"}, visit : BOOLEAN]

\* Statements that start a handler's work on a payment, and those that follow.
Statements ==
  {"InsertPayment", "MarkPaid", "SetPaid", "SetVisit", "CreditTechnician",
   "OpenTechnicianWallet", "VerifyCashOtp", "AddDue", "MarkFailed",
   "RefundAtGateway", "MarkRefunded", "SetRefunded", "DebitTechnician",
   "CreditCustomer", "OpenCustomerWallet"}

\* p: the payment the request is about (None while it is being created); b,
\* method, visit: what a new payment is for.
Request == [at : Statements, p : Ids \cup {None}, b : Bookings \cup {None},
            method : {"none", "online", "cash"}, visit : BOOLEAN]

Idle == [at |-> "idle"]

TypeOK ==
  /\ payment \in [Ids -> Payment]
  /\ booking \in [Bookings -> [payment : {"pending", "paid", "refunded"},
                               visit : BOOLEAN]]
  /\ wallet \in [Users -> Nat \cup {None}]
  /\ ledger \in [Ids -> [earning : Nat, clawback : Nat, refund : Nat]]
  /\ due \in [Ids -> BOOLEAN]
  /\ gateway \in [Ids -> {"none", "captured", "refunded"}]
  /\ spent \in [Users -> Nat]
  /\ reqs \in [Requests -> Request \cup {Idle}]

Init ==
  /\ payment = [p \in Ids |-> [status |-> "absent", b |-> None,
                               method |-> "none", visit |-> FALSE]]
  /\ booking = [b \in Bookings |-> [payment |-> "pending", visit |-> FALSE]]
  /\ wallet = OpeningBalance
  /\ ledger = [p \in Ids |-> [earning |-> 0, clawback |-> 0, refund |-> 0]]
  /\ due = [p \in Ids |-> FALSE]
  /\ gateway = [p \in Ids |-> "none"]
  /\ spent = [u \in Users |-> 0]
  /\ reqs = [r \in Requests |-> Idle]

Begin(r, e, q) ==
  /\ e \in Endpoints
  /\ reqs[r] = Idle
  /\ reqs' = [reqs EXCEPT ![r] = q]

Call(at, p) == [at |-> at, p |-> p, b |-> None, method |-> "none",
                visit |-> FALSE]

At(r, s) == reqs[r].at = s

Proceed(r, s) == reqs' = [reqs EXCEPT ![r].at = s]

Done(r) == reqs' = [reqs EXCEPT ![r] = Idle]

Technician(p) == TechnicianOf[payment[p].b]

-----------------------------------------------------------------------------
(* The services' methods: what each decides on the snapshot it reads.        *)

\* Two ways to open a payment, priced alike by prepareCharge: the visit charge
\* is billed unless it has been charged on an earlier invoice.  Cash needs a
\* technician to hand it to.  (It may also be refused for the technician's
\* unpaid dues, which changes nothing.)
CreateOrder(r, b, m) ==
  /\ m = "cash" => TechnicianOf[b] # None
  /\ Begin(r, "CreateOrder",
           [at |-> "InsertPayment", p |-> None, b |-> b, method |-> m,
            visit |-> ~booking[b].visit])
  /\ UNCHANGED <<payment, booking, wallet, ledger, due, gateway, spent>>

\* Mutant of VerifyAndCapture: does not verify Razorpay's signature.
VerifyAndCaptureUnsigned(r, p) ==
  /\ payment[p].method = "online"
  /\ payment[p].status = "created"
  /\ Begin(r, "VerifyAndCapture", Call("MarkPaid", p))
  /\ UNCHANGED <<payment, booking, wallet, ledger, due, gateway, spent>>

\* The app confirms with Razorpay's signature, which only a captured order has.
\* An order that is resolved already is left alone.
VerifyAndCapture(r, p) ==
  /\ gateway[p] # "none"
  /\ payment[p].status = "created"
  /\ Begin(r, "VerifyAndCapture", Call("MarkPaid", p))
  /\ UNCHANGED <<payment, booking, wallet, ledger, due, gateway, spent>>

ConfirmCashPayment(r, p) ==
  /\ payment[p].method = "cash"
  /\ payment[p].status = "created"
  /\ Begin(r, "ConfirmCashPayment", Call("VerifyCashOtp", p))
  /\ UNCHANGED <<payment, booking, wallet, ledger, due, gateway, spent>>

\* Mutant of MarkFailed: fails payments of either method.
MarkFailedAnyMethod(r, p) ==
  /\ payment[p].status # "absent"
  /\ Begin(r, "MarkFailed", Call("MarkFailed", p))
  /\ UNCHANGED <<payment, booking, wallet, ledger, due, gateway, spent>>

MarkFailed(r, p) ==
  /\ payment[p].method = "online"
  /\ Begin(r, "MarkFailed", Call("MarkFailed", p))
  /\ UNCHANGED <<payment, booking, wallet, ledger, due, gateway, spent>>

\* Mutant of Refund: does not ask whether the payment was paid.
RefundUnpaid(r, p, first) ==
  /\ payment[p].status # "absent"
  /\ first = "RefundAtGateway" => payment[p].method = "online"
  /\ Begin(r, "Refund", Call(first, p))
  /\ UNCHANGED <<payment, booking, wallet, ledger, due, gateway, spent>>

\* An administrator, or the resolution of a dispute, refunds a paid payment.
\* RazorpayService.Refund gives the money of an online payment back through
\* Razorpay first; the admin panel's UpiService.Refund does not.
Refund(r, p, first) ==
  /\ payment[p].status = "paid"
  /\ first = "RefundAtGateway" => payment[p].method = "online"
  /\ Begin(r, "Refund", Call(first, p))
  /\ UNCHANGED <<payment, booking, wallet, ledger, due, gateway, spent>>

-----------------------------------------------------------------------------
(* The statements.                                                           *)

DbInsertPayment(r, p) ==
  /\ At(r, "InsertPayment")
  /\ payment[p].status = "absent"
  /\ payment' = [payment EXCEPT
       ![p] = [status |-> "created", b |-> reqs[r].b,
               method |-> reqs[r].method, visit |-> reqs[r].visit]]
  /\ Done(r)
  /\ UNCHANGED <<booking, wallet, ledger, due, gateway, spent>>

\* Mutant of DbVerifyCashOtp: the payment is marked paid without the due.
DbVerifyCashOtpNoDue(r) ==
  /\ At(r, "VerifyCashOtp")
  /\ \/ payment[reqs[r].p].status = "created" /\ Proceed(r, "MarkPaid")
     \/ Done(r)
  /\ UNCHANGED <<payment, booking, wallet, ledger, due, gateway, spent>>

\* The customer's cash OTP is asked for only while the payment is open; a wrong
\* or locked OTP ends the request.
DbVerifyCashOtp(r) ==
  /\ At(r, "VerifyCashOtp")
  /\ \/ payment[reqs[r].p].status = "created" /\ Proceed(r, "AddDue")
     \/ Done(r)
  /\ UNCHANGED <<payment, booking, wallet, ledger, due, gateway, spent>>

\* INSERT ... ON CONFLICT DO NOTHING, before the payment is marked paid.
DbAddDue(r) ==
  /\ At(r, "AddDue")
  /\ due' = [due EXCEPT ![reqs[r].p] = TRUE]
  /\ Proceed(r, "MarkPaid")
  /\ UNCHANGED <<payment, booking, wallet, ledger, gateway, spent>>

\* Mutant of DbMarkPaid: the UPDATE has no WHERE status clause.
DbMarkPaidUnguarded(r) ==
  /\ At(r, "MarkPaid")
  /\ payment' = [payment EXCEPT ![reqs[r].p].status = "paid"]
  /\ Proceed(r, "SetPaid")
  /\ UNCHANGED <<booking, wallet, ledger, due, gateway, spent>>

\* Mutant of DbMarkPaid: the booking's payment_status is forgotten.
DbMarkPaidBookingForgotten(r) ==
  /\ At(r, "MarkPaid")
  /\ payment' = IF payment[reqs[r].p].status = "created"
                THEN [payment EXCEPT ![reqs[r].p].status = "paid"] ELSE payment
  /\ Proceed(r, "SetVisit")
  /\ UNCHANGED <<booking, wallet, ledger, due, gateway, spent>>

\* MarkVerifiedPaidRazorpay and MarkVerifiedPaidCash: an UPDATE of the row if it
\* is still open.  Nobody looks at whether it was.
DbMarkPaid(r) ==
  /\ At(r, "MarkPaid")
  /\ payment' = IF payment[reqs[r].p].status = "created"
                THEN [payment EXCEPT ![reqs[r].p].status = "paid"] ELSE payment
  /\ Proceed(r, "SetPaid")
  /\ UNCHANGED <<booking, wallet, ledger, due, gateway, spent>>

DbSetPaid(r) ==
  /\ At(r, "SetPaid")
  /\ booking' = [booking EXCEPT ![payment[reqs[r].p].b].payment = "paid"]
  /\ Proceed(r, "SetVisit")
  /\ UNCHANGED <<payment, wallet, ledger, due, gateway, spent>>

\* Mutant of DbSetVisit: returns once the visit charge is flagged.
DbSetVisitReturns(r) ==
  /\ At(r, "SetVisit")
  /\ LET p == reqs[r].p IN
       /\ booking' = [booking EXCEPT ![payment[p].b].visit =
                                       @ \/ payment[p].visit]
       /\ IF /\ payment[p].method = "online"
             /\ ~payment[p].visit
             /\ Technician(p) # None
          THEN Proceed(r, "CreditTechnician") ELSE Done(r)
  /\ UNCHANGED <<payment, wallet, ledger, due, gateway, spent>>

\* The technician of an online payment is credited next; cash they have.
DbSetVisit(r) ==
  /\ At(r, "SetVisit")
  /\ LET p == reqs[r].p IN
       /\ booking' = [booking EXCEPT ![payment[p].b].visit =
                                       @ \/ payment[p].visit]
       /\ IF payment[p].method = "online" /\ Technician(p) # None
          THEN Proceed(r, "CreditTechnician") ELSE Done(r)
  /\ UNCHANGED <<payment, wallet, ledger, due, gateway, spent>>

DbMarkFailed(r) ==
  /\ At(r, "MarkFailed")
  /\ payment' = IF payment[reqs[r].p].status = "created"
                THEN [payment EXCEPT ![reqs[r].p].status = "failed"] ELSE payment
  /\ Done(r)
  /\ UNCHANGED <<booking, wallet, ledger, due, gateway, spent>>

\* Razorpay refuses to give money back twice and may fail; either way the
\* refund goes on.
GatewayRefund(r) ==
  /\ At(r, "RefundAtGateway")
  /\ \/ gateway' = [gateway EXCEPT ![reqs[r].p] = "refunded"]
     \/ UNCHANGED gateway
  /\ Proceed(r, "MarkRefunded")
  /\ UNCHANGED <<payment, booking, wallet, ledger, due, spent>>

DbMarkRefunded(r) ==
  /\ At(r, "MarkRefunded")
  /\ payment' = IF payment[reqs[r].p].status = "paid"
                THEN [payment EXCEPT ![reqs[r].p].status = "refunded"]
                ELSE payment
  /\ Proceed(r, "SetRefunded")
  /\ UNCHANGED <<booking, wallet, ledger, due, gateway, spent>>

DbSetRefunded(r) ==
  /\ At(r, "SetRefunded")
  /\ booking' = [booking EXCEPT ![payment[reqs[r].p].b].payment = "refunded"]
  /\ Proceed(r, IF Technician(reqs[r].p) # None THEN "DebitTechnician"
                                                ELSE "CreditCustomer")
  /\ UNCHANGED <<payment, wallet, ledger, due, gateway, spent>>

-----------------------------------------------------------------------------
(* WalletRepository.adjust: one transaction, under the row's lock if there   *)
(* is a row.  A user without one gets it in the same transaction, unless a   *)
(* concurrent transaction just did: then the INSERT fails.  The callers      *)
(* ignore every failure.                                                     *)

\* Both credits are the last thing their handlers do.
Credit(r, u, entry, open) ==
  IF wallet[u] = None
  THEN Proceed(r, open) /\ UNCHANGED <<wallet, ledger>>
  ELSE /\ wallet' = [wallet EXCEPT ![u] = @ + 1]
       /\ ledger' = [ledger EXCEPT ![reqs[r].p][entry] = @ + 1]
       /\ Done(r)

\* Mutant of Open: takes the row another transaction opened for its own.
OpenOverwrites(r, u, entry) ==
  /\ wallet' = [wallet EXCEPT ![u] = 1]
  /\ ledger' = [ledger EXCEPT ![reqs[r].p][entry] = @ + 1]
  /\ Done(r)

Open(r, u, entry) ==
  /\ IF wallet[u] = None
     THEN /\ wallet' = [wallet EXCEPT ![u] = 1]
          /\ ledger' = [ledger EXCEPT ![reqs[r].p][entry] = @ + 1]
     ELSE UNCHANGED <<wallet, ledger>>
  /\ Done(r)

DbCreditTechnician(r) ==
  /\ At(r, "CreditTechnician")
  /\ Credit(r, Technician(reqs[r].p), "earning", "OpenTechnicianWallet")
  /\ UNCHANGED <<payment, booking, due, gateway, spent>>

DbOpenTechnicianWallet(r) ==
  /\ At(r, "OpenTechnicianWallet")
  /\ Open(r, Technician(reqs[r].p), "earning")
  /\ UNCHANGED <<payment, booking, due, gateway, spent>>

\* The claw-back fails if the wallet has too little.
DbDebitTechnician(r) ==
  /\ At(r, "DebitTechnician")
  /\ LET u == Technician(reqs[r].p) IN
       IF wallet[u] \in {None, 0}
       THEN UNCHANGED <<wallet, ledger>>
       ELSE /\ wallet' = [wallet EXCEPT ![u] = @ - 1]
            /\ ledger' = [ledger EXCEPT ![reqs[r].p].clawback = @ + 1]
  /\ Proceed(r, "CreditCustomer")
  /\ UNCHANGED <<payment, booking, due, gateway, spent>>

DbCreditCustomer(r) ==
  /\ At(r, "CreditCustomer")
  /\ Credit(r, CustomerOf[payment[reqs[r].p].b], "refund",
            "OpenCustomerWallet")
  /\ UNCHANGED <<payment, booking, due, gateway, spent>>

DbOpenCustomerWallet(r) ==
  /\ At(r, "OpenCustomerWallet")
  /\ Open(r, CustomerOf[payment[reqs[r].p].b], "refund")
  /\ UNCHANGED <<payment, booking, due, gateway, spent>>
-----------------------------------------------------------------------------
(* What happens outside the handlers.                                        *)

\* The customer pays an order in Razorpay's checkout, be it late.
CustomerPays(p) ==
  /\ payment[p].method = "online"
  /\ gateway[p] = "none"
  /\ gateway' = [gateway EXCEPT ![p] = "captured"]
  /\ UNCHANGED <<payment, booking, wallet, ledger, due, reqs, spent>>

\* Looking at one's wallet opens it.
GetOrCreate(u) ==
  /\ "GetOrCreate" \in Endpoints
  /\ wallet[u] = None
  /\ wallet' = [wallet EXCEPT ![u] = 0]
  /\ UNCHANGED <<payment, booking, ledger, due, gateway, reqs, spent>>

\* A user spends from their wallet.
Spend(u) ==
  /\ "Debit" \in Endpoints
  /\ wallet[u] \notin {None, 0}
  /\ wallet' = [wallet EXCEPT ![u] = @ - 1]
  /\ spent' = [spent EXCEPT ![u] = @ + 1]
  /\ UNCHANGED <<payment, booking, ledger, due, gateway, reqs>>

\* The handler of r is cut off; what it has committed stays.
Abort(r) ==
  /\ MayAbort
  /\ reqs[r] # Idle
  /\ Done(r)
  /\ UNCHANGED <<payment, booking, wallet, ledger, due, gateway, spent>>

Serve(r) ==
  \/ \E b \in Bookings, m \in {"online", "cash"} : CreateOrder(r, b, m)
  \/ \E p \in Ids :
       \/ VerifyAndCapture(r, p)
       \/ ConfirmCashPayment(r, p)
       \/ MarkFailed(r, p)
       \/ \E first \in {"RefundAtGateway", "MarkRefunded"} : Refund(r, p, first)

Execute(r) ==
  \/ \E p \in Ids : DbInsertPayment(r, p)
  \/ DbVerifyCashOtp(r) \/ DbAddDue(r) \/ DbMarkPaid(r) \/ DbSetPaid(r)
  \/ DbSetVisit(r) \/ DbCreditTechnician(r) \/ DbOpenTechnicianWallet(r)
  \/ DbMarkFailed(r) \/ GatewayRefund(r) \/ DbMarkRefunded(r)
  \/ DbSetRefunded(r) \/ DbDebitTechnician(r) \/ DbCreditCustomer(r)
  \/ DbOpenCustomerWallet(r)

Next ==
  \/ \E r \in Requests : Serve(r) \/ Execute(r) \/ Abort(r)
  \/ \E p \in Ids : CustomerPays(p)
  \/ \E u \in Users : GetOrCreate(u) \/ Spend(u)

Spec == Init /\ [][Next]_vars

\* As in BookingLifecycle: a handler that has started keeps running.
FairSpec == Spec /\ \A r \in Requests : WF_vars(Execute(r))

-----------------------------------------------------------------------------
(* Correctness.                                                              *)

Settled(p) == payment[p].status \in {"paid", "refunded"}

\* A cash payment is never marked paid without the platform's commission
\* recorded as a due, wherever ConfirmCashPayment is cut off and however often
\* it is repeated; and no online payment ever has one.
PaidCashHasDue ==
  \A p \in Ids :
    /\ Settled(p) /\ payment[p].method = "cash" => due[p]
    /\ due[p] => payment[p].method = "cash"

\* Somebody has parted with money for p: Razorpay captured the order, or the
\* customer read the cash OTP out.
HasMoney(p) == gateway[p] # "none" \/ due[p]

\* A booking is shown as paid only if its customer has paid for it, and as
\* refunded only if a payment for it was; late and repeated confirmations and
\* refunds included ("a booking can't be marked "paid" without ... having
\* reported a successful transaction", SetPaymentStatus).
BookingFollowsMoney ==
  \A b \in Bookings :
    /\ booking[b].payment # "pending" =>
         \E p \in Ids : payment[p].b = b /\ HasMoney(p)
    /\ booking[b].payment = "refunded" =>
         \E p \in Ids : payment[p].b = b /\ payment[p].status = "refunded"

\* Wallet entries follow the payment: an earning is credited only for an online
\* payment Razorpay captured, and neither a claw-back nor a customer's refund is
\* entered unless the payment is refunded, on whichever path.
EntriesFollowPayment ==
  \A p \in Ids :
    /\ ledger[p].earning > 0 =>
         payment[p].method = "online" /\ gateway[p] # "none"
    /\ ledger[p].clawback > 0 \/ ledger[p].refund > 0 =>
         payment[p].status = "refunded"

\* What the entries about each payment come to in u's wallet.
EntriesOf(u) ==
  [p \in Ids |->
     LET Earned   == IF Technician(p) = u
                     THEN ledger[p].earning - ledger[p].clawback ELSE 0
         Refunded == IF CustomerOf[payment[p].b] = u
                     THEN ledger[p].refund ELSE 0
     IN IF payment[p].b = None THEN 0 ELSE Earned + Refunded]

Balance(x) == IF x = None THEN 0 ELSE x

Total(f, S) == MapThenSumSet(LAMBDA x : f[x], S)

\* Every balance is what the ledger explains: the opening balance, and the
\* entries about payments and purchases since, however handlers that find no
\* wallet race to open it.
BalanceIsLedger ==
  \A u \in Users : Balance(wallet[u]) + spent[u] =
                     Balance(OpeningBalance[u]) + Total(EntriesOf(u), Ids)

\* Without a cut-off, the technician of a paid online payment who has a wallet
\* is eventually credited for it.
EarningArrives ==
  \A p \in Ids :
    payment[p].status = "paid" /\ payment[p].method = "online" ~>
      ledger[p].earning > 0

\* Without a cut-off, a booking whose payment is paid is eventually shown so
\* (or as refunded).
BookingIsMarked ==
  \A b \in Bookings :
    (\E p \in Ids : payment[p].b = b /\ Settled(p)) ~>
      booking[b].payment # "pending"

\* Every payment lives as PaymentLife promises, whatever the interleaving.
Life == INSTANCE PaymentLife WITH
  Payments <- Ids,
  method <- [p \in Ids |-> payment[p].method],
  status <- [p \in Ids |-> payment[p].status]

ImplementsLife == Life!Spec

-----------------------------------------------------------------------------
(* The inductive invariant behind the safety properties.                     *)

PaymentOK(p) ==
  /\ payment[p].status = "absent" <=> payment[p].b = None
  /\ payment[p].status = "absent" <=> payment[p].method = "none"
  /\ payment[p].method # "online" => gateway[p] = "none"
  /\ Settled(p) => HasMoney(p)

\* What a request may still rely on, however late its next statement comes.
PendingOK(q) ==
  /\ q.at = "InsertPayment" => q.b \in Bookings /\ q.method # "none"
  /\ q.at # "InsertPayment" =>
       q.p \in Ids /\ payment[q.p].b \in Bookings
  /\ q.at \in {"VerifyCashOtp", "AddDue"} => payment[q.p].method = "cash"
  /\ q.at = "AddDue" => due[q.p] \/ payment[q.p].status = "created"
  /\ q.at \in {"MarkPaid", "SetPaid", "SetVisit"} => HasMoney(q.p)
  /\ q.at = "MarkFailed" => payment[q.p].method = "online"
  /\ q.at \in {"CreditTechnician", "OpenTechnicianWallet"} =>
       /\ payment[q.p].method = "online"
       /\ gateway[q.p] # "none"
       /\ Technician(q.p) # None
  /\ q.at \in {"RefundAtGateway", "MarkRefunded"} => Settled(q.p)
  /\ q.at = "RefundAtGateway" => payment[q.p].method = "online"
  /\ q.at = "DebitTechnician" => Technician(q.p) # None
  /\ q.at \in {"SetRefunded", "DebitTechnician", "CreditCustomer",
              "OpenCustomerWallet"} => payment[q.p].status = "refunded"

IInv ==
  /\ TypeOK
  /\ \A p \in Ids : PaymentOK(p)
  /\ \A r \in Requests : reqs[r] # Idle => PendingOK(reqs[r])
  /\ PaidCashHasDue
  /\ BookingFollowsMoney
  /\ EntriesFollowPayment

-----------------------------------------------------------------------------
(* What the repository says of the program and the program does not do.      *)

\* "idempotent no-op, never re-credit" (razorpay_service.go).
EarningCreditedOnce == \A p \in Ids : ledger[p].earning <= 1

\* "the technician's earning credit is clawed back" (razorpay_service.go): no
\* more than was credited for the payment.
ClawbackWasCredited ==
  \A p \in Ids : ledger[p].clawback <= ledger[p].earning

\* "The visit charge is billed once per booking" (razorpay_service.go).
VisitBilledOnce ==
  \A p, q \in Ids :
    /\ Settled(p) /\ payment[p].visit
    /\ Settled(q) /\ payment[q].visit
    /\ payment[p].b = payment[q].b
    => p = q

\* "marks the payment (and booking) paid, and splits the amount into platform
\* commission + technician wallet credit" (booking_payment_test.go).
PaidIsCredited ==
  (\A r \in Requests : reqs[r] = Idle) =>
    \A p \in Ids :
      payment[p].status = "paid" /\ payment[p].method = "online" =>
        ledger[p].earning > 0
=============================================================================
