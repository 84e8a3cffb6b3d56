------------------------------ MODULE CashDues ------------------------------
(***************************************************************************)
(* Cash on delivery: RazorpayService's cash half, CashOtpRepository and    *)
(* the commission ledger of DueService and DueRepository.                  *)
(*                                                                         *)
(* The customer pays the technician, who confirms with a code shown on the *)
(* customer's phone; the platform's commission becomes a due, and the      *)
(* technician clears dues by paying a settlement order at Razorpay.        *)
(* Payments has what confirming does to the booking; here are the code,    *)
(* the limit on what may be owed and the settlements.                      *)
(*                                                                         *)
(* As in Payments a request is a slot of reqs at its next statement.       *)
(* Checking a code is one transaction of two statements under a row lock.  *)
(***************************************************************************)
EXTENDS Integers, FiniteSetsExt

CONSTANTS
  Ids,          \* cash payments: primary keys of the table payments
  Users,        \* technicians' user accounts
  TechnicianOf, \* the technician who is handed the cash of each payment
  Commission,   \* the platform's commission on each payment
  Codes,        \* one-time codes
  Orders,       \* Razorpay orders of settlements
  Limit,        \* DueService.limit
  MaxAttempts,  \* MaxCashOtpAttempts
  Requests,     \* slots for requests served at the same time
  None,         \* NULL
  MayAbort      \* whether a handler may be cut off between two statements

ASSUME NoneAssumption == None \notin Requests \cup Codes

ASSUME LedgerAssumption ==
  /\ TechnicianOf \in [Ids -> Users]
  /\ Commission \in [Ids -> Nat \ {0}]
  /\ Limit \in Nat
  /\ MaxAttempts \in Nat \ {0}
  /\ MayAbort \in BOOLEAN

VARIABLES
  payment,    \* column status of payments
  otp,        \* column cash_otp
  attempts,   \* column cash_otp_attempts
  locked,     \* the request that holds each row of payments FOR UPDATE
  due,        \* table technician_dues
  old,        \* dues recorded more than maxDays ago
  settlement, \* table due_settlements, by razorpay_order_id
  captured,   \* orders the technician has paid at Razorpay
  reqs,       \* the requests being served
  wrong,      \* history: wrong entries answered since the code was stored
  confirmed   \* history: payments whose stored code has been entered

vars == <<payment, otp, attempts, locked, due, old, settlement, captured,
          reqs, wrong, confirmed>>

codVars == <<payment, otp, attempts, locked, wrong, confirmed>>

dueVars == <<due, old, settlement, captured>>

Settlement == [u : Users, dues : SUBSET Ids, status : {"created", "paid"}]

ASSUME SettlementAssumption == None \notin Settlement

\* code: what is to be stored or has been entered; seen: the attempts read
\* under the lock; dues: the snapshot a settlement order covers.
Request ==
  [at : {"InsertPayment", "SetOtp", "LockOtp", "AddDue", "MarkPaid"},
   p : Ids, code : Codes]
    \cup [at : {"CountWrong"}, p : Ids, seen : 0 .. MaxAttempts - 1]
    \cup [at : {"InsertSettlement"}, u : Users, dues : SUBSET Ids]

Idle == [at |-> "idle"]

TypeOK ==
  /\ payment \in [Ids -> {"absent", "created", "paid"}]
  /\ otp \in [Ids -> Codes \cup {None}]
  /\ attempts \in [Ids -> 0 .. MaxAttempts]
  /\ locked \in [Ids -> Requests \cup {None}]
  /\ due \in [Ids -> {"none", "pending", "paid"}]
  /\ old \subseteq Ids
  /\ settlement \in [Orders -> Settlement \cup {None}]
  /\ captured \subseteq Orders
  /\ reqs \in [Requests -> Request \cup {Idle}]
  /\ wrong \in [Ids -> Nat]
  /\ confirmed \subseteq Ids

Init ==
  /\ payment = [p \in Ids |-> "absent"]
  /\ otp = [p \in Ids |-> None]
  /\ attempts = [p \in Ids |-> 0]
  /\ locked = [p \in Ids |-> None]
  /\ due = [p \in Ids |-> "none"]
  /\ old = {}
  /\ settlement = [o \in Orders |-> None]
  /\ captured = {}
  /\ reqs = [r \in Requests |-> Idle]
  /\ wrong = [p \in Ids |-> 0]
  /\ confirmed = {}

Begin(r, q) == reqs[r] = Idle /\ reqs' = [reqs EXCEPT ![r] = q]

At(r, s) == reqs[r].at = s

Proceed(r, s) == reqs' = [reqs EXCEPT ![r].at = s]

Done(r) == reqs' = [reqs EXCEPT ![r] = Idle]

OnCode(at, p, c) == [at |-> at, p |-> p, code |-> c]

-----------------------------------------------------------------------------
(* What a technician owes.                                                   *)

Pending(u) == {p \in Ids : TechnicianOf[p] = u /\ due[p] = "pending"}

PendingTotal(u) == MapThenSumSet(LAMBDA p : Commission[p], Pending(u))

\* PendingStats and blockReason.
BlockReason(u, commission) ==
  \/ Pending(u) \cap old # {}
  \/ PendingTotal(u) + commission > Limit

CheckCodAllowed(u, commission) == ~BlockReason(u, commission)

\* A due becomes overdue.
GrowOld(p) ==
  /\ due[p] = "pending"
  /\ old' = old \cup {p}
  /\ UNCHANGED <<codVars, due, settlement, captured, reqs>>

-----------------------------------------------------------------------------
(* The customer opens a cash payment and is shown its code.                  *)

\* The first code is stored once the row is there.
CreateCodOrder(r, p, c) ==
  /\ payment[p] = "absent"
  /\ CheckCodAllowed(TechnicianOf[p], Commission[p])
  /\ Begin(r, OnCode("InsertPayment", p, c))
  /\ UNCHANGED <<codVars, dueVars>>

\* A row of its own: two requests never insert the same id.
DbInsertPayment(r) ==
  /\ At(r, "InsertPayment")
  /\ IF payment[reqs[r].p] = "absent"
     THEN /\ payment' = [payment EXCEPT ![reqs[r].p] = "created"]
          /\ Proceed(r, "SetOtp")
     ELSE UNCHANGED payment /\ Done(r)
  /\ UNCHANGED <<otp, attempts, locked, wrong, confirmed, dueVars>>

\* A payment that has no code yet is given one when the customer looks at it;
\* one that has is only shown.
GetCashOTP(r, p, c) ==
  /\ payment[p] = "created"
  /\ otp[p] = None
  /\ Begin(r, OnCode("SetOtp", p, c))
  /\ UNCHANGED <<codVars, dueVars>>

RefreshCashOTP(r, p, c) ==
  /\ payment[p] = "created"
  /\ Begin(r, OnCode("SetOtp", p, c))
  /\ UNCHANGED <<codVars, dueVars>>

\* Set waits for the row's lock, and stores nothing once the payment is paid.
DbSetOtp(r) ==
  /\ At(r, "SetOtp")
  /\ LET p == reqs[r].p IN
     /\ locked[p] = None
     /\ IF payment[p] = "created"
        THEN /\ otp' = [otp EXCEPT ![p] = reqs[r].code]
             /\ attempts' = [attempts EXCEPT ![p] = 0]
             /\ wrong' = [wrong EXCEPT ![p] = 0]
        ELSE UNCHANGED <<otp, attempts, wrong>>
  /\ Done(r)
  /\ UNCHANGED <<payment, locked, confirmed, dueVars>>

-----------------------------------------------------------------------------
(* The technician confirms the cash.                                         *)

\* The handler reads a payment that is still open and sees that the caller is
\* its technician.
ConfirmCashPayment(r, p, c) ==
  /\ payment[p] = "created"
  /\ Begin(r, OnCode("LockOtp", p, c))
  /\ UNCHANGED <<codVars, dueVars>>

EntriesLeft(p) == attempts[p] < MaxAttempts

\* Mutant of DbLockOtp: reads the row without FOR UPDATE.
DbReadOtp(r) ==
  /\ At(r, "LockOtp")
  /\ LET p == reqs[r].p IN
     /\ locked[p] = None
     /\ IF payment[p] = "created" /\ otp[p] # None /\ EntriesLeft(p)
        THEN IF otp[p] = reqs[r].code
             THEN /\ confirmed' = confirmed \cup {p}
                  /\ Proceed(r, "AddDue")
             ELSE /\ reqs' = [reqs EXCEPT ![r] =
                       [at |-> "CountWrong", p |-> p, seen |-> attempts[p]]]
                  /\ UNCHANGED confirmed
        ELSE UNCHANGED confirmed /\ Done(r)
  /\ UNCHANGED <<payment, otp, attempts, locked, wrong, dueVars>>

\* Mutant of DbLockOtp: a payment that has no code yet needs none.
DbLockOtpIfAny(r) ==
  /\ At(r, "LockOtp")
  /\ locked[reqs[r].p] = None
  /\ IF otp[reqs[r].p] \in {None, reqs[r].code}
     THEN Proceed(r, "AddDue") ELSE Done(r)
  /\ confirmed' = IF otp[reqs[r].p] = reqs[r].code
                  THEN confirmed \cup {reqs[r].p} ELSE confirmed
  /\ UNCHANGED <<payment, otp, attempts, locked, wrong, dueVars>>

\* Verify, up to its comparison.  Only the right code goes on, and it gives the
\* lock back before it does; a wrong one has yet to be counted.
DbLockOtp(r) ==
  /\ At(r, "LockOtp")
  /\ LET p == reqs[r].p
         stored == payment[p] = "created" /\ otp[p] # None
         free == EntriesLeft(p)
     IN
     /\ locked[p] = None
     /\ \/ /\ stored /\ free /\ otp[p] = reqs[r].code
           /\ confirmed' = confirmed \cup {p}
           /\ Proceed(r, "AddDue")
           /\ UNCHANGED locked
        \/ /\ stored /\ free /\ otp[p] # reqs[r].code
           /\ locked' = [locked EXCEPT ![p] = r]
           /\ reqs' = [reqs EXCEPT ![r] =
                [at |-> "CountWrong", p |-> p, seen |-> attempts[p]]]
           /\ UNCHANGED confirmed
        \/ /\ ~stored \/ ~free
           /\ Done(r)
           /\ UNCHANGED <<locked, confirmed>>
  /\ UNCHANGED <<payment, otp, attempts, wrong, dueVars>>

\* Verify commits a wrong entry; only then is the technician told.
DbCountWrong(r) ==
  /\ At(r, "CountWrong")
  /\ LET p == reqs[r].p IN
     /\ attempts' = [attempts EXCEPT ![p] = reqs[r].seen + 1]
     /\ wrong' = [wrong EXCEPT ![p] = @ + 1]
     /\ locked' = [locked EXCEPT ![p] = None]
  /\ Done(r)
  /\ UNCHANGED <<payment, otp, confirmed, dueVars>>

\* AddDue: one due per payment, ON CONFLICT DO NOTHING.
DbAddDue(r) ==
  /\ At(r, "AddDue")
  /\ due' = [due EXCEPT ![reqs[r].p] = IF @ = "none" THEN "pending" ELSE @]
  /\ Proceed(r, "MarkPaid")
  /\ UNCHANGED <<codVars, old, settlement, captured>>

\* MarkVerifiedPaidCash, WHERE status = 'created'.
DbMarkVerifiedPaidCash(r) ==
  /\ At(r, "MarkPaid")
  /\ locked[reqs[r].p] = None
  /\ payment' = [payment EXCEPT ![reqs[r].p] = "paid"]
  /\ Done(r)
  /\ UNCHANGED <<otp, attempts, locked, wrong, confirmed, dueVars>>

-----------------------------------------------------------------------------
(* The technician settles dues.                                              *)

\* An order for all pending dues (only = {}) or for one of them.  Razorpay is
\* asked to open it before the settlement is stored.
CreateSettlementOrder(r, u, only) ==
  /\ LET dues == IF only = {} THEN Pending(u) ELSE Pending(u) \cap only IN
     /\ dues # {}
     /\ Begin(r, [at |-> "InsertSettlement", u |-> u, dues |-> dues])
  /\ UNCHANGED <<codVars, dueVars>>

DbCreateSettlement(r) ==
  /\ At(r, "InsertSettlement")
  /\ \E o \in Orders :
       /\ settlement[o] = None
       /\ settlement' = [settlement EXCEPT ![o] =
            [u |-> reqs[r].u, dues |-> reqs[r].dues, status |-> "created"]]
  /\ Done(r)
  /\ UNCHANGED <<codVars, due, old, captured>>

\* Razorpay Checkout: only an order the app was handed can be paid, by then
\* with a settlement of its own.
GatewayCapture(o) ==
  /\ settlement[o] # None
  /\ captured' = captured \cup {o}
  /\ UNCHANGED <<codVars, due, old, settlement, reqs>>

\* Mutant of DbMarkSettlementPaid: leaves overdue dues alone.
DbClearRecent(u, o) ==
  /\ o \in captured
  /\ settlement[o].u = u
  /\ settlement[o].status = "created"
  /\ due' = [p \in Ids |-> IF p \in settlement[o].dues \ old
                           THEN "paid" ELSE due[p]]
  /\ settlement' = [settlement EXCEPT ![o].status = "paid"]
  /\ UNCHANGED <<codVars, old, captured, reqs>>

\* VerifySettlement asks for Razorpay's signature, which only a captured order
\* has; MarkSettlementPaid is one transaction that holds the settlement's row.
\* A settlement that is paid already is left alone.
DbMarkSettlementPaid(u, o) ==
  /\ o \in captured
  /\ settlement[o].u = u
  /\ settlement[o].status = "created"
  /\ due' = [p \in Ids |-> IF p \in settlement[o].dues THEN "paid" ELSE due[p]]
  /\ settlement' = [settlement EXCEPT ![o].status = "paid"]
  /\ UNCHANGED <<codVars, old, captured, reqs>>

-----------------------------------------------------------------------------
\* A statement fails or the process dies: what is committed stays, a
\* transaction is rolled back and its lock with it.
Abort(r) ==
  /\ MayAbort
  /\ reqs[r] # Idle
  /\ Done(r)
  /\ locked' = [p \in Ids |-> IF locked[p] = r THEN None ELSE locked[p]]
  /\ UNCHANGED <<payment, otp, attempts, wrong, confirmed, dueVars>>

Ask(r) ==
  \/ \E p \in Ids, c \in Codes :
       \/ CreateCodOrder(r, p, c)
       \/ GetCashOTP(r, p, c)
       \/ RefreshCashOTP(r, p, c)
       \/ ConfirmCashPayment(r, p, c)
  \/ \E u \in Users :
       \/ CreateSettlementOrder(r, u, {})
       \/ \E p \in Ids : CreateSettlementOrder(r, u, {p})

Continue(r) ==
  \/ DbInsertPayment(r)
  \/ DbSetOtp(r)
  \/ DbLockOtp(r)
  \/ DbCountWrong(r)
  \/ DbAddDue(r)
  \/ DbMarkVerifiedPaidCash(r)
  \/ DbCreateSettlement(r)

Next ==
  \/ \E r \in Requests : Ask(r) \/ Continue(r) \/ Abort(r)
  \/ \E o \in Orders : GatewayCapture(o)
  \/ \E u \in Users, o \in Orders : DbMarkSettlementPaid(u, o)
  \/ \E p \in Ids : GrowOld(p)

Spec == Init /\ [][Next]_vars

-----------------------------------------------------------------------------
(* What the component promises.                                              *)

\* Cash is confirmed with the customer: no payment is paid, and none is owed a
\* commission on, unless the code stored for it had been entered
\* (razorpay_service.go: "cash received can't be marked without the
\* customer's involvement"), however requests interleave with a refresh; and a
\* paid cash job never ends up without its due, wherever confirming is cut.
ConfirmedByCode ==
  \A p \in Ids :
    /\ payment[p] = "paid" => due[p] # "none"
    /\ payment[p] = "paid" \/ due[p] # "none" => p \in confirmed

\* However many entries race, at most MaxAttempts wrong ones are answered for
\* one code: the counter the lock protects loses none of them.
GuessesAreCounted ==
  /\ TypeOK
  /\ \A p \in Ids : wrong[p] = attempts[p] /\ wrong[p] <= MaxAttempts

\* A due is cleared only by a settlement that covers it, belongs to the
\* technician who owes it, and has been paid at Razorpay; and a paid settlement
\* has cleared every due it was opened for, for good, those that another order
\* cleared in the meantime and those whose job was confirmed again included.
ClearedIsCollected ==
  /\ \A p \in Ids : due[p] = "paid" =>
       \E o \in captured : /\ settlement[o] # None
                           /\ settlement[o].status = "paid"
                           /\ settlement[o].u = TechnicianOf[p]
                           /\ p \in settlement[o].dues
  /\ \A o \in Orders : settlement[o] # None =>
       /\ \A p \in settlement[o].dues : TechnicianOf[p] = settlement[o].u
       /\ settlement[o].status = "paid" =>
            \A p \in settlement[o].dues : due[p] = "paid"

-----------------------------------------------------------------------------
(* The inductive invariant behind it.                                        *)

\* What a request relies on: a wrong entry is counted under the lock it was
\* compared under, money is only owed or received once the code was entered,
\* and a settlement order covers dues of the technician who asked for it.
RequestOK(r) ==
  /\ At(r, "CountWrong") =>
       locked[reqs[r].p] = r /\ reqs[r].seen = attempts[reqs[r].p]
  /\ reqs[r].at \in {"AddDue", "MarkPaid"} => reqs[r].p \in confirmed
  /\ At(r, "MarkPaid") => due[reqs[r].p] # "none"
  /\ At(r, "InsertSettlement") =>
       \A p \in reqs[r].dues : TechnicianOf[p] = reqs[r].u /\ due[p] # "none"

\* Why the promises hold: the invariant that every step preserves.
CashInv ==
  /\ GuessesAreCounted
  /\ ConfirmedByCode
  /\ ClearedIsCollected
  /\ \A o \in captured : settlement[o] # None
  /\ \A o \in Orders : settlement[o] # None =>
       \A p \in settlement[o].dues : due[p] # "none"
  /\ \A r \in Requests : RequestOK(r)

=============================================================================
