---------------------------- MODULE PaymentsProofs ----------------------------
(* What holds of Payments for every value of its constants. *)
EXTENDS Payments, FiniteSetTheorems, TLAPS

Data == <<payment, booking, wallet, ledger, due, gateway, spent>>

\* A request about a payment is well typed.
LEMMA CallType ==
  ASSUME NEW s \in Statements, NEW p \in Ids
  PROVE  Call(s, p) \in Request
  BY DEF Call, Request

\* A slot that names a statement holds a well-formed request, which can rely
\* on what PendingOK promises it.
LEMMA Running ==
  ASSUME IInv, NEW r \in Requests, reqs[r].at \in Statements
  PROVE  reqs[r] \in Request /\ PendingOK(reqs[r])
<1>1. reqs[r] \in Request \cup {Idle}
  BY DEF IInv, TypeOK
<1>2. reqs[r] # Idle
  BY DEF Idle, Statements
<1> QED
  BY <1>1, <1>2 DEF IInv

\* A handler that takes up a call writes nothing, and its snapshot justifies
\* its first statement.
LEMMA ServeStep ==
  ASSUME IInv, NEW r \in Requests, Serve(r)
  PROVE  /\ UNCHANGED Data
         /\ \E q \in Request : reqs' = [reqs EXCEPT ![r] = q] /\ PendingOK(q)
<1>1. /\ payment \in [Ids -> Payment]
      /\ \A p \in Ids : PaymentOK(p)
      /\ \A b \in Bookings : booking[b].visit \in BOOLEAN
  BY DEF IInv, TypeOK
<1>2. ASSUME NEW b \in Bookings, NEW m \in {"online", "cash"}, CreateOrder(r, b, m)
      PROVE  /\ UNCHANGED Data
             /\ \E q \in Request : reqs' = [reqs EXCEPT ![r] = q] /\ PendingOK(q)
  <2> DEFINE q == [at |-> "InsertPayment", p |-> None, b |-> b, method |-> m,
                   visit |-> ~booking[b].visit]
  <2>1. q \in Request
    BY <1>1 DEF Request, Statements
  <2>2. PendingOK(q)
    BY DEF PendingOK
  <2>3. reqs' = [reqs EXCEPT ![r] = q] /\ UNCHANGED Data
    BY <1>2 DEF CreateOrder, Begin, Data
  <2> QED
    BY <2>1, <2>2, <2>3
<1>3. ASSUME NEW p \in Ids, NEW s \in Statements,
             reqs' = [reqs EXCEPT ![r] = Call(s, p)],
             payment[p].b \in Bookings => PendingOK(Call(s, p)),
             payment[p].status # "absent", UNCHANGED Data
      PROVE  /\ UNCHANGED Data
             /\ \E q \in Request : reqs' = [reqs EXCEPT ![r] = q] /\ PendingOK(q)
  <2>1. payment[p].b \in Bookings
    BY <1>1, <1>3 DEF PaymentOK, Payment
  <2> QED
    BY <1>3, <2>1, CallType
<1>4. ASSUME NEW p \in Ids, VerifyAndCapture(r, p)
      PROVE  /\ UNCHANGED Data
             /\ \E q \in Request : reqs' = [reqs EXCEPT ![r] = q] /\ PendingOK(q)
  <2>1. payment[p].b \in Bookings => PendingOK(Call("MarkPaid", p))
    BY <1>1, <1>4 DEF VerifyAndCapture, PendingOK, Call, HasMoney
  <2> QED
    BY <1>3, <1>4, <2>1 DEF VerifyAndCapture, Begin, Data, Statements
<1>5. ASSUME NEW p \in Ids, ConfirmCashPayment(r, p)
      PROVE  /\ UNCHANGED Data
             /\ \E q \in Request : reqs' = [reqs EXCEPT ![r] = q] /\ PendingOK(q)
  <2>1. payment[p].b \in Bookings => PendingOK(Call("VerifyCashOtp", p))
    BY <1>1, <1>5 DEF ConfirmCashPayment, PendingOK, Call
  <2> QED
    BY <1>3, <1>5, <2>1 DEF ConfirmCashPayment, Begin, Data, Statements
<1>6. ASSUME NEW p \in Ids, MarkFailed(r, p)
      PROVE  /\ UNCHANGED Data
             /\ \E q \in Request : reqs' = [reqs EXCEPT ![r] = q] /\ PendingOK(q)
  <2>1. payment[p].b \in Bookings => PendingOK(Call("MarkFailed", p))
    BY <1>1, <1>6 DEF MarkFailed, PendingOK, Call
  <2>2. payment[p].status # "absent"
    BY <1>1, <1>6 DEF MarkFailed, PaymentOK
  <2> QED
    BY <1>3, <1>6, <2>1, <2>2 DEF MarkFailed, Begin, Data, Statements
<1>7. ASSUME NEW p \in Ids, NEW first \in {"RefundAtGateway", "MarkRefunded"},
             Refund(r, p, first)
      PROVE  /\ UNCHANGED Data
             /\ \E q \in Request : reqs' = [reqs EXCEPT ![r] = q] /\ PendingOK(q)
  <2>1. payment[p].b \in Bookings => PendingOK(Call(first, p))
    BY <1>1, <1>7 DEF Refund, PendingOK, Call, Settled
  <2> QED
    BY <1>3, <1>7, <2>1 DEF Refund, Begin, Data, Statements
<1> QED
  BY <1>2, <1>4, <1>5, <1>6, <1>7 DEF Serve

-----------------------------------------------------------------------------
(* How each table may change in a step.                                      *)

\* What may become of the row of payment p.
Lives(p, w) ==
  \/ /\ payment[p].status = "absent" /\ w.status = "created"
     /\ w.b \in Bookings /\ w.method \in {"online", "cash"}
  \/ /\ w.b = payment[p].b /\ w.method = payment[p].method
     /\ \/ /\ payment[p].status = "created" /\ w.status = "paid"
           /\ HasMoney(p)
        \/ /\ payment[p].status = "created" /\ w.status = "failed"
           /\ w.method = "online"
        \/ payment[p].status = "paid" /\ w.status = "refunded"

\* A payment's status can be written alone.
LEMMA StatusEdit ==
  ASSUME NEW w \in Payment, NEW s \in Statuses
  PROVE  /\ [w EXCEPT !.status = s] \in Payment
         /\ [w EXCEPT !.status = s].status = s
         /\ [w EXCEPT !.status = s].b = w.b
         /\ [w EXCEPT !.status = s].method = w.method
  BY DEF Payment

\* Every statement leaves the payments alone or moves one of them on.
LEMMA PaymentSteps ==
  ASSUME IInv, Next
  PROVE  \/ payment' = payment
         \/ /\ \E p \in Ids, w \in Payment :
                 payment' = [payment EXCEPT ![p] = w] /\ Lives(p, w)
            /\ UNCHANGED <<due, gateway>>
<1> DEFINE Goal == \/ payment' = payment
                   \/ /\ \E p \in Ids, w \in Payment :
                           payment' = [payment EXCEPT ![p] = w] /\ Lives(p, w)
                      /\ UNCHANGED <<due, gateway>>
<1>1. payment \in [Ids -> Payment]
  BY DEF IInv, TypeOK
<1>2. ASSUME NEW r \in Requests, NEW p \in Ids, DbInsertPayment(r, p)
      PROVE  Goal
  <2> DEFINE w == [status |-> "created", b |-> reqs[r].b,
                   method |-> reqs[r].method, visit |-> reqs[r].visit]
  <2>1. reqs[r] \in Request /\ PendingOK(reqs[r]) /\ reqs[r].at = "InsertPayment"
    BY <1>2, Running DEF DbInsertPayment, At, Statements
  <2>2. reqs[r].b \in Bookings /\ reqs[r].method \in {"online", "cash"}
    BY <2>1 DEF PendingOK, Request
  <2>3. w \in Payment
    BY <2>1 DEF Request, Payment, Statuses
  <2>4. Lives(p, w)
    BY <1>2, <2>2 DEF DbInsertPayment, Lives
  <2>5. payment' = [payment EXCEPT ![p] = w] /\ UNCHANGED <<due, gateway>>
    BY <1>2 DEF DbInsertPayment
  <2> QED
    BY <2>3, <2>4, <2>5
<1>3. ASSUME NEW r \in Requests, NEW p \in Ids, NEW s \in Statuses, p = reqs[r].p,
             payment' = [payment EXCEPT ![p].status = s],
             UNCHANGED <<due, gateway>>,
             \/ payment[p].status = "created" /\ s = "paid" /\ HasMoney(p)
             \/ /\ payment[p].status = "created" /\ s = "failed"
                /\ payment[p].method = "online"
             \/ payment[p].status = "paid" /\ s = "refunded"
      PROVE  Goal
  <2> DEFINE w == [payment[p] EXCEPT !.status = s]
  <2>1. w \in Payment /\ w.status = s /\ w.b = payment[p].b
          /\ w.method = payment[p].method
    BY <1>1, StatusEdit
  <2>2. payment' = [payment EXCEPT ![p] = w]
    BY <1>3
  <2> HIDE DEF w
  <2>3. Lives(p, w)
    BY <1>3, <2>1 DEF Lives
  <2> QED
    BY <1>3, <2>1, <2>2, <2>3
<1>4. ASSUME NEW r \in Requests, DbMarkPaid(r)
      PROVE  Goal
  <2>1. reqs[r] \in Request /\ PendingOK(reqs[r]) /\ reqs[r].at = "MarkPaid"
    BY <1>4, Running DEF DbMarkPaid, At, Statements
  <2>2. PICK p \in Ids : p = reqs[r].p
    BY <2>1 DEF PendingOK
  <2>3. HasMoney(p)
    BY <2>1, <2>2 DEF PendingOK
  <2> QED
    BY <1>3, <1>4, <2>2, <2>3 DEF DbMarkPaid, Statuses
<1>5. ASSUME NEW r \in Requests, DbMarkFailed(r)
      PROVE  Goal
  <2>1. reqs[r] \in Request /\ PendingOK(reqs[r]) /\ reqs[r].at = "MarkFailed"
    BY <1>5, Running DEF DbMarkFailed, At, Statements
  <2>2. PICK p \in Ids : p = reqs[r].p
    BY <2>1 DEF PendingOK
  <2>3. payment[p].method = "online"
    BY <2>1, <2>2 DEF PendingOK
  <2> QED
    BY <1>3, <1>5, <2>2, <2>3 DEF DbMarkFailed, Statuses
<1>6. ASSUME NEW r \in Requests, DbMarkRefunded(r)
      PROVE  Goal
  <2>1. reqs[r] \in Request /\ PendingOK(reqs[r]) /\ reqs[r].at = "MarkRefunded"
    BY <1>6, Running DEF DbMarkRefunded, At, Statements
  <2>2. PICK p \in Ids : p = reqs[r].p
    BY <2>1 DEF PendingOK
  <2> QED
    BY <1>3, <1>6, <2>2 DEF DbMarkRefunded, Statuses
<1>7. ASSUME NEW r \in Requests, Serve(r) \/ Abort(r)
      PROVE  payment' = payment
  BY <1>7, ServeStep DEF Abort, Data
<1>8. ASSUME NEW r \in Requests,
             \/ DbVerifyCashOtp(r) \/ DbAddDue(r) \/ DbSetPaid(r)
             \/ DbSetVisit(r) \/ DbCreditTechnician(r)
             \/ DbOpenTechnicianWallet(r) \/ GatewayRefund(r)
             \/ DbSetRefunded(r) \/ DbDebitTechnician(r)
             \/ DbCreditCustomer(r) \/ DbOpenCustomerWallet(r)
      PROVE  payment' = payment
  BY <1>8 DEF DbVerifyCashOtp, DbAddDue, DbSetPaid, DbSetVisit,
              DbCreditTechnician, DbOpenTechnicianWallet, GatewayRefund,
              DbSetRefunded, DbDebitTechnician, DbCreditCustomer,
              DbOpenCustomerWallet
<1>9. ASSUME \/ \E p \in Ids : CustomerPays(p)
             \/ \E u \in Users : GetOrCreate(u) \/ Spend(u)
      PROVE  payment' = payment
  BY <1>9 DEF CustomerPays, GetOrCreate, Spend
<1> QED
  BY <1>2, <1>4, <1>5, <1>6, <1>7, <1>8, <1>9 DEF Next, Execute

\* A due is recorded for a cash payment that is open, or has it already.
LEMMA DueSteps ==
  ASSUME IInv, Next
  PROVE  \/ due' = due
         \/ /\ \E p \in Ids : /\ due' = [due EXCEPT ![p] = TRUE]
                              /\ payment[p].method = "cash"
                              /\ due[p] \/ payment[p].status = "created"
            /\ UNCHANGED <<payment, gateway>>
<1>1. ASSUME NEW r \in Requests, DbAddDue(r)
      PROVE  /\ \E p \in Ids : /\ due' = [due EXCEPT ![p] = TRUE]
                               /\ payment[p].method = "cash"
                               /\ due[p] \/ payment[p].status = "created"
             /\ UNCHANGED <<payment, gateway>>
  <2>1. reqs[r] \in Request /\ PendingOK(reqs[r]) /\ reqs[r].at = "AddDue"
    BY <1>1, Running DEF DbAddDue, At, Statements
  <2> QED
    BY <1>1, <2>1 DEF DbAddDue, PendingOK
<1>2. ASSUME NEW r \in Requests, Serve(r) \/ Abort(r)
      PROVE  due' = due
  BY <1>2, ServeStep DEF Abort, Data
<1>3. ASSUME NEW r \in Requests, Execute(r), ~DbAddDue(r)
      PROVE  due' = due
  BY <1>3 DEF Execute, DbInsertPayment, DbVerifyCashOtp, DbMarkPaid, DbSetPaid,
              DbSetVisit, DbCreditTechnician, DbOpenTechnicianWallet,
              DbMarkFailed, GatewayRefund, DbMarkRefunded, DbSetRefunded,
              DbDebitTechnician, DbCreditCustomer, DbOpenCustomerWallet
<1>4. ASSUME \/ \E p \in Ids : CustomerPays(p)
             \/ \E u \in Users : GetOrCreate(u) \/ Spend(u)
      PROVE  due' = due
  BY <1>4 DEF CustomerPays, GetOrCreate, Spend
<1> QED
  BY <1>1, <1>2, <1>3, <1>4 DEF Next

\* Razorpay only ever moves the money of online payments, and never forgets a
\* capture.
LEMMA GatewaySteps ==
  ASSUME IInv, Next
  PROVE  \/ gateway' = gateway
         \/ /\ \E p \in Ids, g \in {"captured", "refunded"} :
                 /\ gateway' = [gateway EXCEPT ![p] = g]
                 /\ payment[p].method = "online"
            /\ UNCHANGED <<payment, due>>
<1>1. ASSUME NEW r \in Requests, GatewayRefund(r)
      PROVE  \/ gateway' = gateway
             \/ /\ \E p \in Ids, g \in {"captured", "refunded"} :
                     /\ gateway' = [gateway EXCEPT ![p] = g]
                     /\ payment[p].method = "online"
                /\ UNCHANGED <<payment, due>>
  <2>1. reqs[r] \in Request /\ PendingOK(reqs[r]) /\ reqs[r].at = "RefundAtGateway"
    BY <1>1, Running DEF GatewayRefund, At, Statements
  <2> QED
    BY <1>1, <2>1 DEF GatewayRefund, PendingOK
<1>2. ASSUME NEW p \in Ids, CustomerPays(p)
      PROVE  /\ gateway' = [gateway EXCEPT ![p] = "captured"]
             /\ payment[p].method = "online"
             /\ UNCHANGED <<payment, due>>
  BY <1>2 DEF CustomerPays
<1>3. ASSUME NEW r \in Requests, Serve(r) \/ Abort(r)
      PROVE  gateway' = gateway
  BY <1>3, ServeStep DEF Abort, Data
<1>4. ASSUME NEW r \in Requests, Execute(r), ~GatewayRefund(r)
      PROVE  gateway' = gateway
  BY <1>4 DEF Execute, DbInsertPayment, DbVerifyCashOtp, DbAddDue, DbMarkPaid,
              DbSetPaid, DbSetVisit, DbCreditTechnician,
              DbOpenTechnicianWallet, DbMarkFailed, DbMarkRefunded,
              DbSetRefunded, DbDebitTechnician, DbCreditCustomer,
              DbOpenCustomerWallet
<1>5. ASSUME NEW u \in Users, GetOrCreate(u) \/ Spend(u)
      PROVE  gateway' = gateway
  BY <1>5 DEF GetOrCreate, Spend
<1> QED
  BY <1>1, <1>2, <1>3, <1>4, <1>5 DEF Next

\* What one request relies on, no step of another takes away.
LEMMA Lasting ==
  ASSUME IInv, Next, NEW p \in Ids
  PROVE  /\ PaymentOK(p)'
         /\ payment[p].b \in Bookings => payment'[p].b = payment[p].b
         /\ payment[p].method # "none" => payment'[p].method = payment[p].method
         /\ HasMoney(p) => HasMoney(p)'
         /\ gateway[p] # "none" => gateway'[p] # "none"
         /\ due[p] => due'[p]
         /\ Settled(p) => Settled(p)'
         /\ payment[p].status = "refunded" => payment'[p].status = "refunded"
         /\ payment[p].method = "cash" /\ (due[p] \/ payment[p].status = "created")
              => due'[p] \/ payment'[p].status = "created"
         /\ Settled(p)' /\ payment'[p].method = "cash" => due'[p]
         /\ due'[p] => payment'[p].method = "cash"
<1>1. /\ payment \in [Ids -> Payment] /\ due \in [Ids -> BOOLEAN]
      /\ gateway \in [Ids -> {"none", "captured", "refunded"}]
      /\ PaymentOK(p) /\ PaidCashHasDue
  BY DEF IInv, TypeOK
<1>2. payment[p].b \in Bookings \cup {None} /\ None \notin Bookings
  BY <1>1, NoneAssumption DEF Payment
<1>3. CASE payment'[p] = payment[p] /\ due'[p] = due[p] /\ gateway'[p] = gateway[p]
  BY <1>1, <1>3 DEF PaymentOK, PaidCashHasDue, HasMoney, Settled
<1>4. CASE /\ payment'[p] \in Payment /\ Lives(p, payment'[p])
           /\ UNCHANGED <<due, gateway>>
  <2>1. payment'[p].b \in Bookings
    BY <1>1, <1>2, <1>4 DEF Lives, PaymentOK
  <2>2. CASE payment[p].status = "absent"
    BY <1>1, <1>2, <1>4, <2>1, <2>2
    DEF Lives, PaymentOK, PaidCashHasDue, HasMoney, Settled
  <2>3. CASE payment[p].status # "absent"
    BY <1>1, <1>2, <1>4, <2>1, <2>3
    DEF Lives, PaymentOK, PaidCashHasDue, HasMoney, Settled
  <2> QED
    BY <2>2, <2>3
<1>5. CASE /\ UNCHANGED <<payment, gateway>>
           /\ due'[p] = TRUE /\ payment[p].method = "cash"
  BY <1>1, <1>5 DEF PaymentOK, PaidCashHasDue, HasMoney, Settled
<1>6. CASE /\ UNCHANGED <<payment, due>>
           /\ gateway'[p] # "none" /\ payment[p].method = "online"
  BY <1>1, <1>6 DEF PaymentOK, PaidCashHasDue, HasMoney, Settled
<1>7. CASE payment' # payment
  <2>1. PICK x \in Ids, w \in Payment :
          /\ payment' = [payment EXCEPT ![x] = w] /\ Lives(x, w)
          /\ UNCHANGED <<due, gateway>>
    BY <1>7, PaymentSteps
  <2>2. CASE x = p
    BY <1>1, <1>4, <2>1, <2>2
  <2>3. CASE x # p
    BY <1>1, <1>3, <2>1, <2>3
  <2> QED
    BY <2>2, <2>3
<1>8. CASE due' # due
  <2>1. PICK x \in Ids :
          /\ due' = [due EXCEPT ![x] = TRUE] /\ payment[x].method = "cash"
          /\ UNCHANGED <<payment, gateway>>
    BY <1>8, DueSteps
  <2> QED
    BY <1>1, <1>3, <1>5, <2>1
<1>9. CASE gateway' # gateway
  <2>1. PICK x \in Ids, g \in {"captured", "refunded"} :
          /\ gateway' = [gateway EXCEPT ![x] = g] /\ payment[x].method = "online"
          /\ UNCHANGED <<payment, due>>
    BY <1>9, GatewaySteps
  <2> QED
    BY <1>1, <1>3, <1>6, <2>1
<1> QED
  BY <1>3, <1>7, <1>8, <1>9

\* A booking is marked paid for a payment with money, and refunded for one that
\* is; the visit charge is flagged alone.
LEMMA BookingSteps ==
  ASSUME IInv, Next
  PROVE  \/ booking' = booking
         \/ \E b \in Bookings, v \in [payment : {"pending", "paid", "refunded"},
                                      visit : BOOLEAN] :
              /\ booking' = [booking EXCEPT ![b] = v]
              /\ \/ v.payment = booking[b].payment
                 \/ v.payment = "paid" /\ \E p \in Ids :
                      payment[p].b = b /\ HasMoney(p)
                 \/ v.payment = "refunded" /\ \E p \in Ids :
                      payment[p].b = b /\ payment[p].status = "refunded"
<1> DEFINE Marks == [payment : {"pending", "paid", "refunded"}, visit : BOOLEAN]
           Goal == \E b \in Bookings, v \in Marks :
                     /\ booking' = [booking EXCEPT ![b] = v]
                     /\ \/ v.payment = booking[b].payment
                        \/ v.payment = "paid" /\ \E p \in Ids :
                             payment[p].b = b /\ HasMoney(p)
                        \/ v.payment = "refunded" /\ \E p \in Ids :
                             payment[p].b = b /\ payment[p].status = "refunded"
<1>1. booking \in [Bookings -> Marks] /\ payment \in [Ids -> Payment]
  BY DEF IInv, TypeOK
<1>2. \A v \in Marks, x \in {"pending", "paid", "refunded"} :
        /\ [v EXCEPT !.payment = x] \in Marks
        /\ [v EXCEPT !.payment = x].payment = x
  OBVIOUS
<1>3. ASSUME NEW r \in Requests, DbSetPaid(r)
      PROVE  Goal
  <2>1. reqs[r] \in Request /\ PendingOK(reqs[r]) /\ reqs[r].at = "SetPaid"
    BY <1>3, Running DEF DbSetPaid, At, Statements
  <2>2. PICK p \in Ids, b \in Bookings : p = reqs[r].p /\ b = payment[p].b
    BY <2>1 DEF PendingOK
  <2>3. HasMoney(p)
    BY <2>1, <2>2 DEF PendingOK
  <2> DEFINE v == [booking[b] EXCEPT !.payment = "paid"]
  <2>4. v \in Marks /\ v.payment = "paid"
    BY <1>1, <1>2
  <2>5. booking' = [booking EXCEPT ![b] = v]
    BY <1>3, <2>2 DEF DbSetPaid
  <2> HIDE DEF v
  <2> QED
    BY <2>2, <2>3, <2>4, <2>5
<1>4. ASSUME NEW r \in Requests, DbSetRefunded(r)
      PROVE  Goal
  <2>1. reqs[r] \in Request /\ PendingOK(reqs[r]) /\ reqs[r].at = "SetRefunded"
    BY <1>4, Running DEF DbSetRefunded, At, Statements
  <2>2. PICK p \in Ids, b \in Bookings : p = reqs[r].p /\ b = payment[p].b
    BY <2>1 DEF PendingOK
  <2>3. payment[p].status = "refunded"
    BY <2>1, <2>2 DEF PendingOK
  <2> DEFINE v == [booking[b] EXCEPT !.payment = "refunded"]
  <2>4. v \in Marks /\ v.payment = "refunded"
    BY <1>1, <1>2
  <2>5. booking' = [booking EXCEPT ![b] = v]
    BY <1>4, <2>2 DEF DbSetRefunded
  <2> HIDE DEF v
  <2> QED
    BY <2>2, <2>3, <2>4, <2>5
<1>5. ASSUME NEW r \in Requests, DbSetVisit(r)
      PROVE  Goal
  <2>1. reqs[r] \in Request /\ PendingOK(reqs[r]) /\ reqs[r].at = "SetVisit"
    BY <1>5, Running DEF DbSetVisit, At, Statements
  <2>2. PICK p \in Ids, b \in Bookings : p = reqs[r].p /\ b = payment[p].b
    BY <2>1 DEF PendingOK
  <2> DEFINE x == booking[b].visit \/ payment[p].visit
             v == [booking[b] EXCEPT !.visit = x]
  <2>3. v \in Marks /\ v.payment = booking[b].payment
    BY <1>1
  <2>4. booking' = [booking EXCEPT ![b] = v]
    BY <1>5, <2>2 DEF DbSetVisit
  <2> HIDE DEF v
  <2> QED
    BY <2>2, <2>3, <2>4
<1>6. ASSUME NEW r \in Requests, Serve(r) \/ Abort(r)
      PROVE  booking' = booking
  BY <1>6, ServeStep DEF Abort, Data
<1>7. ASSUME NEW r \in Requests, Execute(r),
             ~DbSetPaid(r), ~DbSetRefunded(r), ~DbSetVisit(r)
      PROVE  booking' = booking
  BY <1>7 DEF Execute, DbInsertPayment, DbVerifyCashOtp, DbAddDue, DbMarkPaid,
              DbCreditTechnician, DbOpenTechnicianWallet, DbMarkFailed,
              GatewayRefund, DbMarkRefunded, DbDebitTechnician,
              DbCreditCustomer, DbOpenCustomerWallet
<1>8. ASSUME \/ \E p \in Ids : CustomerPays(p)
             \/ \E u \in Users : GetOrCreate(u) \/ Spend(u)
      PROVE  booking' = booking
  BY <1>8 DEF CustomerPays, GetOrCreate, Spend
<1> QED
  BY <1>3, <1>4, <1>5, <1>6, <1>7, <1>8 DEF Next

Entry == [earning : Nat, clawback : Nat, refund : Nat]

\* Adding one to a count of a ledger entry touches no other.
LEMMA EntryEdit ==
  ASSUME NEW l \in Entry
  PROVE  /\ [l EXCEPT !.earning = @ + 1] \in Entry
         /\ [l EXCEPT !.earning = @ + 1].clawback = l.clawback
         /\ [l EXCEPT !.earning = @ + 1].refund = l.refund
         /\ [l EXCEPT !.clawback = @ + 1] \in Entry
         /\ [l EXCEPT !.clawback = @ + 1].earning = l.earning
         /\ [l EXCEPT !.refund = @ + 1] \in Entry
         /\ [l EXCEPT !.refund = @ + 1].earning = l.earning
  BY DEF Entry

\* Wallets keep their type; an earning is entered for a captured payment, and
\* anything else for a refunded one.
LEMMA WalletSteps ==
  ASSUME IInv, Next
  PROVE  /\ wallet' \in [Users -> Nat \cup {None}]
         /\ spent' \in [Users -> Nat]
         /\ \/ ledger' = ledger
            \/ \E p \in Ids, l \in Entry :
                 /\ ledger' = [ledger EXCEPT ![p] = l]
                 /\ \/ /\ l.clawback = ledger[p].clawback
                       /\ l.refund = ledger[p].refund
                       /\ payment[p].method = "online" /\ gateway[p] # "none"
                    \/ /\ l.earning = ledger[p].earning
                       /\ payment[p].status = "refunded"
<1> DEFINE Entered == \E p \in Ids, l \in Entry :
                 /\ ledger' = [ledger EXCEPT ![p] = l]
                 /\ \/ /\ l.clawback = ledger[p].clawback
                       /\ l.refund = ledger[p].refund
                       /\ payment[p].method = "online" /\ gateway[p] # "none"
                    \/ /\ l.earning = ledger[p].earning
                       /\ payment[p].status = "refunded"
           Typed == /\ wallet' \in [Users -> Nat \cup {None}]
                    /\ spent' \in [Users -> Nat]
<1>1. /\ wallet \in [Users -> Nat \cup {None}] /\ spent \in [Users -> Nat]
      /\ ledger \in [Ids -> Entry]
  BY DEF IInv, TypeOK, Entry
<1>2. ASSUME NEW r \in Requests, NEW p \in Ids, p = reqs[r].p,
             payment[p].method = "online", gateway[p] # "none",
             ledger' = [ledger EXCEPT ![p].earning = @ + 1]
      PROVE  Entered
  <2> DEFINE l == [ledger[p] EXCEPT !.earning = @ + 1]
  <2>1. /\ l \in Entry /\ l.clawback = ledger[p].clawback
        /\ l.refund = ledger[p].refund
    BY <1>1, EntryEdit
  <2>2. ledger' = [ledger EXCEPT ![p] = l]
    BY <1>2
  <2> HIDE DEF l
  <2> QED
    BY <1>2, <2>1, <2>2
<1>3. ASSUME NEW r \in Requests, NEW p \in Ids, p = reqs[r].p,
             payment[p].status = "refunded",
             \/ ledger' = [ledger EXCEPT ![p].clawback = @ + 1]
             \/ ledger' = [ledger EXCEPT ![p].refund = @ + 1]
      PROVE  Entered
  <2> DEFINE k == [ledger[p] EXCEPT !.clawback = @ + 1]
             l == [ledger[p] EXCEPT !.refund = @ + 1]
  <2>1. /\ k \in Entry /\ k.earning = ledger[p].earning
        /\ l \in Entry /\ l.earning = ledger[p].earning
    BY <1>1, EntryEdit
  <2>2. ledger' = [ledger EXCEPT ![p] = k] \/ ledger' = [ledger EXCEPT ![p] = l]
    BY <1>3
  <2> HIDE DEF k, l
  <2> QED
    BY <1>3, <2>1, <2>2
<1>4. ASSUME NEW r \in Requests, DbCreditTechnician(r) \/ DbOpenTechnicianWallet(r)
      PROVE  Typed /\ (ledger' = ledger \/ Entered)
  <2>1. /\ reqs[r] \in Request /\ PendingOK(reqs[r])
        /\ reqs[r].at \in {"CreditTechnician", "OpenTechnicianWallet"}
    BY <1>4, Running DEF DbCreditTechnician, DbOpenTechnicianWallet, At, Statements
  <2>2. PICK p \in Ids : p = reqs[r].p
    BY <2>1 DEF PendingOK
  <2>3. payment[p].method = "online" /\ gateway[p] # "none"
    BY <2>1, <2>2 DEF PendingOK
  <2>4. Typed
    BY <1>1, <1>4 DEF DbCreditTechnician, DbOpenTechnicianWallet, Credit, Open
  <2>5. ledger' = ledger \/ ledger' = [ledger EXCEPT ![p].earning = @ + 1]
    BY <1>4, <2>2 DEF DbCreditTechnician, DbOpenTechnicianWallet, Credit, Open
  <2> QED
    BY <1>2, <2>2, <2>3, <2>4, <2>5
<1>5. ASSUME NEW r \in Requests, \/ DbDebitTechnician(r) \/ DbCreditCustomer(r)
                                 \/ DbOpenCustomerWallet(r)
      PROVE  Typed /\ (ledger' = ledger \/ Entered)
  <2>1. /\ reqs[r] \in Request /\ PendingOK(reqs[r])
        /\ reqs[r].at \in {"DebitTechnician", "CreditCustomer",
                           "OpenCustomerWallet"}
    BY <1>5, Running
    DEF DbDebitTechnician, DbCreditCustomer, DbOpenCustomerWallet, At, Statements
  <2>2. PICK p \in Ids : p = reqs[r].p
    BY <2>1 DEF PendingOK
  <2>3. payment[p].status = "refunded"
    BY <2>1, <2>2 DEF PendingOK
  <2>4. Typed
    <3>1. CASE DbDebitTechnician(r)
      BY <1>1, <3>1 DEF DbDebitTechnician
    <3>2. CASE DbCreditCustomer(r)
      BY <1>1, <3>2 DEF DbCreditCustomer, Credit
    <3>3. CASE DbOpenCustomerWallet(r)
      BY <1>1, <3>3 DEF DbOpenCustomerWallet, Open
    <3> QED
      BY <1>5, <3>1, <3>2, <3>3
  <2>5. \/ ledger' = ledger
        \/ ledger' = [ledger EXCEPT ![p].clawback = @ + 1]
        \/ ledger' = [ledger EXCEPT ![p].refund = @ + 1]
    BY <1>5, <2>2
    DEF DbDebitTechnician, DbCreditCustomer, DbOpenCustomerWallet, Credit, Open
  <2> QED
    BY <1>3, <2>2, <2>3, <2>4, <2>5
<1>6. ASSUME NEW u \in Users, GetOrCreate(u) \/ Spend(u)
      PROVE  Typed /\ ledger' = ledger
  BY <1>1, <1>6 DEF GetOrCreate, Spend
<1>7. ASSUME NEW r \in Requests, Serve(r) \/ Abort(r)
      PROVE  Typed /\ ledger' = ledger
  BY <1>1, <1>7, ServeStep DEF Abort, Data
<1>8. ASSUME NEW r \in Requests,
             \/ \E p \in Ids : DbInsertPayment(r, p)
             \/ DbVerifyCashOtp(r) \/ DbAddDue(r) \/ DbMarkPaid(r)
             \/ DbSetPaid(r) \/ DbSetVisit(r) \/ DbMarkFailed(r)
             \/ GatewayRefund(r) \/ DbMarkRefunded(r) \/ DbSetRefunded(r)
      PROVE  UNCHANGED <<wallet, ledger, spent>>
  BY <1>8 DEF DbInsertPayment, DbVerifyCashOtp, DbAddDue, DbMarkPaid, DbSetPaid,
              DbSetVisit, DbMarkFailed, GatewayRefund, DbMarkRefunded,
              DbSetRefunded
<1>9. ASSUME NEW p \in Ids, CustomerPays(p)
      PROVE  UNCHANGED <<wallet, ledger, spent>>
  BY <1>9 DEF CustomerPays
<1> QED
  BY <1>1, <1>4, <1>5, <1>6, <1>7, <1>8, <1>9 DEF Next, Execute

-----------------------------------------------------------------------------
(* What the requests rely on.                                                *)

\* A request that is left alone can go on relying on what it could rely on.
LEMMA StillOK ==
  ASSUME IInv, Next, NEW q \in Request, PendingOK(q)
  PROVE  PendingOK(q)'
<1>1. CASE q.at = "InsertPayment"
  BY <1>1 DEF PendingOK
<1>2. CASE q.at # "InsertPayment"
  <2>1. PICK p \in Ids : p = q.p /\ payment[p].b \in Bookings
    BY <1>2 DEF PendingOK
  <2>2. payment[p].method # "none"
    <3>1. PaymentOK(p) /\ payment[p].b # None
      BY <2>1, NoneAssumption DEF IInv
    <3> QED
      BY <3>1 DEF PaymentOK
  <2>3. /\ payment'[p].b = payment[p].b /\ payment'[p].method = payment[p].method
        /\ HasMoney(p) => HasMoney(p)'
        /\ gateway[p] # "none" => gateway'[p] # "none"
        /\ Settled(p) => Settled(p)'
        /\ payment[p].status = "refunded" => payment'[p].status = "refunded"
        /\ payment[p].method = "cash" /\ (due[p] \/ payment[p].status = "created")
             => due'[p] \/ payment'[p].status = "created"
    BY <2>1, <2>2, Lasting
  <2>4. (Technician(p) = None) <=> (Technician(p) = None)'
    BY <2>3 DEF Technician
  <2> QED
    BY <1>2, <2>1, <2>3, <2>4 DEF PendingOK
<1> QED
  BY <1>1, <1>2

\* A statement ends its handler or hands it to the next statement.
LEMMA ExecuteSlot ==
  ASSUME IInv, NEW r \in Requests, Execute(r) \/ Abort(r)
  PROVE  \/ reqs' = [reqs EXCEPT ![r] = Idle]
         \/ \E s \in Statements : reqs' = [reqs EXCEPT ![r].at = s]
  BY DEF Execute, Abort, Done, Proceed, Statements, DbInsertPayment,
         DbVerifyCashOtp, DbAddDue, DbMarkPaid, DbSetPaid, DbSetVisit,
         DbCreditTechnician, DbOpenTechnicianWallet, DbMarkFailed,
         GatewayRefund, DbMarkRefunded, DbSetRefunded, DbDebitTechnician,
         DbCreditCustomer, DbOpenCustomerWallet, Credit, Open

\* A statement that goes on to another has brought about what that one needs.
LEMMA GoesOnOK ==
  ASSUME IInv, Next, NEW r \in Requests, Execute(r),
         NEW s \in Statements, reqs' = [reqs EXCEPT ![r].at = s]
  PROVE  PendingOK(reqs[r])'
<1>1. /\ payment \in [Ids -> Payment] /\ due \in [Ids -> BOOLEAN]
      /\ reqs \in [Requests -> Request \cup {Idle}]
  BY DEF IInv, TypeOK
<1>2. ~Done(r)
  <2>1. CASE reqs[r] = Idle
    <3>1. FALSE
      BY <2>1 DEF Execute, Idle, At, DbInsertPayment, DbVerifyCashOtp, DbAddDue,
                  DbMarkPaid, DbSetPaid, DbSetVisit, DbCreditTechnician,
                  DbOpenTechnicianWallet, DbMarkFailed, GatewayRefund,
                  DbMarkRefunded, DbSetRefunded, DbDebitTechnician,
                  DbCreditCustomer, DbOpenCustomerWallet
    <3> QED
      BY <3>1
  <2>2. CASE reqs[r] \in Request
    <3>1. reqs'[r] = [reqs[r] EXCEPT !.at = s]
      BY <1>1
    <3>2. reqs'[r].at = s
      BY <2>2, <3>1 DEF Request
    <3> QED
      BY <1>1, <3>2 DEF Done, Idle, Statements
  <2> QED
    BY <1>1, <2>1, <2>2
<1>3. ~ \E p \in Ids : DbInsertPayment(r, p)
  BY <1>2 DEF DbInsertPayment
<1>4. ASSUME reqs[r].at \in Statements \ {"InsertPayment"}, NEW x \in Statements,
             Proceed(r, x)
      PROVE  /\ reqs[r] \in Request /\ PendingOK(reqs[r])
             /\ reqs[r].p \in Ids /\ payment[reqs[r].p].b \in Bookings
             /\ reqs'[r] \in Request
             /\ reqs'[r].at = x /\ reqs'[r].p = reqs[r].p
  <2>1. reqs[r] \in Request /\ PendingOK(reqs[r])
    BY <1>4, Running
  <2>2. reqs'[r] = [reqs[r] EXCEPT !.at = x]
    BY <1>1, <1>4 DEF Proceed
  <2> QED
    BY <1>4, <2>1, <2>2 DEF PendingOK, Request
<1>5. ASSUME NEW p \in Ids, payment[p].b \in Bookings
      PROVE  /\ payment'[p].b = payment[p].b /\ payment'[p].b \in Bookings
             /\ payment'[p].method = payment[p].method
             /\ HasMoney(p) => HasMoney(p)'
             /\ gateway[p] # "none" => gateway'[p] # "none"
             /\ Settled(p) => Settled(p)'
             /\ payment[p].status = "refunded" => payment'[p].status = "refunded"
             /\ (Technician(p) = None) <=> (Technician(p) = None)'
  <2>1. payment[p].method # "none"
    <3>1. PaymentOK(p) /\ payment[p].b # None
      BY <1>5, NoneAssumption DEF IInv
    <3> QED
      BY <3>1 DEF PaymentOK
  <2> QED
    BY <1>5, <2>1, Lasting DEF Technician
<1> USE DEF At, Statements
<1>6. CASE DbVerifyCashOtp(r)
  <2>1. Proceed(r, "AddDue") /\ payment[reqs[r].p].status = "created"
          /\ payment' = payment
    BY <1>2, <1>6 DEF DbVerifyCashOtp
  <2>2. reqs[r].at = "VerifyCashOtp"
    BY <1>6 DEF DbVerifyCashOtp
  <2> QED
    BY <1>4, <1>5, <2>1, <2>2 DEF PendingOK
<1>7. CASE DbAddDue(r)
  <2>1. Proceed(r, "MarkPaid") /\ reqs[r].at = "AddDue"
    BY <1>7 DEF DbAddDue
  <2>2. reqs[r].p \in Ids
    BY <1>4, <2>1
  <2>3. due'[reqs[r].p]
    BY <1>1, <1>7, <2>2 DEF DbAddDue
  <2> QED
    BY <1>4, <1>5, <2>1, <2>3 DEF PendingOK, HasMoney
<1>8. CASE DbMarkPaid(r)
  <2>1. Proceed(r, "SetPaid") /\ reqs[r].at = "MarkPaid"
    BY <1>8 DEF DbMarkPaid
  <2> QED
    BY <1>4, <1>5, <2>1 DEF PendingOK
<1>9. CASE DbSetPaid(r)
  <2>1. Proceed(r, "SetVisit") /\ reqs[r].at = "SetPaid"
    BY <1>9 DEF DbSetPaid
  <2> QED
    BY <1>4, <1>5, <2>1 DEF PendingOK
<1>10. CASE DbSetVisit(r)
  <2>1. /\ Proceed(r, "CreditTechnician") /\ reqs[r].at = "SetVisit"
        /\ payment[reqs[r].p].method = "online" /\ Technician(reqs[r].p) # None
    BY <1>2, <1>10 DEF DbSetVisit
  <2>2. /\ reqs[r].p \in Ids /\ PendingOK(reqs[r])
        /\ payment[reqs[r].p].b \in Bookings
    BY <1>4, <2>1
  <2>3. gateway[reqs[r].p] # "none"
    <3>1. HasMoney(reqs[r].p)
      BY <2>1, <2>2 DEF PendingOK
    <3>2. PaidCashHasDue
      BY DEF IInv
    <3> QED
      BY <2>1, <2>2, <3>1, <3>2 DEF HasMoney, PaidCashHasDue
  <2> QED
    BY <1>4, <1>5, <2>1, <2>2, <2>3 DEF PendingOK
<1>11. CASE DbCreditTechnician(r)
  <2>1. Proceed(r, "OpenTechnicianWallet") /\ reqs[r].at = "CreditTechnician"
    BY <1>2, <1>11 DEF DbCreditTechnician, Credit
  <2> QED
    BY <1>4, <1>5, <2>1 DEF PendingOK
<1>12. CASE GatewayRefund(r)
  <2>1. Proceed(r, "MarkRefunded") /\ reqs[r].at = "RefundAtGateway"
    BY <1>12 DEF GatewayRefund
  <2> QED
    BY <1>4, <1>5, <2>1 DEF PendingOK
<1>13. CASE DbMarkRefunded(r)
  <2>1. Proceed(r, "SetRefunded") /\ reqs[r].at = "MarkRefunded"
    BY <1>13 DEF DbMarkRefunded
  <2>2. reqs[r].p \in Ids /\ Settled(reqs[r].p)
    BY <1>4, <2>1 DEF PendingOK
  <2>3. payment'[reqs[r].p].status = "refunded"
    BY <1>1, <1>13, <2>2 DEF DbMarkRefunded, Settled, Payment
  <2> QED
    BY <1>4, <1>5, <2>1, <2>3 DEF PendingOK
<1>14. CASE DbSetRefunded(r)
  <2>1. /\ Proceed(r, IF Technician(reqs[r].p) # None THEN "DebitTechnician"
                                                        ELSE "CreditCustomer")
        /\ reqs[r].at = "SetRefunded"
    BY <1>14 DEF DbSetRefunded
  <2>2. CASE Technician(reqs[r].p) # None
    BY <1>4, <1>5, <2>1, <2>2 DEF PendingOK
  <2>3. CASE Technician(reqs[r].p) = None
    BY <1>4, <1>5, <2>1, <2>3 DEF PendingOK
  <2> QED
    BY <2>2, <2>3
<1>15. CASE DbDebitTechnician(r)
  <2>1. Proceed(r, "CreditCustomer") /\ reqs[r].at = "DebitTechnician"
    BY <1>15 DEF DbDebitTechnician
  <2> QED
    BY <1>4, <1>5, <2>1 DEF PendingOK
<1>16. CASE DbCreditCustomer(r)
  <2>1. Proceed(r, "OpenCustomerWallet") /\ reqs[r].at = "CreditCustomer"
    BY <1>2, <1>16 DEF DbCreditCustomer, Credit
  <2> QED
    BY <1>4, <1>5, <2>1 DEF PendingOK
<1>17. ~ (DbMarkFailed(r) \/ DbOpenTechnicianWallet(r) \/ DbOpenCustomerWallet(r))
  BY <1>2 DEF DbMarkFailed, DbOpenTechnicianWallet, DbOpenCustomerWallet, Open
<1> QED
  BY <1>3, <1>6, <1>7, <1>8, <1>9, <1>10, <1>11, <1>12, <1>13, <1>14, <1>15,
     <1>16, <1>17 DEF Execute

\* Slots keep their type, and each keeps what it relies on.
LEMMA PendingKept ==
  ASSUME IInv, Next
  PROVE  /\ reqs' \in [Requests -> Request \cup {Idle}]
         /\ \A x \in Requests : reqs'[x] # Idle => PendingOK(reqs[x])'
<1> DEFINE Kept == /\ reqs' \in [Requests -> Request \cup {Idle}]
                   /\ \A x \in Requests : reqs'[x] # Idle => PendingOK(reqs[x])'
<1>1. /\ reqs \in [Requests -> Request \cup {Idle}]
      /\ \A x \in Requests : reqs[x] # Idle => PendingOK(reqs[x])
  BY DEF IInv, TypeOK
<1>2. \A x \in Requests : reqs'[x] = reqs[x] /\ reqs[x] # Idle => PendingOK(reqs[x])'
  <2> SUFFICES ASSUME NEW x \in Requests, reqs'[x] = reqs[x], reqs[x] # Idle
               PROVE  PendingOK(reqs[x])'
    OBVIOUS
  <2>1. PICK q \in Request : q = reqs[x] /\ PendingOK(q)
    BY <1>1
  <2>2. PendingOK(q)'
    BY <2>1, StillOK
  <2> QED
    BY <2>1, <2>2 DEF PendingOK
<1>3. ASSUME NEW r \in Requests, Serve(r)
      PROVE  Kept
  <2>1. PICK q \in Request : reqs' = [reqs EXCEPT ![r] = q] /\ PendingOK(q)
    BY <1>3, ServeStep
  <2>2. PendingOK(q)'
    BY <2>1, StillOK
  <2>3. PendingOK(reqs[r])'
    BY <1>1, <2>1, <2>2 DEF PendingOK
  <2> QED
    BY <1>1, <1>2, <2>1, <2>3
<1>4. ASSUME NEW r \in Requests, Execute(r) \/ Abort(r)
      PROVE  Kept
  <2>1. CASE reqs' = [reqs EXCEPT ![r] = Idle]
    BY <1>1, <1>2, <2>1
  <2>2. ASSUME NEW s \in Statements, reqs' = [reqs EXCEPT ![r].at = s], Execute(r)
        PROVE  Kept
    <3>1. PendingOK(reqs[r])'
      BY <2>2, GoesOnOK
    <3>2. reqs[r] \in Request
      BY <2>2, Running
      DEF Execute, At, Statements, DbInsertPayment, DbVerifyCashOtp, DbAddDue,
          DbMarkPaid, DbSetPaid, DbSetVisit, DbCreditTechnician,
          DbOpenTechnicianWallet, DbMarkFailed, GatewayRefund, DbMarkRefunded,
          DbSetRefunded, DbDebitTechnician, DbCreditCustomer,
          DbOpenCustomerWallet
    <3>3. [reqs[r] EXCEPT !.at = s] \in Request
      BY <2>2, <3>2 DEF Request
    <3> QED
      BY <1>1, <1>2, <2>2, <3>1, <3>3
  <2>3. Abort(r) => reqs' = [reqs EXCEPT ![r] = Idle]
    BY DEF Abort, Done
  <2> QED
    BY <1>4, <2>1, <2>2, <2>3, ExecuteSlot
<1>5. ASSUME \/ \E p \in Ids : CustomerPays(p)
             \/ \E u \in Users : GetOrCreate(u) \/ Spend(u)
      PROVE  Kept
  <2>1. reqs' = reqs
    BY <1>5 DEF CustomerPays, GetOrCreate, Spend
  <2> QED
    BY <1>1, <1>2, <2>1
<1> QED
  BY <1>3, <1>4, <1>5 DEF Next

-----------------------------------------------------------------------------
(* The properties are kept by every step.                                    *)

\* Bookings keep following the money.
LEMMA BookingsKept ==
  ASSUME IInv, Next
  PROVE  /\ booking' \in [Bookings -> [payment : {"pending", "paid", "refunded"},
                                       visit : BOOLEAN]]
         /\ BookingFollowsMoney'
<1>1. /\ booking \in [Bookings -> [payment : {"pending", "paid", "refunded"},
                                   visit : BOOLEAN]]
      /\ BookingFollowsMoney
      /\ \A p \in Ids : PaymentOK(p)
  BY DEF IInv, TypeOK
<1>2. booking' \in [Bookings -> [payment : {"pending", "paid", "refunded"},
                                 visit : BOOLEAN]]
  BY <1>1, BookingSteps
<1>3. \A p \in Ids, b \in Bookings :
        /\ payment[p].b = b /\ HasMoney(p) => (payment[p].b = b /\ HasMoney(p))'
        /\ payment[p].b = b /\ payment[p].status = "refunded" =>
             /\ (payment[p].b = b /\ payment[p].status = "refunded")'
             /\ HasMoney(p)
  BY <1>1, Lasting DEF PaymentOK, Settled
<1>4. ASSUME NEW b \in Bookings, booking'[b].payment # "pending"
      PROVE  \E p \in Ids : payment[p].b = b /\ HasMoney(p)
  BY <1>1, <1>3, <1>4, BookingSteps DEF BookingFollowsMoney
<1>5. ASSUME NEW b \in Bookings, booking'[b].payment = "refunded"
      PROVE  \E p \in Ids : payment[p].b = b /\ payment[p].status = "refunded"
  BY <1>1, <1>5, BookingSteps DEF BookingFollowsMoney
<1> QED
  BY <1>2, <1>3, <1>4, <1>5 DEF BookingFollowsMoney

\* Wallet entries keep following the payments.
LEMMA EntriesKept ==
  ASSUME IInv, Next
  PROVE  /\ ledger' \in [Ids -> Entry]
         /\ EntriesFollowPayment'
<1>1. ledger \in [Ids -> Entry] /\ EntriesFollowPayment
  BY DEF IInv, TypeOK, Entry
<1>2. ledger' \in [Ids -> Entry]
  BY <1>1, WalletSteps
<1>3. ASSUME NEW p \in Ids
      PROVE  /\ payment[p].method = "online" /\ gateway[p] # "none" =>
                  (payment[p].method = "online" /\ gateway[p] # "none")'
             /\ payment[p].status = "refunded" => payment'[p].status = "refunded"
  BY Lasting
<1>4. ASSUME NEW p \in Ids
      PROVE  /\ ledger'[p].earning > 0 =>
                  \/ ledger[p].earning > 0
                  \/ payment[p].method = "online" /\ gateway[p] # "none"
             /\ ledger'[p].clawback > 0 \/ ledger'[p].refund > 0 =>
                  \/ ledger[p].clawback > 0 \/ ledger[p].refund > 0
                  \/ payment[p].status = "refunded"
  <2>1. CASE ledger' = ledger
    BY <2>1
  <2>2. ASSUME NEW x \in Ids, NEW l \in Entry, ledger' = [ledger EXCEPT ![x] = l],
               \/ /\ l.clawback = ledger[x].clawback
                  /\ l.refund = ledger[x].refund
                  /\ payment[x].method = "online" /\ gateway[x] # "none"
               \/ /\ l.earning = ledger[x].earning
                  /\ payment[x].status = "refunded"
        PROVE  /\ ledger'[p].earning > 0 =>
                    \/ ledger[p].earning > 0
                    \/ payment[p].method = "online" /\ gateway[p] # "none"
               /\ ledger'[p].clawback > 0 \/ ledger'[p].refund > 0 =>
                    \/ ledger[p].clawback > 0 \/ ledger[p].refund > 0
                    \/ payment[p].status = "refunded"
    BY <1>1, <2>2
  <2> QED
    BY <2>1, <2>2, WalletSteps
<1> QED
  BY <1>1, <1>2, <1>3, <1>4 DEF EntriesFollowPayment

\* So do the types of the tables whose rows PaymentSteps, DueSteps and
\* GatewaySteps describe.
LEMMA TablesTyped ==
  ASSUME IInv, Next
  PROVE  /\ payment' \in [Ids -> Payment]
         /\ due' \in [Ids -> BOOLEAN]
         /\ gateway' \in [Ids -> {"none", "captured", "refunded"}]
<1>1. /\ payment \in [Ids -> Payment] /\ due \in [Ids -> BOOLEAN]
      /\ gateway \in [Ids -> {"none", "captured", "refunded"}]
  BY DEF IInv, TypeOK
<1>2. payment' \in [Ids -> Payment]
  BY <1>1, PaymentSteps
<1>3. due' \in [Ids -> BOOLEAN]
  BY <1>1, DueSteps
<1>4. gateway' \in [Ids -> {"none", "captured", "refunded"}]
  BY <1>1, GatewaySteps
<1> QED
  BY <1>2, <1>3, <1>4

-----------------------------------------------------------------------------
(* Sums over a finite set.                                                   *)

\* What strong induction on the subsets of a finite set comes to without an
\* operator for the induction hypothesis: a set P of subsets takes its place.
LEMMA SubsetInduction ==
  ASSUME NEW S, IsFiniteSet(S), NEW P,
         \A T \in SUBSET S : (\A U \in SUBSET T : U # T => U \in P) => T \in P
  PROVE  \A T \in SUBSET S : T \in P
<1> SUFFICES ASSUME ~ (\A T \in SUBSET S : T \in P) PROVE FALSE
  OBVIOUS
<1> DEFINE Bad == {T \in SUBSET S : T \notin P}
<1>1. IsWellFoundedOn(StrictSubsetOrdering(S), SUBSET S)
  <2>1. FiniteSubsetsOf(S) = SUBSET S
    BY FS_FiniteSubsetsOfFinite
  <2>2. IsWellFoundedOn(StrictSubsetOrdering(S), FiniteSubsetsOf(S))
    BY FS_StrictSubsetOrderingWellFounded
  <2> QED
    BY <2>1, <2>2
<1>2. Bad \subseteq SUBSET S /\ Bad # {}
  OBVIOUS
<1>3. PICK T \in Bad : \A U \in Bad : ~ (<<U, T>> \in StrictSubsetOrdering(S))
  <2> HIDE DEF Bad
  <2> QED
    BY <1>1, <1>2, WFMin
<1>4. \A U \in SUBSET T : U # T => U \in P
  BY <1>3 DEF StrictSubsetOrdering
<1> QED
  BY <1>3, <1>4

Choice(s) == CHOOSE x \in s : TRUE

\* g sums f over every subset of S.
Sums(f, S, g) ==
  g = [s \in SUBSET S |-> IF s = {} THEN 0
                          ELSE f[Choice(s)] + g[s \ {Choice(s)}]]

LEMMA TotalDef ==
  ASSUME NEW S, NEW f
  PROVE  Total(f, S) = (CHOOSE g : Sums(f, S, g))[S]
  BY DEF Total, MapThenSumSet, MapThenFoldSet, Sums, Choice

LEMMA ChoiceIn ==
  ASSUME NEW s, s # {}
  PROVE  Choice(s) \in s
  BY DEF Choice

\* Sums over a set are sums over its subsets, and there is one way to sum.
LEMMA SumsAgree ==
  ASSUME NEW S, IsFiniteSet(S), NEW f,
         NEW T \in SUBSET S, NEW g, Sums(f, S, g), NEW h, Sums(f, T, h)
  PROVE  \A s \in SUBSET T : h[s] = g[s]
<1> DEFINE P == {s \in SUBSET T : h[s] = g[s]}
<1>1. ASSUME NEW s \in SUBSET T, \A u \in SUBSET s : u # s => u \in P
      PROVE  s \in P
  <2>1. CASE s = {}
    BY <2>1 DEF Sums
  <2>2. CASE s # {}
    <3> DEFINE x == Choice(s)
    <3>1. x \in s
      BY <2>2, ChoiceIn
    <3>2. s \ {x} \in P
      BY <1>1, <3>1
    <3> HIDE DEF x
    <3>3. h[s] = f[x] + h[s \ {x}] /\ g[s] = f[x] + g[s \ {x}]
      BY <2>2 DEF Sums, x
    <3> QED
      BY <3>2, <3>3
  <2> QED
    BY <2>1, <2>2
<1>2. IsFiniteSet(T)
  BY FS_Subset
<1> HIDE DEF P
<1>3. \A s \in SUBSET T : s \in P
  BY <1>1, <1>2, SubsetInduction
<1> QED
  BY <1>3 DEF P

LEMMA SumsExist ==
  ASSUME NEW S, IsFiniteSet(S), NEW f \in [S -> Int]
  PROVE  \E g \in [SUBSET S -> Int] : Sums(f, S, g)
<1> DEFINE P == {T \in SUBSET S : \E g \in [SUBSET T -> Int] : Sums(f, T, g)}
           Sum(T) == CHOOSE g \in [SUBSET T -> Int] : Sums(f, T, g)
<1>1. ASSUME NEW T \in SUBSET S, \A U \in SUBSET T : U # T => U \in P
      PROVE  T \in P
  <2> DEFINE x == Choice(T)
             g == [s \in SUBSET T |->
                     IF s # T THEN Sum(s)[s]
                     ELSE IF T = {} THEN 0 ELSE f[x] + Sum(T \ {x})[T \ {x}]]
  <2>1. ASSUME NEW s \in SUBSET T, s # T
        PROVE  Sum(s) \in [SUBSET s -> Int] /\ Sums(f, s, Sum(s))
    <3>1. \E h \in [SUBSET s -> Int] : Sums(f, s, h)
      BY <1>1, <2>1
    <3> QED
      BY <3>1
  <2>2. T # {} => x \in T /\ T \ {x} \in SUBSET T /\ T \ {x} # T
    BY ChoiceIn
  <2> HIDE DEF x, Sum
  <2>3. g \in [SUBSET T -> Int]
    <3>1. ASSUME NEW s \in SUBSET T, s # T
          PROVE  Sum(s)[s] \in Int
      BY <2>1, <3>1
    <3>2. T # {} => f[x] + Sum(T \ {x})[T \ {x}] \in Int
      BY <2>2, <3>1
    <3> QED
      BY <3>1, <3>2
  <2>4. ASSUME NEW s \in SUBSET T
        PROVE  g[s] = IF s = {} THEN 0
                      ELSE f[Choice(s)] + g[s \ {Choice(s)}]
    <3>1. CASE s = T
      BY <2>2, <3>1 DEF x
    <3>2. CASE s # T /\ s = {}
      <4>1. Sums(f, s, Sum(s))
        BY <2>1, <3>2
      <4>2. Sum(s)[s] = 0
        BY <3>2, <4>1 DEF Sums
      <4> QED
        BY <3>2, <4>2
    <3>3. CASE s # T /\ s # {}
      <4> DEFINE y == Choice(s)
                 u == s \ {y}
      <4>1. y \in s /\ u \in SUBSET s /\ u \in SUBSET T /\ u # T
        BY <3>3, ChoiceIn
      <4>2. Sums(f, s, Sum(s)) /\ Sums(f, u, Sum(u))
        BY <2>1, <3>3, <4>1
      <4>3. Sum(s)[s] = f[y] + Sum(s)[u]
        BY <3>3, <4>2 DEF Sums
      <4>4. s \in SUBSET S /\ IsFiniteSet(s)
        BY FS_Subset
      <4>5. \A v \in SUBSET u : Sum(u)[v] = Sum(s)[v]
        <5> HIDE DEF u, y
        <5> QED
          BY <4>1, <4>2, <4>4, SumsAgree
      <4> QED
        BY <3>3, <4>1, <4>3, <4>5
    <3> QED
      BY <3>1, <3>2, <3>3
  <2>5. Sums(f, T, g)
    BY <2>4 DEF Sums
  <2> QED
    BY <2>3, <2>5
<1> HIDE DEF P
<1>2. \A s \in SUBSET S : s \in P
  BY <1>1, SubsetInduction
<1> QED
  BY <1>2 DEF P

\* What a fold over a function is: the recursion it stands for has a solution.
LEMMA TotalSums ==
  ASSUME NEW S, IsFiniteSet(S), NEW f \in [S -> Int]
  PROVE  \E g \in [SUBSET S -> Int] : Sums(f, S, g) /\ Total(f, S) = g[S]
<1> DEFINE g == CHOOSE g : Sums(f, S, g)
<1>1. PICK h \in [SUBSET S -> Int] : Sums(f, S, h)
  BY SumsExist
<1>2. Sums(f, S, g)
  BY <1>1
<1>3. Total(f, S) = g[S]
  BY TotalDef
<1> HIDE DEF g
<1>4. \A s \in SUBSET S : h[s] = g[s]
  BY <1>1, <1>2, SumsAgree
<1> QED
  BY <1>1, <1>3, <1>4

\* Nothing adds up to nothing.
LEMMA TotalOfZeros ==
  ASSUME NEW S, IsFiniteSet(S), NEW f \in [S -> Int], \A x \in S : f[x] = 0
  PROVE  Total(f, S) = 0
<1>1. PICK g \in [SUBSET S -> Int] : Sums(f, S, g) /\ Total(f, S) = g[S]
  BY TotalSums
<1> DEFINE P == {s \in SUBSET S : g[s] = 0}
<1>2. ASSUME NEW s \in SUBSET S, \A u \in SUBSET s : u # s => u \in P
      PROVE  s \in P
  <2>1. CASE s = {}
    BY <1>1, <2>1 DEF Sums
  <2>2. CASE s # {}
    <3> DEFINE x == Choice(s)
    <3>1. x \in s /\ s \ {x} \in P
      BY <1>2, <2>2, ChoiceIn
    <3>2. g[s] = f[x] + g[s \ {x}]
      BY <1>1, <2>2 DEF Sums
    <3> HIDE DEF x
    <3> QED
      BY <3>1, <3>2
  <2> QED
    BY <2>1, <2>2
<1> HIDE DEF P
<1>3. \A s \in SUBSET S : s \in P
  BY <1>2, SubsetInduction
<1> QED
  BY <1>1, <1>3 DEF P

\* When one summand changes the sum changes by as much.
LEMMA TotalChange ==
  ASSUME NEW S, IsFiniteSet(S), NEW f \in [S -> Int], NEW h \in [S -> Int],
         NEW p \in S, \A x \in S \ {p} : h[x] = f[x]
  PROVE  /\ Total(f, S) \in Int /\ Total(h, S) \in Int
         /\ Total(h, S) = Total(f, S) + (h[p] - f[p])
<1>1. PICK F \in [SUBSET S -> Int] : Sums(f, S, F) /\ Total(f, S) = F[S]
  BY TotalSums
<1>2. PICK H \in [SUBSET S -> Int] : Sums(h, S, H) /\ Total(h, S) = H[S]
  BY TotalSums
<1> DEFINE P == {s \in SUBSET S : H[s] = IF p \in s THEN F[s] + (h[p] - f[p])
                                         ELSE F[s]}
<1>3. ASSUME NEW s \in SUBSET S, \A u \in SUBSET s : u # s => u \in P
      PROVE  s \in P
  <2>1. CASE s = {}
    BY <1>1, <1>2, <2>1 DEF Sums
  <2>2. CASE s # {}
    <3> DEFINE x == Choice(s)
               u == s \ {x}
    <3>1. x \in s /\ u \in P
      BY <1>3, <2>2, ChoiceIn
    <3>2. F[s] = f[x] + F[u] /\ H[s] = h[x] + H[u]
      BY <1>1, <1>2, <2>2 DEF Sums
    <3>3. p \in u <=> p \in s /\ p # x
      OBVIOUS
    <3>4. F[u] \in Int /\ H[u] \in Int /\ x \in S
      BY <3>1
    <3> HIDE DEF x, u
    <3>5. H[u] = IF p \in u THEN F[u] + (h[p] - f[p]) ELSE F[u]
      BY <3>1
    <3>6. CASE x = p
      BY <3>1, <3>2, <3>3, <3>4, <3>5, <3>6
    <3>7. CASE x # p
      BY <3>1, <3>2, <3>3, <3>4, <3>5, <3>7
    <3> QED
      BY <3>6, <3>7
  <2> QED
    BY <2>1, <2>2
<1> HIDE DEF P
<1>4. \A s \in SUBSET S : (\A u \in SUBSET s : u # s => u \in P) => s \in P
  BY <1>3
<1>5. \A s \in SUBSET S : s \in P
  BY <1>4, SubsetInduction
<1> QED
  BY <1>1, <1>2, <1>5 DEF P

-----------------------------------------------------------------------------
(* Wallets and the ledger.                                                   *)

\* A wallet moves by one, and together with an entry about a payment or with
\* what its user has spent; a new one opens empty.
Move ==
  \/ UNCHANGED <<wallet, ledger, spent>>
  \/ /\ UNCHANGED <<payment, ledger, spent>>
     /\ \E u \in Users : /\ wallet[u] = None
                         /\ wallet' = [wallet EXCEPT ![u] = 0]
  \/ /\ UNCHANGED <<payment, ledger>>
     /\ \E u \in Users : /\ wallet[u] \notin {None, 0}
                         /\ wallet' = [wallet EXCEPT ![u] = @ - 1]
                         /\ spent' = [spent EXCEPT ![u] = @ + 1]
  \/ /\ UNCHANGED <<payment, spent>>
     /\ \E p \in Ids, u \in Users :
          /\ payment[p].b \in Bookings
          /\ \/ /\ u = Technician(p)
                /\ wallet' = [wallet EXCEPT ![u] = Balance(wallet[u]) + 1]
                /\ ledger' = [ledger EXCEPT ![p].earning = @ + 1]
             \/ /\ u = Technician(p)
                /\ wallet[u] \notin {None, 0}
                /\ wallet' = [wallet EXCEPT ![u] = @ - 1]
                /\ ledger' = [ledger EXCEPT ![p].clawback = @ + 1]
             \/ /\ u = CustomerOf[payment[p].b]
                /\ wallet' = [wallet EXCEPT ![u] = Balance(wallet[u]) + 1]
                /\ ledger' = [ledger EXCEPT ![p].refund = @ + 1]

\* What a credit writes, with a wallet or without.
LEMMA CreditWrites ==
  ASSUME NEW r, NEW u, NEW entry, NEW open,
         Credit(r, u, entry, open) \/ Open(r, u, entry)
  PROVE  \/ UNCHANGED <<wallet, ledger>>
         \/ /\ wallet' = [wallet EXCEPT ![u] = Balance(wallet[u]) + 1]
            /\ ledger' = [ledger EXCEPT ![reqs[r].p][entry] = @ + 1]
<1>1. CASE wallet[u] = None
  BY <1>1 DEF Credit, Open, Balance
<1>2. CASE wallet[u] # None
  BY <1>2 DEF Credit, Open, Balance
<1> QED
  BY <1>1, <1>2

\* WalletRepository.adjust writes a balance and its entry, or neither.
LEMMA Moves ==
  ASSUME IInv, Next
  PROVE  Move
<1>1. /\ wallet \in [Users -> Nat \cup {None}]
      /\ TechnicianOf \in [Bookings -> Users \cup {None}]
      /\ CustomerOf \in [Bookings -> Users]
  BY PeopleAssumption DEF IInv, TypeOK
<1>2. ASSUME NEW r \in Requests, DbCreditTechnician(r) \/ DbOpenTechnicianWallet(r)
      PROVE  Move
  <2>1. /\ PendingOK(reqs[r])
        /\ reqs[r].at \in {"CreditTechnician", "OpenTechnicianWallet"}
    BY <1>2, Running DEF DbCreditTechnician, DbOpenTechnicianWallet, At, Statements
  <2>2. PICK p \in Ids : p = reqs[r].p
    BY <2>1 DEF PendingOK
  <2>3. payment[p].b \in Bookings /\ Technician(p) \in Users
    BY <1>1, <2>1, <2>2 DEF PendingOK, Technician
  <2>4. /\ UNCHANGED <<payment, spent>>
        /\ \/ UNCHANGED <<wallet, ledger>>
           \/ /\ wallet' = [wallet EXCEPT ![Technician(p)] =
                                            Balance(wallet[Technician(p)]) + 1]
              /\ ledger' = [ledger EXCEPT ![p].earning = @ + 1]
    <3>1. /\ \/ Credit(r, Technician(p), "earning", "OpenTechnicianWallet")
             \/ Open(r, Technician(p), "earning")
          /\ UNCHANGED <<payment, spent>>
      BY <1>2, <2>2 DEF DbCreditTechnician, DbOpenTechnicianWallet
    <3> QED
      BY <2>2, <3>1, CreditWrites
  <2> QED
    BY <2>3, <2>4 DEF Move
<1>3. ASSUME NEW r \in Requests, DbDebitTechnician(r)
      PROVE  Move
  <2>1. PendingOK(reqs[r]) /\ reqs[r].at = "DebitTechnician"
    BY <1>3, Running DEF DbDebitTechnician, At, Statements
  <2>2. PICK p \in Ids : p = reqs[r].p
    BY <2>1 DEF PendingOK
  <2>3. payment[p].b \in Bookings /\ Technician(p) \in Users
    BY <1>1, <2>1, <2>2 DEF PendingOK, Technician
  <2>4. /\ UNCHANGED <<payment, spent>>
        /\ \/ UNCHANGED <<wallet, ledger>>
           \/ /\ wallet[Technician(p)] \notin {None, 0}
              /\ wallet' = [wallet EXCEPT ![Technician(p)] = @ - 1]
              /\ ledger' = [ledger EXCEPT ![p].clawback = @ + 1]
    BY <1>3, <2>2 DEF DbDebitTechnician
  <2> QED
    BY <2>3, <2>4 DEF Move
<1>4. ASSUME NEW r \in Requests, DbCreditCustomer(r) \/ DbOpenCustomerWallet(r)
      PROVE  Move
  <2>1. /\ PendingOK(reqs[r])
        /\ reqs[r].at \in {"CreditCustomer", "OpenCustomerWallet"}
    BY <1>4, Running DEF DbCreditCustomer, DbOpenCustomerWallet, At, Statements
  <2>2. PICK p \in Ids : p = reqs[r].p
    BY <2>1 DEF PendingOK
  <2> DEFINE u == CustomerOf[payment[p].b]
  <2>3. payment[p].b \in Bookings /\ u \in Users
    BY <1>1, <2>1, <2>2 DEF PendingOK
  <2>4. /\ UNCHANGED <<payment, spent>>
        /\ \/ UNCHANGED <<wallet, ledger>>
           \/ /\ wallet' = [wallet EXCEPT ![u] = Balance(wallet[u]) + 1]
              /\ ledger' = [ledger EXCEPT ![p].refund = @ + 1]
    <3>1. /\ \/ Credit(r, u, "refund", "OpenCustomerWallet")
             \/ Open(r, u, "refund")
          /\ UNCHANGED <<payment, spent>>
      BY <1>4, <2>2 DEF DbCreditCustomer, DbOpenCustomerWallet
    <3> QED
      BY <2>2, <3>1, CreditWrites
  <2> QED
    BY <2>3, <2>4 DEF Move
<1>5. ASSUME NEW u \in Users, GetOrCreate(u) \/ Spend(u)
      PROVE  Move
  BY <1>5 DEF GetOrCreate, Spend, Move
<1>6. ASSUME NEW r \in Requests, Serve(r) \/ Abort(r)
      PROVE  UNCHANGED <<wallet, ledger, spent>>
  BY <1>6, ServeStep DEF Abort, Data
<1>7. ASSUME NEW r \in Requests,
             \/ \E p \in Ids : DbInsertPayment(r, p)
             \/ DbVerifyCashOtp(r) \/ DbAddDue(r) \/ DbMarkPaid(r)
             \/ DbSetPaid(r) \/ DbSetVisit(r) \/ DbMarkFailed(r)
             \/ GatewayRefund(r) \/ DbMarkRefunded(r) \/ DbSetRefunded(r)
      PROVE  UNCHANGED <<wallet, ledger, spent>>
  BY <1>7 DEF DbInsertPayment, DbVerifyCashOtp, DbAddDue, DbMarkPaid, DbSetPaid,
              DbSetVisit, DbMarkFailed, GatewayRefund, DbMarkRefunded,
              DbSetRefunded
<1>8. ASSUME NEW p \in Ids, CustomerPays(p)
      PROVE  UNCHANGED <<wallet, ledger, spent>>
  BY <1>8 DEF CustomerPays
<1> QED
  BY <1>2, <1>3, <1>4, <1>5, <1>6, <1>7, <1>8 DEF Next, Execute, Move

\* While nothing is entered a payment's entries come to the same: a payment
\* that is inserted has none yet.
LEMMA EntriesStay ==
  ASSUME IInv, Next, ledger' = ledger, NEW u \in Users
  PROVE  EntriesOf(u)' = EntriesOf(u)
<1>1. /\ payment \in [Ids -> Payment] /\ ledger \in [Ids -> Entry]
      /\ EntriesFollowPayment /\ \A p \in Ids : PaymentOK(p)
  BY DEF IInv, TypeOK, Entry
<1>2. ASSUME NEW p \in Ids
      PROVE  EntriesOf(u)'[p] = EntriesOf(u)[p]
  <2>1. CASE payment[p].b \in Bookings
    <3>1. payment'[p].b = payment[p].b /\ payment[p].b # None
      BY <2>1, Lasting, NoneAssumption
    <3> QED
      BY <3>1 DEF EntriesOf, Technician
  <2>2. CASE payment[p].b = None
    <3>1. ledger[p] = [earning |-> 0, clawback |-> 0, refund |-> 0]
      BY <1>1, <2>2 DEF EntriesFollowPayment, PaymentOK, Entry
    <3> QED
      BY <2>2, <3>1 DEF EntriesOf, Technician
  <2> QED
    BY <1>1, <2>1, <2>2 DEF Payment
<1>3. /\ EntriesOf(u) = [p \in Ids |-> EntriesOf(u)[p]]
      /\ EntriesOf(u)' = [p \in Ids |-> EntriesOf(u)'[p]]
  BY DEF EntriesOf
<1> QED
  BY <1>2, <1>3

\* An entry about p changes what p's entries come to for its technician or
\* customer, and no other payment's.
LEMMA EntryMade ==
  ASSUME IInv, NEW p \in Ids, payment[p].b \in Bookings, payment' = payment,
         NEW u \in Users,
         NEW e \in Int, ledger' \in [Ids -> Entry],
         \/ /\ ledger' = [ledger EXCEPT ![p].earning = @ + 1]
            /\ e = IF Technician(p) = u THEN 1 ELSE 0
         \/ /\ ledger' = [ledger EXCEPT ![p].clawback = @ + 1]
            /\ e = IF Technician(p) = u THEN -1 ELSE 0
         \/ /\ ledger' = [ledger EXCEPT ![p].refund = @ + 1]
            /\ e = IF CustomerOf[payment[p].b] = u THEN 1 ELSE 0
  PROVE  /\ EntriesOf(u) \in [Ids -> Int] /\ EntriesOf(u)' \in [Ids -> Int]
         /\ \A x \in Ids \ {p} : EntriesOf(u)'[x] = EntriesOf(u)[x]
         /\ EntriesOf(u)'[p] = EntriesOf(u)[p] + e
<1>1. payment \in [Ids -> Payment] /\ ledger \in [Ids -> Entry]
  BY DEF IInv, TypeOK, Entry
<1> DEFINE l == ledger'[p]
<1>2. /\ \A x \in Ids \ {p} : ledger'[x] = ledger[x]
      /\ l.earning \in Nat /\ l.clawback \in Nat /\ l.refund \in Nat
      /\ \/ /\ l.earning = ledger[p].earning + 1
            /\ l.clawback = ledger[p].clawback /\ l.refund = ledger[p].refund
            /\ e = IF Technician(p) = u THEN 1 ELSE 0
         \/ /\ l.clawback = ledger[p].clawback + 1
            /\ l.earning = ledger[p].earning /\ l.refund = ledger[p].refund
            /\ e = IF Technician(p) = u THEN -1 ELSE 0
         \/ /\ l.refund = ledger[p].refund + 1
            /\ l.earning = ledger[p].earning
            /\ l.clawback = ledger[p].clawback
            /\ e = IF CustomerOf[payment[p].b] = u THEN 1 ELSE 0
  BY <1>1 DEF Entry
<1>3. ledger[p] \in Entry /\ payment[p].b # None /\ \A x \in Ids : ledger'[x] \in Entry
  BY <1>1, NoneAssumption
<1>4. EntriesOf(u) \in [Ids -> Int] /\ EntriesOf(u)' \in [Ids -> Int]
  BY <1>1, <1>3 DEF EntriesOf, Entry
<1>5. \A x \in Ids \ {p} : EntriesOf(u)'[x] = EntriesOf(u)[x]
  BY <1>2 DEF EntriesOf, Technician
<1> HIDE DEF l
<1>6. EntriesOf(u)'[p] = EntriesOf(u)[p] + e
  BY <1>2, <1>3 DEF EntriesOf, Technician, Entry, l
<1> QED
  BY <1>4, <1>5, <1>6

\* Whoever the step is about, the two sides of BalanceIsLedger change alike.
LEMMA BalanceKept ==
  ASSUME IInv, Next, BalanceIsLedger
  PROVE  BalanceIsLedger'
<1> SUFFICES ASSUME NEW u \in Users
             PROVE  Balance(wallet'[u]) + spent'[u] =
                      Balance(OpeningBalance[u]) + Total(EntriesOf(u)', Ids)
  BY DEF BalanceIsLedger, Balance
<1> DEFINE Opening == Balance(OpeningBalance[u])
<1>1. /\ wallet \in [Users -> Nat \cup {None}] /\ spent \in [Users -> Nat]
      /\ Balance(wallet[u]) + spent[u] = Opening + Total(EntriesOf(u), Ids)
  BY DEF IInv, TypeOK, BalanceIsLedger
<1>2. Opening \in Int /\ Balance(wallet[u]) \in Int
  BY <1>1, PeopleAssumption DEF Balance
<1>3. /\ ledger' \in [Ids -> Entry]
      /\ ledger' = ledger => Total(EntriesOf(u)', Ids) = Total(EntriesOf(u), Ids)
  BY EntriesStay, EntriesKept
<1>4. CASE UNCHANGED <<wallet, ledger, spent>>
  BY <1>1, <1>3, <1>4
<1>5. CASE /\ UNCHANGED <<payment, ledger, spent>>
           /\ \E v \in Users : /\ wallet[v] = None
                               /\ wallet' = [wallet EXCEPT ![v] = 0]
  <2>1. Balance(wallet'[u]) = Balance(wallet[u])
    BY <1>1, <1>5 DEF Balance
  <2> QED
    BY <1>1, <1>3, <1>5, <2>1
<1>6. CASE /\ UNCHANGED <<payment, ledger>>
           /\ \E v \in Users : /\ wallet[v] \notin {None, 0}
                               /\ wallet' = [wallet EXCEPT ![v] = @ - 1]
                               /\ spent' = [spent EXCEPT ![v] = @ + 1]
  <2>1. Balance(wallet'[u]) + spent'[u] = Balance(wallet[u]) + spent[u]
    BY <1>1, <1>6, NoneAssumption DEF Balance
  <2> QED
    BY <1>1, <1>3, <1>6, <2>1
<1>7. ASSUME NEW p \in Ids, NEW v \in Users, payment[p].b \in Bookings,
             UNCHANGED <<payment, spent>>,
             NEW e \in Int, NEW d \in Int, e = IF v = u THEN d ELSE 0,
             wallet' = [wallet EXCEPT ![v] = Balance(wallet[v]) + d],
             Balance(wallet[v]) + d \in Nat,
             EntriesOf(u) \in [Ids -> Int], EntriesOf(u)' \in [Ids -> Int],
             \A x \in Ids \ {p} : EntriesOf(u)'[x] = EntriesOf(u)[x],
             EntriesOf(u)'[p] = EntriesOf(u)[p] + e
      PROVE  Balance(wallet'[u]) + spent'[u] = Opening + Total(EntriesOf(u)', Ids)
  <2>1. Balance(wallet'[u]) = Balance(wallet[u]) + e
    BY <1>1, <1>2, <1>7, NoneAssumption DEF Balance
  <2>2. /\ Total(EntriesOf(u), Ids) \in Int
        /\ Total(EntriesOf(u)', Ids) = Total(EntriesOf(u), Ids) + e
    <3> DEFINE f == EntriesOf(u)
               h == EntriesOf(u)'
    <3>1. /\ f \in [Ids -> Int] /\ h \in [Ids -> Int]
          /\ \A x \in Ids \ {p} : h[x] = f[x]
          /\ h[p] - f[p] = e
      BY <1>7
    <3> HIDE DEF f, h
    <3>2. /\ Total(f, Ids) \in Int
          /\ Total(h, Ids) = Total(f, Ids) + (h[p] - f[p])
      BY <3>1, IdsAssumption, TotalChange
    <3>3. Total(f, Ids) \in Int /\ Total(h, Ids) = Total(f, Ids) + e
      BY <3>1, <3>2
    <3> QED
      BY <3>3 DEF f, h
  <2> QED
    BY <1>1, <1>2, <1>7, <2>1, <2>2
<1>8. ASSUME NEW p \in Ids, NEW v \in Users, payment[p].b \in Bookings,
             UNCHANGED <<payment, spent>>,
             \/ /\ v = Technician(p)
                /\ wallet' = [wallet EXCEPT ![v] = Balance(wallet[v]) + 1]
                /\ ledger' = [ledger EXCEPT ![p].earning = @ + 1]
             \/ /\ v = CustomerOf[payment[p].b]
                /\ wallet' = [wallet EXCEPT ![v] = Balance(wallet[v]) + 1]
                /\ ledger' = [ledger EXCEPT ![p].refund = @ + 1]
      PROVE  Balance(wallet'[u]) + spent'[u] = Opening + Total(EntriesOf(u)', Ids)
  <2> PICK e \in Int : e = IF v = u THEN 1 ELSE 0
    OBVIOUS
  <2>1. /\ Balance(wallet[v]) + 1 \in Nat
        /\ wallet' = [wallet EXCEPT ![v] = Balance(wallet[v]) + 1]
    BY <1>1, <1>8 DEF Balance
  <2>2. /\ EntriesOf(u) \in [Ids -> Int] /\ EntriesOf(u)' \in [Ids -> Int]
        /\ \A x \in Ids \ {p} : EntriesOf(u)'[x] = EntriesOf(u)[x]
        /\ EntriesOf(u)'[p] = EntriesOf(u)[p] + e
    BY <1>3, <1>8, EntryMade
  <2>3. UNCHANGED <<payment, spent>> /\ payment[p].b \in Bookings /\ 1 \in Int
    BY <1>8
  <2> QED
    BY <1>7, <2>1, <2>2, <2>3
<1>9. ASSUME NEW p \in Ids, NEW v \in Users, payment[p].b \in Bookings,
             UNCHANGED <<payment, spent>>,
             v = Technician(p), wallet[v] \notin {None, 0},
             wallet' = [wallet EXCEPT ![v] = @ - 1],
             ledger' = [ledger EXCEPT ![p].clawback = @ + 1]
      PROVE  Balance(wallet'[u]) + spent'[u] = Opening + Total(EntriesOf(u)', Ids)
  <2> PICK e \in Int : e = IF v = u THEN -1 ELSE 0
    OBVIOUS
  <2>1. /\ Balance(wallet[v]) = wallet[v] /\ wallet[v] \in Nat \ {0}
        /\ wallet' = [wallet EXCEPT ![v] = wallet[v] - 1]
    BY <1>1, <1>9 DEF Balance
  <2>2. /\ Balance(wallet[v]) + (-1) \in Nat
        /\ wallet[v] - 1 = Balance(wallet[v]) + (-1)
    BY <2>1
  <2>3. wallet' = [wallet EXCEPT ![v] = Balance(wallet[v]) + (-1)]
    BY <2>1, <2>2
  <2>4. e = IF Technician(p) = u THEN -1 ELSE 0
    BY <1>9
  <2>5. /\ EntriesOf(u) \in [Ids -> Int] /\ EntriesOf(u)' \in [Ids -> Int]
        /\ \A x \in Ids \ {p} : EntriesOf(u)'[x] = EntriesOf(u)[x]
        /\ EntriesOf(u)'[p] = EntriesOf(u)[p] + e
    BY ZenonT(40), <1>3, <1>9, <2>4, EntryMade
  <2>6. UNCHANGED <<payment, spent>> /\ -1 \in Int
    BY <1>9
  <2> QED
    BY <1>7, <1>9, <2>2, <2>3, <2>5, <2>6
<1> QED
  BY <1>4, <1>5, <1>6, <1>8, <1>9, Moves DEF Move

-----------------------------------------------------------------------------
(* The theorems.                                                             *)

\* The strengthening that makes the safety properties inductive is invariant.
THEOREM Invariance == Spec => []IInv
<1>1. Init => IInv
  <2> SUFFICES ASSUME Init PROVE IInv
    OBVIOUS
  <2>1. TypeOK
    BY PeopleAssumption DEF Init, TypeOK, Payment, Statuses
  <2>2. \A p \in Ids : PaymentOK(p)
    BY DEF Init, PaymentOK, Settled
  <2>3. PaidCashHasDue /\ BookingFollowsMoney /\ EntriesFollowPayment
    BY DEF Init, PaidCashHasDue, BookingFollowsMoney, EntriesFollowPayment, Settled
  <2> QED
    BY <2>1, <2>2, <2>3 DEF Init, IInv
<1>2. IInv /\ [Next]_vars => IInv'
  <2> SUFFICES ASSUME IInv, [Next]_vars PROVE IInv'
    OBVIOUS
  <2>1. CASE UNCHANGED vars
    BY <2>1 DEF vars, IInv, TypeOK, PaymentOK, PendingOK, Settled, HasMoney,
                Technician, PaidCashHasDue, BookingFollowsMoney,
                EntriesFollowPayment
  <2>2. CASE Next
    <3>1. TypeOK'
      BY <2>2, TablesTyped, BookingsKept, WalletSteps, EntriesKept, PendingKept
      DEF TypeOK, Entry
    <3>2. (\A p \in Ids : PaymentOK(p))'
      BY <2>2, Lasting
    <3>3. PaidCashHasDue'
      BY <2>2, Lasting DEF PaidCashHasDue
    <3> QED
      BY <2>2, <3>1, <3>2, <3>3, PendingKept, BookingsKept, EntriesKept DEF IInv
  <2> QED
    BY <2>1, <2>2
<1> QED
  BY <1>1, <1>2, PTL DEF Spec

\* Every variable keeps its type; no wallet is ever overdrawn.
THEOREM TypeCorrect == Spec => []TypeOK
<1>1. IInv => TypeOK
  BY DEF IInv
<1> QED
  BY <1>1, Invariance, PTL

\* No cash payment is ever paid without its due.
THEOREM CashHasDue == Spec => []PaidCashHasDue
<1>1. IInv => PaidCashHasDue
  BY DEF IInv
<1> QED
  BY <1>1, Invariance, PTL

\* A booking is shown as paid or refunded only if there was money to show for.
THEOREM BookingsFollow == Spec => []BookingFollowsMoney
<1>1. IInv => BookingFollowsMoney
  BY DEF IInv
<1> QED
  BY <1>1, Invariance, PTL

\* No earning without a capture, no claw-back or refund without a refunded
\* payment.
THEOREM EntriesFollow == Spec => []EntriesFollowPayment
<1>1. IInv => EntriesFollowPayment
  BY DEF IInv
<1> QED
  BY <1>1, Invariance, PTL

\* Every balance is what the ledger explains.
THEOREM LedgerBalances == Spec => []BalanceIsLedger
<1>1. Init => BalanceIsLedger
  <2> SUFFICES ASSUME Init, NEW u \in Users
               PROVE  Balance(wallet[u]) + spent[u] =
                        Balance(OpeningBalance[u]) + Total(EntriesOf(u), Ids)
    BY DEF BalanceIsLedger
  <2>1. EntriesOf(u) \in [Ids -> Int] /\ \A p \in Ids : EntriesOf(u)[p] = 0
    BY DEF Init, EntriesOf
  <2>2. Total(EntriesOf(u), Ids) = 0
    BY <2>1, IdsAssumption, TotalOfZeros
  <2>3. /\ wallet[u] = OpeningBalance[u] /\ spent[u] = 0
        /\ Balance(OpeningBalance[u]) \in Int
    BY PeopleAssumption DEF Init, Balance
  <2> QED
    BY <2>2, <2>3
<1>2. IInv /\ BalanceIsLedger /\ [Next]_vars => BalanceIsLedger'
  <2>1. ASSUME BalanceIsLedger, UNCHANGED vars
        PROVE  BalanceIsLedger'
    <3>1. \A u : EntriesOf(u)' = EntriesOf(u)
      BY <2>1 DEF vars, EntriesOf, Technician
    <3> QED
      BY <2>1, <3>1 DEF vars, BalanceIsLedger
  <2> QED
    BY <2>1, BalanceKept
<1> QED
  BY <1>1, <1>2, Invariance, PTL DEF Spec

\* The services, with all their interleavings and cut-offs, implement the life
\* of a payment that PaymentLife promises.
THEOREM Implementation == Spec => ImplementsLife
<1> DEFINE m == [p \in Ids |-> payment[p].method]
           s == [p \in Ids |-> payment[p].status]
<1>1. Init => Life!Init
  BY DEF Init, Life!Init
<1>2. IInv /\ [Next]_vars => [Life!Next]_(Life!vars)
  <2> SUFFICES ASSUME IInv, [Next]_vars, ~ UNCHANGED <<m, s, due>>
               PROVE  Life!Next
    BY DEF Life!vars
  <2>1. Next
    BY DEF vars
  <2>2. /\ payment \in [Ids -> Payment] /\ due \in [Ids -> BOOLEAN]
        /\ PaidCashHasDue /\ \A p \in Ids : PaymentOK(p)
    BY DEF IInv, TypeOK
  <2>3. CASE payment' = payment
    <3>1. due' # due /\ UNCHANGED <<m, s>>
      BY <2>3
    <3>2. PICK p \in Ids : /\ due' = [due EXCEPT ![p] = TRUE]
                           /\ payment[p].method = "cash"
                           /\ due[p] \/ payment[p].status = "created"
      BY <2>1, <3>1, DueSteps
    <3>3. ~due[p]
      BY <2>2, <3>1, <3>2
    <3>4. Life!RecordDue(p)
      BY <2>3, <3>1, <3>2, <3>3 DEF Life!RecordDue
    <3> QED
      BY <3>4 DEF Life!Next
  <2>4. CASE payment' # payment
    <3>1. PICK p \in Ids, w \in Payment :
            payment' = [payment EXCEPT ![p] = w] /\ Lives(p, w)
      BY <2>1, <2>4, PaymentSteps
    <3>2. due' = due
      BY <2>1, <2>4, PaymentSteps
    <3>3. /\ m' = [m EXCEPT ![p] = w.method] /\ s' = [s EXCEPT ![p] = w.status]
          /\ m[p] = payment[p].method /\ s[p] = payment[p].status
      BY <2>2, <3>1
    <3>4. w.method = m[p] => m' = m
      BY <2>2, <3>1, <3>3
    <3> HIDE DEF m, s
    <3>5. CASE s[p] = "absent" /\ w.status = "created"
               /\ w.method \in {"online", "cash"}
      <4>1. Life!Open(p, w.method)
        BY <3>2, <3>3, <3>5 DEF Life!Open, m, s
      <4> QED
        BY <3>5, <4>1 DEF Life!Next
    <3>6. CASE s[p] = "created" /\ w.status = "paid" /\ w.method = m[p]
               /\ HasMoney(p)
      <4>1. m[p] = "cash" => due[p]
        BY <2>2, <3>3, <3>6 DEF HasMoney, PaymentOK
      <4>2. Life!Pay(p)
        BY <3>2, <3>3, <3>4, <3>6, <4>1 DEF Life!Pay, m, s
      <4> QED
        BY <4>2 DEF Life!Next
    <3>7. CASE s[p] = "created" /\ w.status = "failed" /\ w.method = m[p]
               /\ w.method = "online"
      <4>1. Life!Fail(p)
        BY <3>2, <3>3, <3>4, <3>7 DEF Life!Fail, m, s
      <4> QED
        BY <4>1 DEF Life!Next
    <3>8. CASE s[p] = "paid" /\ w.status = "refunded" /\ w.method = m[p]
      <4>1. Life!Refund(p)
        BY <3>2, <3>3, <3>4, <3>8 DEF Life!Refund, m, s
      <4> QED
        BY <4>1 DEF Life!Next
    <3> QED
      BY <3>1, <3>3, <3>5, <3>6, <3>7, <3>8 DEF Lives
  <2> QED
    BY <2>3, <2>4
<1> QED
  BY <1>1, <1>2, Invariance, PTL DEF Spec, ImplementsLife, Life!Spec
=============================================================================
