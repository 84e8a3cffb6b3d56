----------------------------- MODULE PaymentLife -----------------------------
(***************************************************************************)
(* What the billing backend promises about a single payment.  It is opened *)
(* for one way of paying, then either fails or is paid, and only a paid    *)
(* one is refunded.  The platform's commission on a cash payment is        *)
(* recorded as a due while the payment is still open, so that no cash job  *)
(* is ever paid without its due, and a due is recorded once.               *)
(***************************************************************************)
CONSTANTS Payments   \* the payments

VARIABLES method,    \* how each payment is made: none yet, online or cash
          status,    \* absent, created, paid, failed or refunded
          due        \* whether the commission on it is a due

vars == <<method, status, due>>

Init ==
  /\ method = [p \in Payments |-> "none"]
  /\ status = [p \in Payments |-> "absent"]
  /\ due = [p \in Payments |-> FALSE]

Open(p, m) ==
  /\ status[p] = "absent"
  /\ method' = [method EXCEPT ![p] = m]
  /\ status' = [status EXCEPT ![p] = "created"]
  /\ UNCHANGED due

RecordDue(p) ==
  /\ status[p] = "created"
  /\ method[p] = "cash"
  /\ due' = [due EXCEPT ![p] = TRUE]
  /\ UNCHANGED <<method, status>>

Pay(p) ==
  /\ status[p] = "created"
  /\ method[p] = "cash" => due[p]
  /\ status' = [status EXCEPT ![p] = "paid"]
  /\ UNCHANGED <<method, due>>

\* Only an online payment can fail: cash is confirmed or stays open.
Fail(p) ==
  /\ status[p] = "created"
  /\ method[p] = "online"
  /\ status' = [status EXCEPT ![p] = "failed"]
  /\ UNCHANGED <<method, due>>

Refund(p) ==
  /\ status[p] = "paid"
  /\ status' = [status EXCEPT ![p] = "refunded"]
  /\ UNCHANGED <<method, due>>

Next ==
  \E p \in Payments :
    \/ \E m \in {"online", "cash"} : Open(p, m)
    \/ RecordDue(p) \/ Pay(p) \/ Fail(p) \/ Refund(p)

Spec == Init /\ [][Next]_vars
=============================================================================
