------------------------------ MODULE MCPayments ------------------------------
(* Instances of Payments for TLC. *)
EXTENDS Payments, TLC

CONSTANTS b1, b2, p1, p2, p3, tech, customer, r1, r2, r3

\* The one customer's bookings have the one technician, but b2 has none yet.
OneTechnician == [b \in Bookings |-> IF b = b2 THEN None ELSE tech]
OneCustomer == [b \in Bookings |-> customer]

\* Nobody has opened a wallet yet.
NoWallets == [u \in Users |-> None]

\* Everybody has, and it is empty.
EmptyWallets == [u \in Users |-> 0]

\* The technician has earned before.
EarnedBefore == [u \in Users |-> IF u = tech THEN 1 ELSE None]

BillingEndpoints == {"CreateOrder", "VerifyAndCapture", "ConfirmCashPayment",
                     "MarkFailed", "Refund"}

\* Billing, while the users look at their wallets.
WalletEndpoints == BillingEndpoints \cup {"GetOrCreate"}

CaptureEndpoints == {"CreateOrder", "VerifyAndCapture"}

RefundEndpoints == {"CreateOrder", "VerifyAndCapture", "ConfirmCashPayment",
                    "Refund"}

SettlingEndpoints == {"CreateOrder", "VerifyAndCapture", "ConfirmCashPayment",
                      "GetOrCreate", "Debit"}

FirstLookEndpoints == CaptureEndpoints \cup {"GetOrCreate"}

\* Payments and request slots are interchangeable.
Interchangeable == Permutations({p1, p2, p3}) \cup Permutations({r1, r2, r3})
=============================================================================
