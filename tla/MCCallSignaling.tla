--------------------------- MODULE MCCallSignaling ---------------------------
(* Instances of CallSignaling for TLC. *)
EXTENDS CallSignaling, TLC

CONSTANTS th1, th2, cu, tu, ou, s1, s2, s3

\* Every thread is between the customer cu and the technician tu.
TheCustomer == [th \in Threads |-> cu]
TheTechnician == [th \in Threads |-> tu]

\* One socket is the customer's, one the technician's, and the third one the
\* customer's again, as after a reconnect, or a stranger's.
TheUsers == (s1 :> {cu}) @@ (s2 :> {tu}) @@ (s3 :> {cu, ou})
=============================================================================
