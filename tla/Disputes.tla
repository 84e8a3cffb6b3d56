------------------------------ MODULE Disputes ------------------------------
(***************************************************************************)
(* DisputeService and DisputeRepository: a party to a booking or to a      *)
(* consultation complains, both sides add evidence and write in its        *)
(* thread, and admins decide it.  A decision to refund first refunds a     *)
(* paid payment of the booking.  Payments models paying and refunding in   *)
(* full; here both are reduced to what they do to the payments and to the  *)
(* booking's mark, in the same statements and orders.                      *)
(*                                                                         *)
(* An admin's decision is a slot of decisions at its next statement; other *)
(* requests write once, after the checks that decide whether they may.     *)
(***************************************************************************)
EXTENDS Integers, FiniteSetsExt

CONSTANTS
  Ids,           \* disputes: primary keys
  Bookings,      \* bookings with a payment
  Consultations, \* video consultations
  Customers,     \* customers' user accounts
  CustomerOf,    \* the customer of each booking and consultation
  Technicians,   \* technicians' user accounts
  PaymentIds,    \* payments
  BookingOf,     \* the booking each payment is for
  Decisions,     \* decisions admins make at the same time
  MaxRows,       \* bound: evidence and messages
  None           \* NULL

Subjects == Bookings \cup Consultations

PartyAssumption ==
  /\ Bookings \cap Consultations = {}
  /\ CustomerOf \in [Subjects -> Customers]
  /\ BookingOf \in [PaymentIds -> Bookings]
  /\ Customers \cap Technicians = {}
  /\ None \notin Technicians \cup Ids

VARIABLES
  dispute,    \* rows of disputes
  posts,      \* number of rows of dispute_evidence and dispute_messages
  technician, \* technician_id of bookings and consultations
  payment,    \* status of each payment; not opened yet is as good as open
  marked,     \* payment_status of each booking
  confirming, \* payments a handler has found open and goes on confirming
  remarked,   \* history: bookings last marked paid over a mark of a refund
  decisions   \* the decisions under way

moneyVars == <<payment, marked, confirming, remarked>>

disputeVars ==
  <<dispute, posts, technician, payment, marked, confirming,
    remarked, decisions>>

People == Customers \cup Technicians

\* resolved_partial does as much: what is refunded is the whole payment.
Refunds == {"resolved_refund"}

Resolved == Refunds \cup {"resolved_rejected"}

Dispute ==
  [about : Subjects, status : {"open", "under_review"} \cup Resolved]

Decision == [at : {"MarkRefunded", "SetRefunded", "Resolve"},
             d : Ids, status : Resolved, p : PaymentIds \cup {None}]

Idle == [at |-> "idle"]

TypeOK ==
  /\ dispute \in [Ids -> Dispute \cup {None}]
  /\ posts \in [Ids -> Nat]
  /\ technician \in [Subjects -> Technicians \cup {None}]
  /\ payment \in [PaymentIds -> {"created", "paid", "failed", "refunded"}]
  /\ marked \in [Bookings -> {"pending", "paid", "refunded"}]
  /\ confirming \subseteq PaymentIds
  /\ remarked \subseteq Bookings
  /\ decisions \in [Decisions -> Decision \cup {Idle}]

Init ==
  /\ dispute = [d \in Ids |-> None]
  /\ posts = [d \in Ids |-> 0]
  /\ technician \in [Subjects -> Technicians]
  /\ payment = [p \in PaymentIds |-> "created"]
  /\ marked = [b \in Bookings |-> "pending"]
  /\ confirming = {}
  /\ remarked = {}
  /\ decisions = [a \in Decisions |-> Idle]

-----------------------------------------------------------------------------
(* The parties.                                                              *)

\* The customer, or the technician assigned now.
IsPartyTo(s, u) == u \in {CustomerOf[s], technician[s]}

\* GetForUser and ListMessages.
MayRead(d, u) == dispute[d] # None /\ IsPartyTo(dispute[d].about, u)

Raise(d, s, u) ==
  /\ dispute[d] = None
  /\ IsPartyTo(s, u)
  /\ dispute' = [dispute EXCEPT ![d] = [about |-> s, status |-> "open"]]
  /\ UNCHANGED <<posts, technician, moneyVars, decisions>>

Post(d) ==
  /\ MapThenSumSet(LAMBDA e : posts[e], Ids) < MaxRows
  /\ posts' = [posts EXCEPT ![d] = @ + 1]
  /\ UNCHANGED <<dispute, technician, moneyVars, decisions>>

AddEvidence(d, u) == MayRead(d, u) /\ Post(d)

SendMessage(d, u) == MayRead(d, u) /\ Post(d)

AdminReply(d) == dispute[d] # None /\ Post(d)

\* BookingService and ConsultationService: a technician the job was offered to
\* turns it down, and another may be found.
Reassign(s, t) ==
  /\ technician[s] # t
  /\ technician' = [technician EXCEPT ![s] = t]
  /\ UNCHANGED <<dispute, posts, moneyVars, decisions>>

-----------------------------------------------------------------------------
(* Payments.                                                                 *)

\* A confirmation, of money or of cash, finds the payment open.
Confirm(p) ==
  /\ payment[p] = "created"
  /\ p \notin confirming
  /\ confirming' = confirming \cup {p}
  /\ UNCHANGED <<dispute, posts, technician, payment, marked,
                 remarked, decisions>>

SetPayment(p, status) ==
  /\ payment' = [payment EXCEPT ![p] = status]
  /\ UNCHANGED <<dispute, posts, technician, marked, confirming,
                 remarked, decisions>>

\* WHERE status = 'created', in both.
DbMarkPaid(p) ==
  /\ p \in confirming
  /\ payment[p] = "created"
  /\ SetPayment(p, "paid")

DbMarkFailed(p) == payment[p] = "created" /\ SetPayment(p, "failed")

\* The booking's mark follows, of every confirmation that found the payment
\* open, and whatever has become of it since.
DbSetPaid(p) ==
  /\ p \in confirming
  /\ payment[p] # "created"
  /\ marked' = [marked EXCEPT ![BookingOf[p]] = "paid"]
  /\ remarked' = IF marked[BookingOf[p]] = "refunded"
                 THEN remarked \cup {BookingOf[p]} ELSE remarked
  /\ UNCHANGED <<dispute, posts, technician, payment, confirming,
                 decisions>>

\* The confirmations of p are over or cut off.
Confirmed(p) ==
  /\ p \in confirming
  /\ confirming' = confirming \ {p}
  /\ UNCHANGED <<dispute, posts, technician, payment, marked,
                 remarked, decisions>>

\* What every refund writes: WHERE status = 'paid', where finding it refunded
\* already is no error, and SetPaymentStatus.
MarkRefunded(p) ==
  payment' = IF payment[p] = "paid" THEN [payment EXCEPT ![p] = "refunded"]
                                    ELSE payment

SetRefunded(p) ==
  /\ marked' = [marked EXCEPT ![BookingOf[p]] = "refunded"]
  /\ remarked' = remarked \ {BookingOf[p]}

\* A refund without a dispute: of a visit fee, or by an admin, which marks the
\* booking too.
RefundApart(p) ==
  /\ payment[p] = "paid"
  /\ MarkRefunded(p)
  /\ UNCHANGED <<dispute, posts, technician, marked, confirming,
                 remarked, decisions>>

SetRefundedApart(p) ==
  /\ payment[p] = "refunded"
  /\ SetRefunded(p)
  /\ UNCHANGED <<dispute, posts, technician, payment, confirming,
                 decisions>>

-----------------------------------------------------------------------------
(* The admins.                                                               *)

SetUnderReview(d) ==
  /\ dispute[d] # None
  /\ dispute[d].status = "open"
  /\ dispute' = [dispute EXCEPT ![d].status = "under_review"]
  /\ UNCHANGED <<posts, technician, moneyVars, decisions>>

\* Resolve up to its first write.  The dispute is read but its status is not
\* looked at; a refund takes a payment of the booking that is still paid.
Resolve(a, d, status, p) ==
  /\ dispute[d] # None
  /\ decisions[a] = Idle
  /\ IF status \in Refunds
     THEN /\ p \in PaymentIds
          /\ BookingOf[p] = dispute[d].about
          /\ payment[p] = "paid"
     ELSE p = None
  /\ decisions' = [decisions EXCEPT ![a] =
       [at |-> IF status \in Refunds THEN "MarkRefunded" ELSE "Resolve",
        d |-> d, status |-> status, p |-> p]]
  /\ UNCHANGED <<dispute, posts, technician, moneyVars>>

Proceed(a, at) == decisions' = [decisions EXCEPT ![a].at = at]

DbMarkRefunded(a) ==
  /\ decisions[a].at = "MarkRefunded"
  /\ MarkRefunded(decisions[a].p)
  /\ Proceed(a, "SetRefunded")
  /\ UNCHANGED <<dispute, posts, technician, marked, confirming,
                 remarked>>

\* Mutant of DbSetRefunded: the booking is left as it is.
DbSetRefundedForgotten(a) ==
  /\ decisions[a].at = "SetRefunded"
  /\ Proceed(a, "Resolve")
  /\ UNCHANGED <<dispute, posts, technician, moneyVars>>

\* The wallet entries that follow are best effort, and in Payments.
DbSetRefunded(a) ==
  /\ decisions[a].at = "SetRefunded"
  /\ SetRefunded(decisions[a].p)
  /\ Proceed(a, "Resolve")
  /\ UNCHANGED <<dispute, posts, technician, payment, confirming>>

\* DisputeRepository.Resolve, whatever the status has become.
DbResolve(a) ==
  /\ decisions[a].at = "Resolve"
  /\ dispute' = [dispute EXCEPT ![decisions[a].d].status = decisions[a].status]
  /\ decisions' = [decisions EXCEPT ![a] = Idle]
  /\ UNCHANGED <<posts, technician, moneyVars>>

\* A statement fails, and what was written before it stays.
Abort(a) ==
  /\ decisions[a] # Idle
  /\ decisions' = [decisions EXCEPT ![a] = Idle]
  /\ UNCHANGED <<dispute, posts, technician, moneyVars>>

Next ==
  \/ \E d \in Ids, u \in People :
       \/ \E s \in Subjects : Raise(d, s, u)
       \/ AddEvidence(d, u)
       \/ SendMessage(d, u)
  \/ \E s \in Subjects, t \in Technicians \cup {None} : Reassign(s, t)
  \/ \E d \in Ids : AdminReply(d) \/ SetUnderReview(d)
  \/ \E p \in PaymentIds :
       \/ Confirm(p) \/ DbMarkPaid(p) \/ DbMarkFailed(p) \/ DbSetPaid(p)
       \/ Confirmed(p) \/ RefundApart(p) \/ SetRefundedApart(p)
  \/ \E a \in Decisions :
       \/ \E d \in Ids, status \in Resolved, p \in PaymentIds \cup {None} :
            Resolve(a, d, status, p)
       \/ DbMarkRefunded(a)
       \/ DbSetRefunded(a)
       \/ DbResolve(a)
       \/ Abort(a)

Spec == Init /\ [][Next]_disputeVars

-----------------------------------------------------------------------------
(* What the component promises.                                              *)

RefundGranted(d) == dispute[d] # None /\ dispute[d].status \in Refunds

\* A dispute that ends in a refund has a payment of its booking refunded, and
\* the booking shown as refunded unless a confirmation, late or of another
\* payment, marked it paid over that; whichever decisions on the same or on
\* another dispute of the booking run at the same time or break off.
RefundedIsPaidBack ==
  \A d \in Ids : RefundGranted(d) =>
    /\ \E p \in PaymentIds :
         BookingOf[p] = dispute[d].about /\ payment[p] = "refunded"
    /\ \/ marked[dispute[d].about] = "refunded"
       \/ dispute[d].about \in remarked

-----------------------------------------------------------------------------
(* What the repository says of the program and the program does not do.      *)

\* "a dispute can't be marked "refunded" without the wallet/booking state
\* actually reflecting it" (dispute_service.go): here, that the booking does.
RefundedIsReflected ==
  \A d \in Ids : RefundGranted(d) => marked[dispute[d].about] = "refunded"

=============================================================================
