---------------------------- MODULE MCConsultation ----------------------------
(* Instances of Consultation for TLC. *)
EXTENDS Consultation, TLC

CONSTANTS k1, k2, b1, b2, u1, u2, u3, t1, t2, r1, r2, r3

\* u1 is a customer, u2 and u3 are technicians.
Profiles == [u \in Users |-> CASE u = u1 -> None [] u = u2 -> t1 [] OTHER -> t2]

AllEndpoints ==
  {"Request", "ConfirmScheduled", "DeclineScheduled", "Accept", "Reject", "End",
   "Rating", "RecommendOnsite", "DeclineRecommendation", "Escalate", "Cancel",
   "Start", "Pay"}
=============================================================================
