----------------------------- MODULE MCCashDues -----------------------------
(* Two cash payments of one technician, who settles them; another looks on.   *)
EXTENDS CashDues, TLC

CONSTANTS p1, p2, t1, t2, c1, c2, r1, r2, o1, o2

MCTechnicianOf == [p \in Ids |-> t1]
MCCommission == [p \in Ids |-> 1]
Symmetry == Permutations(Ids) \cup Permutations(Codes)
              \cup Permutations(Requests) \cup Permutations(Orders)

=============================================================================
