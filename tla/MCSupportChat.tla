---------------------------- MODULE MCSupportChat ----------------------------
(* Two messages of one customer, whose replies share a ring of two keys.      *)
EXTENDS SupportChat, TLC

CONSTANTS m1, m2, k1, k2

MCCallOf == (m1 :> k1) @@ (m2 :> k2)

=============================================================================
