---------------------------- MODULE MCBackOffice ----------------------------
(***************************************************************************)
(* Instances for TLC of the components of BackOffice: a behaviour runs one *)
(* of them, named by part, and leaves the others alone.                    *)
(***************************************************************************)
EXTENDS BackOffice, TLC

CONSTANT Twins \* two of whatever a component keeps two of

VARIABLE part

vars == <<part, stockVars, reviewVars, disputeVars, technicianVars,
          accountVars, groqVars, chatVars, noticeVars, startVars>>

\* Four bookings of one technician.
MCTechnicianOf == [b \in 1 .. 4 |-> "t1"]

\* Disputes about one booking, and about a consultation.
MCCustomerOf == ("b1" :> "u1") @@ ("q1" :> "u1")

\* A booking with two payments.
MCBookingOf == [p \in PaymentIds |-> "b1"]

MCGoogleEmail == "g1" :> "e1"

\* Two bookings of the same two people.
MCChatCustomer == ("b1" :> "u1") @@ ("b2" :> "u1")
MCChatTechnician == ("b1" :> "u2") @@ ("b2" :> "u2")

\* What comes in twos is interchangeable.
Symmetry ==
  Permutations(Twins) \cup Permutations(PaymentIds) \cup Permutations(Requests)

Init ==
  /\ part \in {"inventory", "reviews", "disputes", "technicians", "accounts",
               "groq", "chat", "notices", "startup"}
  /\ StockInit
  /\ RatingInit
  /\ Dsp!Init
  /\ Tch!Init
  /\ Acc!Init
  /\ GroqInit
  /\ Cht!Init
  /\ Ntf!Init
  /\ Stt!Init

Next ==
  /\ UNCHANGED part
  /\ \/ part = "inventory" /\ StockNext
     \/ part # "inventory" /\ UNCHANGED stockVars
  /\ \/ part = "reviews" /\ RatingNext
     \/ part # "reviews" /\ UNCHANGED reviewVars
  /\ \/ part = "disputes" /\ Dsp!Next
     \/ part # "disputes" /\ UNCHANGED disputeVars
  /\ \/ part = "technicians" /\ Tch!Next
     \/ part # "technicians" /\ UNCHANGED technicianVars
  /\ \/ part = "accounts" /\ Acc!Next
     \/ part # "accounts" /\ UNCHANGED accountVars
  /\ \/ part = "groq" /\ GroqNext
     \/ part # "groq" /\ UNCHANGED groqVars
  /\ \/ part = "chat" /\ Cht!Next
     \/ part # "chat" /\ UNCHANGED chatVars
  /\ \/ part = "notices" /\ Ntf!Next
     \/ part # "notices" /\ UNCHANGED noticeVars
  /\ \/ part = "startup" /\ Stt!Next
     \/ part # "startup" /\ UNCHANGED startVars

Spec == Init /\ [][Next]_vars
=============================================================================
