------------------------ MODULE BookingLifecycleProofs ------------------------
(* What holds of BookingLifecycle for every value of its constants. *)
EXTENDS BookingLifecycle, TLAPS

\* Every request record built by a handler is well typed.
LEMMA CallType ==
  ASSUME NEW s \in Statements, NEW b \in Bookings
  PROVE  /\ Call(s, b) \in Request
         /\ \A t \in Techs \cup {None} :
              [Call(s, b) EXCEPT !.t = t] \in Request
         /\ \A x \in Statuses : [Call(s, b) EXCEPT !.to = x] \in Request
         /\ \A x \in Statuses, c \in BOOLEAN :
              [Call(s, b) EXCEPT !.to = x, !.covered = c] \in Request
         /\ \A x \in Statuses, n \in 0 .. MaxRevisions :
              [Call(s, b) EXCEPT !.to = x, !.saw = n] \in Request
<1> DEFINE q == Call(s, b)
<1>1. q \in Request
  <2>1. 0 \in 0 .. MaxRevisions
    BY BoundAssumption
  <2> QED
    BY <2>1 DEF Call, Request
<1> HIDE DEF q
<1>2. /\ \A t \in Techs \cup {None} : [q EXCEPT !.t = t] \in Request
      /\ \A x \in Statuses : [q EXCEPT !.to = x] \in Request
  BY <1>1 DEF Request
<1>3. \A x \in Statuses, c \in BOOLEAN :
        [q EXCEPT !.to = x, !.covered = c] \in Request
  BY <1>1 DEF Request
<1>4. \A x \in Statuses, n \in 0 .. MaxRevisions :
        [q EXCEPT !.to = x, !.saw = n] \in Request
  BY <1>1 DEF Request
<1> QED
  BY <1>1, <1>2, <1>3, <1>4 DEF q

\* Initially there are no bookings and no requests: all is well typed.
LEMMA InitType == Init => TypeOK
<1>1. [NewRow EXCEPT !.status = "absent"] \in Row
  BY DEF NewRow, Row
<1>2. 0 \in 0 .. MaxRevisions
  BY BoundAssumption
<1>3. [status |-> "none", revision |-> 0] \in Estimate
  BY <1>2 DEF Estimate
<1>4. Carries(Idle)
  BY DEF Carries, Idle
<1> QED
  BY <1>1, <1>2, <1>3, <1>4 DEF Init, TypeOK

\* Fields of a row can be written one or two at a time.
LEMMA RowEdits ==
  ASSUME NEW w \in Row, NEW b \in Bookings, TypeOK
  PROVE  /\ \A x \in Statuses : [w EXCEPT !.status = x] \in Row
         /\ \A x \in Statuses, t \in Techs \cup {None} :
              [w EXCEPT !.tech = t, !.status = x] \in Row
         /\ \A x \in Codes, v \in BOOLEAN :
              [w EXCEPT !.otp = x, !.verified = v] \in Row
         /\ \A v \in BOOLEAN : [w EXCEPT !.verified = v] \in Row
         /\ \A v \in BOOLEAN : [w EXCEPT !.priced = v] \in Row
         /\ \A x \in {"none", "active", "expired"} :
              [w EXCEPT !.warranty = x] \in Row
<1>1. /\ \A x \in Statuses : [w EXCEPT !.status = x] \in Row
      /\ \A v \in BOOLEAN : [w EXCEPT !.verified = v] \in Row
      /\ \A v \in BOOLEAN : [w EXCEPT !.priced = v] \in Row
      /\ \A x \in {"none", "active", "expired"} :
           [w EXCEPT !.warranty = x] \in Row
  BY DEF Row
<1>2. \A x \in Statuses, t \in Techs \cup {None} :
        [w EXCEPT !.tech = t, !.status = x] \in Row
  BY DEF Row
<1>3. \A x \in Codes, v \in BOOLEAN :
        [w EXCEPT !.otp = x, !.verified = v] \in Row
  BY DEF Row
<1> QED
  BY <1>1, <1>2, <1>3

\* A slot may take any well-formed request.
LEMMA SlotType ==
  ASSUME TypeOK, NEW r \in Requests, NEW q \in Request \cup {Idle}, Carries(q),
         reqs' = [reqs EXCEPT ![r] = q]
  PROVE  /\ reqs' \in [Requests -> Request \cup {Idle}]
         /\ \A x \in Requests : Carries(reqs'[x])
  BY DEF TypeOK

\* An idle slot needs nothing, and neither does a request just begun that
\* carries what its first method needs.
LEMMA IdleCarries == Carries(Idle)
  BY DEF Carries, Idle

\* A handler that takes up a call leaves a well-typed slot that carries what
\* its first repository method needs.
LEMMA ServeType ==
  ASSUME TypeOK, NEW r \in Requests, Serve(r)
  PROVE  TypeOK'
<1> USE DEF Begin, Exists
<1>1. PICK b \in Bookings :
        \/ Cancel(r, b)
        \/ RaiseWarrantyClaim(r, b)
        \/ \E t \in Techs \cup {None} : Create(r, b, t)
        \/ \E t \in Techs : Accept(r, b, t) \/ Reject(r, b, t)
        \/ \E s \in PatchTargets : UpdateStatus(r, b, s)
        \/ \E covered \in BOOLEAN : Complete(r, b, covered)
        \/ \E code \in Codes : VerifyOTP(r, b, code)
        \/ \E to \in {"in_progress", "cancelled"} : RespondToEstimate(r, b, to)
  BY DEF Serve
<1>2. ASSUME NEW q \in Request \cup {Idle}, Carries(q),
             reqs' = [reqs EXCEPT ![r] = q],
             UNCHANGED <<row, estimate, won, origin, decidedOn>>
      PROVE  TypeOK'
  BY <1>2, SlotType, TypeOK DEF TypeOK
<1>3. CASE Cancel(r, b)
  <2>1. /\ [Call("UpdateStatus", b) EXCEPT !.to = "cancelled"] \in Request
        /\ Carries([Call("UpdateStatus", b) EXCEPT !.to = "cancelled"])
    BY ZenonT(40), CallType DEF Statements, Statuses, Call, Carries
  <2> QED
    BY <1>2, <1>3, <2>1 DEF Cancel
<1>4. CASE RaiseWarrantyClaim(r, b)
  <2>1. row[b].tech \in Techs \cup {None}
    BY TypeOK DEF TypeOK, Row
  <2>2. /\ [Call("CreateClaim", b) EXCEPT !.t = row[b].tech] \in Request
        /\ Carries([Call("CreateClaim", b) EXCEPT !.t = row[b].tech])
    BY <2>1, CallType DEF Statements, Call, Carries
  <2> QED
    BY <1>2, <1>4, <2>2 DEF RaiseWarrantyClaim
<1>5. ASSUME NEW t \in Techs \cup {None}, Create(r, b, t)
      PROVE  TypeOK'
  <2> DEFINE q == IF t = None THEN Idle
                  ELSE [Call("AssignPendingTechnician", b) EXCEPT !.t = t]
  <2>1. NewRow \in Row
    BY DEF NewRow, Row, Statuses
  <2>2. q \in Request \cup {Idle} /\ Carries(q)
    BY CallType, IdleCarries DEF Statements, Call, Carries
  <2>3. reqs' = [reqs EXCEPT ![r] = q]
    BY <1>5 DEF Create
  <2> HIDE DEF q
  <2> QED
    BY <1>5, <2>1, <2>2, <2>3, SlotType, TypeOK DEF Create, TypeOK
<1>6. ASSUME NEW t \in Techs, Accept(r, b, t) \/ Reject(r, b, t)
      PROVE  TypeOK'
  <2>1. \A s \in {"AssignTechnician", "ConfirmAssignment", "Decline"} :
          /\ [Call(s, b) EXCEPT !.t = t] \in Request
          /\ Carries([Call(s, b) EXCEPT !.t = t])
    BY CallType DEF Statements, Call, Carries
  <2> QED
    BY <1>2, <1>6, <2>1 DEF Accept, Reject
<1>7. ASSUME NEW s \in PatchTargets, UpdateStatus(r, b, s)
      PROVE  TypeOK'
  <2>1. /\ [Call("UpdateStatus", b) EXCEPT !.to = s] \in Request
        /\ Carries([Call("UpdateStatus", b) EXCEPT !.to = s])
    BY CallType, PatchAssumption DEF Statements, Call, Carries
  <2> QED
    BY <1>2, <1>7, <2>1 DEF UpdateStatus
<1>8. ASSUME NEW covered \in BOOLEAN, Complete(r, b, covered)
      PROVE  TypeOK'
  <2> DEFINE q == [Call("SetFinalPrice", b) EXCEPT
                     !.to = "completed", !.covered = covered]
  <2>1. q \in Request /\ Carries(q)
    BY ZenonT(40), CallType DEF Statements, Statuses, Call, Carries
  <2> QED
    BY <1>2, <1>8, <2>1 DEF Complete
<1>9. ASSUME NEW code \in Codes, VerifyOTP(r, b, code)
      PROVE  TypeOK'
  <2>1. /\ [Call("StampOTP", b) EXCEPT !.to = "inspecting"] \in Request
        /\ Carries([Call("StampOTP", b) EXCEPT !.to = "inspecting"])
    BY ZenonT(40), CallType DEF Statements, Statuses, Call, Carries
  <2> QED
    BY <1>2, <1>9, <2>1 DEF VerifyOTP
<1>10. ASSUME NEW to \in {"in_progress", "cancelled"}, RespondToEstimate(r, b, to)
       PROVE  TypeOK'
  <2> DEFINE q == [Call("SetEstimateStatus", b) EXCEPT
                     !.to = to, !.saw = estimate[b].revision]
  <2>1. estimate[b].revision \in 0 .. MaxRevisions
    BY TypeOK DEF TypeOK, Estimate
  <2>2. q \in Request /\ Carries(q)
    BY ZenonT(40), <2>1, CallType DEF Statements, Statuses, Call, Carries
  <2> QED
    BY <1>2, <1>10, <2>2 DEF RespondToEstimate
<1> QED
  BY <1>1, <1>3, <1>4, <1>5, <1>6, <1>7, <1>8, <1>9, <1>10

\* A repository method, or the end of its handler, keeps every variable's type.
LEMMA ExecuteType ==
  ASSUME TypeOK, NEW r \in Requests, Execute(r) \/ Abort(r)
  PROVE  TypeOK'
<1>1. ASSUME reqs[r].at \in Statements
      PROVE  /\ reqs[r] \in Request
             /\ reqs[r].b \in Bookings
             /\ row[reqs[r].b] \in Row
             /\ Carries(reqs[r])
  BY <1>1, TypeOK DEF TypeOK, Idle, Statements, Request
<1>2. ASSUME NEW q \in Request \cup {Idle}, Carries(q),
             reqs' = [reqs EXCEPT ![r] = q],
             row' = row \/ \E b \in Bookings, w \in Row :
                              row' = [row EXCEPT ![b] = w],
             UNCHANGED <<estimate, origin, decidedOn>>,
             won' \in [Bookings -> SUBSET Techs]
      PROVE  TypeOK'
  BY <1>2, SlotType, TypeOK DEF TypeOK
<1>3. CASE DbAssignPendingTechnician(r)
  <2> DEFINE w == [row[reqs[r].b] EXCEPT !.tech = reqs[r].t,
                                        !.status = "pending_technician"]
  <2>1. reqs[r].b \in Bookings /\ w \in Row
    BY <1>1, <1>3, RowEdits, TypeOK
    DEF DbAssignPendingTechnician, At, Statements, Carries, Statuses
  <2>2. row' = row \/ row' = [row EXCEPT ![reqs[r].b] = w]
    BY <1>3, <2>1, TypeOK DEF DbAssignPendingTechnician, TypeOK
  <2> QED
    BY <1>2, <1>3, <2>1, <2>2, IdleCarries, TypeOK
    DEF DbAssignPendingTechnician, Done, TypeOK
<1>4. CASE DbAssignTechnician(r)
  <2> DEFINE w == [row[reqs[r].b] EXCEPT !.tech = reqs[r].t, !.status = "accepted"]
  <2>1. reqs[r].b \in Bookings /\ reqs[r].t \in Techs /\ w \in Row
    BY <1>1, <1>4, RowEdits, TypeOK
    DEF DbAssignTechnician, At, Statements, Carries, Statuses
  <2>2. row' = row \/ row' = [row EXCEPT ![reqs[r].b] = w]
    BY <1>4, <2>1, TypeOK DEF DbAssignTechnician, TypeOK
  <2>3. won' \in [Bookings -> SUBSET Techs]
    BY <1>4, <2>1, TypeOK DEF DbAssignTechnician, TypeOK
  <2> QED
    BY <1>2, <1>4, <2>1, <2>2, <2>3, IdleCarries DEF DbAssignTechnician, Done
<1>5. CASE DbConfirmAssignment(r)
  <2> DEFINE w == [row[reqs[r].b] EXCEPT !.status = "accepted"]
  <2>1. reqs[r].b \in Bookings /\ reqs[r].t \in Techs /\ w \in Row
    BY <1>1, <1>5, RowEdits, TypeOK
    DEF DbConfirmAssignment, At, Statements, Carries, Statuses
  <2>2. row' = row \/ row' = [row EXCEPT ![reqs[r].b] = w]
    BY <1>5, <2>1, TypeOK DEF DbConfirmAssignment, TypeOK
  <2>3. won' \in [Bookings -> SUBSET Techs]
    BY <1>5, <2>1, TypeOK DEF DbConfirmAssignment, TypeOK
  <2> QED
    BY <1>2, <1>5, <2>1, <2>2, <2>3, IdleCarries DEF DbConfirmAssignment, Done
<1>6. CASE DbDecline(r)
  <2> DEFINE w == [row[reqs[r].b] EXCEPT !.tech = None, !.status = "requested"]
  <2>1. reqs[r].b \in Bookings /\ w \in Row
    BY <1>1, <1>6, RowEdits, TypeOK DEF DbDecline, At, Statements, Statuses
  <2>2. row' = row \/ row' = [row EXCEPT ![reqs[r].b] = w]
    BY <1>6, <2>1, TypeOK DEF DbDecline, TypeOK
  <2> QED
    BY <1>2, <1>6, <2>1, <2>2, IdleCarries, TypeOK DEF DbDecline, Done, TypeOK
<1>7. CASE DbUpdateStatus(r)
  <2> DEFINE w == [row[reqs[r].b] EXCEPT !.status = reqs[r].to]
             q == IF reqs[r].to = "arrived"
                  THEN [reqs[r] EXCEPT !.at = "SetOTP"] ELSE Idle
  <2>1. reqs[r].b \in Bookings /\ w \in Row
    BY <1>1, <1>7, RowEdits, TypeOK DEF DbUpdateStatus, At, Statements, Carries
  <2>2. row' = [row EXCEPT ![reqs[r].b] = w]
    BY <1>7, <2>1, TypeOK DEF DbUpdateStatus, TypeOK
  <2>3. reqs' = [reqs EXCEPT ![r] = q]
    BY <1>7, TypeOK DEF DbUpdateStatus, Proceed, Done, TypeOK
  <2>4. q \in Request \cup {Idle} /\ Carries(q)
    BY <1>1, <1>7, IdleCarries
    DEF DbUpdateStatus, At, Request, Statements, Carries
  <2> HIDE DEF q, w
  <2> QED
    BY <1>2, <1>7, <2>1, <2>2, <2>3, <2>4, TypeOK DEF DbUpdateStatus, TypeOK
<1>8. ASSUME NEW code \in Codes, DbSetOTP(r, code)
      PROVE  TypeOK'
  <2> DEFINE w == [row[reqs[r].b] EXCEPT !.otp = code, !.verified = FALSE]
  <2>1. reqs[r].b \in Bookings /\ w \in Row
    BY <1>1, <1>8, RowEdits, TypeOK DEF DbSetOTP, At, Statements
  <2>2. row' = [row EXCEPT ![reqs[r].b] = w]
    BY <1>8, <2>1, TypeOK DEF DbSetOTP, TypeOK
  <2> QED
    BY <1>2, <1>8, <2>1, <2>2, IdleCarries, TypeOK DEF DbSetOTP, Done, TypeOK
\* The three methods after which the handler goes on with another one.
<1>9. ASSUME NEW s \in {"SetWarranty", "UpdateStatus"},
             reqs[r].at \in {"StampOTP", "SetFinalPrice", "SetWarranty"},
             Proceed(r, s),
             reqs[r].at = "StampOTP" => s = "UpdateStatus",
             NEW w \in Row, row' = [row EXCEPT ![reqs[r].b] = w],
             UNCHANGED <<estimate, won, origin, decidedOn>>
      PROVE  TypeOK'
  <2> DEFINE q == [reqs[r] EXCEPT !.at = s]
  <2>1. reqs[r] \in Request /\ reqs[r].b \in Bookings /\ Carries(reqs[r])
    BY <1>1, <1>9 DEF Statements
  <2>2. q \in Request
    BY <1>9, <2>1 DEF Request, Statements
  <2>3. Carries(q)
    BY <1>9, <2>1 DEF Carries, Request, Statuses
  <2>4. reqs' = [reqs EXCEPT ![r] = q]
    BY <1>9, TypeOK DEF Proceed, TypeOK
  <2> HIDE DEF q
  <2> QED
    BY <1>2, <1>9, <2>1, <2>2, <2>3, <2>4, TypeOK DEF TypeOK
<1>10. CASE DbStampOTP(r)
  <2> DEFINE w == [row[reqs[r].b] EXCEPT !.verified = TRUE]
  <2>1. reqs[r].b \in Bookings /\ w \in Row
    BY <1>1, <1>10, RowEdits, TypeOK DEF DbStampOTP, At, Statements
  <2>2. row' = [row EXCEPT ![reqs[r].b] = w]
    BY <1>10, <2>1, TypeOK DEF DbStampOTP, TypeOK
  <2> QED
    BY <1>9, <1>10, <2>1, <2>2 DEF DbStampOTP, At
<1>11. CASE DbSetFinalPrice(r)
  <2> DEFINE w == [row[reqs[r].b] EXCEPT !.priced = TRUE]
  <2>1. reqs[r].b \in Bookings /\ w \in Row
    BY <1>1, <1>11, RowEdits, TypeOK DEF DbSetFinalPrice, At, Statements
  <2>2. row' = [row EXCEPT ![reqs[r].b] = w]
    BY <1>11, <2>1, TypeOK DEF DbSetFinalPrice, TypeOK
  <2> QED
    BY <1>9, <1>11, <2>1, <2>2 DEF DbSetFinalPrice, At
<1>12. CASE DbSetWarranty(r)
  <2> DEFINE x == IF reqs[r].covered THEN "active" ELSE "none"
             w == [row[reqs[r].b] EXCEPT !.warranty = x]
  <2>1. reqs[r].b \in Bookings /\ w \in Row
    BY <1>1, <1>12, RowEdits, TypeOK DEF DbSetWarranty, At, Statements
  <2>2. row' = [row EXCEPT ![reqs[r].b] = w]
    BY <1>12, <2>1, TypeOK DEF DbSetWarranty, TypeOK
  <2> HIDE DEF w
  <2> QED
    BY <1>9, <1>12, <2>1, <2>2 DEF DbSetWarranty, At
<1>13. CASE DbSetEstimateStatus(r)
  <2>1. /\ reqs[r] \in Request /\ reqs[r].b \in Bookings
        /\ reqs[r].to \in {"in_progress", "cancelled"}
    BY <1>1, <1>13 DEF DbSetEstimateStatus, At, Statements, Carries
  <2>2. reqs[r].saw \in 0 .. MaxRevisions
    BY <2>1 DEF Request
  <2>3. PICK q \in Request \cup {Idle} :
          Carries(q) /\ reqs' = [reqs EXCEPT ![r] = q]
    <3>1. [reqs[r] EXCEPT !.at = "UpdateStatus"] \in Request
      BY <2>1 DEF Request, Statements
    <3>2. Carries([reqs[r] EXCEPT !.at = "UpdateStatus"])
      BY <2>1 DEF Carries, Request, Statuses
    <3>3. \/ reqs' = [reqs EXCEPT ![r] = Idle]
          \/ reqs' = [reqs EXCEPT ![r] = [reqs[r] EXCEPT !.at = "UpdateStatus"]]
      BY <1>13, TypeOK DEF DbSetEstimateStatus, Done, Proceed, TypeOK
    <3> QED
      BY <3>1, <3>2, <3>3, IdleCarries
  <2>4. estimate' \in [Bookings -> Estimate]
    <3>1. \A x \in {"approved", "declined"} :
            [estimate[reqs[r].b] EXCEPT !.status = x] \in Estimate
      BY <2>1, TypeOK DEF TypeOK, Estimate
    <3>2. estimate' = estimate \/
          \E x \in {"approved", "declined"} :
            estimate' = [estimate EXCEPT ![reqs[r].b] =
                           [estimate[reqs[r].b] EXCEPT !.status = x]]
      BY <1>13, <2>1, TypeOK DEF DbSetEstimateStatus, TypeOK
    <3> QED
      BY <2>1, <3>1, <3>2, TypeOK DEF TypeOK
  <2>5. decidedOn' \in [Bookings -> 0 .. MaxRevisions]
    BY <1>13, <2>1, <2>2, TypeOK DEF DbSetEstimateStatus, TypeOK
  <2> QED
    BY <1>13, <2>3, <2>4, <2>5, SlotType, TypeOK DEF DbSetEstimateStatus, TypeOK
<1>14. ASSUME NEW new \in Bookings, DbCreateClaim(r, new)
       PROVE  TypeOK'
  <2> DEFINE q == IF reqs[r].t = None THEN Idle
                  ELSE [reqs[r] EXCEPT !.at = "AssignTechnician", !.b = new]
  <2>1. NewRow \in Row
    BY DEF NewRow, Row, Statuses
  <2>2. reqs[r] \in Request /\ reqs[r].b \in Bookings
    BY <1>1, <1>14 DEF DbCreateClaim, At, Statements
  <2>3. q \in Request \cup {Idle} /\ Carries(q)
    BY <2>2, IdleCarries DEF Request, Statements, Carries
  <2>4. reqs' = [reqs EXCEPT ![r] = q]
    BY <1>14, TypeOK DEF DbCreateClaim, Done, TypeOK
  <2>5. origin' \in [Bookings -> Bookings \cup {None}]
    BY <1>14, <2>2, TypeOK DEF DbCreateClaim, TypeOK
  <2> HIDE DEF q
  <2> QED
    BY <1>14, <2>1, <2>3, <2>4, <2>5, SlotType, TypeOK DEF DbCreateClaim, TypeOK
<1>15. CASE Abort(r)
  BY <1>15, IdleCarries, SlotType, TypeOK DEF Abort, Done, TypeOK
<1> QED
  BY <1>3, <1>4, <1>5, <1>6, <1>7, <1>8, <1>10, <1>11, <1>12, <1>13, <1>14, <1>15
  DEF Execute

\* So do the steps that belong to no handler.
LEMMA OtherType ==
  ASSUME TypeOK, NEW b \in Bookings, SubmitEstimate(b) \/ WarrantyExpires(b)
  PROVE  TypeOK'
<1>1. CASE SubmitEstimate(b)
  <2>1. estimate[b].revision + 1 \in 0 .. MaxRevisions
    BY <1>1, TypeOK, BoundAssumption DEF SubmitEstimate, TypeOK, Estimate
  <2>2. [status |-> "pending", revision |-> estimate[b].revision + 1] \in Estimate
    BY <2>1 DEF Estimate
  <2> QED
    BY <1>1, <2>2, TypeOK DEF SubmitEstimate, TypeOK
<1>2. CASE WarrantyExpires(b)
  BY <1>2, TypeOK DEF WarrantyExpires, TypeOK, Row
<1> QED
  BY <1>1, <1>2

\* Every variable keeps its type.
THEOREM TypeCorrect == Spec => []TypeOK
<1>1. Init => TypeOK
  BY InitType
<1>2. TypeOK /\ [Next]_vars => TypeOK'
  <2>1. CASE UNCHANGED vars
    BY <2>1 DEF vars, TypeOK
  <2>2. CASE Next
    BY <2>2, ServeType, ExecuteType, OtherType DEF Next
  <2> QED
    BY <2>1, <2>2
<1> QED
  BY <1>1, <1>2, PTL DEF Spec

-----------------------------------------------------------------------------
(* Safety.  Every step writes at most one row, and writes it in one of the    *)
(* ways Moves allows; what a pending write relies on survives all of them.    *)

\* How a step may change a row, told by the abstract life of the job: this is
\* the next-state relation of JobAssignment, for one job.
Moves(v, w) ==
  \/ PhaseOf(w) = PhaseOf(v) /\ w.tech = v.tech
  \/ PhaseOf(v) = "absent" /\ PhaseOf(w) = "open" /\ w.tech = v.tech
  \/ PhaseOf(v) = "open" /\ PhaseOf(w) = "offered" /\ w.tech \in Techs
  \/ PhaseOf(v) = "offered" /\ PhaseOf(w) = "open" /\ w.tech = None
  \/ PhaseOf(v) = "open" /\ PhaseOf(w) = "settled" /\ w.tech \in Techs
  \/ PhaseOf(v) \in {"open", "offered"} /\ PhaseOf(w) = "settled"
     /\ w.tech = v.tech

\* A row update that keeps all that others rely on.
Legal(v, w) == RowOK(w) /\ Moves(v, w) /\ (v.priced => w.priced)

\* The abstract phase of a row is a matter of its status alone.
LEMMA Phases ==
  \A w \in Row : /\ PhaseOf(w) = "absent" <=> w.status = "absent"
                 /\ PhaseOf(w) = "open" <=> w.status = "requested"
                 /\ PhaseOf(w) = "offered" <=> w.status = "pending_technician"
                 /\ PhaseOf(w) = "settled" <=> w.status \notin Pool
  BY DEF PhaseOf, Pool

\* What a running handler knows of its own request.
LEMMA Running ==
  ASSUME IInv, NEW r \in Requests, reqs[r].at \in Statements
  PROVE  /\ reqs[r] \in Request
         /\ reqs[r].b \in Bookings
         /\ row[reqs[r].b] \in Row
         /\ RowOK(row[reqs[r].b])
         /\ Carries(reqs[r])
         /\ PendingWriteOK(reqs[r])
  BY DEF IInv, TypeOK, Idle, Statements, Request

\* The frame of a step: it writes at most one row, and a row that has left
\* the pool keeps its technician, its price and its place outside the pool.
LEMMA RowStep ==
  ASSUME IInv, Next
  PROVE  row' = row \/
         \E b \in Bookings, w \in Row :
           row' = [row EXCEPT ![b] = w] /\ Legal(row[b], w)
<1> USE DEF Legal
<1>1. row \in [Bookings -> Row] /\ \A b \in Bookings : RowOK(row[b])
  BY DEF IInv, TypeOK
<1>2. NewRow \in Row /\ RowOK(NewRow) /\ PhaseOf(NewRow) = "open"
      /\ NewRow.tech = None
  BY DEF NewRow, Row, Statuses, RowOK, PhaseOf, OnSite
<1>3. ASSUME NEW b \in Bookings, ~Exists(b)
      PROVE  Legal(row[b], NewRow)
  BY <1>1, <1>2, <1>3, Phases DEF Exists, RowOK, Moves
<1>4. ASSUME NEW r \in Requests, Serve(r)
      PROVE  row' = row \/
             \E b \in Bookings : ~Exists(b) /\ row' = [row EXCEPT ![b] = NewRow]
  BY <1>4 DEF Serve, Cancel, RaiseWarrantyClaim, Create, Accept, Reject,
              UpdateStatus, Complete, VerifyOTP, RespondToEstimate
<1>5. ASSUME NEW r \in Requests, Abort(r)
      PROVE  row' = row
  BY <1>5 DEF Abort
<1>6. ASSUME NEW b \in Bookings, SubmitEstimate(b)
      PROVE  row' = row
  BY <1>6 DEF SubmitEstimate
<1>7. ASSUME NEW b \in Bookings, WarrantyExpires(b)
      PROVE  \E w \in Row : row' = [row EXCEPT ![b] = w] /\ Legal(row[b], w)
  <2> DEFINE w == [row[b] EXCEPT !.warranty = "expired"]
  <2>1. w \in Row
    BY <1>1, RowEdits DEF IInv
  <2>2. row' = [row EXCEPT ![b] = w]
    BY <1>1, <1>7 DEF WarrantyExpires
  <2>3. /\ w.status = row[b].status /\ w.tech = row[b].tech
        /\ w.otp = row[b].otp /\ w.priced = row[b].priced
    BY <1>1 DEF Row
  <2>4. Legal(row[b], w)
    BY <1>1, <2>3 DEF RowOK, Moves, PhaseOf
  <2> QED
    BY <2>1, <2>2, <2>4
<1>8. ASSUME NEW r \in Requests, DbAssignPendingTechnician(r)
      PROVE  row' = row \/
             \E b \in Bookings, w \in Row :
               row' = [row EXCEPT ![b] = w] /\ Legal(row[b], w)
  <2> DEFINE b == reqs[r].b
             w == [row[b] EXCEPT !.tech = reqs[r].t, !.status = "pending_technician"]
  <2>1. /\ b \in Bookings /\ row[b] \in Row /\ RowOK(row[b])
        /\ reqs[r].t \in Techs
    BY <1>8, Running DEF DbAssignPendingTechnician, At, Statements, Carries
  <2>2. w \in Row
    BY <2>1, RowEdits DEF IInv, Statuses
  <2>3. /\ w.status = "pending_technician" /\ w.tech = reqs[r].t
        /\ w.otp = row[b].otp /\ w.priced = row[b].priced
    BY <2>1 DEF Row
  <2>4. CASE row[b].status = "requested"
    <3>1. row' = [row EXCEPT ![b] = w]
      BY <1>1, <1>8, <2>1, <2>4 DEF DbAssignPendingTechnician
    <3>2. RowOK(w)
      BY <2>1, <2>3, <2>4, NoneAssumption DEF RowOK, Pool, OnSite
    <3>3. Moves(row[b], w)
      BY <2>1, <2>2, <2>3, <2>4, Phases DEF Moves
    <3> HIDE DEF w
    <3> QED
      BY <2>1, <2>2, <2>3, <3>1, <3>2, <3>3
  <2>5. CASE row[b].status # "requested"
    BY <1>8, <2>5 DEF DbAssignPendingTechnician
  <2> QED
    BY <2>4, <2>5
<1>9. ASSUME NEW r \in Requests, DbAssignTechnician(r)
      PROVE  row' = row \/
             \E b \in Bookings, w \in Row :
               row' = [row EXCEPT ![b] = w] /\ Legal(row[b], w)
  <2> DEFINE b == reqs[r].b
             w == [row[b] EXCEPT !.tech = reqs[r].t, !.status = "accepted"]
  <2>1. /\ b \in Bookings /\ row[b] \in Row /\ RowOK(row[b])
        /\ reqs[r].t \in Techs
    BY <1>9, Running DEF DbAssignTechnician, At, Statements, Carries
  <2>2. w \in Row
    BY <2>1, RowEdits DEF IInv, Statuses
  <2>3. /\ w.status = "accepted" /\ w.tech = reqs[r].t
        /\ w.otp = row[b].otp /\ w.priced = row[b].priced
    BY <2>1 DEF Row
  <2>4. CASE row[b].status = "requested"
    <3>1. row' = [row EXCEPT ![b] = w]
      BY <1>1, <1>9, <2>1, <2>4 DEF DbAssignTechnician
    <3>2. RowOK(w)
      BY <2>1, <2>3, <2>4, NoneAssumption DEF RowOK, Pool, OnSite
    <3>3. Moves(row[b], w)
      BY <2>1, <2>2, <2>3, <2>4, Phases DEF Moves, Pool
    <3> HIDE DEF w
    <3> QED
      BY <2>1, <2>2, <2>3, <3>1, <3>2, <3>3
  <2>5. CASE row[b].status # "requested"
    BY <1>9, <2>5 DEF DbAssignTechnician
  <2> QED
    BY <2>4, <2>5
<1>10. ASSUME NEW r \in Requests, DbConfirmAssignment(r)
       PROVE  row' = row \/
              \E b \in Bookings, w \in Row :
                row' = [row EXCEPT ![b] = w] /\ Legal(row[b], w)
  <2> DEFINE b == reqs[r].b
             w == [row[b] EXCEPT !.status = "accepted"]
             wins == row[b].status = "pending_technician" /\ row[b].tech = reqs[r].t
  <2>1. b \in Bookings /\ row[b] \in Row /\ RowOK(row[b])
    BY <1>10, Running DEF DbConfirmAssignment, At, Statements
  <2>2. w \in Row
    BY <2>1, RowEdits DEF IInv, Statuses
  <2>3. /\ w.status = "accepted" /\ w.tech = row[b].tech
        /\ w.otp = row[b].otp /\ w.priced = row[b].priced
    BY <2>1 DEF Row
  <2>4. CASE wins
    <3>1. row' = [row EXCEPT ![b] = w]
      BY <1>1, <1>10, <2>1, <2>4 DEF DbConfirmAssignment
    <3>2. RowOK(w)
      BY <2>1, <2>3, <2>4 DEF RowOK, Pool, OnSite
    <3>3. Moves(row[b], w)
      BY <2>1, <2>2, <2>3, <2>4, Phases DEF Moves, Pool
    <3> HIDE DEF w
    <3> QED
      BY <2>1, <2>2, <2>3, <3>1, <3>2, <3>3
  <2>5. CASE ~wins
    BY <1>10, <2>5 DEF DbConfirmAssignment
  <2> QED
    BY <2>4, <2>5
<1>11. ASSUME NEW r \in Requests, DbDecline(r)
       PROVE  row' = row \/
              \E b \in Bookings, w \in Row :
                row' = [row EXCEPT ![b] = w] /\ Legal(row[b], w)
  <2> DEFINE b == reqs[r].b
             w == [row[b] EXCEPT !.tech = None, !.status = "requested"]
             frees == /\ row[b].tech = reqs[r].t
                      /\ row[b].status \in {"requested", "pending_technician"}
  <2>1. /\ b \in Bookings /\ row[b] \in Row /\ RowOK(row[b])
        /\ reqs[r].t \in Techs
    BY <1>11, Running DEF DbDecline, At, Statements, Carries
  <2>2. w \in Row
    BY <2>1, RowEdits DEF IInv, Statuses
  <2>3. /\ w.status = "requested" /\ w.tech = None
        /\ w.otp = row[b].otp /\ w.priced = row[b].priced
    BY <2>1 DEF Row
  <2>4. CASE frees
    <3>1. row' = [row EXCEPT ![b] = w]
      BY <1>1, <1>11, <2>1, <2>4 DEF DbDecline
    <3>2. row[b].status = "pending_technician"
      BY <2>1, <2>4, NoneAssumption DEF RowOK
    <3>3. RowOK(w)
      BY <2>1, <2>3, <3>2 DEF RowOK, Pool, OnSite
    <3>4. Moves(row[b], w)
      BY <2>1, <2>2, <2>3, <3>2, Phases DEF Moves
    <3> HIDE DEF w
    <3> QED
      BY <2>1, <2>2, <2>3, <3>1, <3>3, <3>4
  <2>5. CASE ~frees
    BY <1>11, <2>5 DEF DbDecline
  <2> QED
    BY <2>4, <2>5
<1>12. ASSUME NEW r \in Requests, DbUpdateStatus(r)
       PROVE  \E b \in Bookings, w \in Row :
                row' = [row EXCEPT ![b] = w] /\ Legal(row[b], w)
  <2> DEFINE b == reqs[r].b
             w == [row[b] EXCEPT !.status = reqs[r].to]
  <2>1. /\ b \in Bookings /\ row[b] \in Row /\ RowOK(row[b])
        /\ PendingWriteOK(reqs[r])
        /\ reqs[r].at = "UpdateStatus"
        /\ reqs[r].to \in Statuses \ {"requested", "pending_technician", "accepted"}
    BY <1>12, Running DEF DbUpdateStatus, At, Statements, Carries
  <2>2. w \in Row
    BY <2>1, RowEdits DEF IInv
  <2>3. /\ w.status = reqs[r].to /\ w.tech = row[b].tech
        /\ w.otp = row[b].otp /\ w.priced = row[b].priced
    BY <2>1 DEF Row
  <2>4. row' = [row EXCEPT ![b] = w]
    BY <1>1, <1>12, <2>1 DEF DbUpdateStatus
  <2>5. w.status \notin Pool
    BY <2>1, <2>3 DEF Pool, Statuses
  <2>6. RowOK(w)
    BY <2>1, <2>3, <2>5 DEF RowOK, PendingWriteOK, Held, Settled, Pool, OnSite
  <2>7. Moves(row[b], w)
    BY <2>1, <2>2, <2>3, <2>5, Phases DEF Moves, PendingWriteOK, Exists, Pool
  <2> HIDE DEF w
  <2> QED
    BY <2>1, <2>2, <2>3, <2>4, <2>6, <2>7
<1>13. ASSUME NEW r \in Requests, NEW code \in Codes, DbSetOTP(r, code)
       PROVE  \E b \in Bookings, w \in Row :
                row' = [row EXCEPT ![b] = w] /\ Legal(row[b], w)
  <2> DEFINE b == reqs[r].b
             w == [row[b] EXCEPT !.otp = code, !.verified = FALSE]
  <2>1. /\ b \in Bookings /\ row[b] \in Row /\ RowOK(row[b])
        /\ PendingWriteOK(reqs[r]) /\ Carries(reqs[r])
        /\ reqs[r].at = "SetOTP"
    BY <1>13, Running DEF DbSetOTP, At, Statements
  <2>2. w \in Row
    BY <2>1, RowEdits DEF IInv
  <2>3. /\ w.status = row[b].status /\ w.tech = row[b].tech
        /\ w.otp = code /\ w.priced = row[b].priced
    BY <2>1 DEF Row
  <2>4. row' = [row EXCEPT ![b] = w]
    BY <1>1, <1>13, <2>1 DEF DbSetOTP
  <2>5. RowOK(w)
    BY <2>1, <2>3
    DEF RowOK, Carries, PendingWriteOK, Held, Settled, OnSite
  <2>6. Moves(row[b], w)
    BY <2>3 DEF Moves, PhaseOf
  <2> HIDE DEF w
  <2> QED
    BY <2>1, <2>2, <2>3, <2>4, <2>5, <2>6
<1>14. ASSUME NEW r \in Requests, NEW w \in Row,
              reqs[r].at \in {"StampOTP", "SetFinalPrice", "SetWarranty"},
              row' = [row EXCEPT ![reqs[r].b] = w],
              w.status = row[reqs[r].b].status, w.tech = row[reqs[r].b].tech,
              w.otp = row[reqs[r].b].otp,
              w.priced \/ w.priced = row[reqs[r].b].priced
       PROVE  \E b \in Bookings, x \in Row :
                row' = [row EXCEPT ![b] = x] /\ Legal(row[b], x)
  <2>1. /\ reqs[r].b \in Bookings /\ RowOK(row[reqs[r].b])
        /\ PendingWriteOK(reqs[r])
    BY <1>14, Running DEF Statements
  <2>2. Legal(row[reqs[r].b], w)
    BY <1>14, <2>1 DEF RowOK, Moves, PhaseOf, PendingWriteOK, Exists
  <2> QED
    BY <1>14, <2>1, <2>2
<1>15. ASSUME NEW r \in Requests,
              DbStampOTP(r) \/ DbSetFinalPrice(r) \/ DbSetWarranty(r)
       PROVE  \E b \in Bookings, w \in Row :
                row' = [row EXCEPT ![b] = w] /\ Legal(row[b], w)
  <2> DEFINE v == row[reqs[r].b]
             x == IF reqs[r].covered THEN "active" ELSE "none"
  <2>1. /\ reqs[r].at \in {"StampOTP", "SetFinalPrice", "SetWarranty"}
        /\ reqs[r].b \in Bookings /\ v \in Row
    BY <1>15, Running
    DEF DbStampOTP, DbSetFinalPrice, DbSetWarranty, At, Statements
  <2>2. \/ row' = [row EXCEPT ![reqs[r].b] = [v EXCEPT !.verified = TRUE]]
        \/ row' = [row EXCEPT ![reqs[r].b] = [v EXCEPT !.priced = TRUE]]
        \/ row' = [row EXCEPT ![reqs[r].b] = [v EXCEPT !.warranty = x]]
    BY <1>1, <1>15, <2>1 DEF DbStampOTP, DbSetFinalPrice, DbSetWarranty
  <2>3. \A w \in {[v EXCEPT !.verified = TRUE], [v EXCEPT !.priced = TRUE],
                 [v EXCEPT !.warranty = x]} :
          /\ w \in Row
          /\ w.status = v.status /\ w.tech = v.tech /\ w.otp = v.otp
          /\ w.priced \/ w.priced = v.priced
    <3>1. \A w \in {[v EXCEPT !.verified = TRUE], [v EXCEPT !.priced = TRUE],
                   [v EXCEPT !.warranty = x]} : w \in Row
      BY <2>1, RowEdits DEF IInv
    <3>2. \A w \in {[v EXCEPT !.verified = TRUE], [v EXCEPT !.priced = TRUE],
                   [v EXCEPT !.warranty = x]} :
            /\ w.status = v.status /\ w.tech = v.tech /\ w.otp = v.otp
            /\ w.priced \/ w.priced = v.priced
      BY <2>1 DEF Row
    <3> QED
      BY <3>1, <3>2
  <2> HIDE DEF x
  <2> QED
    BY <1>14, <2>1, <2>2, <2>3
<1>16. ASSUME NEW r \in Requests, DbSetEstimateStatus(r)
       PROVE  row' = row
  BY <1>16 DEF DbSetEstimateStatus
<1>17. ASSUME NEW r \in Requests, NEW new \in Bookings, DbCreateClaim(r, new)
       PROVE  \E b \in Bookings : ~Exists(b) /\ row' = [row EXCEPT ![b] = NewRow]
  BY <1>17 DEF DbCreateClaim
<1>18. (\E b \in Bookings : ~Exists(b) /\ row' = [row EXCEPT ![b] = NewRow]) =>
         \E b \in Bookings, w \in Row :
           row' = [row EXCEPT ![b] = w] /\ Legal(row[b], w)
  BY <1>2, <1>3
<1>19. ASSUME NEW r \in Requests, Execute(r)
       PROVE  row' = row \/
              \E b \in Bookings, w \in Row :
                row' = [row EXCEPT ![b] = w] /\ Legal(row[b], w)
  BY <1>8, <1>9, <1>10, <1>11, <1>12, <1>13, <1>15, <1>16, <1>17, <1>18, <1>19
  DEF Execute
<1> QED
  BY <1>4, <1>5, <1>6, <1>7, <1>18, <1>19 DEF Next

\* What one request relies on, no step of another takes away.
LEMMA Lasting ==
  ASSUME IInv, Next
  PROVE  \A b \in Bookings :
           /\ RowOK(row'[b])
           /\ Exists(b) => Exists(b)'
           /\ Settled(b) => Settled(b)' /\ row'[b].tech = row[b].tech
           /\ Held(b) => Held(b)'
           /\ row[b].priced => row'[b].priced
<1> SUFFICES ASSUME NEW b \in Bookings
             PROVE  /\ RowOK(row'[b])
                    /\ Exists(b) => Exists(b)'
                    /\ Settled(b) => Settled(b)' /\ row'[b].tech = row[b].tech
                    /\ Held(b) => Held(b)'
                    /\ row[b].priced => row'[b].priced
  OBVIOUS
<1>1. row \in [Bookings -> Row] /\ RowOK(row[b])
  BY DEF IInv, TypeOK
<1>2. CASE row'[b] = row[b]
  BY <1>1, <1>2 DEF Exists, Settled, Held
<1>3. CASE row'[b] \in Row /\ Legal(row[b], row'[b])
  <2>1. /\ RowOK(row'[b])
        /\ Moves(row[b], row'[b])
        /\ row[b].priced => row'[b].priced
    BY <1>3 DEF Legal
  <2>2. Exists(b) => Exists(b)'
    BY <1>1, <1>3, <2>1, Phases DEF Moves, Exists
  <2>3. Settled(b) => Settled(b)' /\ row'[b].tech = row[b].tech
    BY <1>1, <1>3, <2>1, Phases DEF Moves, Settled
  <2> QED
    BY <2>1, <2>2, <2>3 DEF Held
<1> QED
  BY <1>1, <1>2, <1>3, RowStep

\* An estimate once submitted stays submitted: it is answered or replaced.
LEMMA EstimatesLast ==
  ASSUME IInv, Next
  PROVE  \A b \in Bookings : Estimated(b) => Estimated(b)'
<1>1. estimate \in [Bookings -> Estimate]
  BY DEF IInv, TypeOK
<1>2. ASSUME NEW r \in Requests, Serve(r)
      PROVE  estimate' = estimate
  BY <1>2 DEF Serve, Cancel, RaiseWarrantyClaim, Create, Accept, Reject,
              UpdateStatus, Complete, VerifyOTP, RespondToEstimate
<1>3. ASSUME NEW r \in Requests, Execute(r) \/ Abort(r),
             ~DbSetEstimateStatus(r)
      PROVE  estimate' = estimate
  BY <1>3
  DEF Execute, Abort, DbAssignPendingTechnician, DbAssignTechnician,
      DbConfirmAssignment, DbDecline, DbUpdateStatus, DbSetOTP, DbStampOTP,
      DbSetFinalPrice, DbSetWarranty, DbCreateClaim
<1>4. ASSUME NEW r \in Requests, DbSetEstimateStatus(r), NEW b \in Bookings,
             Estimated(b)
      PROVE  Estimated(b)'
  <2>1. \/ estimate' = estimate
        \/ \E x \in {"approved", "declined"} :
             estimate' = [estimate EXCEPT ![reqs[r].b].status = x]
    BY <1>4 DEF DbSetEstimateStatus
  <2> QED
    BY <1>1, <1>4, <2>1 DEF Estimated, Estimate
<1>5. ASSUME NEW x \in Bookings, SubmitEstimate(x), NEW b \in Bookings,
             Estimated(b)
      PROVE  Estimated(b)'
  BY <1>1, <1>5 DEF SubmitEstimate, Estimated
<1>6. ASSUME NEW x \in Bookings, WarrantyExpires(x)
      PROVE  estimate' = estimate
  BY <1>6 DEF WarrantyExpires
<1> QED
  BY <1>2, <1>3, <1>4, <1>5, <1>6 DEF Next, Estimated

\* Only UpdateStatus puts a job in progress.
LEMMA WorkBegins ==
  ASSUME IInv, Next, NEW b \in Bookings,
         row'[b].status = "in_progress", row[b].status # "in_progress"
  PROVE  \E r \in Requests :
           /\ reqs[r].at = "UpdateStatus" /\ reqs[r].b = b
           /\ reqs[r].to = "in_progress"
<1>1. /\ row \in [Bookings -> Row]
      /\ NewRow.status = "requested"
  BY DEF IInv, TypeOK, NewRow
<1>2. ASSUME NEW r \in Requests, Serve(r)
      PROVE  FALSE
  <2>1. row' = row \/ \E x \in Bookings : row' = [row EXCEPT ![x] = NewRow]
    BY <1>2 DEF Serve, Cancel, RaiseWarrantyClaim, Create, Accept, Reject,
                UpdateStatus, Complete, VerifyOTP, RespondToEstimate
  <2> QED
    BY <1>1, <2>1
<1>3. ASSUME NEW r \in Requests, DbUpdateStatus(r)
      PROVE  /\ reqs[r].at = "UpdateStatus" /\ reqs[r].b = b
             /\ reqs[r].to = "in_progress"
  <2>1. /\ reqs[r].at = "UpdateStatus"
        /\ row' = [row EXCEPT ![reqs[r].b].status = reqs[r].to]
    BY <1>3 DEF DbUpdateStatus, At
  <2>2. reqs[r].b = b
    BY <1>1, <2>1
  <2>3. row'[b].status = reqs[r].to
    BY <1>1, <2>1, <2>2 DEF Row
  <2> QED
    BY <2>1, <2>2, <2>3
<1>4. ASSUME NEW r \in Requests,
             DbAssignPendingTechnician(r) \/ DbAssignTechnician(r)
               \/ DbConfirmAssignment(r) \/ DbDecline(r)
      PROVE  FALSE
  <2>1. reqs[r].b \in Bookings
    BY <1>4, Running DEF DbAssignPendingTechnician, DbAssignTechnician,
                         DbConfirmAssignment, DbDecline, At, Statements
  <2>2. row'[b] = row[b] \/ row'[b].status # "in_progress"
    BY <1>1, <1>4, <2>1 DEF DbAssignPendingTechnician, DbAssignTechnician,
                            DbConfirmAssignment, DbDecline, Row
  <2> QED
    BY <2>2
<1>5. ASSUME NEW r \in Requests,
             DbStampOTP(r) \/ DbSetFinalPrice(r) \/ DbSetWarranty(r)
               \/ \E code \in Codes : DbSetOTP(r, code)
      PROVE  FALSE
  <2>1. reqs[r].b \in Bookings
    BY <1>5, Running
    DEF DbStampOTP, DbSetFinalPrice, DbSetWarranty, DbSetOTP, At, Statements
  <2>2. row[reqs[r].b] \in Row
    BY <1>1, <2>1
  <2>3. \E w \in Row : /\ row' = [row EXCEPT ![reqs[r].b] = w]
                      /\ w.status = row[reqs[r].b].status
    <3>1. ASSUME NEW code \in Codes, DbSetOTP(r, code)
          PROVE  \E w \in Row : /\ row' = [row EXCEPT ![reqs[r].b] = w]
                               /\ w.status = row[reqs[r].b].status
      BY <1>1, <2>2, <3>1 DEF DbSetOTP, Row
    <3>2. CASE DbStampOTP(r) \/ DbSetFinalPrice(r)
      BY <1>1, <2>2, <3>2 DEF DbStampOTP, DbSetFinalPrice, Row
    <3>3. CASE DbSetWarranty(r)
      BY <1>1, <2>2, <3>3 DEF DbSetWarranty, Row
    <3> QED
      BY <1>5, <3>1, <3>2, <3>3
  <2> QED
    BY <1>1, <2>1, <2>3
<1>6. ASSUME NEW r \in Requests, DbSetEstimateStatus(r) \/ Abort(r)
      PROVE  FALSE
  BY <1>6 DEF DbSetEstimateStatus, Abort
<1>7. ASSUME NEW r \in Requests, NEW new \in Bookings, DbCreateClaim(r, new)
      PROVE  FALSE
  BY <1>1, <1>7 DEF DbCreateClaim
<1>8. ASSUME NEW x \in Bookings, SubmitEstimate(x) \/ WarrantyExpires(x)
      PROVE  FALSE
  <2>1. row'[b].status = row[b].status
    BY <1>1, <1>8 DEF SubmitEstimate, WarrantyExpires, Row
  <2> QED
    BY <2>1
<1> QED
  BY <1>2, <1>3, <1>4, <1>5, <1>6, <1>7, <1>8 DEF Next, Execute

\* A job is put in progress by a technician's patch or on an estimate.
LEMMA WorkKept ==
  ASSUME IInv, Next
  PROVE  WorkAgreed'
<1> SUFFICES ASSUME NEW b \in Bookings, row'[b].status = "in_progress"
             PROVE  row'[b].tech # None \/ Estimated(b)'
  BY DEF WorkAgreed
<1>1. Held(b) \/ Estimated(b)
  <2>1. CASE row[b].status = "in_progress"
    BY <2>1 DEF IInv, WorkAgreed, Held, Settled, Pool
  <2>2. CASE row[b].status # "in_progress"
    BY <2>2, WorkBegins, Running DEF Statements, PendingWriteOK
  <2> QED
    BY <2>1, <2>2
<1> QED
  BY <1>1, Lasting, EstimatesLast DEF Held

\* A snapshot that passed UpdateStatus's checks for an on-site status is that
\* of a booking held by a technician.
LEMMA OnSiteSnapshot ==
  ASSUME NEW b \in Bookings, row[b] \in Row, RowOK(row[b]),
         NEW s \in OnSite,
         s = row[b].status \/ <<row[b].status, s>> \in validBookingTransitions
  PROVE  Held(b)
<1>1. row[b].status \in {"accepted"} \cup OnSite
  BY DEF validBookingTransitions, OnSite
<1> QED
  BY <1>1 DEF RowOK, Held, Settled, Pool, OnSite

\* One that passed them for "in_progress" has a technician or an estimate.
LEMMA WorkSnapshot ==
  ASSUME IInv, NEW b \in Bookings,
         row[b].status = "in_progress"
           \/ <<row[b].status, "in_progress">> \in validBookingTransitions
  PROVE  Held(b) \/ Estimated(b)
<1>1. RowOK(row[b]) /\ WorkAgreed
  BY DEF IInv
<1>2. row[b].status = "in_progress" \/ row[b].status \in OnSite
  BY DEF validBookingTransitions, OnSite
<1> QED
  BY <1>1, <1>2 DEF RowOK, WorkAgreed, Held, Settled, Pool, OnSite

\* A request just begun can rely on what its snapshot showed.
LEMMA BegunOK ==
  ASSUME IInv, NEW r \in Requests, Serve(r), reqs'[r] # Idle
  PROVE  PendingWriteOK(reqs[r])'
<1> USE DEF Begin, Call, OnSite
<1>1. /\ row \in [Bookings -> Row] /\ \A b \in Bookings : RowOK(row[b])
      /\ reqs \in [Requests -> Request \cup {Idle}]
  BY DEF IInv, TypeOK
<1>2. PICK b \in Bookings :
        \/ Cancel(r, b)
        \/ RaiseWarrantyClaim(r, b)
        \/ \E t \in Techs \cup {None} : Create(r, b, t)
        \/ \E t \in Techs : Accept(r, b, t) \/ Reject(r, b, t)
        \/ \E s \in PatchTargets : UpdateStatus(r, b, s)
        \/ \E covered \in BOOLEAN : Complete(r, b, covered)
        \/ \E code \in Codes : VerifyOTP(r, b, code)
        \/ \E to \in {"in_progress", "cancelled"} : RespondToEstimate(r, b, to)
  BY DEF Serve
<1>3. CASE Cancel(r, b)
  BY <1>1, <1>3 DEF Cancel, PendingWriteOK, Exists
<1>4. CASE RaiseWarrantyClaim(r, b)
  BY <1>1, <1>4 DEF RaiseWarrantyClaim, PendingWriteOK, Exists, RowOK
<1>5. ASSUME NEW t \in Techs \cup {None}, Create(r, b, t)
      PROVE  PendingWriteOK(reqs[r])'
  <2>1. /\ reqs'[r].at = "AssignPendingTechnician" /\ reqs'[r].b = b
    BY <1>1, <1>5 DEF Create
  <2>2. row'[b].status = "requested"
    BY <1>1, <1>5 DEF Create, NewRow
  <2> QED
    BY <2>1, <2>2 DEF PendingWriteOK, Exists
<1>6. ASSUME NEW t \in Techs, Accept(r, b, t) \/ Reject(r, b, t)
      PROVE  PendingWriteOK(reqs[r])'
  BY <1>1, <1>6 DEF Accept, Reject, PendingWriteOK, Exists
<1>7. ASSUME NEW s \in PatchTargets, UpdateStatus(r, b, s)
      PROVE  PendingWriteOK(reqs[r])'
  <2>1. /\ reqs'[r].at = "UpdateStatus" /\ reqs'[r].b = b /\ reqs'[r].to = s
        /\ row' = row /\ Exists(b)
    BY <1>1, <1>7 DEF UpdateStatus
  <2>2. s # "completed"
    BY PatchAssumption
  <2>3. s \in OnSite => Held(b)
    BY <1>1, <1>7, OnSiteSnapshot DEF UpdateStatus
  <2>4. s = "in_progress" => Held(b) \/ Estimated(b)
    BY <1>7, WorkSnapshot DEF UpdateStatus
  <2>5. estimate' = estimate
    BY <1>7 DEF UpdateStatus
  <2> QED
    BY <2>1, <2>2, <2>3, <2>4, <2>5
    DEF PendingWriteOK, Exists, Held, Settled, Estimated
<1>8. ASSUME NEW covered \in BOOLEAN, Complete(r, b, covered)
      PROVE  PendingWriteOK(reqs[r])'
  BY <1>1, <1>8 DEF Complete, PendingWriteOK, Exists
<1>9. ASSUME NEW code \in Codes, VerifyOTP(r, b, code)
      PROVE  PendingWriteOK(reqs[r])'
  <2>1. Held(b)
    BY <1>1, <1>9, NoneAssumption DEF VerifyOTP, RowOK, Held, Settled
  <2>2. /\ reqs'[r].at = "StampOTP" /\ reqs'[r].b = b
        /\ row' = row /\ Exists(b)
    BY <1>1, <1>9 DEF VerifyOTP
  <2> QED
    BY <2>1, <2>2 DEF PendingWriteOK, Exists, Held, Settled
<1>10. ASSUME NEW to \in {"in_progress", "cancelled"}, RespondToEstimate(r, b, to)
       PROVE  PendingWriteOK(reqs[r])'
  BY <1>1, <1>10 DEF RespondToEstimate, PendingWriteOK, Exists
<1> QED
  BY <1>2, <1>3, <1>4, <1>5, <1>6, <1>7, <1>8, <1>9, <1>10

\* A request that goes on to another method can rely on what it needs next.
LEMMA GoesOnOK ==
  ASSUME IInv, Next, NEW r \in Requests, Execute(r), reqs'[r] # Idle
  PROVE  PendingWriteOK(reqs[r])'
<1> USE DEF At
<1>1. row \in [Bookings -> Row] /\ reqs \in [Requests -> Request \cup {Idle}]
  BY DEF IInv, TypeOK
<1>2. ~Done(r)
  BY <1>1 DEF Done
<1>3. \/ DbUpdateStatus(r)
      \/ DbStampOTP(r)
      \/ DbSetFinalPrice(r)
      \/ DbSetWarranty(r)
      \/ DbSetEstimateStatus(r)
      \/ \E new \in Bookings : DbCreateClaim(r, new)
  BY <1>2 DEF Execute, DbAssignPendingTechnician, DbAssignTechnician,
              DbConfirmAssignment, DbDecline, DbSetOTP
<1>4. ASSUME NEW s \in Statements, Proceed(r, s), reqs[r].at \in Statements,
             NEW b \in Bookings, b = reqs[r].b
      PROVE  /\ reqs'[r].at = s /\ reqs'[r].b = b /\ reqs'[r].to = reqs[r].to
             /\ Carries(reqs[r]) /\ PendingWriteOK(reqs[r])
             /\ Exists(b)'
             /\ Held(b) => Held(b)'
             /\ row[b].priced => row'[b].priced
  <2>1. reqs[r] \in Request /\ Carries(reqs[r]) /\ PendingWriteOK(reqs[r])
    BY <1>4, Running
  <2>2. reqs'[r] = [reqs[r] EXCEPT !.at = s]
    BY <1>1, <1>4 DEF Proceed
  <2>3. reqs'[r].at = s /\ reqs'[r].b = b /\ reqs'[r].to = reqs[r].to
    BY <1>4, <2>1, <2>2 DEF Request
  <2>4. Exists(b)
    BY <1>4, <2>1 DEF PendingWriteOK
  <2> QED
    BY <2>1, <2>3, <2>4, Lasting
<1>5. CASE DbUpdateStatus(r)
  <2>1. reqs[r].at = "UpdateStatus" /\ reqs[r].to = "arrived" /\ Proceed(r, "SetOTP")
    BY <1>2, <1>5 DEF DbUpdateStatus
  <2>2. PICK b \in Bookings : b = reqs[r].b
    BY <2>1, Running DEF Statements
  <2> QED
    BY <1>4, <2>1, <2>2 DEF PendingWriteOK, OnSite, Statements
<1>6. CASE DbStampOTP(r)
  <2>1. reqs[r].at = "StampOTP" /\ Proceed(r, "UpdateStatus")
    BY <1>6 DEF DbStampOTP
  <2>2. PICK b \in Bookings : b = reqs[r].b
    BY <2>1, Running DEF Statements
  <2> QED
    BY <1>4, <2>1, <2>2 DEF PendingWriteOK, Carries, OnSite, Statements
<1>7. CASE DbSetFinalPrice(r)
  <2>1. reqs[r].at = "SetFinalPrice" /\ Proceed(r, "SetWarranty")
    BY <1>7 DEF DbSetFinalPrice
  <2>2. PICK b \in Bookings : b = reqs[r].b
    BY <2>1, Running DEF Statements
  <2>3. row'[b].priced
    BY <1>1, <1>7, <2>2 DEF DbSetFinalPrice, Row
  <2> QED
    BY <1>4, <2>1, <2>2, <2>3 DEF PendingWriteOK, Statements
<1>8. CASE DbSetWarranty(r)
  <2>1. reqs[r].at = "SetWarranty" /\ Proceed(r, "UpdateStatus")
    BY <1>8 DEF DbSetWarranty
  <2>2. PICK b \in Bookings : b = reqs[r].b
    BY <2>1, Running DEF Statements
  <2> QED
    BY <1>4, <2>1, <2>2 DEF PendingWriteOK, Carries, OnSite, Statements
<1>9. CASE DbSetEstimateStatus(r)
  <2>1. reqs[r].at = "SetEstimateStatus" /\ Proceed(r, "UpdateStatus")
    BY <1>2, <1>9 DEF DbSetEstimateStatus
  <2>2. PICK b \in Bookings : b = reqs[r].b
    BY <2>1, Running DEF Statements
  <2>3. Estimated(b)
    BY <1>2, <1>9, <2>2 DEF DbSetEstimateStatus, Estimated
  <2>4. Estimated(b)'
    BY <2>3, EstimatesLast
  <2> QED
    BY <1>4, <2>1, <2>2, <2>4 DEF PendingWriteOK, Carries, OnSite, Statements
<1>10. ASSUME NEW new \in Bookings, DbCreateClaim(r, new)
       PROVE  PendingWriteOK(reqs[r])'
  <2>1. reqs[r] \in Request
    BY <1>10, Running DEF DbCreateClaim, Statements
  <2>2. reqs'[r] = [reqs[r] EXCEPT !.at = "AssignTechnician", !.b = new]
    BY <1>1, <1>2, <1>10 DEF DbCreateClaim
  <2>3. reqs'[r].at = "AssignTechnician" /\ reqs'[r].b = new
    BY <2>1, <2>2 DEF Request
  <2>4. row'[new].status = "requested"
    BY <1>1, <1>10 DEF DbCreateClaim, NewRow
  <2> QED
    BY <2>3, <2>4 DEF PendingWriteOK, Exists
<1> QED
  BY <1>3, <1>5, <1>6, <1>7, <1>8, <1>9, <1>10

\* What each pending write relies on holds after every step, whoever takes it.
LEMMA PendingKept ==
  ASSUME IInv, Next, NEW x \in Requests, reqs'[x] # Idle
  PROVE  PendingWriteOK(reqs[x])'
<1>1. reqs \in [Requests -> Request \cup {Idle}]
  BY DEF IInv, TypeOK
<1>2. ASSUME reqs'[x] = reqs[x]
      PROVE  PendingWriteOK(reqs[x])'
  <2>1. reqs[x] \in Request /\ PendingWriteOK(reqs[x])
    BY <1>1, <1>2 DEF IInv
  <2>2. PICK b \in Bookings : b = reqs[x].b
    BY <2>1 DEF Request
  <2>3. /\ Exists(b) => Exists(b)'
        /\ Held(b) => Held(b)'
        /\ row[b].priced => row'[b].priced
        /\ Estimated(b) => Estimated(b)'
    BY Lasting, EstimatesLast
  <2> QED
    BY <1>2, <2>1, <2>2, <2>3 DEF PendingWriteOK
<1>3. ASSUME NEW r \in Requests, Serve(r), r # x
      PROVE  reqs'[x] = reqs[x]
  BY <1>1, <1>3 DEF Serve, Begin, Cancel, RaiseWarrantyClaim, Create, Accept,
                    Reject, UpdateStatus, Complete, VerifyOTP, RespondToEstimate
<1>4. ASSUME NEW r \in Requests, Execute(r) \/ Abort(r), r # x
      PROVE  reqs'[x] = reqs[x]
  BY <1>1, <1>4
  DEF Execute, Abort, Done, Proceed, DbAssignPendingTechnician,
      DbAssignTechnician, DbConfirmAssignment, DbDecline, DbUpdateStatus,
      DbSetOTP, DbStampOTP, DbSetFinalPrice, DbSetWarranty,
      DbSetEstimateStatus, DbCreateClaim
<1>5. CASE Serve(x)
  BY <1>5, BegunOK
<1>6. CASE Execute(x)
  BY <1>6, GoesOnOK
<1>7. CASE Abort(x)
  BY <1>1, <1>7 DEF Abort, Done
<1>8. ASSUME NEW b \in Bookings, SubmitEstimate(b) \/ WarrantyExpires(b)
      PROVE  reqs'[x] = reqs[x]
  BY <1>8 DEF SubmitEstimate, WarrantyExpires
<1> QED
  BY <1>2, <1>3, <1>4, <1>5, <1>6, <1>7, <1>8 DEF Next

\* A claim's original keeps its price, and only a completed one is claimed.
LEMMA ClaimsKept ==
  ASSUME IInv, Next
  PROVE  ClaimsInvoiced'
<1> SUFFICES ASSUME NEW b \in Bookings, origin'[b] # None
             PROVE  row'[origin'[b]].priced
  BY DEF ClaimsInvoiced
<1>1. /\ row \in [Bookings -> Row] /\ origin \in [Bookings -> Bookings \cup {None}]
      /\ ClaimsInvoiced
  BY DEF IInv, TypeOK
<1>2. CASE origin'[b] = origin[b]
  <2>1. origin[b] \in Bookings /\ row[origin[b]].priced
    BY <1>1, <1>2 DEF ClaimsInvoiced
  <2> QED
    BY <1>2, <2>1, Lasting
<1>3. ASSUME NEW r \in Requests, NEW new \in Bookings, DbCreateClaim(r, new)
      PROVE  row'[origin'[b]].priced
  <2>1. reqs[r].b \in Bookings /\ row[reqs[r].b].priced
    BY <1>3, Running DEF DbCreateClaim, At, Statements, PendingWriteOK
  <2>2. origin'[b] = origin[b] \/ origin'[b] = reqs[r].b
    BY <1>1, <1>3 DEF DbCreateClaim
  <2> QED
    BY <1>2, <2>1, <2>2, Lasting
<1>4. ASSUME NEW r \in Requests, Serve(r)
      PROVE  origin' = origin
  BY <1>4 DEF Serve, Cancel, RaiseWarrantyClaim, Create, Accept, Reject,
              UpdateStatus, Complete, VerifyOTP, RespondToEstimate
<1>5. ASSUME NEW r \in Requests, Execute(r) \/ Abort(r),
             ~ \E new \in Bookings : DbCreateClaim(r, new)
      PROVE  origin' = origin
  BY <1>5
  DEF Execute, Abort, DbAssignPendingTechnician, DbAssignTechnician,
      DbConfirmAssignment, DbDecline, DbUpdateStatus, DbSetOTP, DbStampOTP,
      DbSetFinalPrice, DbSetWarranty, DbSetEstimateStatus
<1>6. ASSUME NEW x \in Bookings, SubmitEstimate(x) \/ WarrantyExpires(x)
      PROVE  origin' = origin
  BY <1>6 DEF SubmitEstimate, WarrantyExpires
<1> QED
  BY <1>2, <1>3, <1>4, <1>5, <1>6 DEF Next

\* Whoever was told that the job is theirs keeps it: the guarded updates make
\* one technician the first, and Lasting keeps all others out from then on.
LEMMA WinnersKept ==
  ASSUME IInv, Next
  PROVE  WinnerHoldsJob'
<1> SUFFICES ASSUME NEW b \in Bookings, NEW t \in won'[b]
             PROVE  row'[b].tech = t /\ Settled(b)'
  BY DEF WinnerHoldsJob
<1>1. /\ row \in [Bookings -> Row] /\ won \in [Bookings -> SUBSET Techs]
      /\ WinnerHoldsJob
  BY DEF IInv, TypeOK
<1>2. CASE t \in won[b]
  BY <1>1, <1>2, Lasting DEF WinnerHoldsJob
<1>3. ASSUME NEW r \in Requests, DbAssignTechnician(r), t \notin won[b]
      PROVE  row'[b].tech = t /\ Settled(b)'
  <2>1. row[reqs[r].b].status = "requested" /\ b = reqs[r].b /\ t = reqs[r].t
    BY <1>1, <1>3 DEF DbAssignTechnician
  <2>2. row'[b].tech = t /\ row'[b].status = "accepted"
    BY <1>1, <1>3, <2>1 DEF DbAssignTechnician, Row
  <2> QED
    BY <2>2 DEF Settled, Pool
<1>4. ASSUME NEW r \in Requests, DbConfirmAssignment(r), t \notin won[b]
      PROVE  row'[b].tech = t /\ Settled(b)'
  <2>1. /\ row[b].status = "pending_technician" /\ row[b].tech = t
        /\ b = reqs[r].b
    BY <1>1, <1>4 DEF DbConfirmAssignment
  <2>2. row'[b].tech = t /\ row'[b].status = "accepted"
    BY <1>1, <1>4, <2>1 DEF DbConfirmAssignment, Row
  <2> QED
    BY <2>2 DEF Settled, Pool
<1>5. ASSUME NEW r \in Requests, Serve(r)
      PROVE  won' = won
  BY <1>5 DEF Serve, Cancel, RaiseWarrantyClaim, Create, Accept, Reject,
              UpdateStatus, Complete, VerifyOTP, RespondToEstimate
<1>6. ASSUME NEW r \in Requests, Execute(r) \/ Abort(r),
             ~DbAssignTechnician(r), ~DbConfirmAssignment(r)
      PROVE  won' = won
  BY <1>6
  DEF Execute, Abort, DbAssignPendingTechnician, DbDecline, DbUpdateStatus,
      DbSetOTP, DbStampOTP, DbSetFinalPrice, DbSetWarranty,
      DbSetEstimateStatus, DbCreateClaim
<1>7. ASSUME NEW x \in Bookings, SubmitEstimate(x) \/ WarrantyExpires(x)
      PROVE  won' = won
  BY <1>7 DEF SubmitEstimate, WarrantyExpires
<1> QED
  BY <1>2, <1>3, <1>4, <1>5, <1>6, <1>7 DEF Next

-----------------------------------------------------------------------------
(* The theorems.                                                             *)

\* The strengthening that makes the safety properties inductive is invariant.
THEOREM Invariance == Spec => []IInv
<1>1. Init => IInv
  <2> SUFFICES ASSUME Init PROVE IInv
    OBVIOUS
  <2>1. TypeOK
    BY InitType
  <2>2. RowOK([NewRow EXCEPT !.status = "absent"])
    BY DEF RowOK, NewRow, OnSite, Pool
  <2>3. ClaimsInvoiced /\ WinnerHoldsJob
    BY DEF Init, ClaimsInvoiced, WinnerHoldsJob
  <2>4. WorkAgreed
    BY DEF Init, WorkAgreed, NewRow
  <2> QED
    BY <2>1, <2>2, <2>3, <2>4 DEF Init, IInv
<1>2. IInv /\ [Next]_vars => IInv'
  <2> SUFFICES ASSUME IInv, [Next]_vars PROVE IInv'
    OBVIOUS
  <2>1. CASE UNCHANGED vars
    BY <2>1 DEF vars, IInv, TypeOK, PendingWriteOK, Exists, Held, Settled,
                ClaimsInvoiced, WorkAgreed, Estimated, WinnerHoldsJob
  <2>2. CASE Next
    <3>1. TypeOK'
      BY <2>2, ServeType, ExecuteType, OtherType DEF Next, IInv
    <3>2. \A b \in Bookings : RowOK(row'[b])
      BY <2>2, Lasting
    <3>3. \A r \in Requests : reqs'[r] # Idle => PendingWriteOK(reqs[r])'
      BY <2>2, PendingKept
    <3> QED
      BY <2>2, <3>1, <3>2, <3>3, ClaimsKept, WorkKept, WinnersKept DEF IInv
  <2> QED
    BY <2>1, <2>2
<1> QED
  BY <1>1, <1>2, PTL DEF Spec

\* No double booking: a technician whose Accept was answered with success holds
\* the booking ever after, for any number of technicians and requests.
THEOREM NoDoubleBooking == Spec => []WinnerHoldsJob
<1>1. IInv => WinnerHoldsJob
  BY DEF IInv
<1> QED
  BY <1>1, Invariance, PTL

\* On-site statuses are shown only for bookings that have a technician, and
\* a job is in progress without one only if an estimate was submitted for it.
THEOREM FieldWork == Spec => []FieldWorkHasTechnician
<1>1. IInv => FieldWorkHasTechnician
  BY DEF IInv, RowOK, WorkAgreed, FieldWorkHasTechnician
<1> QED
  BY <1>1, Invariance, PTL

\* Completed and claimed bookings have a final price, wherever Complete's
\* three writes are cut off.
THEOREM Invoiced == Spec => []CompletedIsInvoiced
<1>1. IInv => CompletedIsInvoiced
  BY DEF IInv, RowOK, ClaimsInvoiced, CompletedIsInvoiced
<1> QED
  BY <1>1, Invariance, PTL

\* A booking that has left the pool never returns and never changes hands.
THEOREM Bound == Spec => TechnicianBound
<1>1. IInv /\ [Next]_vars =>
        [\A b \in Bookings :
           Settled(b) => Settled(b)' /\ row'[b].tech = row[b].tech]_vars
  BY Lasting
<1> QED
  BY <1>1, Invariance, PTL DEF Spec, TechnicianBound

\* The backend, with all its interleavings and cut-offs, implements the
\* abstract assignment of jobs.
THEOREM Implementation == Spec => ImplementsAssignment
<1> DEFINE phaseBar == [b \in Bookings |-> PhaseOf(row[b])]
           holderBar == [b \in Bookings |-> row[b].tech]
<1>1. Init => Assignment!Init
  <2>1. PhaseOf([NewRow EXCEPT !.status = "absent"]) = "absent"
    BY DEF PhaseOf, NewRow
  <2>2. [NewRow EXCEPT !.status = "absent"].tech = None
    BY DEF NewRow
  <2> QED
    BY <2>1, <2>2 DEF Init, Assignment!Init
<1>2. IInv /\ [Next]_vars => [Assignment!Next]_(Assignment!vars)
  <2> SUFFICES ASSUME IInv, [Next]_vars,
                      ~ UNCHANGED <<phaseBar, holderBar>>
               PROVE  Assignment!Next
    BY DEF Assignment!vars
  <2>1. Next
    BY DEF vars
  <2>2. PICK b \in Bookings, w \in Row :
          row' = [row EXCEPT ![b] = w] /\ Legal(row[b], w)
    BY <2>1, RowStep
  <2>3. row \in [Bookings -> Row]
    BY DEF IInv, TypeOK
  <2>4. /\ phaseBar' = [phaseBar EXCEPT ![b] = PhaseOf(w)]
        /\ holderBar' = [holderBar EXCEPT ![b] = w.tech]
    BY <2>2, <2>3
  <2>5. phaseBar[b] = PhaseOf(row[b]) /\ holderBar[b] = row[b].tech
    OBVIOUS
  <2>6. Moves(row[b], w)
    BY <2>2 DEF Legal
  <2>7. /\ phaseBar \in [Bookings -> {PhaseOf(row[x]) : x \in Bookings}]
        /\ holderBar \in [Bookings -> {row[x].tech : x \in Bookings}]
    OBVIOUS
  <2> DEFINE p == phaseBar
             h == holderBar
  <2>8. ~ (PhaseOf(w) = p[b] /\ w.tech = h[b])
    BY <2>4, <2>5, <2>7
  <2> HIDE DEF phaseBar, holderBar
  <2>9. w.tech = h[b] => holderBar' = holderBar
    BY <2>4, <2>5, <2>7
  <2>10. CASE p[b] = "absent" /\ PhaseOf(w) = "open" /\ w.tech = h[b]
    <3>1. Assignment!Post(b)
      BY <2>4, <2>9, <2>10 DEF Assignment!Post, phaseBar, holderBar
    <3> QED
      BY <3>1 DEF Assignment!Next
  <2>11. CASE p[b] = "open" /\ PhaseOf(w) = "offered" /\ w.tech \in Techs
    <3>1. Assignment!Offer(b, w.tech)
      BY <2>4, <2>11 DEF Assignment!Offer, phaseBar, holderBar
    <3> QED
      BY <2>11, <3>1 DEF Assignment!Next
  <2>12. CASE p[b] = "offered" /\ PhaseOf(w) = "open" /\ w.tech = None
    <3>1. Assignment!Return(b)
      BY <2>4, <2>12 DEF Assignment!Return, phaseBar, holderBar
    <3> QED
      BY <3>1 DEF Assignment!Next
  <2>13. CASE p[b] = "open" /\ PhaseOf(w) = "settled" /\ w.tech \in Techs
    <3>1. Assignment!Take(b, w.tech)
      BY <2>4, <2>13 DEF Assignment!Take, phaseBar, holderBar
    <3> QED
      BY <2>13, <3>1 DEF Assignment!Next
  <2>14. CASE p[b] \in {"open", "offered"} /\ PhaseOf(w) = "settled" /\ w.tech = h[b]
    <3>1. Assignment!Settle(b)
      BY <2>4, <2>9, <2>14 DEF Assignment!Settle, phaseBar, holderBar
    <3> QED
      BY <3>1 DEF Assignment!Next
  <2> QED
    BY <2>5, <2>6, <2>8, <2>10, <2>11, <2>12, <2>13, <2>14 DEF Moves
<1> QED
  BY <1>1, <1>2, Invariance, PTL
  DEF Spec, ImplementsAssignment, Assignment!Spec

\* Serving a request takes an idle slot, and stores a new booking or nothing.
LEMMA ServeFrame ==
  ASSUME NEW r \in Requests, Serve(r)
  PROVE  /\ row' = row \/ \E x \in Bookings : row' = [row EXCEPT ![x] = NewRow]
         /\ reqs[r] = Idle /\ \E q : reqs' = [reqs EXCEPT ![r] = q]
<1>1. PICK b \in Bookings :
        \/ Cancel(r, b)
        \/ RaiseWarrantyClaim(r, b)
        \/ \E t \in Techs \cup {None} : Create(r, b, t)
        \/ \E t \in Techs : Accept(r, b, t) \/ Reject(r, b, t)
        \/ \E s \in PatchTargets : UpdateStatus(r, b, s)
        \/ \E covered \in BOOLEAN : Complete(r, b, covered)
        \/ \E code \in Codes : VerifyOTP(r, b, code)
        \/ \E to \in {"in_progress", "cancelled"} : RespondToEstimate(r, b, to)
  BY DEF Serve
<1>2. ASSUME NEW t \in Techs \cup {None}, Create(r, b, t)
      PROVE  /\ row' = [row EXCEPT ![b] = NewRow]
             /\ reqs[r] = Idle /\ \E q : reqs' = [reqs EXCEPT ![r] = q]
  BY <1>2 DEF Create, Begin
<1>3. ASSUME NEW t \in Techs, Accept(r, b, t) \/ Reject(r, b, t)
      PROVE  /\ row' = row
             /\ reqs[r] = Idle /\ \E q : reqs' = [reqs EXCEPT ![r] = q]
  BY <1>3 DEF Accept, Reject, Begin
<1>4. ASSUME Cancel(r, b) \/ RaiseWarrantyClaim(r, b)
      PROVE  /\ row' = row
             /\ reqs[r] = Idle /\ \E q : reqs' = [reqs EXCEPT ![r] = q]
  BY <1>4 DEF Cancel, RaiseWarrantyClaim, Begin
<1>5. ASSUME NEW s \in PatchTargets, UpdateStatus(r, b, s)
      PROVE  /\ row' = row
             /\ reqs[r] = Idle /\ \E q : reqs' = [reqs EXCEPT ![r] = q]
  BY <1>5 DEF UpdateStatus, Begin
<1>6. ASSUME NEW covered \in BOOLEAN, Complete(r, b, covered)
      PROVE  /\ row' = row
             /\ reqs[r] = Idle /\ \E q : reqs' = [reqs EXCEPT ![r] = q]
  BY <1>6 DEF Complete, Begin
<1>7. ASSUME NEW code \in Codes, VerifyOTP(r, b, code)
      PROVE  /\ row' = row
             /\ reqs[r] = Idle /\ \E q : reqs' = [reqs EXCEPT ![r] = q]
  BY <1>7 DEF VerifyOTP, Begin
<1>8. ASSUME NEW to \in {"in_progress", "cancelled"}, RespondToEstimate(r, b, to)
      PROVE  /\ row' = row
             /\ reqs[r] = Idle /\ \E q : reqs' = [reqs EXCEPT ![r] = q]
  BY <1>8 DEF RespondToEstimate, Begin
<1> QED
  BY <1>1, <1>2, <1>3, <1>4, <1>5, <1>6, <1>7, <1>8

\* A handler changes no slot but its own.
LEMMA OwnSlot ==
  ASSUME TypeOK, NEW r \in Requests, Serve(r) \/ Execute(r)
  PROVE  \A x \in Requests \ {r} : reqs'[x] = reqs[x]
<1>1. reqs \in [Requests -> Request \cup {Idle}]
  BY DEF TypeOK
<1>2. CASE Serve(r)
  BY <1>1, <1>2, ServeFrame
<1>3. CASE Execute(r)
  BY <1>1, <1>3 DEF Execute, DbAssignPendingTechnician, DbAssignTechnician,
       DbConfirmAssignment, DbDecline, DbUpdateStatus, DbSetOTP, DbStampOTP,
       DbSetFinalPrice, DbSetWarranty, DbSetEstimateStatus, DbCreateClaim,
       Proceed, Done
<1> QED
  BY <1>2, <1>3

\* Which rows a step can turn into an arrived row without a code: none but the
\* one whose status it writes, and that handler goes on to store the code.
LEMMA CodeComes ==
  ASSUME IInv, NEW r \in Requests, Serve(r) \/ Execute(r), NEW b \in Bookings,
         row'[b].status = "arrived", row'[b].otp = None,
         ~(row[b].status = "arrived" /\ row[b].otp = None)
  PROVE  At(r, "SetOTP")' /\ reqs'[r].b = b
<1>1. /\ row \in [Bookings -> Row] /\ reqs \in [Requests -> Request \cup {Idle}]
      /\ NewRow.status = "requested" /\ None \notin Codes
  BY NoneAssumption DEF IInv, TypeOK, NewRow
<1>2. CASE Serve(r)
  BY <1>1, <1>2, ServeFrame
<1>3. CASE DbUpdateStatus(r)
  <2>1. /\ reqs[r] \in Request /\ reqs[r].b \in Bookings
        /\ row' = [row EXCEPT ![reqs[r].b].status = reqs[r].to]
    BY <1>3, Running DEF DbUpdateStatus, At, Statements
  <2>2. reqs[r].b = b /\ reqs[r].to = "arrived"
    BY <1>1, <2>1 DEF Row
  <2>3. reqs' = [reqs EXCEPT ![r].at = "SetOTP"]
    BY <1>3, <2>2 DEF DbUpdateStatus, Proceed
  <2> QED
    BY <1>1, <2>1, <2>2, <2>3 DEF At, Request
\* No other statement writes "arrived", and none clears a code.
<1>4. CASE DbAssignPendingTechnician(r) \/ DbAssignTechnician(r)
             \/ DbConfirmAssignment(r) \/ DbDecline(r)
  <2>1. reqs[r].b \in Bookings
    BY <1>4, Running DEF DbAssignPendingTechnician, DbAssignTechnician,
                         DbConfirmAssignment, DbDecline, At, Statements
  <2>2. row'[b] = row[b] \/ row'[b].status # "arrived"
    BY <1>1, <1>4, <2>1 DEF DbAssignPendingTechnician, DbAssignTechnician,
                            DbConfirmAssignment, DbDecline, Row
  <2> QED
    BY <2>2
<1>5. ASSUME NEW code \in Codes, DbSetOTP(r, code)
      PROVE  FALSE
  <2>1. reqs[r].b \in Bookings
    BY <1>5, Running DEF DbSetOTP, At, Statements
  <2>2. row'[b] = row[b] \/ row'[b].otp = code
    BY <1>1, <1>5, <2>1 DEF DbSetOTP, Row
  <2> QED
    BY <1>1, <2>2
<1>6. CASE DbStampOTP(r) \/ DbSetFinalPrice(r) \/ DbSetWarranty(r)
  <2>1. reqs[r].b \in Bookings
    BY <1>6, Running DEF DbStampOTP, DbSetFinalPrice, DbSetWarranty, At, Statements
  <2>2. row'[b].status = row[b].status /\ row'[b].otp = row[b].otp
    BY <1>1, <1>6, <2>1 DEF DbStampOTP, DbSetFinalPrice, DbSetWarranty, Row
  <2> QED
    BY <2>2
<1>7. CASE DbSetEstimateStatus(r)
  BY <1>7 DEF DbSetEstimateStatus
<1>8. ASSUME NEW new \in Bookings, DbCreateClaim(r, new)
      PROVE  FALSE
  BY <1>1, <1>8 DEF DbCreateClaim
<1> QED
  BY <1>2, <1>3, <1>4, <1>5, <1>6, <1>7, <1>8 DEF Execute

\* A handler about to store a code stays about to, or it stores one.
LEMMA CodeStillComes ==
  ASSUME IInv, NEW r \in Requests, Serve(r) \/ Execute(r),
         NEW s \in Requests, At(s, "SetOTP"), row'[reqs[s].b].otp = None
  PROVE  At(s, "SetOTP")' /\ reqs'[s].b = reqs[s].b
<1>1. /\ row \in [Bookings -> Row] /\ reqs \in [Requests -> Request \cup {Idle}]
      /\ None \notin Codes /\ reqs[s] # Idle
  BY NoneAssumption DEF IInv, TypeOK, At, Idle
<1>2. reqs[s].b \in Bookings
  BY Running DEF At, Statements
<1>3. \A x \in Requests \ {r} : reqs'[x] = reqs[x]
  BY OwnSlot DEF IInv
<1>4. CASE s # r
  BY <1>3, <1>4 DEF At
<1>5. CASE s = r
  <2>1. ~Serve(r)
    BY <1>1, <1>5, ServeFrame
  <2>2. PICK code \in Codes : DbSetOTP(r, code)
    BY <1>5, <2>1 DEF Execute, At, DbAssignPendingTechnician,
         DbAssignTechnician, DbConfirmAssignment, DbDecline, DbUpdateStatus,
         DbStampOTP, DbSetFinalPrice, DbSetWarranty, DbSetEstimateStatus,
         DbCreateClaim
  <2>3. row'[reqs[s].b].otp = code
    BY <1>1, <1>2, <1>5, <2>2 DEF DbSetOTP, Row
  <2> QED
    BY <1>1, <2>3
<1> QED
  BY <1>4, <1>5

\* Unless handlers are cut off, a booking shown as arrived has a code or a
\* handler about to store one (booking_service.go writes the status first).
THEOREM ArrivalsHaveCodes ==
  ASSUME MayAbort = FALSE
  PROVE  Spec => []ArrivedHasCode
<1>1. Init => ArrivedHasCode
  BY DEF Init, ArrivedHasCode, NewRow
<1>2. IInv /\ ArrivedHasCode /\ [Next]_vars => ArrivedHasCode'
  <2> SUFFICES ASSUME IInv, ArrivedHasCode, [Next]_vars, NEW b \in Bookings,
                      row'[b].status = "arrived", row'[b].otp = None
               PROVE  \E s \in Requests : At(s, "SetOTP")' /\ reqs'[s].b = b
    BY DEF ArrivedHasCode, At
  <2>1. CASE row[b].status = "arrived" /\ row[b].otp = None
    <3>1. PICK s \in Requests : At(s, "SetOTP") /\ reqs[s].b = b
      BY <2>1 DEF ArrivedHasCode
    <3>2. CASE \E r \in Requests : Serve(r) \/ Execute(r)
      BY <3>1, <3>2, CodeStillComes
    <3>3. CASE UNCHANGED reqs
      BY <3>1, <3>3 DEF At
    <3> QED
      BY <3>2, <3>3 DEF Next, Abort, SubmitEstimate, WarrantyExpires, vars
  <2>2. CASE ~(row[b].status = "arrived" /\ row[b].otp = None)
    <3>1. CASE \E r \in Requests : Serve(r) \/ Execute(r)
      BY <2>2, <3>1, CodeComes
    <3>2. ASSUME NEW x \in Bookings, WarrantyExpires(x)
          PROVE  FALSE
      <4>1. row \in [Bookings -> Row]
        BY DEF IInv, TypeOK
      <4> QED
        BY <2>2, <3>2, <4>1 DEF WarrantyExpires, Row
    <3>3. CASE UNCHANGED row
      BY <2>2, <3>3
    <3> QED
      BY <3>1, <3>2, <3>3 DEF Next, Abort, SubmitEstimate, vars
  <2> QED
    BY <2>1, <2>2
<1> QED
  BY <1>1, <1>2, Invariance, PTL DEF Spec
=============================================================================
