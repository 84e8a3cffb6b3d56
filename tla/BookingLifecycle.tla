--------------------------- MODULE BookingLifecycle ---------------------------
(***************************************************************************)
(* The life of a booking: BookingService (internal/service) over           *)
(* BookingRepository (internal/repository).                                *)
(*                                                                         *)
(* Every request is served by a goroutine of its own.  A handler first     *)
(* reads the booking and validates the call against that snapshot, then    *)
(* runs one or more repository methods, each of which commits by itself.   *)
(* So a request here is a slot of reqs that names the repository method    *)
(* its handler runs next; the service's methods are the actions that take  *)
(* a slot, the repository's methods (prefixed Db) the actions that use one *)
(* up.  Between any two of them every other request may move, and the      *)
(* request itself may be cut off: the client goes away and cancels the     *)
(* request's context, a statement fails, or the process dies.              *)
(***************************************************************************)
EXTENDS Naturals

CONSTANTS
  Bookings,       \* primary keys of the table bookings
  Techs,          \* technicians
  Requests,       \* slots for requests served at the same time
  Codes,          \* arrival codes generateOTP may draw
  None,           \* NULL
  Endpoints,      \* the endpoints this instance's clients call
  PatchTargets,   \* the statuses the app sends to PATCH /bookings/:id/status
  MayAbort,       \* whether a handler may be cut off between two statements
  MaxRevisions    \* bound: submissions of an estimate per booking

Statuses ==
  {"requested", "pending_technician", "accepted", "on_the_way", "arrived",
   "inspecting", "awaiting_estimate_approval", "in_progress",
   "repair_in_progress", "completed", "cancelled"}

ASSUME NoneAssumption == None \notin Techs \cup Codes \cup Bookings

\* The API takes any status; the Flutter app sends "on_the_way" and "arrived".
\* What matters below is only that no client patches a booking back into the
\* pool, to "accepted" (POST /accept does that) or to "completed" (POST
\* /complete does).
ASSUME PatchAssumption ==
  PatchTargets \subseteq
    Statuses \ {"requested", "pending_technician", "accepted", "completed"}

ASSUME BoundAssumption == MaxRevisions \in Nat /\ MayAbort \in BOOLEAN

VARIABLES
  row,         \* table bookings
  estimate,    \* table booking_estimates: the one estimate of each booking
  reqs,        \* the requests being served
  won,         \* history: technicians told that they have the booking
  origin,      \* history: the booking a warranty claim was raised against
  decidedOn    \* history: the revision the customer's last decision was about

vars == <<row, estimate, reqs, won, origin, decidedOn>>

Row == [status : Statuses \cup {"absent"}, tech : Techs \cup {None},
        otp : Codes \cup {None}, verified : BOOLEAN, priced : BOOLEAN,
        warranty : {"none", "active", "expired"}, claim : BOOLEAN]

Estimate == [status : {"none", "pending", "approved", "declined"},
             revision : 0 .. MaxRevisions]

\* The repository methods a handler may have left to run.
Statements ==
  {"AssignPendingTechnician", "AssignTechnician", "ConfirmAssignment",
   "Decline", "UpdateStatus", "SetOTP", "SetFinalPrice", "SetWarranty",
   "StampOTP", "SetEstimateStatus", "CreateClaim"}

\* at: the method to run next; b, t: the booking and the technician it is
\* about; to: the status UpdateStatus writes; covered: whether the technician
\* offers a warranty; saw: the revision of the estimate the customer read.
Request == [at : Statements, b : Bookings, t : Techs \cup {None},
            to : Statuses \cup {None}, covered : BOOLEAN,
            saw : 0 .. MaxRevisions]

Idle == [at |-> "idle"]

\* What a request must carry for the method it runs next.
Carries(q) ==
  /\ q.at \in {"AssignPendingTechnician", "AssignTechnician",
               "ConfirmAssignment", "Decline"} => q.t \in Techs
  /\ q.at = "UpdateStatus" =>
       q.to \in Statuses \ {"requested", "pending_technician", "accepted"}
  /\ q.at = "SetOTP" => q.to = "arrived"
  /\ q.at = "StampOTP" => q.to = "inspecting"
  /\ q.at \in {"SetFinalPrice", "SetWarranty"} => q.to = "completed"
  /\ q.at = "SetEstimateStatus" => q.to \in {"in_progress", "cancelled"}

TypeOK ==
  /\ row \in [Bookings -> Row]
  /\ estimate \in [Bookings -> Estimate]
  /\ reqs \in [Requests -> Request \cup {Idle}]
  /\ \A r \in Requests : Carries(reqs[r])
  /\ won \in [Bookings -> SUBSET Techs]
  /\ origin \in [Bookings -> Bookings \cup {None}]
  /\ decidedOn \in [Bookings -> 0 .. MaxRevisions]

\* What the INSERT of BookingRepository.Create stores.  It names neither
\* is_warranty_claim nor warranty_claim_of, so a claim's row has the defaults.
NewRow == [status |-> "requested", tech |-> None, otp |-> None,
           verified |-> FALSE, priced |-> FALSE, warranty |-> "none",
           claim |-> FALSE]

Init ==
  /\ row = [b \in Bookings |-> [NewRow EXCEPT !.status = "absent"]]
  /\ estimate = [b \in Bookings |-> [status |-> "none", revision |-> 0]]
  /\ reqs = [r \in Requests |-> Idle]
  /\ won = [b \in Bookings |-> {}]
  /\ origin = [b \in Bookings |-> None]
  /\ decidedOn = [b \in Bookings |-> 0]

Exists(b) == row[b].status # "absent"

\* The state machine UpdateStatus enforces.  Completed and cancelled have no
\* way out.
validBookingTransitions ==
  ({"requested"} \X {"pending_technician", "accepted", "cancelled"})
  \cup ({"pending_technician"} \X {"accepted", "requested", "cancelled"})
  \cup ({"accepted"} \X {"on_the_way", "cancelled"})
  \cup ({"on_the_way"} \X {"arrived", "cancelled"})
  \cup ({"arrived"} \X {"inspecting", "cancelled"})
  \cup ({"inspecting"} \X {"awaiting_estimate_approval", "in_progress",
                           "repair_in_progress", "cancelled"})
  \cup ({"awaiting_estimate_approval"} \X
          {"in_progress", "repair_in_progress", "cancelled"})
  \cup ({"in_progress", "repair_in_progress"} \X {"completed", "cancelled"})

Call(at, b) == [at |-> at, b |-> b, t |-> None, to |-> None,
                covered |-> FALSE, saw |-> 0]

\* A client calls endpoint e and its handler is left with q to do.
Begin(r, e, q) ==
  /\ e \in Endpoints
  /\ reqs[r] = Idle
  /\ reqs' = [reqs EXCEPT ![r] = q]

\* The handler of r is about to run repository method s.
At(r, s) == reqs[r].at = s

Proceed(r, s) == reqs' = [reqs EXCEPT ![r].at = s]

Done(r) == reqs' = [reqs EXCEPT ![r] = Idle]

-----------------------------------------------------------------------------
(* The service's methods.  Each checks the snapshot it read and leaves the   *)
(* request with its first repository method; a check that fails answers an   *)
(* error and changes nothing.                                                *)

\* The booking is stored first; only then is it offered to the technician the
\* customer picked, if any.
Create(r, b, t) ==
  /\ ~Exists(b)
  /\ row' = [row EXCEPT ![b] = NewRow]
  /\ Begin(r, "Create",
           IF t = None THEN Idle
           ELSE [Call("AssignPendingTechnician", b) EXCEPT !.t = t])
  /\ UNCHANGED <<estimate, won, origin, decidedOn>>

\* An open job is assigned, an offered one confirmed.
Accept(r, b, t) ==
  /\ \/ /\ row[b].status = "requested"
        /\ Begin(r, "Accept", [Call("AssignTechnician", b) EXCEPT !.t = t])
     \/ /\ row[b].status = "pending_technician"
        /\ row[b].tech = t
        /\ Begin(r, "Accept", [Call("ConfirmAssignment", b) EXCEPT !.t = t])
  /\ UNCHANGED <<row, estimate, won, origin, decidedOn>>

Reject(r, b, t) ==
  /\ Exists(b)
  /\ row[b].tech = t
  /\ Begin(r, "Reject", [Call("Decline", b) EXCEPT !.t = t])
  /\ UNCHANGED <<row, estimate, won, origin, decidedOn>>

\* Mutant of UpdateStatus: does not consult validBookingTransitions.
UpdateStatusUnchecked(r, b, s) ==
  /\ Exists(b)
  /\ Begin(r, "UpdateStatus", [Call("UpdateStatus", b) EXCEPT !.to = s])
  /\ UNCHANGED <<row, estimate, won, origin, decidedOn>>

UpdateStatus(r, b, s) ==
  /\ Exists(b)
  /\ s = row[b].status \/ <<row[b].status, s>> \in validBookingTransitions
  /\ Begin(r, "UpdateStatus", [Call("UpdateStatus", b) EXCEPT !.to = s])
  /\ UNCHANGED <<row, estimate, won, origin, decidedOn>>

\* Mutant of Complete: forgets to store the final price.
CompleteWithoutPrice(r, b, covered) ==
  /\ Exists(b)
  /\ Begin(r, "Complete", [Call("SetWarranty", b) EXCEPT
                             !.to = "completed", !.covered = covered])
  /\ UNCHANGED <<row, estimate, won, origin, decidedOn>>

\* The only thing checked about the booking is that it exists.
Complete(r, b, covered) ==
  /\ Exists(b)
  /\ Begin(r, "Complete", [Call("SetFinalPrice", b) EXCEPT
                             !.to = "completed", !.covered = covered])
  /\ UNCHANGED <<row, estimate, won, origin, decidedOn>>

Cancel(r, b) ==
  /\ Exists(b)
  /\ row[b].status \notin {"completed", "cancelled"}
  /\ Begin(r, "Cancel", [Call("UpdateStatus", b) EXCEPT !.to = "cancelled"])
  /\ UNCHANGED <<row, estimate, won, origin, decidedOn>>

\* The stored code is read and compared; neither the booking's status nor
\* an earlier verification is looked at.
VerifyOTP(r, b, code) ==
  /\ Exists(b)
  /\ row[b].otp = code
  /\ Begin(r, "VerifyOTP", [Call("StampOTP", b) EXCEPT !.to = "inspecting"])
  /\ UNCHANGED <<row, estimate, won, origin, decidedOn>>

\* The customer's answer is about the revision of the estimate on screen, at
\* best the one current when the call arrives, but does not say so.
RespondToEstimate(r, b, to) ==
  /\ Exists(b)
  /\ Begin(r, "RespondToEstimate",
           [Call("SetEstimateStatus", b) EXCEPT
              !.to = to, !.saw = estimate[b].revision])
  /\ UNCHANGED <<row, estimate, won, origin, decidedOn>>

\* A claim against a completed booking under warranty, not itself a claim.
RaiseWarrantyClaim(r, b) ==
  /\ row[b].status = "completed"
  /\ ~row[b].claim
  /\ row[b].warranty = "active"
  /\ Begin(r, "RaiseWarrantyClaim",
           [Call("CreateClaim", b) EXCEPT !.t = row[b].tech])
  /\ UNCHANGED <<row, estimate, won, origin, decidedOn>>

\* One transaction: insert or replace the estimate, pending again.
SubmitEstimate(b) ==
  /\ "SubmitEstimate" \in Endpoints
  /\ Exists(b)
  /\ estimate[b].revision < MaxRevisions
  /\ estimate' = [estimate EXCEPT
                    ![b] = [status |-> "pending", revision |-> @.revision + 1]]
  /\ UNCHANGED <<row, reqs, won, origin, decidedOn>>

-----------------------------------------------------------------------------
(* The repository's methods, one committed transaction each.                 *)

\* Mutant of DbAssignPendingTechnician: the UPDATE has no WHERE status clause.
DbAssignPendingUnguarded(r) ==
  /\ At(r, "AssignPendingTechnician")
  /\ row' = [row EXCEPT ![reqs[r].b].tech = reqs[r].t,
                        ![reqs[r].b].status = "pending_technician"]
  /\ Done(r)
  /\ UNCHANGED <<estimate, won, origin, decidedOn>>

\* Four methods are an UPDATE guarded by a WHERE clause; no row updated means
\* ErrBookingAlreadyAssigned, which ends the request.
DbAssignPendingTechnician(r) ==
  /\ At(r, "AssignPendingTechnician")
  /\ LET b == reqs[r].b IN
       row' = IF row[b].status = "requested"
              THEN [row EXCEPT ![b].tech = reqs[r].t,
                               ![b].status = "pending_technician"]
              ELSE row
  /\ Done(r)
  /\ UNCHANGED <<estimate, won, origin, decidedOn>>

\* Mutant of DbAssignTechnician: the UPDATE has no WHERE status clause.
DbAssignUnguarded(r) ==
  /\ At(r, "AssignTechnician")
  /\ row' = [row EXCEPT ![reqs[r].b].tech = reqs[r].t,
                        ![reqs[r].b].status = "accepted"]
  /\ won' = [won EXCEPT ![reqs[r].b] = @ \cup {reqs[r].t}]
  /\ Done(r)
  /\ UNCHANGED <<estimate, origin, decidedOn>>

DbAssignTechnician(r) ==
  /\ At(r, "AssignTechnician")
  /\ LET b == reqs[r].b
         t == reqs[r].t
     IN IF row[b].status = "requested"
        THEN /\ row' = [row EXCEPT ![b].tech = t, ![b].status = "accepted"]
             /\ won' = [won EXCEPT ![b] = @ \cup {t}]
        ELSE UNCHANGED <<row, won>>
  /\ Done(r)
  /\ UNCHANGED <<estimate, origin, decidedOn>>

DbConfirmAssignment(r) ==
  /\ At(r, "ConfirmAssignment")
  /\ LET b == reqs[r].b
         t == reqs[r].t
     IN IF row[b].status = "pending_technician" /\ row[b].tech = t
        THEN /\ row' = [row EXCEPT ![b].status = "accepted"]
             /\ won' = [won EXCEPT ![b] = @ \cup {t}]
        ELSE UNCHANGED <<row, won>>
  /\ Done(r)
  /\ UNCHANGED <<estimate, origin, decidedOn>>

\* Mutant of DbDecline: the UPDATE checks the technician but not the status.
DbDeclineAnyStatus(r) ==
  /\ At(r, "Decline")
  /\ LET b == reqs[r].b IN
       row' = IF row[b].tech = reqs[r].t
              THEN [row EXCEPT ![b].tech = None, ![b].status = "requested"]
              ELSE row
  /\ Done(r)
  /\ UNCHANGED <<estimate, won, origin, decidedOn>>

DbDecline(r) ==
  /\ At(r, "Decline")
  /\ LET b == reqs[r].b IN
       row' = IF /\ row[b].tech = reqs[r].t
                 /\ row[b].status \in {"requested", "pending_technician"}
              THEN [row EXCEPT ![b].tech = None, ![b].status = "requested"]
              ELSE row
  /\ Done(r)
  /\ UNCHANGED <<estimate, won, origin, decidedOn>>

\* Mutant of DbUpdateStatus: an arrival issues no code.
DbUpdateStatusNoCode(r) ==
  /\ At(r, "UpdateStatus")
  /\ row' = [row EXCEPT ![reqs[r].b].status = reqs[r].to]
  /\ Done(r)
  /\ UNCHANGED <<estimate, won, origin, decidedOn>>

\* Unconditional: the snapshot the handler checked may be long out of date.
\* A handler that wrote "arrived" goes on to issue the arrival code.
DbUpdateStatus(r) ==
  /\ At(r, "UpdateStatus")
  /\ row' = [row EXCEPT ![reqs[r].b].status = reqs[r].to]
  /\ IF reqs[r].to = "arrived" THEN Proceed(r, "SetOTP") ELSE Done(r)
  /\ UNCHANGED <<estimate, won, origin, decidedOn>>

\* Mutant of DbSetOTP: clears the verification but keeps the old code.
DbSetOTPKeepsCode(r, code) ==
  /\ At(r, "SetOTP")
  /\ row' = [row EXCEPT ![reqs[r].b].verified = FALSE]
  /\ Done(r)
  /\ UNCHANGED <<estimate, won, origin, decidedOn>>

DbSetOTP(r, code) ==
  /\ At(r, "SetOTP")
  /\ row' = [row EXCEPT ![reqs[r].b].otp = code, ![reqs[r].b].verified = FALSE]
  /\ Done(r)
  /\ UNCHANGED <<estimate, won, origin, decidedOn>>

\* The second half of BookingRepository.VerifyOTP: it stamps otp_verified_at
\* without looking at the code again.
DbStampOTP(r) ==
  /\ At(r, "StampOTP")
  /\ row' = [row EXCEPT ![reqs[r].b].verified = TRUE]
  /\ Proceed(r, "UpdateStatus")
  /\ UNCHANGED <<estimate, won, origin, decidedOn>>

DbSetFinalPrice(r) ==
  /\ At(r, "SetFinalPrice")
  /\ row' = [row EXCEPT ![reqs[r].b].priced = TRUE]
  /\ Proceed(r, "SetWarranty")
  /\ UNCHANGED <<estimate, won, origin, decidedOn>>

DbSetWarranty(r) ==
  /\ At(r, "SetWarranty")
  /\ row' = [row EXCEPT ![reqs[r].b].warranty =
                          IF reqs[r].covered THEN "active" ELSE "none"]
  /\ Proceed(r, "UpdateStatus")
  /\ UNCHANGED <<estimate, won, origin, decidedOn>>

\* Writes whatever revision is there; without an estimate the call fails.
DbSetEstimateStatus(r) ==
  /\ At(r, "SetEstimateStatus")
  /\ LET b == reqs[r].b IN
       IF estimate[b].status = "none"
       THEN Done(r) /\ UNCHANGED <<estimate, decidedOn>>
       ELSE /\ estimate' = [estimate EXCEPT ![b].status =
                              IF reqs[r].to = "in_progress" THEN "approved"
                                                            ELSE "declined"]
            /\ decidedOn' = [decidedOn EXCEPT ![b] = reqs[r].saw]
            /\ Proceed(r, "UpdateStatus")
  /\ UNCHANGED <<row, won, origin>>

\* The claim is stored as a new booking, then given to the technician of the
\* original, if it had one.
DbCreateClaim(r, new) ==
  /\ At(r, "CreateClaim")
  /\ ~Exists(new)
  /\ row' = [row EXCEPT ![new] = NewRow]
  /\ origin' = [origin EXCEPT ![new] = reqs[r].b]
  /\ IF reqs[r].t = None
     THEN Done(r)
     ELSE reqs' = [reqs EXCEPT ![r].at = "AssignTechnician", ![r].b = new]
  /\ UNCHANGED <<estimate, won, decidedOn>>

-----------------------------------------------------------------------------
\* The handler of r is cut off; what it has committed stays.
Abort(r) ==
  /\ MayAbort
  /\ reqs[r] # Idle
  /\ Done(r)
  /\ UNCHANGED <<row, estimate, won, origin, decidedOn>>

\* The clock passes warranty_expires_at.
WarrantyExpires(b) ==
  /\ row[b].warranty = "active"
  /\ row' = [row EXCEPT ![b].warranty = "expired"]
  /\ UNCHANGED <<estimate, reqs, won, origin, decidedOn>>

\* The service decides on a new request.
Serve(r) ==
  \E b \in Bookings :
    \/ Cancel(r, b)
    \/ RaiseWarrantyClaim(r, b)
    \/ \E t \in Techs \cup {None} : Create(r, b, t)
    \/ \E t \in Techs : Accept(r, b, t) \/ Reject(r, b, t)
    \/ \E s \in PatchTargets : UpdateStatus(r, b, s)
    \/ \E covered \in BOOLEAN : Complete(r, b, covered)
    \/ \E code \in Codes : VerifyOTP(r, b, code)
    \/ \E to \in {"in_progress", "cancelled"} : RespondToEstimate(r, b, to)

\* The handler of r runs its next repository method.
Execute(r) ==
  \/ DbAssignPendingTechnician(r)
  \/ DbAssignTechnician(r)
  \/ DbConfirmAssignment(r)
  \/ DbDecline(r)
  \/ DbUpdateStatus(r)
  \/ \E code \in Codes : DbSetOTP(r, code)
  \/ DbStampOTP(r)
  \/ DbSetFinalPrice(r)
  \/ DbSetWarranty(r)
  \/ DbSetEstimateStatus(r)
  \/ \E new \in Bookings : DbCreateClaim(r, new)

Next ==
  \/ \E r \in Requests : Serve(r) \/ Execute(r) \/ Abort(r)
  \/ \E b \in Bookings : SubmitEstimate(b) \/ WarrantyExpires(b)

Spec == Init /\ [][Next]_vars

\* A handler that has started keeps running: the Go runtime schedules every
\* goroutine and the database answers every statement.  Nothing obliges a
\* client to call.
FairSpec == Spec /\ \A r \in Requests : WF_vars(Execute(r))

-----------------------------------------------------------------------------
(* Correctness.                                                              *)

Pool == {"absent", "requested", "pending_technician"}

\* The booking has left the pool for good.
Settled(b) == row[b].status \notin Pool

\* A technician who was told that the job is theirs (AssignTechnician or
\* ConfirmAssignment committed for them) holds it ever after, whatever other
\* technicians' accepts, late rejections, patches and cancellations do.  So no
\* two technicians are ever both told so: no double booking.
WinnerHoldsJob ==
  \A b \in Bookings : \A t \in won[b] : row[b].tech = t /\ Settled(b)

\* A booking out of the pool never returns to it and never changes hands:
\* a late Accept, Decline or offer of a cancelled booking has no effect.
TechnicianBound ==
  [][\A b \in Bookings :
       Settled(b) => Settled(b)' /\ row'[b].tech = row[b].tech]_vars

\* The statuses a technician at work goes through.  In_progress is not one of
\* them: the customer's answer to an estimate sets it too.
OnSite == {"on_the_way", "arrived", "inspecting", "awaiting_estimate_approval",
           "repair_in_progress"}

Estimated(b) == estimate[b].status # "none"

\* On-site statuses are only ever shown for a booking that has a technician,
\* and an open job has none, although the writes that set these statuses are
\* unconditional and may be arbitrarily late.  A job in progress has a
\* technician unless an estimate was submitted for it: neither
\* SubmitEstimate nor RespondToEstimate asks whether there is one.
FieldWorkHasTechnician ==
  \A b \in Bookings :
    /\ row[b].status = "requested" => row[b].tech = None
    /\ row[b].status \in {"pending_technician", "accepted"} \cup OnSite =>
         row[b].tech # None
    /\ row[b].status = "in_progress" => row[b].tech # None \/ Estimated(b)

\* A completed booking has a final price to invoice, even though Complete's
\* three writes may be cut off half-way or interleave with another Complete,
\* and any claim was raised against a booking that has one.
CompletedIsInvoiced ==
  \A b \in Bookings :
    /\ row[b].status = "completed" => row[b].priced
    /\ origin[b] # None => row[origin[b]].priced

\* Without a cut-off, a booking shown as arrived has an arrival code or a
\* handler that is about to store one.
ArrivedHasCode ==
  \A b \in Bookings :
    row[b].status = "arrived" /\ row[b].otp = None =>
      \E r \in Requests : At(r, "SetOTP") /\ reqs[r].b = b

\* Without a cut-off, the customer of a booking shown as arrived eventually
\* has a code to read out.
ArrivedGetsCode ==
  \A b \in Bookings : row[b].status = "arrived" ~> row[b].otp # None

\* Where a row stands in the abstract life of a job.
PhaseOf(w) ==
  CASE w.status = "absent" -> "absent"
    [] w.status = "requested" -> "open"
    [] w.status = "pending_technician" -> "offered"
    [] OTHER -> "settled"

\* Seen from outside, the backend hands out jobs as JobAssignment promises.
Assignment == INSTANCE JobAssignment WITH
  phase <- [b \in Bookings |-> PhaseOf(row[b])],
  holder <- [b \in Bookings |-> row[b].tech]

ImplementsAssignment == Assignment!Spec

-----------------------------------------------------------------------------
(* The inductive invariant behind the safety properties.                     *)

Held(b) == Settled(b) /\ row[b].tech # None

\* What a single row always satisfies.  An arrival code is the trace that an
\* on-site status leaves: whoever has one is held by a technician for good.
RowOK(w) ==
  /\ w.status \in {"absent", "requested"} => w.tech = None
  /\ w.status \in {"pending_technician", "accepted"} \cup OnSite =>
       w.tech # None
  /\ w.otp # None => w.status \notin Pool /\ w.tech # None
  /\ w.status = "completed" => w.priced
  /\ w.priced => w.status # "absent"

\* What a late write may still rely on: the handler saw it in its snapshot, or
\* brought it about itself, and no other request can undo it.
PendingWriteOK(q) ==
  /\ Exists(q.b)
  /\ q.at \in {"UpdateStatus", "SetOTP", "StampOTP"} /\ q.to \in OnSite =>
       Held(q.b)
  /\ q.at = "UpdateStatus" /\ q.to = "in_progress" =>
       Held(q.b) \/ Estimated(q.b)
  /\ q.at \in {"SetWarranty", "UpdateStatus"} /\ q.to = "completed" =>
       row[q.b].priced
  /\ q.at = "CreateClaim" => row[q.b].priced

ClaimsInvoiced ==
  \A b \in Bookings : origin[b] # None => row[origin[b]].priced

WorkAgreed ==
  \A b \in Bookings :
    row[b].status = "in_progress" => row[b].tech # None \/ Estimated(b)

\* Why the safety properties hold: the invariant that every step preserves.
IInv ==
  /\ TypeOK
  /\ \A b \in Bookings : RowOK(row[b])
  /\ \A r \in Requests : reqs[r] # Idle => PendingWriteOK(reqs[r])
  /\ ClaimsInvoiced
  /\ WorkAgreed
  /\ WinnerHoldsJob

-----------------------------------------------------------------------------
(* What the repository says of the program and the program does not do.      *)

\* "Terminal states (completed, cancelled) have no outgoing transitions at
\* all" (booking_service.go).
TerminalIsFinal ==
  [][\A b \in Bookings :
       row[b].status \in {"completed", "cancelled"} =>
         row'[b].status = row[b].status]_vars

\* "a warranty claim cannot itself be claimed again" (booking_service.go).
NoClaimOfClaim ==
  \A b \in Bookings : origin[b] # None => origin[origin[b]] = None

\* "always leaving status back at "pending" so the customer sees the new
\* number needs a fresh decision" (booking_repo.go): the estimate a customer
\* approved, having read one (0: none was there yet), is the one they read.
ApprovedWasRead ==
  \A b \in Bookings :
    estimate[b].status = "approved" /\ decidedOn[b] # 0 =>
      decidedOn[b] = estimate[b].revision
=============================================================================
