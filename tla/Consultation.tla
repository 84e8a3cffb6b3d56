----------------------------- MODULE Consultation -----------------------------
(***************************************************************************)
(* Live video consultations: ConsultationService (internal/service) over   *)
(* ConsultationRepository (internal/repository), from the customer's       *)
(* request to the visit it may end in.                                     *)
(*                                                                         *)
(* As everywhere in this backend a handler reads the row, checks the call  *)
(* against that snapshot and then runs repository methods that commit one  *)
(* by one.  Almost every UPDATE here is unconditional, so what a handler   *)
(* checked may be gone when it writes.  A request is a slot of reqs naming *)
(* the method its handler runs next; methods with nothing to check before  *)
(* them are single actions.                                                *)
(*                                                                         *)
(* A consultation may be escalated to a booking for the same technician.   *)
(* The bookings are those of JobAssignment, the contract BookingLifecycle  *)
(* is shown to implement: escalation posts a job and offers it, while the  *)
(* booking component takes, returns and settles jobs as it promises.       *)
(***************************************************************************)
EXTENDS Naturals

CONSTANTS
  Consultations,  \* primary keys of the table consultations
  Bookings,       \* primary keys of the table bookings
  Users,          \* user accounts
  Techs,          \* technician profiles
  Requests,       \* slots for requests served at the same time
  Customers,      \* bound: the users who ask for consultations
  ProfileOf,      \* the technician profile of each user, or None
  None,           \* NULL
  Endpoints,      \* the endpoints this instance's clients call
  MayAbort        \* whether a handler may be cut off between two statements

ASSUME NoneAssumption ==
  None \notin Techs \cup Users \cup Bookings \cup Consultations

ASSUME ProfileAssumption == ProfileOf \in [Users -> Techs \cup {None}]

ASSUME CustomerAssumption == Customers \subseteq Users /\ MayAbort \in BOOLEAN

VARIABLES
  row,      \* table consultations
  reqs,     \* the requests being served
  phase,    \* the bookings, as JobAssignment sees them
  holder,   \* the technician each booking is offered to or held by
  from,     \* history: the consultation each booking was made of
  cut       \* history: consultations about which a request was cut off

vars == <<row, reqs, phase, holder, from, cut>>

Jobs == INSTANCE JobAssignment

Statuses ==
  {"scheduled", "confirmed", "searching", "ringing", "accepted", "rejected",
   "no_technician", "in_call", "ended", "cancelled"}

Row == [status : Statuses \cup {"absent"}, customer : Users \cup {None},
        tech : Techs \cup {None}, rec : {"none", "pending", "accepted", "declined"},
        booking : Bookings \cup {None}, paid : BOOLEAN, rated : BOOLEAN]

Statements ==
  {"AssignTechnician", "AssignTechnicianScheduled", "UpdateStatus",
   "MarkEndedWithStats", "SetRecommendation", "UpdateRecommendationStatus",
   "SetRating", "CreateBooking", "AssignPendingTechnician",
   "SetEscalatedBooking"}

\* at: the method to run next; c, t, b: the consultation, the technician and
\* the booking it is about; to: the status it writes; pending: whether the
\* snapshot had a recommendation waiting for the customer.
Request == [at : Statements, c : Consultations, t : Techs \cup {None},
            b : Bookings \cup {None}, pending : BOOLEAN,
            to : Statuses \cup {"declined", "none"}]

Idle == [at |-> "idle"]

TypeOK ==
  /\ row \in [Consultations -> Row]
  /\ reqs \in [Requests -> Request \cup {Idle}]
  /\ phase \in [Bookings -> Jobs!Phases]
  /\ holder \in [Bookings -> Techs \cup {None}]
  /\ from \in [Bookings -> Consultations \cup {None}]
  /\ cut \subseteq Consultations

NewRow == [status |-> "absent", customer |-> None, tech |-> None,
           rec |-> "none", booking |-> None, paid |-> FALSE, rated |-> FALSE]

Init ==
  /\ row = [c \in Consultations |-> NewRow]
  /\ reqs = [r \in Requests |-> Idle]
  /\ Jobs!Init
  /\ from = [b \in Bookings |-> None]
  /\ cut = {}

Exists(c) == row[c].status # "absent"

Call(at, c) == [at |-> at, c |-> c, t |-> None, b |-> None,
                pending |-> FALSE, to |-> "none"]

\* A client calls endpoint e and its handler is left with q to do.
Begin(r, e, q) ==
  /\ e \in Endpoints
  /\ reqs[r] = Idle
  /\ reqs' = [reqs EXCEPT ![r] = q]

At(r, s) == reqs[r].at = s

Done(r) == reqs' = [reqs EXCEPT ![r] = Idle]

NoBookings == UNCHANGED <<phase, holder, from>>

\* The row of r's consultation gets the values of columns f.
Write(r, w) == row' = [row EXCEPT ![reqs[r].c] = w]

RowOf(r) == row[reqs[r].c]

-----------------------------------------------------------------------------
(* The service's methods: the check against the snapshot.                    *)

\* The row is stored before anybody is looked for.  t is the technician found:
\* the preferred one if there is such a technician (who for an instant call
\* must also be available), else the nearest candidate; None if there is none.
RequestConsultation(r, u, c, t, timed) ==
  /\ ~Exists(c)
  /\ row' = [row EXCEPT ![c] =
               [NewRow EXCEPT !.customer = u,
                  !.status = IF timed THEN "scheduled" ELSE "searching"]]
  /\ Begin(r, "Request",
           IF t = None
           THEN [Call("UpdateStatus", c) EXCEPT !.to = "no_technician"]
           ELSE [Call(IF timed THEN "AssignTechnicianScheduled"
                               ELSE "AssignTechnician", c) EXCEPT !.t = t])
  /\ NoBookings /\ UNCHANGED cut

\* "this consultation was not offered to you"
OfferedTo(c, t) == t # None /\ row[c].tech = t

ConfirmScheduled(r, c, t) ==
  /\ OfferedTo(c, t)
  /\ row[c].status = "scheduled"
  /\ Begin(r, "ConfirmScheduled",
           [Call("UpdateStatus", c) EXCEPT !.to = "confirmed"])
  /\ NoBookings /\ UNCHANGED <<row, cut>>

\* The status is not looked at.
DeclineScheduled(r, c, t) ==
  /\ OfferedTo(c, t)
  /\ Begin(r, "DeclineScheduled",
           [Call("UpdateStatus", c) EXCEPT !.to = "rejected"])
  /\ NoBookings /\ UNCHANGED <<row, cut>>

\* Nor here.
Accept(r, c, t) ==
  /\ OfferedTo(c, t)
  /\ Begin(r, "Accept", [Call("UpdateStatus", c) EXCEPT !.to = "accepted"])
  /\ NoBookings /\ UNCHANGED <<row, cut>>

\* Mutant of Reject: clears the technician at once, as UnassignForRetry would.
RejectUnassigns(r, c, t) ==
  /\ OfferedTo(c, t)
  /\ row' = [row EXCEPT ![c].tech = None, ![c].status = "searching"]
  /\ Begin(r, "Reject", Idle)
  /\ NoBookings /\ UNCHANGED cut

\* Nor here.
Reject(r, c, t) ==
  /\ OfferedTo(c, t)
  /\ Begin(r, "Reject", [Call("UpdateStatus", c) EXCEPT !.to = "rejected"])
  /\ NoBookings /\ UNCHANGED <<row, cut>>

EndWithStats(r, c) ==
  /\ Exists(c)
  /\ Begin(r, "End", Call("MarkEndedWithStats", c))
  /\ NoBookings /\ UNCHANGED <<row, cut>>

Rate(r, u, c) ==
  /\ row[c].customer = u
  /\ Begin(r, "Rating", Call("SetRating", c))
  /\ NoBookings /\ UNCHANGED <<row, cut>>

RecommendOnsite(r, c, t) ==
  /\ OfferedTo(c, t)
  /\ row[c].status \in {"ended", "in_call"}
  /\ Begin(r, "RecommendOnsite", Call("SetRecommendation", c))
  /\ NoBookings /\ UNCHANGED <<row, cut>>

DeclineRecommendation(r, u, c) ==
  /\ row[c].customer = u
  /\ row[c].rec = "pending"
  /\ Begin(r, "DeclineRecommendation",
           [Call("UpdateRecommendationStatus", c) EXCEPT !.to = "declined"])
  /\ NoBookings /\ UNCHANGED <<row, cut>>

\* Mutant of Escalate: the visit goes to whoever is near.
EscalateToNearest(r, c) ==
  /\ Exists(c)
  /\ \E t \in Techs :
       Begin(r, "Escalate",
             [Call("CreateBooking", c) EXCEPT
                !.t = t, !.pending = (row[c].rec = "pending")])
  /\ NoBookings /\ UNCHANGED <<row, cut>>

\* Only the row's existence is checked: neither the caller nor the status.
Escalate(r, c) ==
  /\ Exists(c)
  /\ Begin(r, "Escalate",
           [Call("CreateBooking", c) EXCEPT
              !.t = row[c].tech, !.pending = (row[c].rec = "pending")])
  /\ NoBookings /\ UNCHANGED <<row, cut>>

\* The app's buttons know the user, not the technician profile.
ConfirmScheduledByUser(r, c, u) == ConfirmScheduled(r, c, ProfileOf[u])

DeclineScheduledByUser(r, c, u) == DeclineScheduled(r, c, ProfileOf[u])

AcceptByUser(r, c, u) == Accept(r, c, ProfileOf[u])

RejectByUser(r, c, u) == Reject(r, c, ProfileOf[u])

RecommendOnsiteByUser(r, c, u) == RecommendOnsite(r, c, ProfileOf[u])

-----------------------------------------------------------------------------
(* The repository's methods, one statement each.                             *)

DbAssignTechnician(r) ==
  /\ At(r, "AssignTechnician")
  /\ Write(r, [RowOf(r) EXCEPT !.tech = reqs[r].t, !.status = "ringing"])
  /\ Done(r) /\ NoBookings /\ UNCHANGED cut

DbAssignTechnicianScheduled(r) ==
  /\ At(r, "AssignTechnicianScheduled")
  /\ Write(r, [RowOf(r) EXCEPT !.tech = reqs[r].t, !.status = "scheduled"])
  /\ Done(r) /\ NoBookings /\ UNCHANGED cut

\* UpdateStatus, and UpdateStatusWithReason, which adds a text.
DbUpdateStatus(r) ==
  /\ At(r, "UpdateStatus")
  /\ Write(r, [RowOf(r) EXCEPT !.status = reqs[r].to])
  /\ Done(r) /\ NoBookings /\ UNCHANGED cut

DbMarkEndedWithStats(r) ==
  /\ At(r, "MarkEndedWithStats")
  /\ Write(r, [RowOf(r) EXCEPT !.status = "ended"])
  /\ Done(r) /\ NoBookings /\ UNCHANGED cut

DbSetRating(r) ==
  /\ At(r, "SetRating")
  /\ Write(r, [RowOf(r) EXCEPT !.rated = TRUE])
  /\ Done(r) /\ NoBookings /\ UNCHANGED cut

DbSetRecommendation(r) ==
  /\ At(r, "SetRecommendation")
  /\ Write(r, [RowOf(r) EXCEPT !.rec = "pending"])
  /\ Done(r) /\ NoBookings /\ UNCHANGED cut

DbUpdateRecommendationStatus(r) ==
  /\ At(r, "UpdateRecommendationStatus")
  /\ Write(r, [RowOf(r) EXCEPT !.rec = reqs[r].to])
  /\ Done(r) /\ NoBookings /\ UNCHANGED cut

\* BookingService.Create stores the booking; if the consultation has a
\* technician, the booking is offered to them next.
DbCreateBooking(r, b) ==
  /\ At(r, "CreateBooking")
  /\ Jobs!Post(b)
  /\ from' = [from EXCEPT ![b] = reqs[r].c]
  /\ reqs' = [reqs EXCEPT ![r].b = b,
                ![r].at = IF reqs[r].t = None THEN "SetEscalatedBooking"
                                              ELSE "AssignPendingTechnician"]
  /\ UNCHANGED <<row, cut>>

\* The offer finds the booking open, or somebody was quicker and Escalate
\* answers an error.
DbAssignPendingTechnician(r) ==
  /\ At(r, "AssignPendingTechnician")
  /\ \/ /\ Jobs!Offer(reqs[r].b, reqs[r].t)
        /\ reqs' = [reqs EXCEPT ![r].at = "SetEscalatedBooking"]
     \/ /\ phase[reqs[r].b] # "open"
        /\ Done(r)
        /\ UNCHANGED <<phase, holder>>
  /\ UNCHANGED <<row, from, cut>>

\* Linking a booking accepts the recommendation that was pending when
\* Escalate began.
DbSetEscalatedBooking(r) ==
  /\ At(r, "SetEscalatedBooking")
  /\ Write(r, [RowOf(r) EXCEPT !.booking = reqs[r].b])
  /\ IF reqs[r].pending
     THEN reqs' = [reqs EXCEPT ![r].at = "UpdateRecommendationStatus",
                               ![r].to = "accepted"]
     ELSE Done(r)
  /\ NoBookings /\ UNCHANGED cut

-----------------------------------------------------------------------------
(* Endpoints that run a single statement.                                    *)

\* The WHERE clause names the caller and the early statuses.
Cancel(u, c) ==
  /\ "Cancel" \in Endpoints
  /\ row[c].customer = u
  /\ row[c].status \in {"searching", "ringing", "scheduled", "confirmed"}
  /\ row' = [row EXCEPT ![c].status = "cancelled"]
  /\ NoBookings /\ UNCHANGED <<reqs, cut>>

\* Any user, any consultation.
MarkStarted(c) ==
  /\ "Start" \in Endpoints
  /\ Exists(c)
  /\ row' = [row EXCEPT ![c].status = "in_call"]
  /\ NoBookings /\ UNCHANGED <<reqs, cut>>

\* Any user, any consultation.
MarkPaid(c) ==
  /\ "Pay" \in Endpoints
  /\ Exists(c)
  /\ row' = [row EXCEPT ![c].paid = TRUE]
  /\ NoBookings /\ UNCHANGED <<reqs, cut>>

-----------------------------------------------------------------------------
(* What each side is shown.                                                  *)

\* The technician's incoming calls.
listForTechnicianByStatus(t, s) ==
  {c \in Consultations : row[c].tech = t /\ row[c].status = s}

ListPendingForTechnician(t) == listForTechnicianByStatus(t, "ringing")

\* The slots a technician has to confirm or to keep.
ListUpcomingForTechnician(t) ==
  {c \in Consultations :
     row[c].tech = t /\ row[c].status \in {"scheduled", "confirmed"}}

ListForTechnician(t) ==
  {c \in Consultations : Exists(c) /\ row[c].tech = t}

ListForCustomer(u) ==
  {c \in Consultations : Exists(c) /\ row[c].customer = u}

\* The call history.  A user with a technician profile gets the technician's.
MyConsultations(u) ==
  IF ProfileOf[u] # None THEN ListForTechnician(ProfileOf[u])
                         ELSE ListForCustomer(u)

-----------------------------------------------------------------------------
\* The client goes away, a statement fails or the process dies.
Abort(r) ==
  /\ MayAbort
  /\ reqs[r] # Idle
  /\ Done(r)
  /\ cut' = cut \cup {reqs[r].c}
  /\ NoBookings /\ UNCHANGED row

\* The service decides on a new request of user u.
Serve(r, u) ==
  \E c \in Consultations :
    \/ /\ u \in Customers
       /\ \E t \in Techs \cup {None}, timed \in BOOLEAN :
            RequestConsultation(r, u, c, t, timed)
    \/ ConfirmScheduledByUser(r, c, u)
    \/ DeclineScheduledByUser(r, c, u)
    \/ AcceptByUser(r, c, u)
    \/ RejectByUser(r, c, u)
    \/ RecommendOnsiteByUser(r, c, u)
    \/ DeclineRecommendation(r, u, c)
    \/ Rate(r, u, c)

\* Requests nobody's identity matters to.
ServeAnyone(r) == \E c \in Consultations : EndWithStats(r, c) \/ Escalate(r, c)

\* The handler of r runs its next repository method.
Execute(r) ==
  \/ DbAssignTechnician(r)
  \/ DbAssignTechnicianScheduled(r)
  \/ DbUpdateStatus(r)
  \/ DbMarkEndedWithStats(r)
  \/ DbSetRating(r)
  \/ DbSetRecommendation(r)
  \/ DbUpdateRecommendationStatus(r)
  \/ \E b \in Bookings : DbCreateBooking(r, b)
  \/ DbAssignPendingTechnician(r)
  \/ DbSetEscalatedBooking(r)

\* What the booking component does with the jobs, meanwhile and afterwards.
JobMoves ==
  /\ \E b \in Bookings :
       Jobs!Return(b) \/ Jobs!Settle(b) \/ \E t \in Techs : Jobs!Take(b, t)
  /\ UNCHANGED <<row, reqs, from, cut>>

Next ==
  \/ \E r \in Requests :
       ServeAnyone(r) \/ Execute(r) \/ Abort(r) \/ \E u \in Users : Serve(r, u)
  \/ \E c \in Consultations :
       MarkStarted(c) \/ MarkPaid(c) \/ \E u \in Users : Cancel(u, c)
  \/ JobMoves

Spec == Init /\ [][Next]_vars

\* A handler that has started keeps running: the Go runtime schedules every
\* goroutine and the database answers every statement.  Nothing obliges a user
\* to call, nor the booking component to move.
FairSpec == Spec /\ \A r \in Requests : WF_vars(Execute(r))

-----------------------------------------------------------------------------
(* Correctness.                                                              *)

\* Nobody is ever swapped on a consultation: the technician it was matched
\* with stays, however late the match is written and whatever either side
\* does meanwhile (a rejection is final, nobody else is tried).
TechnicianBound ==
  [][\A c \in Consultations :
       row[c].tech # None => row'[c].tech = row[c].tech]_vars

\* Whoever is shown a consultation that rings, is confirmed, was accepted or
\* was turned down sees it with the technician concerned, and so is one with a
\* recommendation, although the handler that wrote the status looked at an
\* earlier state of the row.
AnsweredHasTechnician ==
  \A c \in Consultations :
    /\ row[c].status \in {"ringing", "confirmed", "accepted", "rejected"} =>
         row[c].tech # None
    /\ row[c].rec # "none" => row[c].tech # None

\* A consultation that still waits for a technician is in the work list of the
\* one it was matched with, or its request is still being matched: without a
\* cut-off none is left that nobody is asked about.
NobodyOverlooked ==
  \A c \in Consultations \ cut :
    row[c].status \in {"searching", "scheduled", "confirmed", "ringing"} =>
      \/ \E t \in Techs :
           c \in ListPendingForTechnician(t) \cup ListUpcomingForTechnician(t)
      \/ \E r \in Requests :
           /\ reqs[r] # Idle /\ reqs[r].c = c
           /\ reqs[r].t # None \/ reqs[r].to = "no_technician"

\* A booking made of a consultation is only ever offered to the technician of
\* that consultation, although Escalate took it from a snapshot; and the
\* consultation links to bookings made of it, nobody else's.
VisitGoesToCaller ==
  /\ \A b \in Bookings :
       phase[b] = "offered" => holder[b] = row[from[b]].tech
  /\ \A c \in Consultations :
       row[c].booking # None => from[row[c].booking] = c

\* An accepted recommendation has a booking.
AcceptedHasVisit ==
  \A c \in Consultations : row[c].rec = "accepted" => row[c].booking # None

\* Without a cut-off a visit that was offered to the technician can be reached
\* from its consultation: the consultation links to it (or to the booking of
\* another Escalate), or the link is about to be written.
OfferedVisitIsLinked ==
  \A b \in Bookings :
    phase[b] = "offered" /\ from[b] \notin cut =>
      \/ row[from[b]].booking # None
      \/ \E r \in Requests : At(r, "SetEscalatedBooking") /\ reqs[r].b = b

\* Without a cut-off nobody is left looking at "Searching...".
SearchEnds ==
  \A c \in Consultations :
    row[c].status = "searching" ~> row[c].status # "searching" \/ c \in cut

-----------------------------------------------------------------------------
(* The inductive invariant behind the safety properties.                     *)

Matching == {"AssignTechnician", "AssignTechnicianScheduled"}

\* The request is looking for the consultation's technician.
Matches(r, c) ==
  /\ reqs[r] # Idle /\ reqs[r].c = c
  /\ reqs[r].at \in Matching \/ reqs[r].to = "no_technician"

\* What a late write may still rely on: the handler saw it in its snapshot and
\* nobody can undo it.  A match is written to a row that has no technician yet,
\* an answer or a recommendation to one that has, and a visit is offered to the
\* technician the consultation will always have.
PendingWriteOK(q) ==
  /\ Exists(q.c)
  /\ q.at \in Matching => q.t # None /\ row[q.c].tech = None
  /\ q.at = "UpdateStatus" =>
       q.to \in {"no_technician", "confirmed", "accepted", "rejected"}
  /\ q.to = "no_technician" => q.at = "UpdateStatus" /\ row[q.c].tech = None
  /\ q.at \in {"SetRecommendation", "UpdateRecommendationStatus"}
       \/ q.pending
       \/ q.to \in {"confirmed", "accepted", "rejected"} =>
            row[q.c].tech # None
  /\ q.at = "UpdateRecommendationStatus" =>
       \/ q.to = "declined"
       \/ q.to = "accepted" /\ row[q.c].booking # None
  /\ q.at \in {"CreateBooking", "AssignPendingTechnician",
               "SetEscalatedBooking"} =>
       q.t \in {None, row[q.c].tech} /\ q.to = "none"
  /\ q.at = "AssignPendingTechnician" => q.t # None
  /\ q.at \in {"AssignPendingTechnician", "SetEscalatedBooking"} =>
       q.b # None /\ from[q.b] = q.c

\* What a single row always satisfies.
RowOK(w) ==
  /\ w.status = "absent" => w.customer = None
  /\ w.status \in {"absent", "searching"} => w.tech = None
  /\ w.status \in {"ringing", "confirmed", "accepted", "rejected"} =>
       w.tech # None
  /\ w.rec # "none" => w.tech # None
  /\ w.rec = "accepted" => w.booking # None

\* The consultation waits and nobody is asked about it.
Unmatched(c) ==
  row[c].tech = None /\ row[c].status \in {"searching", "scheduled"}

\* Each consultation has at most one request matching it, and a row that waits
\* without a technician has one unless it was cut off.
MatchedOnce ==
  \A c \in Consultations :
    /\ \A q, r \in Requests : Matches(q, c) /\ Matches(r, c) => q = r
    /\ c \notin cut /\ Unmatched(c) => \E r \in Requests : Matches(r, c)

\* Why the safety properties hold: the invariant that every step preserves.
IInv ==
  /\ TypeOK
  /\ \A c \in Consultations : RowOK(row[c])
  /\ \A r \in Requests : reqs[r] # Idle => PendingWriteOK(reqs[r])
  /\ \A b \in Bookings :
       /\ from[b] = None <=> phase[b] = "absent"
       /\ phase[b] = "offered" => holder[b] # None
  /\ MatchedOnce
  /\ VisitGoesToCaller
  /\ OfferedVisitIsLinked

-----------------------------------------------------------------------------
(* What the repository says of the program and the program does not do.      *)

\* "this stops a stale/rejected notification from hijacking a consultation
\* that's already moved on" (consultation_service.go): only a ringing call is
\* accepted.
AcceptedWasRinging ==
  [][\A c \in Consultations :
       row'[c].status = "accepted" =>
         row[c].status \in {"ringing", "accepted"}]_vars

\* "the recommendation can't be re-accepted afterwards"
\* (consultation_service.go): a declined one leads to no visit.
DeclinedIsFinal ==
  [][\A c \in Consultations :
       row[c].rec = "declined" => row'[c].booking = row[c].booking]_vars
=============================================================================
