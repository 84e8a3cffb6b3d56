------------------------------- MODULE Reviews -------------------------------
(***************************************************************************)
(* ReviewService, ReviewRepository and the trigger that keeps the rating   *)
(* of a technician: one review for each completed booking, and the average *)
(* stored with two decimals, updated from itself at every review.          *)
(*                                                                         *)
(* The service reads the booking and then inserts the review, so two       *)
(* requests may both be past their checks; a request is a slot of          *)
(* requests.  The trigger works on the technician's row within the         *)
(* insert, so an insert with its trigger is one step.                      *)
(***************************************************************************)
EXTENDS Integers, FiniteSets

CONSTANTS
  Technicians,
  Bookings,     \* completed bookings that have a technician
  TechnicianOf, \* the technician of each booking
  Requests,     \* requests to review made at the same time
  NoRequest     \* in a free slot of requests

ASSUME TechnicianOfAssumption == TechnicianOf \in [Bookings -> Technicians]

ASSUME NoRequestAssumption == NoRequest \notin [booking : Bookings, rating : 1 .. 5]

ASSUME BookingsAssumption == IsFiniteSet(Bookings)

VARIABLES
  reviewed,     \* bookings with a row in reviews
  rating_count, \* of each technician
  rating_avg,   \* of each technician, in hundredths of a star
  stars,        \* sum of the ratings a technician was given
  requests      \* calls of Create past their checks

reviewVars == <<reviewed, rating_count, rating_avg, stars, requests>>

Rating == 1 .. 5

Request == [booking : Bookings, rating : Rating]

RatingTypeOK ==
  /\ reviewed \subseteq Bookings
  /\ rating_count \in [Technicians -> Nat]
  /\ rating_avg \in [Technicians -> Nat]
  /\ stars \in [Technicians -> Nat]
  /\ requests \in [Requests -> Request \cup {NoRequest}]

RatingInit ==
  /\ reviewed = {}
  /\ rating_count = [t \in Technicians |-> 0]
  /\ rating_avg = [t \in Technicians |-> 0]
  /\ stars = [t \in Technicians |-> 0]
  /\ requests = [q \in Requests |-> NoRequest]

\* The booking is the customer's, completed, and has a technician.
Create(q, b, rating) ==
  /\ requests[q] = NoRequest
  /\ requests' = [requests EXCEPT ![q] = [booking |-> b, rating |-> rating]]
  /\ UNCHANGED <<reviewed, rating_count, rating_avg, stars>>

\* Mutant of Average: the mean of the old average and the new rating.
AverageOfTwo(avg, count, rating) ==
  IF count = 0 THEN 100 * rating ELSE (avg + 100 * rating + 1) \div 2

\* The trigger's new average: NUMERIC(3,2) rounds to the nearest hundredth.
Average(avg, count, rating) ==
  (2 * (avg * count + 100 * rating) + count + 1) \div (2 * (count + 1))

\* update_technician_rating.
Trigger(t, rating) ==
  /\ rating_count' = [rating_count EXCEPT ![t] = @ + 1]
  /\ rating_avg' =
       [rating_avg EXCEPT ![t] = Average(@, rating_count[t], rating)]
  /\ stars' = [stars EXCEPT ![t] = @ + rating]

\* The column booking_id is unique.
DbCreate(q) ==
  LET r == requests[q] IN
  /\ r # NoRequest
  /\ r.booking \notin reviewed
  /\ reviewed' = reviewed \cup {r.booking}
  /\ Trigger(TechnicianOf[r.booking], r.rating)
  /\ requests' = [requests EXCEPT ![q] = NoRequest]

\* The booking has its review already, or the statement fails.
CreateFails(q) ==
  /\ requests[q] # NoRequest
  /\ requests' = [requests EXCEPT ![q] = NoRequest]
  /\ UNCHANGED <<reviewed, rating_count, rating_avg, stars>>

RatingNext ==
  \E q \in Requests :
    \/ \E b \in Bookings, rating \in Rating : Create(q, b, rating)
    \/ DbCreate(q)
    \/ CreateFails(q)

RatingSpec == RatingInit /\ [][RatingNext]_reviewVars

-----------------------------------------------------------------------------
(* What the component promises.                                              *)

Abs(n) == IF n < 0 THEN -n ELSE n

ReviewedOf(t) == {b \in reviewed : TechnicianOf[b] = t}

\* A booking counts once in its technician's rating, however often and however
\* simultaneously it is reviewed.
CountIsReviews ==
  \A t \in Technicians : rating_count[t] = Cardinality(ReviewedOf(t))

\* review_repo.go relies on the trigger "to update technician rating_avg
\* atomically".  Every review rounds the average once more, and the errors add
\* up: with n reviews it is off the mean by at most (n + 1) / 4 hundredths, and
\* never off the scale of one to five stars.
RatingNearMean ==
  \A t \in Technicians :
    LET n == rating_count[t] IN
    /\ n > 0 => rating_avg[t] \in 100 .. 500
    /\ 4 * Abs(rating_avg[t] * n - 100 * stars[t]) <= n * (n + 1)

-----------------------------------------------------------------------------
(* Why they hold: the invariant that every step preserves.                   *)

RatingInv ==
  /\ RatingTypeOK
  /\ CountIsReviews
  /\ RatingNearMean

=============================================================================
