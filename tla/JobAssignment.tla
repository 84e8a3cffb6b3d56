---------------------------- MODULE JobAssignment ----------------------------
(***************************************************************************)
(* What the booking backend promises about who does a job.  A job is       *)
(* posted to the open pool, may be offered to one technician and come      *)
(* back, and is settled once: from then on it never returns to the pool    *)
(* and its holder never changes.  A job is settled with a holder when a    *)
(* technician takes it, and without one when it leaves the pool in any     *)
(* other way (a cancellation, say).                                        *)
(*                                                                         *)
(* BookingLifecycle, where every endpoint of the backend is a sequence of  *)
(* database statements that interleave with those of other requests, is    *)
(* shown to implement this specification.                                  *)
(***************************************************************************)
CONSTANTS Bookings,   \* the jobs
          Techs,      \* the technicians
          None        \* no technician

VARIABLES phase,      \* where each job is: absent, open, offered or settled
          holder      \* the technician each job is offered to or held by

vars == <<phase, holder>>

Phases == {"absent", "open", "offered", "settled"}

Init ==
  /\ phase = [b \in Bookings |-> "absent"]
  /\ holder = [b \in Bookings |-> None]

\* A customer posts a job.
Post(b) ==
  /\ phase[b] = "absent"
  /\ phase' = [phase EXCEPT ![b] = "open"]
  /\ UNCHANGED holder

\* The customer picked t, who has yet to answer.
Offer(b, t) ==
  /\ phase[b] = "open"
  /\ phase' = [phase EXCEPT ![b] = "offered"]
  /\ holder' = [holder EXCEPT ![b] = t]

\* The technician the job was offered to turns it down.
Return(b) ==
  /\ phase[b] = "offered"
  /\ phase' = [phase EXCEPT ![b] = "open"]
  /\ holder' = [holder EXCEPT ![b] = None]

\* A technician takes an open job.
Take(b, t) ==
  /\ phase[b] = "open"
  /\ phase' = [phase EXCEPT ![b] = "settled"]
  /\ holder' = [holder EXCEPT ![b] = t]

\* The job leaves the pool with the holder it has: the technician it was
\* offered to confirms, or it is cancelled.
Settle(b) ==
  /\ phase[b] \in {"open", "offered"}
  /\ phase' = [phase EXCEPT ![b] = "settled"]
  /\ UNCHANGED holder

Next ==
  \E b \in Bookings :
    \/ Post(b)
    \/ Return(b)
    \/ Settle(b)
    \/ \E t \in Techs : Offer(b, t) \/ Take(b, t)

Spec == Init /\ [][Next]_vars
=============================================================================
