-------------------------- MODULE MCBookingLifecycle --------------------------
(* Instances of BookingLifecycle for TLC. *)
EXTENDS BookingLifecycle, TLC

CONSTANTS b1, b2, b3, t1, t2, r1, r2, r3, c1, c2

\* What the Flutter app sends to PATCH /bookings/:id/status.
AppPatches == {"on_the_way", "arrived"}

\* With the statuses of the work itself, which the API takes as well.
WorkPatches == AppPatches \cup {"repair_in_progress", "in_progress"}

AllEndpoints == {"Create", "Accept", "Reject", "UpdateStatus", "Complete",
                 "Cancel", "VerifyOTP", "SubmitEstimate", "RespondToEstimate",
                 "RaiseWarrantyClaim"}

\* Handing out a job and starting on it.
DispatchEndpoints == {"Create", "Accept", "Reject", "UpdateStatus", "Cancel"}

\* From the arrival to the inspection.
ArrivalEndpoints == {"Create", "Accept", "UpdateStatus", "Cancel", "VerifyOTP"}

\* Completing jobs and claiming under their warranties.
WarrantyEndpoints == {"Create", "Accept", "Complete", "RaiseWarrantyClaim"}

EstimateEndpoints == {"Create", "SubmitEstimate", "RespondToEstimate"}

\* Technicians, request slots and codes are interchangeable.
Interchangeable ==
  Permutations({t1, t2}) \cup Permutations({r1, r2, r3}) \cup Permutations({c1, c2})
=============================================================================
