-------------------------------- MODULE StartUp --------------------------------
(***************************************************************************)
(* Start-up of the server (cmd/server/main.go): it listens at once, while  *)
(* a goroutine applies the schema fixes the deployment never runs from     *)
(* migrations/.  Each fix is one Exec, hence one transaction; one that     *)
(* fails is logged and the next is tried.  The process may die anywhere    *)
(* and is started again, and a deployment starts the new process while the *)
(* old one still runs.                                                     *)
(***************************************************************************)
EXTENDS Integers, SequencesExt

CONSTANTS
  Processes,  \* server processes that run at the same time
  MaxFailures \* bound: the Execs of one process that are not served

FailuresAssumption == MaxFailures \in Nat

VARIABLES
  pc,      \* the fix each process tries next, 0 when it is not running
  failed,  \* how many Execs of each process were not served
  schema,  \* tables, columns and constraints that are there
  password \* of the finance account: "none", "seeded" or "changed"

startVars == <<pc, failed, schema, password>>

\* One Exec: what it needs, what it adds, and whether it fails if that is
\* there already (ADD CONSTRAINT has no IF NOT EXISTS).
Fix(needs, adds, once) == [needs |-> needs, adds |-> adds, once |-> once]

Base == {"bookings", "users", "consultations", "categories", "technicians",
         "booking_messages", "disputes", "payments"}

\* 012 to 034: what the base schema lacks.
EarlyFixes ==
  <<Fix({"bookings", "consultations"}, {"arrival_otp"}, FALSE),
    Fix({"users"}, {"users_auth", "email_otp"}, FALSE),
    Fix({"categories"}, {"more_categories"}, FALSE),
    Fix({"bookings"}, {"warranty_description"}, FALSE),
    Fix({"booking_messages"}, {"message_read_at"}, FALSE),
    Fix({"bookings", "consultations", "users"}, {"call_logs"}, FALSE),
    Fix({"technicians", "categories"}, {"technician_categories"}, FALSE)>>

\* 035 to 040: among them fixes to tables that the ones before them create.
LateFixes ==
  <<Fix({"disputes", "users"}, {"dispute_messages"}, FALSE),
    Fix({"dispute_messages"}, {"dispute_attachments"}, FALSE),
    Fix({"dispute_attachments"}, {"attachment_type_check"}, TRUE),
    Fix({"dispute_attachments"}, {"dispute_has_content"}, TRUE),
    Fix({"users"}, {"support_messages"}, FALSE),
    Fix({"support_messages"}, {"support_has_content"}, TRUE),
    Fix({"users", "payments", "bookings"}, {"technician_dues"}, FALSE),
    Fix({"payments"}, {"cash_otp"}, FALSE),
    Fix({"users"}, {"email_otp"}, FALSE)>>

\* Mutant of Fixes: in the reverse order.
FixesReordered == Reverse(EarlyFixes \o LateFixes)

\* The fixes in the order they are tried.
Fixes == EarlyFixes \o LateFixes

\* The last one seeds the account of the finance panel.
Seed == Len(Fixes) + 1

Added == UNION {Fixes[i].adds : i \in 1 .. Len(Fixes)}

-----------------------------------------------------------------------------
(* What the statements of the repositories name, read there and not from the *)
(* fixes: without it each of them fails.                                     *)

UserUses == {"users", "users_auth", "email_otp"}

BookingUses ==
  {"bookings", "arrival_otp", "warranty_description", "booking_messages",
   "message_read_at"}

TechnicianUses == {"technicians", "categories", "technician_categories"}

DisputeUses == {"disputes", "dispute_messages", "dispute_attachments"}

SupportUses == {"support_messages"}

DueUses == {"technician_dues"}

CashUses == {"payments", "cash_otp"}

CallLogUses == {"call_logs", "call_type"}

\* All of them but the call log's.
Uses ==
  UserUses \cup BookingUses \cup TechnicianUses \cup DisputeUses
    \cup SupportUses \cup DueUses \cup CashUses

-----------------------------------------------------------------------------

TypeOK ==
  /\ pc \in [Processes -> 0 .. Seed + 1]
  /\ failed \in [Processes -> 0 .. MaxFailures]
  /\ schema \subseteq Base \cup Added
  /\ password \in {"none", "seeded", "changed"}

\* The base schema, what migrations/ has up to 029, has been loaded by hand.
Init ==
  /\ pc = [p \in Processes |-> 0]
  /\ failed = [p \in Processes |-> 0]
  /\ schema = Base
  /\ password = "none"

\* main: from here on requests are served, whatever the schema lacks.
Boot(p) ==
  /\ pc[p] = 0
  /\ pc' = [pc EXCEPT ![p] = 1]
  /\ failed' = [failed EXCEPT ![p] = 0]
  /\ UNCHANGED <<schema, password>>

Applies(fix) ==
  fix.needs \subseteq schema /\ (fix.once => ~(fix.adds \subseteq schema))

Proceed(p) == pc' = [pc EXCEPT ![p] = @ + 1]

\* The next fix takes effect, or it cannot and the process goes on.
Apply(p) ==
  /\ pc[p] \in DOMAIN Fixes
  /\ LET fix == Fixes[pc[p]] IN
     schema' = IF Applies(fix) THEN schema \cup fix.adds ELSE schema
  /\ Proceed(p)
  /\ UNCHANGED <<failed, password>>

\* ON CONFLICT (email) DO UPDATE: the password is the seeded one again.
SeedFinance(p) ==
  /\ pc[p] = Seed
  /\ password' = IF "users_auth" \in schema THEN "seeded" ELSE password
  /\ Proceed(p)
  /\ UNCHANGED <<failed, schema>>

\* The database does not serve an Exec, or turns the account down because its
\* phone number is another's.
ExecFails(p) ==
  /\ pc[p] \in 1 .. Seed
  /\ failed[p] < MaxFailures
  /\ failed' = [failed EXCEPT ![p] = @ + 1]
  /\ Proceed(p)
  /\ UNCHANGED <<schema, password>>

\* The process dies or is replaced.
Stop(p) ==
  /\ pc[p] # 0
  /\ pc' = [pc EXCEPT ![p] = 0]
  /\ failed' = [failed EXCEPT ![p] = 0]
  /\ UNCHANGED <<schema, password>>

\* Whoever runs the finance panel picks a password of their own.
ChangePassword ==
  /\ password # "none"
  /\ password' = "changed"
  /\ UNCHANGED <<pc, failed, schema>>

Next ==
  \/ \E p \in Processes :
       Boot(p) \/ Apply(p) \/ SeedFinance(p) \/ ExecFails(p) \/ Stop(p)
  \/ ChangePassword

Spec == Init /\ [][Next]_startVars

-----------------------------------------------------------------------------
(* What the component promises.                                              *)

\* A process that is through, and whose Execs were all served.
Healed(p) == pc[p] = Seed + 1 /\ failed[p] = 0

\* main.go calls the fixes "self-healing" and "safe to retry on the next boot":
\* once a process is healed, the schema has what the repositories use other
\* than the call log's, whatever earlier processes got done and whatever runs
\* beside it, and there is a finance account.
BootHeals ==
  \A p \in Processes : Healed(p) => Uses \subseteq schema /\ password # "none"

-----------------------------------------------------------------------------
(* What the repository says of the program and the program does not do.      *)

\* "Creates the real call-history table (who called whom, when,
\* missed/received) backing GET /calls/history" (main.go): once a process is
\* healed, a call can be logged.  call_type, which the repository inserts and
\* reads, is in migrations/041 only, and no fix adds it.
CallsAreLogged ==
  \A p \in Processes : Healed(p) => CallLogUses \subseteq schema

\* "change it after first login" (main.go) is said of the seeded password: it
\* stays changed then.  The next boot seeds it again.
ChangedStaysChanged ==
  [][password = "changed" => password' = "changed"]_startVars
=============================================================================
