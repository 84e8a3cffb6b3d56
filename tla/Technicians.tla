----------------------------- MODULE Technicians -----------------------------
(***************************************************************************)
(* TechnicianService and TechnicianRepository: the profile of a            *)
(* technician, the categories served, the admin's approval and the badge.  *)
(*                                                                         *)
(* Registering is three statements in a row, each on its own, so it may be *)
(* cut short between them and other requests come in between; a            *)
(* registration is a slot of registrations.  Replacing the categories is   *)
(* one transaction that first takes the technician's row, so two of them   *)
(* follow each other and each is one step.                                 *)
(* Each boot of the server puts the primary category of every profile back *)
(* among those served; its INSERT ... SELECT reads the profiles first, so  *)
(* requests come in between here as well.                                  *)
(* Photo and working hours are only displayed and left out; so is the      *)
(* distance that a search orders by, and its limit of 20 or 50.            *)
(***************************************************************************)
EXTENDS Naturals

CONSTANTS
  Users,         \* users with the role technician
  Categories,    \* rows of categories: none is ever deleted
  Technicians,   \* technicians: primary keys
  Registrations, \* registrations made at the same time
  None

NoUserAssumption == None \notin Users \cup Categories

VARIABLES
  technicians,   \* rows of technicians with their technician_categories
  registrations, \* calls of RegisterTechnician under way
  backfill,      \* the profiles and primary categories a boot has read, or None
  cut            \* history: profiles whose registration left no category

technicianVars == <<technicians, registrations, backfill, cut>>

\* primary: category_id; serves: technician_categories; badge: is_verified.
Technician ==
  [user : Users, primary : Categories, serves : SUBSET Categories,
   approval : {"pending", "approved", "rejected"},
   badge : BOOLEAN, available : BOOLEAN]

Idle == [at |-> "idle"]

\* first: the first of the chosen categories; id: the profile, once created.
Registration ==
  [at : {"create"}, user : Users, first : Categories,
   chosen : SUBSET Categories]
    \cup
  [at : {"categories", "approve"}, id : Technicians, first : Categories,
   chosen : SUBSET Categories]

TypeOK ==
  /\ technicians \in [Technicians -> Technician \cup {None}]
  /\ registrations \in [Registrations -> Registration \cup {Idle}]
  /\ backfill \in [Technicians -> Categories \cup {None}] \cup {None}
  /\ cut \subseteq Technicians

Init ==
  /\ technicians = [t \in Technicians |-> None]
  /\ registrations = [r \in Registrations |-> Idle]
  /\ backfill = None
  /\ cut = {}

Profiles == {t \in Technicians : technicians[t] # None}

\* GetByUserID.
HasProfile(u) == \E t \in Profiles : technicians[t].user = u

\* RegisterTechnician up to its look for a profile; the categories exist.
RegisterTechnician(r, u, first, chosen) ==
  /\ registrations[r] = Idle
  /\ first \in chosen
  /\ ~HasProfile(u)
  /\ registrations' = [registrations EXCEPT ![r] =
       [at |-> "create", user |-> u, first |-> first, chosen |-> chosen]]
  /\ UNCHANGED <<technicians, backfill, cut>>

\* The new row and the next step of its registration.
Insert(r, t) ==
  LET reg == registrations[r] IN
  /\ technicians' = [technicians EXCEPT ![t] =
       [user |-> reg.user, primary |-> reg.first, serves |-> {},
        approval |-> "pending", badge |-> FALSE, available |-> TRUE]]
  /\ registrations' = [registrations EXCEPT ![r] =
       [at |-> "categories", id |-> t, first |-> reg.first,
        chosen |-> reg.chosen]]

\* The column user_id is unique: a second row of the user fails the statement.
DbCreate(r, t) ==
  /\ registrations[r].at = "create"
  /\ technicians[t] = None
  /\ ~HasProfile(registrations[r].user)
  /\ Insert(r, t)
  /\ UNCHANGED <<backfill, cut>>

\* Mutant of WithCategories: the primary category stays what it was.
WithCategoriesOnly(t, first, chosen) ==
  [technicians EXCEPT ![t].serves = chosen]

\* SetCategories.
WithCategories(t, first, chosen) ==
  [technicians EXCEPT ![t].primary = first, ![t].serves = chosen]

DbSetCategories(r) ==
  LET reg == registrations[r] IN
  /\ reg.at = "categories"
  /\ technicians' = WithCategories(reg.id, reg.first, reg.chosen)
  /\ registrations' = [registrations EXCEPT ![r].at = "approve"]
  /\ UNCHANGED <<backfill, cut>>

\* SetApprovalStatus.
WithApproval(t, status) ==
  [technicians EXCEPT ![t].approval = status,
                      ![t].badge = (status = "approved")]

\* The approval every new technician gets, whatever the admin did meanwhile.
DbAutoApprove(r) ==
  LET reg == registrations[r] IN
  /\ reg.at = "approve"
  /\ technicians' = WithApproval(reg.id, "approved")
  /\ registrations' = [registrations EXCEPT ![r] = Idle]
  /\ UNCHANGED <<backfill, cut>>

\* A statement of a registration fails; what was written stays.
RegistrationFails(r) ==
  /\ registrations[r] # Idle
  /\ registrations' = [registrations EXCEPT ![r] = Idle]
  /\ cut' = IF registrations[r].at = "categories"
            THEN cut \cup {registrations[r].id} ELSE cut
  /\ UNCHANGED <<technicians, backfill>>

UpdateCategories(t, first, chosen) ==
  /\ t \in Profiles
  /\ first \in chosen
  /\ technicians' = WithCategories(t, first, chosen)
  /\ cut' = cut \ {t}
  /\ UNCHANGED <<registrations, backfill>>

\* The admin approves or rejects.
Verify(t, status) ==
  /\ t \in Profiles
  /\ technicians' = WithApproval(t, status)
  /\ UNCHANGED <<registrations, backfill, cut>>

\* The admin gives or takes the badge, whatever the approval.
SetVerifiedBadge(t, verified) ==
  /\ t \in Profiles
  /\ technicians' = [technicians EXCEPT ![t].badge = verified]
  /\ UNCHANGED <<registrations, backfill, cut>>

\* Only for one's own profile.
SetAvailability(t, available) ==
  /\ t \in Profiles
  /\ technicians' = [technicians EXCEPT ![t].available = available]
  /\ UNCHANGED <<registrations, backfill, cut>>

-----------------------------------------------------------------------------
(* The boot of a server beside the one that still runs.                      *)

\* The SELECT of fix 034.
Boot ==
  /\ backfill = None
  /\ backfill' = [t \in Technicians |->
       IF t \in Profiles THEN technicians[t].primary ELSE None]
  /\ UNCHANGED <<technicians, registrations, cut>>

\* Its INSERT, ON CONFLICT DO NOTHING.
DbBackfill ==
  /\ backfill # None
  /\ technicians' = [t \in Technicians |->
       IF backfill[t] = None THEN technicians[t]
       ELSE [technicians[t] EXCEPT !.serves = @ \cup {backfill[t]}]]
  /\ cut' = {t \in cut : backfill[t] = None}
  /\ backfill' = None
  /\ UNCHANGED registrations

-----------------------------------------------------------------------------
(* What customers see.                                                       *)

\* The technicians offered for a category.
ListAvailableByCategory(c) ==
  {t \in Profiles : /\ technicians[t].available
                    /\ technicians[t].approval = "approved"
                    /\ c \in technicians[t].serves}

\* The technicians shown to anyone who browses it.
ListPublic(c) ==
  {t \in Profiles : technicians[t].badge /\ c \in technicians[t].serves}

Next ==
  \/ Boot
  \/ DbBackfill
  \/ \E r \in Registrations :
       \/ \E u \in Users, c \in Categories, chosen \in SUBSET Categories :
            RegisterTechnician(r, u, c, chosen)
       \/ \E t \in Technicians : DbCreate(r, t)
       \/ DbSetCategories(r)
       \/ DbAutoApprove(r)
       \/ RegistrationFails(r)
  \/ \E t \in Technicians :
       \/ \E c \in Categories, chosen \in SUBSET Categories :
            UpdateCategories(t, c, chosen)
       \/ \E status \in {"approved", "rejected"} : Verify(t, status)
       \/ \E b \in BOOLEAN : SetVerifiedBadge(t, b) \/ SetAvailability(t, b)

Spec == Init /\ [][Next]_technicianVars

-----------------------------------------------------------------------------
(* What the component promises.                                              *)

\* technician_service.go: "technician profile already exists for this user",
\* also when the same user registers twice at once.
OneProfilePerUser ==
  \A t, v \in Profiles : technicians[t].user = technicians[v].user => t = v

\* technician_repo.go: category_id "is kept pointing at categoryIDs[0]": once a
\* technician is found by category, the category shown first is one of them,
\* whichever registrations and updates crossed.
PrimaryIsServed ==
  \A t \in Profiles : technicians[t].serves # {} =>
    technicians[t].primary \in technicians[t].serves

\* technician_service.go: "search/matching finds this technician under any of
\* them": who is approved and available is found under the category shown first
\* and, wearing the badge, browsed there; unless the registration was cut off
\* before its categories and no boot has put that right yet.
ApprovedIsFound ==
  \A t \in Profiles \ cut :
    LET c == technicians[t].primary IN
    (\A r \in Registrations : registrations[r] # Idle =>
       ~(registrations[r].at = "categories" /\ registrations[r].id = t)) =>
      /\ technicians[t].approval = "approved" /\ technicians[t].available =>
           t \in ListAvailableByCategory(c)
      /\ technicians[t].badge => t \in ListPublic(c)

-----------------------------------------------------------------------------
(* What the repository says of the program and the program does not do.      *)

\* "nobody already live loses visibility" (main.go) is what the backfill is
\* for; a category that a technician gives up while it runs comes back.
GivenUpStaysGivenUp ==
  [][DbBackfill => \A t \in Profiles :
       technicians'[t].serves # technicians[t].serves =>
         technicians[t].serves = {}]_technicianVars

=============================================================================
