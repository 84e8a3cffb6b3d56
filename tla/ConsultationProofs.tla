-------------------------- MODULE ConsultationProofs --------------------------
(* What holds of Consultation for every value of its constants. *)
EXTENDS Consultation, TLAPS

-----------------------------------------------------------------------------
(* What requests rely on.                                                    *)

\* A slot that names a statement holds a request that can rely on what its
\* handler saw.
LEMMA Running ==
  ASSUME IInv, NEW r \in Requests, reqs[r].at \in Statements
  PROVE  reqs[r] \in Request /\ PendingWriteOK(reqs[r])
<1>1. reqs[r] \in Request \cup {Idle}
  BY DEF IInv, TypeOK
<1>2. reqs[r] # Idle
  BY DEF Idle, Statements
<1> QED
  BY <1>1, <1>2 DEF IInv

\* A request can go on relying on its snapshot as long as its consultation
\* keeps its technician and its visit; getting a technician hurts only another
\* request that would assign one.
LEMMA Persist ==
  ASSUME NEW q \in Request, PendingWriteOK(q),
         Exists(q.c)',
         row[q.c].booking # None => row'[q.c].booking # None,
         \/ row'[q.c].tech = row[q.c].tech
         \/ /\ row[q.c].tech = None
            /\ q.at \notin Matching /\ q.to # "no_technician",
         q.b \in Bookings /\ from[q.b] # None => from'[q.b] = from[q.b]
  PROVE  PendingWriteOK(q)'
<1>1. q.c \in Consultations /\ q.c # None /\ q.b \in Bookings \cup {None}
  BY NoneAssumption DEF Request
<1>2. CASE row'[q.c].tech = row[q.c].tech
  BY <1>1, <1>2 DEF PendingWriteOK
<1>3. CASE /\ row[q.c].tech = None
           /\ q.at \notin Matching /\ q.to # "no_technician"
  BY <1>1, <1>3 DEF PendingWriteOK
<1> QED
  BY <1>2, <1>3

-----------------------------------------------------------------------------
(* Steps, by what they do to the tables and to the slots.                    *)

\* The tables stay in order: no visit is lost, nobody starts to wait, and what
\* is offered was offered before or is about to be linked.
TablesOK ==
  /\ row' \in [Consultations -> Row]
  /\ \A c \in Consultations :
       /\ RowOK(row[c])'
       /\ row[c].booking # None => row'[c].booking # None
       /\ Unmatched(c)' => Unmatched(c)
  /\ phase' \in [Bookings -> Jobs!Phases]
  /\ holder' \in [Bookings -> Techs \cup {None}]
  /\ from' \in [Bookings -> Consultations \cup {None}]
  /\ cut' \subseteq Consultations /\ cut \subseteq cut'
  /\ \A b \in Bookings :
       /\ from'[b] = None <=> phase'[b] = "absent"
       /\ phase'[b] = "offered" =>
            /\ holder'[b] # None
            /\ from'[b] = from[b]
            /\ \/ phase[b] = "offered"
               \/ \E x \in Requests :
                    reqs'[x].at = "SetEscalatedBooking" /\ reqs'[x].b = b
  /\ VisitGoesToCaller'

\* Slot x has changed, and nobody depends on what it stood for.
MovesOn(x) ==
  /\ reqs'[x] # Idle => PendingWriteOK(reqs[x])'
  /\ \A c \in Consultations : ~Matches(x, c)'
  /\ \A c \in Consultations : Matches(x, c) => c \in cut' \/ ~Unmatched(c)'
  /\ reqs[x].at = "SetEscalatedBooking" =>
       row'[reqs[x].c].booking # None \/ reqs[x].c \in cut'

\* Slot x is as it was, and so is what it relies on.
Rests(x) ==
  /\ reqs'[x] = reqs[x]
  /\ reqs[x] # Idle => PendingWriteOK(reqs[x])'

\* Such a step preserves the invariant.
LEMMA OrderlyStep ==
  ASSUME IInv, TablesOK, reqs' \in [Requests -> Request \cup {Idle}],
         \A x \in Requests : Rests(x) \/ MovesOn(x)
  PROVE  IInv'
<1>1. TypeOK'
  BY DEF TypeOK, TablesOK
<1>2. (\A r \in Requests : reqs[r] # Idle => PendingWriteOK(reqs[r]))'
  BY DEF Rests, MovesOn
<1>3. MatchedOnce'
  <2> SUFFICES ASSUME NEW c \in Consultations
               PROVE  /\ \A q, r \in Requests :
                           Matches(q, c)' /\ Matches(r, c)' => q = r
                      /\ c \notin cut' /\ Unmatched(c)' =>
                           \E r \in Requests : Matches(r, c)'
    BY DEF MatchedOnce
  <2>1. \A r \in Requests : Matches(r, c)' => Matches(r, c)
    BY DEF Rests, MovesOn, Matches
  <2>2. \A q, r \in Requests : Matches(q, c) /\ Matches(r, c) => q = r
    BY DEF IInv, MatchedOnce
  <2>3. ASSUME c \notin cut', Unmatched(c)'
        PROVE  \E r \in Requests : Matches(r, c)'
    <3>1. c \notin cut /\ Unmatched(c)
      BY <2>3 DEF TablesOK
    <3>2. PICK r \in Requests : Matches(r, c)
      BY <3>1 DEF IInv, MatchedOnce
    <3>3. Rests(r)
      BY <2>3, <3>2 DEF MovesOn
    <3> QED
      BY <3>2, <3>3 DEF Rests, Matches
  <2> QED
    BY <2>1, <2>2, <2>3
<1>4. OfferedVisitIsLinked'
  <2> SUFFICES ASSUME NEW b \in Bookings, phase'[b] = "offered", from'[b] \notin cut'
               PROVE  \/ row'[from'[b]].booking # None
                      \/ \E r \in Requests :
                           reqs'[r].at = "SetEscalatedBooking" /\ reqs'[r].b = b
    BY DEF OfferedVisitIsLinked, At
  <2>1. from'[b] = from[b] /\ from[b] \in Consultations /\ from[b] \notin cut
    BY DEF TablesOK, IInv, TypeOK
  <2>2. CASE phase[b] # "offered"
    BY <2>2 DEF TablesOK
  <2>3. CASE phase[b] = "offered"
    <3>1. \/ row[from[b]].booking # None
          \/ \E r \in Requests : At(r, "SetEscalatedBooking") /\ reqs[r].b = b
      BY <2>1, <2>3 DEF IInv, OfferedVisitIsLinked
    <3>2. CASE row[from[b]].booking # None
      BY <2>1, <3>2 DEF TablesOK
    <3>3. ASSUME NEW r \in Requests, At(r, "SetEscalatedBooking"), reqs[r].b = b
          PROVE  \/ row'[from'[b]].booking # None
                 \/ \E x \in Requests :
                      reqs'[x].at = "SetEscalatedBooking" /\ reqs'[x].b = b
      <4>1. from[b] = reqs[r].c
        BY <3>3, Running DEF PendingWriteOK, At, Statements
      <4>2. CASE Rests(r)
        BY <3>3, <4>2 DEF Rests, At
      <4>3. CASE MovesOn(r)
        BY <2>1, <3>3, <4>1, <4>3 DEF MovesOn, At
      <4> QED
        BY <4>2, <4>3
    <3> QED
      BY <3>1, <3>2, <3>3
  <2> QED
    BY <2>2, <2>3
<1> QED
  BY <1>1, <1>2, <1>3, <1>4 DEF TablesOK, IInv

\* A slot nobody touched, as long as requests can go on relying on their
\* snapshots.
LEMMA Untouched ==
  ASSUME IInv, NEW x \in Requests, reqs'[x] = reqs[x],
         \A q \in Request : PendingWriteOK(q) => PendingWriteOK(q)'
  PROVE  Rests(x)
<1> SUFFICES ASSUME reqs[x] # Idle PROVE PendingWriteOK(reqs[x])'
  BY DEF Rests
<1>1. PICK q \in Request : q = reqs[x]
  BY DEF IInv, TypeOK
<1>2. PendingWriteOK(q)'
  BY <1>1 DEF IInv
<1> QED
  BY <1>1, <1>2 DEF PendingWriteOK

\* Tables nobody touched are in order.
LEMMA QuietTables ==
  ASSUME IInv, UNCHANGED <<row, phase, holder, from>>,
         cut' \subseteq Consultations, cut \subseteq cut'
  PROVE  TablesOK
<1>1. VisitGoesToCaller'
  BY DEF IInv, VisitGoesToCaller
<1>2. \A c \in Consultations :
        RowOK(row[c])' /\ (Unmatched(c)' => Unmatched(c))
  BY DEF IInv, RowOK, Unmatched
<1> QED
  BY <1>1, <1>2 DEF IInv, TypeOK, TablesOK

\* The new contents of a row that keeps its technician and does not lose its
\* visit.
Edit(c, w) ==
  /\ w \in Row /\ RowOK(w)
  /\ w.status # "absent"
  /\ w.tech = row[c].tech
  /\ row[c].booking # None => w.booking # None
  /\ w.booking # None => w.booking = row[c].booking \/ from[w.booking] = c
  /\ w.status \in {"searching", "scheduled"} =>
       row[c].status \in {"searching", "scheduled"}

LEMMA EditTables ==
  ASSUME IInv, NEW c \in Consultations, NEW w, Edit(c, w),
         row' = [row EXCEPT ![c] = w], UNCHANGED <<phase, holder, from, cut>>
  PROVE  /\ TablesOK
         /\ \A q \in Request : PendingWriteOK(q) => PendingWriteOK(q)'
<1>1. /\ row'[c] = w
      /\ \A d \in Consultations \ {c} : row'[d] = row[d]
      /\ row' \in [Consultations -> Row]
  BY DEF IInv, TypeOK, Edit
<1>2. \A d \in Consultations :
        /\ row'[d].tech = row[d].tech
        /\ row[d].booking # None => row'[d].booking # None
  BY <1>1 DEF Edit
<1>3. \A d \in Consultations : RowOK(row[d])'
  <2>1. \A d \in Consultations : RowOK(row'[d])
    BY <1>1 DEF Edit, IInv
  <2> QED
    BY <2>1 DEF RowOK
<1>4. \A d \in Consultations : Unmatched(d)' => Unmatched(d)
  BY <1>1, <1>2 DEF Edit, Unmatched
<1>5. VisitGoesToCaller'
  <2>1. \A b \in Bookings : phase[b] = "offered" => from[b] \in Consultations
    BY DEF IInv, TypeOK
  <2> QED
    BY <1>1, <1>2, <2>1 DEF IInv, VisitGoesToCaller, Edit
<1>6. TablesOK
  BY <1>1, <1>2, <1>3, <1>4, <1>5 DEF IInv, TypeOK, TablesOK
<1>7. ASSUME NEW q \in Request, PendingWriteOK(q) PROVE PendingWriteOK(q)'
  <2>1. q.c \in Consultations
    BY DEF Request
  <2>2. Exists(q.c)'
    BY <1>1, <1>7, <2>1 DEF Edit, PendingWriteOK, Exists
  <2> QED
    BY <1>2, <1>7, <2>1, <2>2, Persist
<1> QED
  BY <1>6, <1>7

\* A statement that edits a row, and what becomes of the slot it was run for.
LEMMA EditStep ==
  ASSUME IInv, NEW c \in Consultations, NEW w, Edit(c, w),
         row' = [row EXCEPT ![c] = w], UNCHANGED <<phase, holder, from, cut>>,
         NEW r \in Requests, NEW s \in Request \cup {Idle},
         reqs' = [reqs EXCEPT ![r] = s],
         s # Idle => /\ s.at \notin Matching /\ s.to # "no_technician"
                     /\ PendingWriteOK(s)',
         \A d \in Consultations : Matches(r, d) =>
           d = c /\ w.status \notin {"searching", "scheduled"},
         At(r, "SetEscalatedBooking") => reqs[r].c = c /\ w.booking # None
  PROVE  IInv'
<1>1. TablesOK /\ \A q \in Request : PendingWriteOK(q) => PendingWriteOK(q)'
  BY EditTables
<1>2. /\ reqs' \in [Requests -> Request \cup {Idle}]
      /\ reqs'[r] = s
      /\ \A x \in Requests \ {r} : reqs'[x] = reqs[x]
  BY DEF IInv, TypeOK
<1>3. row'[c] = w
  BY DEF IInv, TypeOK
<1>4. MovesOn(r)
  <2>1. reqs'[r] # Idle => PendingWriteOK(reqs[r])'
    BY <1>2 DEF PendingWriteOK
  <2>2. \A d \in Consultations : ~Matches(r, d)'
    BY <1>2 DEF Matches
  <2>3. \A d \in Consultations : Matches(r, d) => ~Unmatched(d)'
    BY <1>3 DEF Unmatched
  <2> QED
    BY <1>3, <2>1, <2>2, <2>3 DEF MovesOn, At
<1>5. \A x \in Requests \ {r} : Rests(x)
  BY <1>1, <1>2, Untouched
<1> QED
  BY <1>1, <1>2, <1>4, <1>5, OrderlyStep

-----------------------------------------------------------------------------
(* A handler looks at the row.                                               *)

\* A call whose first statement needs no more than the row, or its technician.
LEMMA PlainCall ==
  ASSUME NEW r \in Requests, NEW c \in Consultations,
         NEW at \in {"MarkEndedWithStats", "SetRating", "SetRecommendation"},
         NEW e, Exists(c), at = "SetRecommendation" => row[c].tech # None,
         Begin(r, e, Call(at, c)), UNCHANGED <<row, phase, holder, from, cut>>
  PROVE  \E q \in Request :
           /\ q.at \notin Matching /\ q.to # "no_technician" /\ PendingWriteOK(q)
           /\ reqs[r] = Idle /\ reqs' = [reqs EXCEPT ![r] = q]
           /\ UNCHANGED <<row, phase, holder, from, cut>>
<1> DEFINE q == Call(at, c)
<1>1. /\ q \in Request /\ q.at = at /\ q.to = "none" /\ q.c = c
      /\ q.pending = FALSE
  BY DEF Call, Request, Statements
<1>2. reqs[r] = Idle /\ reqs' = [reqs EXCEPT ![r] = q]
  BY DEF Begin
<1> HIDE DEF q
<1>3. PendingWriteOK(q)
  BY <1>1 DEF PendingWriteOK, Matching
<1> QED
  BY <1>1, <1>2, <1>3 DEF Matching

\* The calls anybody makes.
LEMMA AnyoneStep ==
  ASSUME IInv, NEW r \in Requests, NEW c \in Consultations,
         EndWithStats(r, c) \/ Escalate(r, c)
  PROVE  \E q \in Request :
           /\ q.at \notin Matching /\ q.to # "no_technician" /\ PendingWriteOK(q)
           /\ reqs[r] = Idle /\ reqs' = [reqs EXCEPT ![r] = q]
           /\ UNCHANGED <<row, phase, holder, from, cut>>
<1>1. row[c] \in Row /\ RowOK(row[c])
  BY DEF IInv, TypeOK
<1>2. CASE EndWithStats(r, c)
  BY <1>2, PlainCall DEF EndWithStats, NoBookings
<1>3. CASE Escalate(r, c)
  <2> DEFINE q == [Call("CreateBooking", c) EXCEPT
                     !.t = row[c].tech, !.pending = (row[c].rec = "pending")]
  <2>1. /\ q \in Request /\ q.at = "CreateBooking" /\ q.to = "none" /\ q.c = c
        /\ q.t = row[c].tech /\ q.pending = (row[c].rec = "pending")
    BY <1>1 DEF Call, Request, Statements, Row
  <2>2. Exists(c) /\ (row[c].rec = "pending" => row[c].tech # None)
    BY <1>1, <1>3 DEF Escalate, RowOK
  <2>3. /\ reqs[r] = Idle /\ reqs' = [reqs EXCEPT ![r] = q]
        /\ UNCHANGED <<row, phase, holder, from, cut>>
    BY <1>3 DEF Escalate, Begin, NoBookings
  <2> HIDE DEF q
  <2>4. PendingWriteOK(q)
    BY <2>1, <2>2 DEF PendingWriteOK, Matching
  <2> QED
    BY <2>1, <2>3, <2>4 DEF Matching
<1> QED
  BY <1>2, <1>3

\* Every request but one for a new consultation: its snapshot justifies its
\* first statement, and nothing is written yet.
LEMMA ServeStep ==
  ASSUME IInv, NEW r \in Requests, NEW c \in Consultations, NEW u \in Users,
         \/ ConfirmScheduledByUser(r, c, u) \/ DeclineScheduledByUser(r, c, u)
         \/ AcceptByUser(r, c, u) \/ RejectByUser(r, c, u)
         \/ RecommendOnsiteByUser(r, c, u) \/ DeclineRecommendation(r, u, c)
         \/ Rate(r, u, c)
  PROVE  \E q \in Request :
           /\ q.at \notin Matching /\ q.to # "no_technician" /\ PendingWriteOK(q)
           /\ reqs[r] = Idle /\ reqs' = [reqs EXCEPT ![r] = q]
           /\ UNCHANGED <<row, phase, holder, from, cut>>
<1> DEFINE Goal == \E q \in Request :
             /\ q.at \notin Matching /\ q.to # "no_technician" /\ PendingWriteOK(q)
             /\ reqs[r] = Idle /\ reqs' = [reqs EXCEPT ![r] = q]
             /\ UNCHANGED <<row, phase, holder, from, cut>>
<1>1. row[c] \in Row /\ RowOK(row[c]) /\ None \notin Users
  BY NoneAssumption DEF IInv, TypeOK
<1>2. row[c].customer = u => Exists(c)
  BY <1>1 DEF Exists, RowOK
<1>3. ASSUME NEW t \in Techs \cup {None}, NEW e,
             NEW to \in {"confirmed", "accepted", "rejected"},
             OfferedTo(c, t),
             Begin(r, e, [Call("UpdateStatus", c) EXCEPT !.to = to]),
             UNCHANGED <<row, phase, holder, from, cut>>
      PROVE  Goal
  <2> DEFINE q == [Call("UpdateStatus", c) EXCEPT !.to = to]
  <2>1. /\ q \in Request /\ q.at = "UpdateStatus" /\ q.to = to /\ q.c = c
        /\ q.pending = FALSE
    BY DEF Call, Request, Statements, Statuses
  <2>2. row[c].tech # None /\ Exists(c)
    BY <1>1, <1>3 DEF OfferedTo, RowOK, Exists
  <2>3. reqs[r] = Idle /\ reqs' = [reqs EXCEPT ![r] = q]
    BY <1>3 DEF Begin
  <2> HIDE DEF q
  <2>4. PendingWriteOK(q)
    BY <2>1, <2>2 DEF PendingWriteOK, Matching
  <2> QED
    BY <1>3, <2>1, <2>3, <2>4 DEF Matching
<1>4. ProfileOf[u] \in Techs \cup {None}
  BY ProfileAssumption
<1>5. CASE ConfirmScheduledByUser(r, c, u)
  BY <1>3, <1>4, <1>5 DEF ConfirmScheduledByUser, ConfirmScheduled, NoBookings
<1>6. CASE DeclineScheduledByUser(r, c, u)
  BY <1>3, <1>4, <1>6 DEF DeclineScheduledByUser, DeclineScheduled, NoBookings
<1>7. CASE AcceptByUser(r, c, u)
  BY <1>3, <1>4, <1>7 DEF AcceptByUser, Accept, NoBookings
<1>8. CASE RejectByUser(r, c, u)
  BY <1>3, <1>4, <1>8 DEF RejectByUser, Reject, NoBookings
<1>9. CASE RecommendOnsiteByUser(r, c, u)
  <2>1. row[c].tech # None /\ Exists(c)
    BY <1>1, <1>9 DEF RecommendOnsiteByUser, RecommendOnsite, OfferedTo, Exists
  <2> QED
    BY <1>9, <2>1, PlainCall DEF RecommendOnsiteByUser, RecommendOnsite, NoBookings
<1>10. CASE DeclineRecommendation(r, u, c)
  <2> DEFINE q == [Call("UpdateRecommendationStatus", c) EXCEPT !.to = "declined"]
  <2>1. /\ q \in Request /\ q.at = "UpdateRecommendationStatus"
        /\ q.to = "declined" /\ q.c = c /\ q.pending = FALSE
    BY DEF Call, Request, Statements
  <2>2. row[c].tech # None /\ Exists(c)
    BY <1>1, <1>2, <1>10 DEF DeclineRecommendation, RowOK
  <2>3. /\ reqs[r] = Idle /\ reqs' = [reqs EXCEPT ![r] = q]
        /\ UNCHANGED <<row, phase, holder, from, cut>>
    BY <1>10 DEF DeclineRecommendation, Begin, NoBookings
  <2> HIDE DEF q
  <2>4. PendingWriteOK(q)
    BY <2>1, <2>2 DEF PendingWriteOK, Matching
  <2> QED
    BY <2>1, <2>3, <2>4 DEF Matching
<1>11. CASE Rate(r, u, c)
  <2>1. Exists(c)
    BY <1>2, <1>11 DEF Rate
  <2> QED
    BY <1>11, <2>1, PlainCall DEF Rate, NoBookings
<1> QED
  BY <1>5, <1>6, <1>7, <1>8, <1>9, <1>10, <1>11

\* So none of these requests disturbs anything.
LEMMA ServedStep ==
  ASSUME IInv, NEW r \in Requests, NEW q \in Request,
         q.at \notin Matching /\ q.to # "no_technician", PendingWriteOK(q),
         reqs[r] = Idle, reqs' = [reqs EXCEPT ![r] = q],
         UNCHANGED <<row, phase, holder, from, cut>>
  PROVE  IInv'
<1>1. /\ reqs' \in [Requests -> Request \cup {Idle}]
      /\ reqs'[r] = q
      /\ \A x \in Requests \ {r} : reqs'[x] = reqs[x]
  BY DEF IInv, TypeOK
<1>2. TablesOK
  BY QuietTables DEF IInv, TypeOK
<1>3. \A p \in Request : PendingWriteOK(p) => PendingWriteOK(p)'
  BY DEF PendingWriteOK, Exists
<1>4. MovesOn(r)
  <2>1. PendingWriteOK(reqs[r])'
    BY <1>1, <1>3 DEF PendingWriteOK
  <2>2. reqs[r].at # "SetEscalatedBooking"
    BY DEF Idle
  <2> QED
    BY <1>1, <2>1, <2>2 DEF MovesOn, Matches
<1>5. \A x \in Requests \ {r} : Rests(x)
  BY <1>1, <1>3, Untouched
<1> QED
  BY <1>1, <1>2, <1>4, <1>5, OrderlyStep

\* A new consultation: nobody has a request about it yet, and one for its
\* technician is under way from the start.
LEMMA RequestStep ==
  ASSUME IInv, NEW r \in Requests, NEW c \in Consultations, NEW u \in Customers,
         NEW t \in Techs \cup {None}, NEW timed \in BOOLEAN,
         RequestConsultation(r, u, c, t, timed)
  PROVE  IInv'
<1> DEFINE w == [NewRow EXCEPT !.customer = u,
                   !.status = IF timed THEN "scheduled" ELSE "searching"]
           q == IF t = None
                THEN [Call("UpdateStatus", c) EXCEPT !.to = "no_technician"]
                ELSE [Call(IF timed THEN "AssignTechnicianScheduled"
                                    ELSE "AssignTechnician", c) EXCEPT !.t = t]
<1>1. /\ w \in Row /\ w.tech = None /\ w.booking = None /\ w.rec = "none"
      /\ w.status \in {"scheduled", "searching"}
  BY CustomerAssumption DEF NewRow, Row, Statuses
<1>2. /\ q \in Request /\ q.c = c /\ q.b = None /\ q.pending = FALSE
      /\ \/ q.at = "UpdateStatus" /\ q.to = "no_technician"
         \/ q.at \in Matching /\ q.to = "none" /\ q.t # None
  BY DEF Call, Request, Statements, Statuses, Matching
<1>3. /\ row[c].status = "absent" /\ reqs[r] = Idle
      /\ row' = [row EXCEPT ![c] = w] /\ reqs' = [reqs EXCEPT ![r] = q]
      /\ UNCHANGED <<phase, holder, from, cut>>
  BY DEF RequestConsultation, Begin, NoBookings, Exists
<1> HIDE DEF w, q
<1>4. /\ row'[c] = w
      /\ \A d \in Consultations \ {c} : row'[d] = row[d]
      /\ reqs'[r] = q
      /\ \A x \in Requests \ {r} : reqs'[x] = reqs[x]
  BY <1>3 DEF IInv, TypeOK
<1>5. RowOK(row[c]) /\ row[c].tech = None
  BY <1>3 DEF IInv, RowOK
<1>6. \A p \in Request : PendingWriteOK(p) => p.c \in Consultations \ {c}
  BY <1>3 DEF PendingWriteOK, Exists, Request
<1>7. \A x \in Requests : reqs[x] # Idle =>
        reqs[x] \in Request /\ PendingWriteOK(reqs[x]) /\ reqs[x].c # c
  BY <1>6 DEF IInv, TypeOK
<1>8. \A x \in Requests \ {r} : reqs'[x] # Idle => PendingWriteOK(reqs[x])'
  <2> SUFFICES ASSUME NEW x \in Requests \ {r}, reqs'[x] # Idle
               PROVE  PendingWriteOK(reqs[x])'
    OBVIOUS
  <2>1. PICK p \in Request : p = reqs[x] /\ PendingWriteOK(p)
    BY <1>4, <1>7
  <2>2. row'[p.c] = row[p.c]
    BY <1>4, <1>6, <2>1
  <2>3. PendingWriteOK(p)'
    BY <1>3, <2>1, <2>2 DEF PendingWriteOK, Exists
  <2> QED
    BY <1>4, <2>1, <2>3 DEF PendingWriteOK
<1>9. PendingWriteOK(reqs[r])'
  BY <1>1, <1>2, <1>4 DEF PendingWriteOK, Exists, Matching
<1>10. TypeOK'
  BY <1>1, <1>2, <1>3 DEF IInv, TypeOK
<1>11. (\A d \in Consultations : RowOK(row[d]))'
  <2>1. RowOK(w)
    BY <1>1 DEF RowOK
  <2>2. \A d \in Consultations : RowOK(row'[d])
    BY <1>4, <2>1 DEF IInv
  <2> QED
    BY <2>2 DEF RowOK
<1>12. (\A x \in Requests : reqs[x] # Idle => PendingWriteOK(reqs[x]))'
  BY <1>8, <1>9
<1>13. MatchedOnce'
  <2> SUFFICES ASSUME NEW d \in Consultations
               PROVE  /\ \A x, y \in Requests :
                           Matches(x, d)' /\ Matches(y, d)' => x = y
                      /\ d \notin cut' /\ Unmatched(d)' =>
                           \E x \in Requests : Matches(x, d)'
    BY DEF MatchedOnce
  <2>1. CASE d = c
    <3>1. Matches(r, c)'
      BY <1>2, <1>4 DEF Matches, Matching, Idle
    <3>2. \A x \in Requests : Matches(x, c)' => x = r
      BY <1>4, <1>7 DEF Matches
    <3> QED
      BY <2>1, <3>1, <3>2
  <2>2. CASE d # c
    <3>1. \A x \in Requests : Matches(x, d)' <=> Matches(x, d)
      BY <1>2, <1>3, <1>4, <2>2 DEF Matches
    <3>2. Unmatched(d)' => Unmatched(d)
      BY <1>4, <2>2 DEF Unmatched
    <3> QED
      BY <1>3, <3>1, <3>2 DEF IInv, MatchedOnce
  <2> QED
    BY <2>1, <2>2
<1>14. \A b \in Bookings : phase[b] = "offered" => from[b] \in Consultations
  BY DEF IInv, TypeOK
<1>15. VisitGoesToCaller'
  <2>1. \A d \in Consultations :
          row'[d].tech = row[d].tech /\ (row'[d].booking # None => row'[d] = row[d])
    BY <1>1, <1>4, <1>5
  <2> QED
    BY <1>3, <1>14, <2>1 DEF IInv, VisitGoesToCaller
<1>16. OfferedVisitIsLinked'
  <2> SUFFICES ASSUME NEW b \in Bookings, phase[b] = "offered", from[b] \notin cut
               PROVE  \/ row'[from[b]].booking # None
                      \/ \E x \in Requests :
                           reqs'[x].at = "SetEscalatedBooking" /\ reqs'[x].b = b
    BY <1>3 DEF OfferedVisitIsLinked, At
  <2>1. from[b] # c
    <3>1. holder[b] = row[from[b]].tech /\ holder[b] # None
      BY DEF IInv, VisitGoesToCaller
    <3> QED
      BY <1>5, <3>1
  <2>2. \/ row[from[b]].booking # None
        \/ \E x \in Requests : At(x, "SetEscalatedBooking") /\ reqs[x].b = b
    BY DEF IInv, OfferedVisitIsLinked
  <2>3. \A x \in Requests : At(x, "SetEscalatedBooking") => x # r
    BY <1>3 DEF At, Idle
  <2> QED
    BY <1>4, <1>14, <2>1, <2>2, <2>3 DEF At
<1> QED
  BY <1>3, <1>10, <1>11, <1>12, <1>13, <1>15, <1>16 DEF IInv

-----------------------------------------------------------------------------
(* A statement is executed.                                                  *)

\* The match is written to the row, which no other request is matching.
LEMMA MatchStep ==
  ASSUME IInv, NEW r \in Requests,
         DbAssignTechnician(r) \/ DbAssignTechnicianScheduled(r)
  PROVE  IInv'
<1>1. /\ reqs[r] \in Request /\ PendingWriteOK(reqs[r])
      /\ reqs[r].at \in Matching
  BY Running DEF DbAssignTechnician, DbAssignTechnicianScheduled, At, Statements,
                 Matching
<1> DEFINE c == reqs[r].c
           t == reqs[r].t
           w == [row[c] EXCEPT !.tech = t,
                   !.status = IF reqs[r].at = "AssignTechnician"
                              THEN "ringing" ELSE "scheduled"]
<1>2. /\ c \in Consultations /\ t \in Techs /\ t # None
      /\ row[c] \in Row /\ RowOK(row[c]) /\ row[c].tech = None
      /\ reqs[r] # Idle /\ Matches(r, c)
      /\ row[c].booking # None => from[row[c].booking] = c
  BY <1>1 DEF Request, PendingWriteOK, IInv, TypeOK, Matches, Idle, Matching,
              VisitGoesToCaller
<1>3. /\ row' = [row EXCEPT ![c] = w] /\ reqs' = [reqs EXCEPT ![r] = Idle]
      /\ UNCHANGED <<phase, holder, from, cut>>
  BY DEF DbAssignTechnician, DbAssignTechnicianScheduled, At, Write, RowOf, Done,
         NoBookings
<1>4. /\ w \in Row /\ w.tech = t /\ w.status \in {"ringing", "scheduled"}
      /\ w.booking = row[c].booking /\ w.rec = row[c].rec
  BY <1>2 DEF Row, Statuses
<1> HIDE DEF c, t, w
<1>5. /\ row'[c] = w
      /\ \A d \in Consultations \ {c} : row'[d] = row[d]
      /\ row' \in [Consultations -> Row]
      /\ reqs' \in [Requests -> Request \cup {Idle}]
      /\ reqs'[r] = Idle
      /\ \A x \in Requests \ {r} : reqs'[x] = reqs[x]
  BY <1>2, <1>3, <1>4 DEF IInv, TypeOK
<1>6. \A d \in Consultations : RowOK(row[d])'
  <2>1. RowOK(w)
    BY <1>2, <1>4 DEF RowOK
  <2>2. \A d \in Consultations : RowOK(row'[d])
    BY <1>5, <2>1 DEF IInv
  <2> QED
    BY <2>2 DEF RowOK
<1>7. \A d \in Consultations : Unmatched(d)' => Unmatched(d)
  BY <1>2, <1>4, <1>5 DEF Unmatched
<1>8. VisitGoesToCaller'
  <2>1. \A b \in Bookings : phase[b] = "offered" =>
          from[b] \in Consultations \ {c} /\ holder[b] = row[from[b]].tech
    BY <1>2 DEF IInv, TypeOK, VisitGoesToCaller
  <2> QED
    BY <1>3, <1>4, <1>5, <2>1 DEF IInv, VisitGoesToCaller
<1>9. TablesOK
  BY <1>3, <1>4, <1>5, <1>6, <1>7, <1>8 DEF IInv, TypeOK, TablesOK
<1>10. MovesOn(r)
  <2>1. \A d \in Consultations : Matches(r, d) => ~Unmatched(d)'
    BY <1>2, <1>4, <1>5 DEF Matches, Unmatched, c
  <2> QED
    BY <1>1, <1>5, <2>1 DEF MovesOn, Matches, Matching
<1>11. ASSUME NEW x \in Requests \ {r} PROVE Rests(x)
  <2> SUFFICES ASSUME reqs[x] # Idle PROVE PendingWriteOK(reqs[x])'
    BY <1>5 DEF Rests
  <2>1. PICK q \in Request : q = reqs[x] /\ PendingWriteOK(q)
    BY DEF IInv, TypeOK
  <2>2. q.c = c => q.at \notin Matching /\ q.to # "no_technician"
    BY <1>2, <2>1 DEF IInv, MatchedOnce, Matches
  <2>3. q.c \in Consultations /\ Exists(q.c)'
    BY <1>4, <1>5, <2>1 DEF Request, PendingWriteOK, Exists
  <2>4. PendingWriteOK(q)'
    BY <1>2, <1>3, <1>4, <1>5, <2>1, <2>2, <2>3, Persist
  <2> QED
    BY <1>5, <2>1, <2>4 DEF PendingWriteOK
<1> QED
  BY <1>5, <1>9, <1>10, <1>11, OrderlyStep

\* What a handler that has its last statement to run may be left with.
LEMMA RunningRow ==
  ASSUME IInv, NEW r \in Requests, reqs[r].at \in Statements
  PROVE  /\ reqs[r].c \in Consultations
         /\ row[reqs[r].c] \in Row /\ RowOK(row[reqs[r].c])
         /\ row[reqs[r].c].status # "absent"
         /\ row[reqs[r].c].booking # None =>
              /\ row[reqs[r].c].booking \in Bookings
              /\ from[row[reqs[r].c].booking] = reqs[r].c
  BY Running DEF Request, PendingWriteOK, Exists, IInv, TypeOK,
                 VisitGoesToCaller, Row

LEMMA UpdateStatusStep ==
  ASSUME IInv, NEW r \in Requests, DbUpdateStatus(r)
  PROVE  IInv'
<1> DEFINE c == reqs[r].c
           to == reqs[r].to
           w == [row[c] EXCEPT !.status = to]
<1>1. reqs[r].at = "UpdateStatus" /\ reqs[r].at \in Statements
  BY DEF DbUpdateStatus, At, Statements
<1>2. /\ PendingWriteOK(reqs[r])
      /\ c \in Consultations /\ row[c] \in Row /\ RowOK(row[c])
      /\ row[c].status # "absent"
      /\ row[c].booking # None => from[row[c].booking] = c
  BY <1>1, Running, RunningRow
<1>3. /\ to \in {"no_technician", "confirmed", "accepted", "rejected"}
      /\ to # "no_technician" => row[c].tech # None
  BY <1>1, <1>2 DEF PendingWriteOK, Matching
<1>4. /\ row' = [row EXCEPT ![c] = w] /\ reqs' = [reqs EXCEPT ![r] = Idle]
      /\ UNCHANGED <<phase, holder, from, cut>>
  BY DEF DbUpdateStatus, Write, RowOf, Done, NoBookings
<1>5. /\ w \in Row /\ w.status = to /\ w.tech = row[c].tech
      /\ w.rec = row[c].rec /\ w.booking = row[c].booking
  BY <1>2, <1>3 DEF Row, Statuses
<1>6. \A d \in Consultations : Matches(r, d) => d = c
  BY DEF Matches
<1> HIDE DEF c, to, w
<1>7. RowOK(w)
  BY <1>2, <1>3, <1>5 DEF RowOK
<1>8. Edit(c, w)
  BY <1>2, <1>3, <1>5, <1>7 DEF Edit
<1> QED
  BY <1>1, <1>2, <1>3, <1>4, <1>5, <1>6, <1>8, EditStep DEF At

\* The call ends, is rated, or the technician recommends a visit.
LEMMA PlainEditStep ==
  ASSUME IInv, NEW r \in Requests,
         DbMarkEndedWithStats(r) \/ DbSetRating(r) \/ DbSetRecommendation(r)
  PROVE  IInv'
<1> DEFINE c == reqs[r].c
           w == IF reqs[r].at = "MarkEndedWithStats"
                THEN [row[c] EXCEPT !.status = "ended"]
                ELSE IF reqs[r].at = "SetRating"
                     THEN [row[c] EXCEPT !.rated = TRUE]
                     ELSE [row[c] EXCEPT !.rec = "pending"]
<1>1. /\ reqs[r].at \in {"MarkEndedWithStats", "SetRating", "SetRecommendation"}
      /\ reqs[r].at \in Statements
  BY DEF DbMarkEndedWithStats, DbSetRating, DbSetRecommendation, At, Statements
<1>2. /\ PendingWriteOK(reqs[r])
      /\ c \in Consultations /\ row[c] \in Row /\ RowOK(row[c])
      /\ row[c].status # "absent"
      /\ row[c].booking # None => from[row[c].booking] = c
  BY <1>1, Running, RunningRow
<1>3. reqs[r].at = "SetRecommendation" => row[c].tech # None
  BY <1>2 DEF PendingWriteOK
<1>4. /\ row' = [row EXCEPT ![c] = w] /\ reqs' = [reqs EXCEPT ![r] = Idle]
      /\ UNCHANGED <<phase, holder, from, cut>>
  BY DEF DbMarkEndedWithStats, DbSetRating, DbSetRecommendation, At, Write, RowOf,
         Done, NoBookings
<1>5. /\ w \in Row /\ w.tech = row[c].tech /\ w.booking = row[c].booking
      /\ w.status \in {"ended", row[c].status}
      /\ \/ w.rec = row[c].rec
         \/ w.rec = "pending" /\ row[c].tech # None
  BY <1>1, <1>2, <1>3 DEF Row, Statuses
<1>6. \A d \in Consultations : ~Matches(r, d)
  BY <1>1, <1>2 DEF Matches, Matching, PendingWriteOK
<1> HIDE DEF c, w
<1>7. RowOK(w)
  BY <1>2, <1>5 DEF RowOK
<1>8. Edit(c, w)
  BY <1>2, <1>5, <1>7 DEF Edit
<1> QED
  BY <1>1, <1>2, <1>4, <1>6, <1>8, EditStep DEF At

LEMMA RecommendationStep ==
  ASSUME IInv, NEW r \in Requests, DbUpdateRecommendationStatus(r)
  PROVE  IInv'
<1> DEFINE c == reqs[r].c
           to == reqs[r].to
           w == [row[c] EXCEPT !.rec = to]
<1>1. reqs[r].at = "UpdateRecommendationStatus" /\ reqs[r].at \in Statements
  BY DEF DbUpdateRecommendationStatus, At, Statements
<1>2. /\ PendingWriteOK(reqs[r])
      /\ c \in Consultations /\ row[c] \in Row /\ RowOK(row[c])
      /\ row[c].status # "absent"
      /\ row[c].booking # None => from[row[c].booking] = c
  BY <1>1, Running, RunningRow
<1>3. /\ row[c].tech # None
      /\ to \in {"declined", "accepted"}
      /\ to = "accepted" => row[c].booking # None
  BY <1>1, <1>2 DEF PendingWriteOK
<1>4. /\ row' = [row EXCEPT ![c] = w] /\ reqs' = [reqs EXCEPT ![r] = Idle]
      /\ UNCHANGED <<phase, holder, from, cut>>
  BY DEF DbUpdateRecommendationStatus, Write, RowOf, Done, NoBookings
<1>5. /\ w \in Row /\ w.tech = row[c].tech /\ w.booking = row[c].booking
      /\ w.status = row[c].status /\ w.rec = to
  BY <1>2, <1>3 DEF Row
<1>6. \A d \in Consultations : ~Matches(r, d)
  BY <1>1, <1>3 DEF Matches, Matching
<1> HIDE DEF c, to, w
<1>7. RowOK(w)
  BY <1>2, <1>3, <1>5 DEF RowOK
<1>8. Edit(c, w)
  BY <1>2, <1>5, <1>7 DEF Edit
<1> QED
  BY <1>1, <1>2, <1>4, <1>6, <1>8, EditStep DEF At

\* The link: the booking was made of this consultation.
LEMMA LinkStep ==
  ASSUME IInv, NEW r \in Requests, DbSetEscalatedBooking(r)
  PROVE  IInv'
<1> DEFINE c == reqs[r].c
           b == reqs[r].b
           w == [row[c] EXCEPT !.booking = b]
           next == [reqs[r] EXCEPT !.at = "UpdateRecommendationStatus",
                                   !.to = "accepted"]
           s == IF reqs[r].pending THEN next ELSE Idle
<1>1. reqs[r].at = "SetEscalatedBooking" /\ reqs[r].at \in Statements
  BY DEF DbSetEscalatedBooking, At, Statements
<1>2. /\ reqs[r] \in Request /\ PendingWriteOK(reqs[r])
      /\ c \in Consultations /\ row[c] \in Row /\ RowOK(row[c])
      /\ row[c].status # "absent"
  BY <1>1, Running, RunningRow
<1>3. /\ b \in Bookings /\ b # None /\ from[b] = c /\ reqs[r].to = "none"
      /\ reqs[r].pending => row[c].tech # None
  BY <1>1, <1>2 DEF PendingWriteOK, Request
<1>4. /\ row' = [row EXCEPT ![c] = w] /\ UNCHANGED <<phase, holder, from, cut>>
  BY DEF DbSetEscalatedBooking, Write, RowOf, NoBookings
<1>5. reqs' = [reqs EXCEPT ![r] = s]
  BY DEF DbSetEscalatedBooking, Done
<1>6. /\ w \in Row /\ w.tech = row[c].tech /\ w.booking = b
      /\ w.status = row[c].status /\ w.rec = row[c].rec
  BY <1>2, <1>3 DEF Row
<1>7. /\ next \in Request /\ next.at = "UpdateRecommendationStatus"
      /\ next.to = "accepted" /\ next.c = c /\ next.pending = reqs[r].pending
  BY <1>2 DEF Request, Statements, Statuses
<1>8. \A d \in Consultations : ~Matches(r, d)
  BY <1>1, <1>3 DEF Matches, Matching
<1> HIDE DEF w, next
<1>9. RowOK(w)
  BY <1>2, <1>3, <1>6 DEF RowOK
<1>10. Edit(c, w)
  BY <1>2, <1>3, <1>6, <1>9 DEF Edit
<1>11. row'[c] = w
  BY <1>2, <1>4 DEF IInv, TypeOK
<1>12. PICK q \in Request \cup {Idle} : q = s
  BY <1>7
<1>13. q # Idle => /\ q.at \notin Matching /\ q.to # "no_technician"
                   /\ PendingWriteOK(q)'
  <2> SUFFICES ASSUME q # Idle
               PROVE  /\ q.at \notin Matching /\ q.to # "no_technician"
                      /\ PendingWriteOK(q)'
    OBVIOUS
  <2>1. q = next /\ reqs[r].pending
    BY <1>12
  <2> QED
    BY <1>2, <1>3, <1>6, <1>7, <1>11, <2>1 DEF PendingWriteOK, Exists, Matching
<1> HIDE DEF s
<1>14. reqs' = [reqs EXCEPT ![r] = q]
  BY <1>5, <1>12
<1> QED
  BY <1>2, <1>3, <1>4, <1>6, <1>8, <1>10, <1>13, <1>14, EditStep DEF At

\* The booking is stored: only now is there a booking of that name.
LEMMA CreateBookingStep ==
  ASSUME IInv, NEW r \in Requests, NEW b \in Bookings, DbCreateBooking(r, b)
  PROVE  IInv'
<1> DEFINE c == reqs[r].c
           s == [reqs[r] EXCEPT !.b = b,
                   !.at = IF reqs[r].t = None THEN "SetEscalatedBooking"
                                              ELSE "AssignPendingTechnician"]
<1>1. /\ reqs[r].at = "CreateBooking" /\ reqs[r] \in Request
      /\ PendingWriteOK(reqs[r])
  BY Running DEF DbCreateBooking, At, Statements
<1>2. /\ phase[b] = "absent" /\ phase' = [phase EXCEPT ![b] = "open"]
      /\ from' = [from EXCEPT ![b] = c] /\ UNCHANGED <<row, holder, cut>>
      /\ from[b] = None
  BY DEF DbCreateBooking, Jobs!Post, IInv
<1>3. /\ reqs[r].t \in {None, row[c].tech} /\ reqs[r].to = "none"
      /\ c \in Consultations /\ Exists(c)
      /\ reqs[r].pending => row[c].tech # None
  BY <1>1 DEF PendingWriteOK, Request
<1>4. reqs' = [reqs EXCEPT ![r] = s]
  BY <1>1 DEF DbCreateBooking, IInv, TypeOK, Request
<1>5. /\ s \in Request /\ s.b = b /\ s.c = c /\ s.t = reqs[r].t /\ s.to = "none"
      /\ s.pending = reqs[r].pending
      /\ \/ s.at = "SetEscalatedBooking"
         \/ s.at = "AssignPendingTechnician" /\ s.t # None
  BY <1>1, <1>3 DEF Request, Statements
<1> HIDE DEF c, s
<1>6. /\ reqs'[r] = s
      /\ reqs' \in [Requests -> Request \cup {Idle}]
      /\ \A x \in Requests \ {r} : reqs'[x] = reqs[x]
      /\ from'[b] = c /\ phase'[b] = "open"
      /\ \A d \in Bookings \ {b} : from'[d] = from[d] /\ phase'[d] = phase[d]
  BY <1>2, <1>4, <1>5 DEF IInv, TypeOK
<1>7. \A d \in Consultations : ~Matches(r, d) /\ ~Matches(r, d)'
  BY <1>1, <1>3, <1>5, <1>6 DEF Matches, Matching
<1>8. b # None /\ c # None
  BY <1>3, NoneAssumption
<1>9. PendingWriteOK(reqs[r])'
  BY <1>2, <1>3, <1>5, <1>6, <1>8 DEF PendingWriteOK, Exists, Matching
<1>10. MovesOn(r)
  BY <1>1, <1>7, <1>9 DEF MovesOn
<1>11. ASSUME NEW q \in Request, PendingWriteOK(q) PROVE PendingWriteOK(q)'
  <2>1. Exists(q.c)'
    BY <1>2, <1>11 DEF PendingWriteOK, Exists
  <2>2. q.b \in Bookings /\ from[q.b] # None => from'[q.b] = from[q.b]
    BY <1>2, <1>6
  <2> QED
    BY <1>2, <1>11, <2>1, <2>2, Persist
<1>12. \A x \in Requests \ {r} : Rests(x)
  BY <1>6, <1>11, Untouched
<1>13. VisitGoesToCaller'
  <2>1. \A d \in Consultations : row[d].booking # None =>
          row[d].booking \in Bookings /\ from[row[d].booking] = d /\ d # None
    BY NoneAssumption DEF IInv, TypeOK, Row, VisitGoesToCaller
  <2>2. \A d \in Consultations : row[d].booking # None =>
          from'[row[d].booking] = d
    BY <1>2, <1>6, <2>1
  <2>3. \A d \in Bookings : phase'[d] = "offered" =>
          holder[d] = row[from'[d]].tech
    BY <1>6 DEF IInv, VisitGoesToCaller
  <2> QED
    BY <1>2, <2>2, <2>3 DEF VisitGoesToCaller
<1>14. TablesOK
  <2>1. \A d \in Consultations :
          RowOK(row[d])' /\ (Unmatched(d)' => Unmatched(d))
    BY <1>2 DEF IInv, RowOK, Unmatched
  <2>2. /\ phase' \in [Bookings -> Jobs!Phases]
        /\ from' \in [Bookings -> Consultations \cup {None}]
    BY <1>2, <1>3 DEF IInv, TypeOK, Jobs!Phases
  <2>3. \A d \in Bookings :
          /\ from'[d] = None <=> phase'[d] = "absent"
          /\ phase'[d] = "offered" =>
               holder[d] # None /\ from'[d] = from[d] /\ phase[d] = "offered"
    BY <1>6, <1>8 DEF IInv
  <2> QED
    BY <1>2, <1>13, <2>1, <2>2, <2>3 DEF IInv, TypeOK, TablesOK
<1> QED
  BY <1>6, <1>10, <1>12, <1>14, OrderlyStep

\* A step of the jobs alone that offers none anew, or only one whose link is
\* about to be written.
LEMMA JobTables ==
  ASSUME IInv, UNCHANGED <<row, from, cut>>,
         phase' \in [Bookings -> Jobs!Phases],
         holder' \in [Bookings -> Techs \cup {None}],
         \A b \in Bookings :
           /\ phase[b] = "absent" <=> phase'[b] = "absent"
           /\ phase'[b] = "offered" =>
                \/ phase[b] = "offered" /\ holder'[b] = holder[b]
                \/ /\ holder'[b] = row[from[b]].tech /\ holder'[b] # None
                   /\ \E x \in Requests :
                        reqs'[x].at = "SetEscalatedBooking" /\ reqs'[x].b = b
  PROVE  TablesOK /\ \A q \in Request : PendingWriteOK(q) => PendingWriteOK(q)'
<1>1. VisitGoesToCaller'
  BY DEF IInv, VisitGoesToCaller
<1>2. \A c \in Consultations :
        RowOK(row[c])' /\ (Unmatched(c)' => Unmatched(c))
  BY DEF IInv, RowOK, Unmatched
<1>3. TablesOK
  BY <1>1, <1>2 DEF IInv, TypeOK, TablesOK
<1>4. \A q \in Request : PendingWriteOK(q) => PendingWriteOK(q)'
  BY DEF PendingWriteOK, Exists
<1> QED
  BY <1>3, <1>4

\* The booking is offered to the consultation's technician, or was taken first.
LEMMA OfferStep ==
  ASSUME IInv, NEW r \in Requests, DbAssignPendingTechnician(r)
  PROVE  IInv'
<1>1. /\ reqs[r].at = "AssignPendingTechnician" /\ reqs[r] \in Request
      /\ PendingWriteOK(reqs[r])
  BY Running DEF DbAssignPendingTechnician, At, Statements
<1> DEFINE b == reqs[r].b
           t == reqs[r].t
           next == [reqs[r] EXCEPT !.at = "SetEscalatedBooking"]
<1>2. /\ b \in Bookings /\ b # None /\ from[b] = reqs[r].c
      /\ t \in Techs /\ t # None /\ t = row[from[b]].tech /\ reqs[r].to = "none"
  BY <1>1 DEF PendingWriteOK, Request
<1>3. /\ next \in Request /\ next.at = "SetEscalatedBooking" /\ next.b = b
      /\ next.c = reqs[r].c /\ next.t = t /\ next.to = "none"
      /\ next.pending = reqs[r].pending
  BY <1>1, <1>2 DEF Request, Statements
<1> HIDE DEF b, t, next
<1>4. UNCHANGED <<row, from, cut>>
  BY DEF DbAssignPendingTechnician
<1>5. \/ /\ phase[b] = "open" /\ phase' = [phase EXCEPT ![b] = "offered"]
         /\ holder' = [holder EXCEPT ![b] = t]
         /\ reqs' = [reqs EXCEPT ![r] = next]
      \/ UNCHANGED <<phase, holder>> /\ reqs' = [reqs EXCEPT ![r] = Idle]
  BY DEF DbAssignPendingTechnician, Jobs!Offer, Done, b, t, next
<1>6. /\ reqs' \in [Requests -> Request \cup {Idle}]
      /\ reqs'[r] \in {next, Idle}
      /\ \A x \in Requests \ {r} : reqs'[x] = reqs[x]
  BY <1>3, <1>5 DEF IInv, TypeOK
<1>7. TablesOK /\ \A q \in Request : PendingWriteOK(q) => PendingWriteOK(q)'
  <2>1. CASE UNCHANGED <<phase, holder>>
    BY <1>4, <2>1, JobTables DEF IInv, TypeOK
  <2>2. CASE /\ phase[b] = "open" /\ phase' = [phase EXCEPT ![b] = "offered"]
             /\ holder' = [holder EXCEPT ![b] = t]
             /\ reqs' = [reqs EXCEPT ![r] = next]
    <3>1. /\ phase' \in [Bookings -> Jobs!Phases]
          /\ holder' \in [Bookings -> Techs \cup {None}]
      BY <1>2, <2>2 DEF IInv, TypeOK, Jobs!Phases
    <3>2. reqs'[r].at = "SetEscalatedBooking" /\ reqs'[r].b = b
      BY <1>3, <2>2 DEF IInv, TypeOK
    <3>3. /\ phase'[b] = "offered" /\ holder'[b] = t
          /\ \A d \in Bookings \ {b} :
               phase'[d] = phase[d] /\ holder'[d] = holder[d]
      BY <1>2, <2>2 DEF IInv, TypeOK
    <3> QED
      BY <1>2, <1>4, <2>2, <3>1, <3>2, <3>3, JobTables
  <2> QED
    BY <1>5, <2>1, <2>2
<1>8. MovesOn(r)
  <2>1. reqs'[r] # Idle => PendingWriteOK(reqs[r])'
    BY <1>1, <1>2, <1>3, <1>4, <1>6 DEF PendingWriteOK, Exists, Matching
  <2> QED
    BY <1>1, <1>2, <1>3, <1>6, <2>1 DEF MovesOn, Matches, Matching, Idle
<1>9. \A x \in Requests \ {r} : Rests(x)
  BY <1>6, <1>7, Untouched
<1> QED
  BY <1>6, <1>7, <1>8, <1>9, OrderlyStep

-----------------------------------------------------------------------------
(* The other steps.                                                          *)

\* What the booking component does meanwhile.
LEMMA JobsStep ==
  ASSUME IInv, JobMoves
  PROVE  IInv'
<1>1. UNCHANGED <<row, reqs, from, cut>>
  BY DEF JobMoves
<1>2. PICK b \in Bookings :
        Jobs!Return(b) \/ Jobs!Settle(b) \/ \E t \in Techs : Jobs!Take(b, t)
  BY DEF JobMoves
<1>3. \E ph \in {"open", "settled"} : \E h \in Techs \cup {None} :
        /\ phase[b] \in {"open", "offered"}
        /\ phase' = [phase EXCEPT ![b] = ph]
        /\ holder' = [holder EXCEPT ![b] = h]
  <2>1. holder = [holder EXCEPT ![b] = holder[b]] /\ holder[b] \in Techs \cup {None}
    BY DEF IInv, TypeOK
  <2> QED
    BY <1>2, <2>1 DEF Jobs!Return, Jobs!Settle, Jobs!Take
<1>4. TablesOK /\ \A q \in Request : PendingWriteOK(q) => PendingWriteOK(q)'
  <2>1. /\ phase' \in [Bookings -> Jobs!Phases]
        /\ holder' \in [Bookings -> Techs \cup {None}]
    BY <1>3 DEF IInv, TypeOK, Jobs!Phases
  <2>2. /\ phase[b] # "absent" /\ phase'[b] \in {"open", "settled"}
        /\ \A d \in Bookings \ {b} :
             phase'[d] = phase[d] /\ holder'[d] = holder[d]
    BY <1>3 DEF IInv, TypeOK
  <2> QED
    BY <1>1, <2>1, <2>2, JobTables
<1>5. \A x \in Requests : Rests(x)
  BY <1>1, <1>4, Untouched
<1> QED
  BY <1>1, <1>4, <1>5, OrderlyStep DEF IInv, TypeOK

\* A request is cut off, and its consultation is known for it.
LEMMA AbortStep ==
  ASSUME IInv, NEW r \in Requests, Abort(r)
  PROVE  IInv'
<1>1. /\ reqs[r] \in Request /\ reqs[r].c \in Consultations
      /\ reqs' = [reqs EXCEPT ![r] = Idle] /\ cut' = cut \cup {reqs[r].c}
      /\ UNCHANGED <<row, phase, holder, from>>
  BY DEF Abort, Done, NoBookings, IInv, TypeOK, Request
<1>2. /\ reqs' \in [Requests -> Request \cup {Idle}]
      /\ reqs'[r] = Idle
      /\ \A x \in Requests \ {r} : reqs'[x] = reqs[x]
  BY <1>1 DEF IInv, TypeOK
<1>3. TablesOK
  BY <1>1, QuietTables DEF IInv, TypeOK
<1>4. \A q \in Request : PendingWriteOK(q) => PendingWriteOK(q)'
  BY <1>1 DEF PendingWriteOK, Exists
<1>5. MovesOn(r)
  BY <1>1, <1>2 DEF MovesOn, Matches
<1>6. \A x \in Requests \ {r} : Rests(x)
  BY <1>2, <1>4, Untouched
<1> QED
  BY <1>2, <1>3, <1>5, <1>6, OrderlyStep

\* The endpoints that run a single statement.
LEMMA EndpointStep ==
  ASSUME IInv, NEW c \in Consultations,
         MarkStarted(c) \/ MarkPaid(c) \/ \E u \in Users : Cancel(u, c)
  PROVE  IInv'
<1>1. /\ row[c] \in Row /\ RowOK(row[c]) /\ None \notin Users
      /\ row[c].booking # None => from[row[c].booking] = c
  BY NoneAssumption DEF IInv, TypeOK, VisitGoesToCaller
<1>2. /\ row[c].status # "absent" /\ UNCHANGED <<phase, holder, from, cut, reqs>>
      /\ \/ row' = [row EXCEPT ![c] = [row[c] EXCEPT !.status = "in_call"]]
         \/ row' = [row EXCEPT ![c] = [row[c] EXCEPT !.paid = TRUE]]
         \/ row' = [row EXCEPT ![c] = [row[c] EXCEPT !.status = "cancelled"]]
  BY <1>1 DEF MarkStarted, MarkPaid, Cancel, Exists, NoBookings
<1>3. \E w \in Row :
        /\ row' = [row EXCEPT ![c] = w]
        /\ w.tech = row[c].tech /\ w.rec = row[c].rec
        /\ w.booking = row[c].booking
        /\ w.status \in {row[c].status, "in_call", "cancelled"}
  <2>1. /\ [row[c] EXCEPT !.status = "in_call"] \in Row
        /\ [row[c] EXCEPT !.paid = TRUE] \in Row
        /\ [row[c] EXCEPT !.status = "cancelled"] \in Row
    BY <1>1 DEF Row, Statuses
  <2> QED
    BY <1>1, <1>2, <2>1 DEF Row
<1>4. PICK w \in Row :
        /\ row' = [row EXCEPT ![c] = w]
        /\ w.tech = row[c].tech /\ w.rec = row[c].rec
        /\ w.booking = row[c].booking
        /\ w.status \in {row[c].status, "in_call", "cancelled"}
  BY <1>3
<1>5. Edit(c, w)
  BY <1>1, <1>2, <1>4 DEF Edit, RowOK
<1>6. TablesOK /\ \A q \in Request : PendingWriteOK(q) => PendingWriteOK(q)'
  BY <1>2, <1>4, <1>5, EditTables
<1>7. \A x \in Requests : Rests(x)
  BY <1>2, <1>6, Untouched
<1> QED
  BY <1>2, <1>6, <1>7, OrderlyStep DEF IInv, TypeOK

\* Nothing is there before the first request.
LEMMA Initially == Init => IInv
<1> SUFFICES ASSUME Init PROVE IInv
  OBVIOUS
<1>1. TypeOK
  BY DEF Init, TypeOK, NewRow, Row, Jobs!Init, Jobs!Phases
<1>2. \A c \in Consultations : RowOK(row[c]) /\ ~Unmatched(c)
  BY DEF Init, NewRow, RowOK, Unmatched
<1>3. \A r \in Requests : reqs[r] = Idle
  BY DEF Init
<1>4. MatchedOnce
  BY <1>2, <1>3 DEF MatchedOnce, Matches
<1>5. VisitGoesToCaller /\ OfferedVisitIsLinked
  BY DEF Init, NewRow, Jobs!Init, VisitGoesToCaller, OfferedVisitIsLinked
<1>6. \A b \in Bookings : from[b] = None /\ phase[b] = "absent"
  BY DEF Init, Jobs!Init
<1> QED
  BY <1>1, <1>2, <1>3, <1>4, <1>5, <1>6 DEF IInv

LEMMA EveryStep == IInv /\ [Next]_vars => IInv'
<1> SUFFICES ASSUME IInv, [Next]_vars PROVE IInv'
  OBVIOUS
<1>1. ASSUME NEW r \in Requests, NEW u \in Users, Serve(r, u) PROVE IInv'
  <2>1. PICK c \in Consultations :
          \/ /\ u \in Customers
             /\ \E t \in Techs \cup {None}, timed \in BOOLEAN :
                  RequestConsultation(r, u, c, t, timed)
          \/ ConfirmScheduledByUser(r, c, u) \/ DeclineScheduledByUser(r, c, u)
          \/ AcceptByUser(r, c, u) \/ RejectByUser(r, c, u)
          \/ RecommendOnsiteByUser(r, c, u) \/ DeclineRecommendation(r, u, c)
          \/ Rate(r, u, c)
    BY <1>1 DEF Serve
  <2>2. ASSUME u \in Customers, NEW t \in Techs \cup {None}, NEW timed \in BOOLEAN,
               RequestConsultation(r, u, c, t, timed)
        PROVE  IInv'
    BY <2>2, RequestStep
  <2>3. CASE \/ ConfirmScheduledByUser(r, c, u) \/ DeclineScheduledByUser(r, c, u)
             \/ AcceptByUser(r, c, u) \/ RejectByUser(r, c, u)
             \/ RecommendOnsiteByUser(r, c, u) \/ DeclineRecommendation(r, u, c)
             \/ Rate(r, u, c)
    BY <2>3, ServeStep, ServedStep
  <2> QED
    BY <2>1, <2>2, <2>3
<1>2. ASSUME NEW r \in Requests, ServeAnyone(r) PROVE IInv'
  <2>1. PICK c \in Consultations : EndWithStats(r, c) \/ Escalate(r, c)
    BY <1>2 DEF ServeAnyone
  <2> QED
    BY <2>1, AnyoneStep, ServedStep
<1>3. ASSUME NEW r \in Requests, Execute(r) PROVE IInv'
  BY <1>3, MatchStep, UpdateStatusStep, PlainEditStep, RecommendationStep,
     LinkStep, CreateBookingStep, OfferStep DEF Execute
<1>4. ASSUME NEW r \in Requests, Abort(r) PROVE IInv'
  BY <1>4, AbortStep
<1>5. ASSUME NEW c \in Consultations, NEW u \in Users, Cancel(u, c) PROVE IInv'
  BY <1>5, EndpointStep
<1>6. ASSUME NEW c \in Consultations, MarkStarted(c) \/ MarkPaid(c) PROVE IInv'
  BY <1>6, EndpointStep
<1>7. CASE JobMoves
  BY <1>7, JobsStep
<1>8. CASE UNCHANGED vars
  BY <1>8 DEF vars, IInv, TypeOK, RowOK, PendingWriteOK, Exists, MatchedOnce,
              Matches, Unmatched, VisitGoesToCaller, OfferedVisitIsLinked, At
<1> QED
  BY <1>1, <1>2, <1>3, <1>4, <1>5, <1>6, <1>7, <1>8 DEF Next

\* Whatever the requests under way overwrite, what each of them still has to
\* write fits the row it will find (consultation_service.go checks a snapshot,
\* consultation_repo.go writes unconditionally).
THEOREM ConsultationInvariant == Spec => []IInv
  BY Initially, EveryStep, PTL DEF Spec

\* A visit booked out of a call is only ever offered to the technician of that
\* call, and a consultation links to bookings made of it.
THEOREM VisitsGoToCallers == Spec => []VisitGoesToCaller
<1>1. IInv => VisitGoesToCaller
  BY DEF IInv
<1> QED
  BY <1>1, ConsultationInvariant, PTL

\* Unless a request about it was cut off, no waiting consultation is left that
\* no technician is asked about.
THEOREM NobodyLeftOut == Spec => []NobodyOverlooked
<1>1. IInv => NobodyOverlooked
  <2> SUFFICES ASSUME IInv, NEW c \in Consultations \ cut,
                      row[c].status \in {"searching", "scheduled", "confirmed",
                                         "ringing"}
               PROVE  \/ \E t \in Techs : c \in ListPendingForTechnician(t)
                                             \cup ListUpcomingForTechnician(t)
                      \/ \E r \in Requests :
                           /\ reqs[r] # Idle /\ reqs[r].c = c
                           /\ reqs[r].t # None \/ reqs[r].to = "no_technician"
    BY DEF NobodyOverlooked
  <2>1. RowOK(row[c]) /\ row[c].tech \in Techs \cup {None}
    BY DEF IInv, TypeOK, Row
  <2>2. CASE row[c].tech # None
    <3>1. row[c].status \in {"scheduled", "confirmed", "ringing"}
      BY <2>1, <2>2 DEF RowOK
    <3> QED
      BY <2>1, <2>2, <3>1 DEF ListPendingForTechnician, ListUpcomingForTechnician,
                              listForTechnicianByStatus
  <2>3. CASE row[c].tech = None
    <3>1. Unmatched(c)
      BY <2>1, <2>3 DEF RowOK, Unmatched
    <3>2. PICK r \in Requests : Matches(r, c)
      BY <3>1 DEF IInv, MatchedOnce
    <3>3. PendingWriteOK(reqs[r])
      BY <3>2 DEF IInv, Matches
    <3> QED
      BY <3>2, <3>3 DEF Matches, PendingWriteOK
  <2> QED
    BY <2>2, <2>3
<1> QED
  BY <1>1, ConsultationInvariant, PTL

\* No step ever swaps the technician of a consultation: only a match writes
\* one, and it was promised a row without.
LEMMA TechStays ==
  ASSUME IInv, [Next]_vars, NEW c \in Consultations, row[c].tech # None
  PROVE  row'[c].tech = row[c].tech
<1>1. row \in [Consultations -> Row] /\ RowOK(row[c])
  BY DEF IInv, TypeOK
<1>2. ASSUME NEW r \in Requests,
             DbAssignTechnician(r) \/ DbAssignTechnicianScheduled(r)
      PROVE  row'[c].tech = row[c].tech
  <2>1. reqs[r] \in Request /\ PendingWriteOK(reqs[r]) /\ reqs[r].at \in Matching
    BY <1>2, Running DEF DbAssignTechnician, DbAssignTechnicianScheduled, At,
                         Statements, Matching
  <2>2. reqs[r].c # c
    BY <2>1 DEF PendingWriteOK
  <2> QED
    BY <1>1, <1>2, <2>2 DEF DbAssignTechnician, DbAssignTechnicianScheduled, Write
<1>3. ASSUME NEW r \in Requests,
             \/ DbUpdateStatus(r) \/ DbMarkEndedWithStats(r) \/ DbSetRating(r)
             \/ DbSetRecommendation(r) \/ DbUpdateRecommendationStatus(r)
             \/ DbSetEscalatedBooking(r)
      PROVE  row'[c].tech = row[c].tech
  <2>1. reqs[r].c \in Consultations
    BY <1>3, Running
       DEF DbUpdateStatus, DbMarkEndedWithStats, DbSetRating, DbSetRecommendation,
           DbUpdateRecommendationStatus, DbSetEscalatedBooking, At, Statements,
           Request
  <2> QED
    BY <1>1, <1>3, <2>1
       DEF DbUpdateStatus, DbMarkEndedWithStats, DbSetRating, DbSetRecommendation,
           DbUpdateRecommendationStatus, DbSetEscalatedBooking, Write, RowOf, Row
<1>4. ASSUME NEW r \in Requests,
             \/ \E b \in Bookings : DbCreateBooking(r, b)
             \/ DbAssignPendingTechnician(r) \/ Abort(r) \/ ServeAnyone(r)
      PROVE  row'[c].tech = row[c].tech
  BY <1>4 DEF DbCreateBooking, DbAssignPendingTechnician, Abort, ServeAnyone,
              EndWithStats, Escalate
<1>5. ASSUME NEW r \in Requests, NEW u \in Users, Serve(r, u)
      PROVE  row'[c].tech = row[c].tech
  <2>1. ASSUME NEW d \in Consultations, NEW t \in Techs \cup {None},
               NEW timed \in BOOLEAN, RequestConsultation(r, u, d, t, timed)
        PROVE  row'[c].tech = row[c].tech
    <3>1. c # d
      BY <1>1, <2>1 DEF RequestConsultation, Exists, RowOK
    <3> QED
      BY <1>1, <2>1, <3>1 DEF RequestConsultation
  <2> QED
    BY <1>5, <2>1
       DEF Serve, ConfirmScheduledByUser, ConfirmScheduled, DeclineScheduledByUser,
           DeclineScheduled, AcceptByUser, Accept, RejectByUser, Reject,
           RecommendOnsiteByUser, RecommendOnsite, DeclineRecommendation, Rate
<1>6. ASSUME NEW d \in Consultations, NEW u \in Users, Cancel(u, d)
      PROVE  row'[c].tech = row[c].tech
  BY <1>1, <1>6 DEF Cancel, Row
<1>7. ASSUME NEW d \in Consultations, MarkStarted(d) \/ MarkPaid(d)
      PROVE  row'[c].tech = row[c].tech
  BY <1>1, <1>7 DEF MarkStarted, MarkPaid, Row
<1>8. CASE JobMoves \/ UNCHANGED vars
  BY <1>8 DEF JobMoves, vars
<1> QED
  BY <1>2, <1>3, <1>4, <1>5, <1>6, <1>7, <1>8 DEF Next, Execute

\* The technician a consultation was matched with stays for good.
THEOREM TechnicianStays == Spec => TechnicianBound
<1>1. IInv /\ [Next]_vars =>
        [\A c \in Consultations :
           row[c].tech # None => row'[c].tech = row[c].tech]_vars
  BY TechStays
<1> QED
  BY <1>1, ConsultationInvariant, PTL DEF Spec, TechnicianBound

\* Whoever answered, or recommends a visit, is the consultation's technician;
\* an accepted recommendation has its visit; and without a cut-off an offered
\* visit can be reached from its consultation.
THEOREM AnswersAreKept ==
  Spec => [](AnsweredHasTechnician /\ AcceptedHasVisit /\ OfferedVisitIsLinked)
<1>1. IInv => AnsweredHasTechnician /\ AcceptedHasVisit /\ OfferedVisitIsLinked
  BY DEF IInv, RowOK, AnsweredHasTechnician, AcceptedHasVisit
<1> QED
  BY <1>1, ConsultationInvariant, PTL

=============================================================================
