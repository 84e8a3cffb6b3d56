------------------------------ MODULE BookingChat ------------------------------
(***************************************************************************)
(* The chat of a booking: BookingService.SendMessage and ListMessages, and *)
(* the badge and preview its bookings carry on the chat list.              *)
(*                                                                         *)
(* Opening a thread marks the messages of others read and then lists them, *)
(* in two statements; a chat list counts what is unread and then fetches   *)
(* the last message of each booking, in two statements as well.  Messages  *)
(* are written in between, and either request may be cut off there.  A     *)
(* request is a slot of reqs at its next statement.                        *)
(*                                                                         *)
(* The technician of a booking is settled: see TechnicianBound of          *)
(* BookingLifecycle.  The push that announces a message is a send of       *)
(* Notifications.                                                          *)
(***************************************************************************)
EXTENDS Naturals, Sequences, FiniteSetsExt

CONSTANTS
  Bookings,     \* primary keys of the table bookings
  Users,        \* user accounts
  Admins,       \* those with the role admin
  CustomerOf,   \* the customer of each booking
  TechnicianOf, \* the user account of each booking's technician
  MaxMessages,  \* bound: messages in all
  Requests,     \* slots for requests served at the same time
  None

PeopleAssumption ==
  /\ CustomerOf \in [Bookings -> Users]
  /\ TechnicianOf \in [Bookings -> Users]
  /\ Admins \subseteq Users
  /\ None \notin Bookings

VARIABLES
  messages, \* rows of booking_messages of each booking, oldest first
  reqs,     \* the requests being served
  shown,    \* history: <<b, i, u>>, message i of booking b was shown to u
  cut       \* history: bookings whose thread was opened by a request cut off

chatVars == <<messages, reqs, shown, cut>>

Message == [by : Users, read : BOOLEAN]

Request == [at : {"mark", "list"}, u : Users, b : Bookings]
             \cup [at : {"last"}, u : Users,
                   counts : [Bookings -> Nat]]

Idle == [at |-> "idle"]

TypeOK ==
  /\ messages \in [Bookings -> Seq(Message)]
  /\ reqs \in [Requests -> Request \cup {Idle}]
  /\ shown \subseteq Bookings \X Nat \X Users
  /\ cut \subseteq Bookings

Init ==
  /\ messages = [b \in Bookings |-> <<>>]
  /\ reqs = [r \in Requests |-> Idle]
  /\ shown = {}
  /\ cut = {}

At(r, where) == reqs[r].at = where

Begin(r, q) == reqs[r] = Idle /\ reqs' = [reqs EXCEPT ![r] = q]

Done(r) == reqs' = [reqs EXCEPT ![r] = Idle]

Parties(b) == {CustomerOf[b], TechnicianOf[b]}

\* resolveBookingParticipantRole: an admin takes part in every chat.
IsParticipant(b, u) == u \in Parties(b) \cup Admins

Written == MapThenSumSet(LAMBDA b : Len(messages[b]), Bookings)

CreateMessage(b, u) ==
  messages' = [messages EXCEPT ![b] = Append(@, [by |-> u, read |-> FALSE])]

SendMessage(b, u) ==
  /\ IsParticipant(b, u)
  /\ Written < MaxMessages
  /\ CreateMessage(b, u)
  /\ UNCHANGED <<reqs, shown, cut>>

-----------------------------------------------------------------------------
(* Opening a thread.                                                         *)

ListMessages(r, b, u) ==
  /\ IsParticipant(b, u)
  /\ Begin(r, [at |-> "mark", b |-> b, u |-> u])
  /\ UNCHANGED <<messages, shown, cut>>

\* Mutant of Marked: the reader's own messages as well.
MarkedAll(thread, u) ==
  [i \in DOMAIN thread |-> [thread[i] EXCEPT !.read = TRUE]]

\* The thread once u has read it.
Marked(thread, u) ==
  [i \in DOMAIN thread |->
     IF thread[i].by = u THEN thread[i] ELSE [thread[i] EXCEPT !.read = TRUE]]

\* A failure is only logged.
DbMarkMessagesRead(r) ==
  /\ At(r, "mark")
  /\ \/ messages' = [messages EXCEPT ![reqs[r].b] = Marked(@, reqs[r].u)]
     \/ UNCHANGED messages
  /\ reqs' = [reqs EXCEPT ![r].at = "list"]
  /\ UNCHANGED <<shown, cut>>

OfOthers(b, u, last) == {i \in 1 .. last : messages[b][i].by # u}

\* Reader u gets the threads of the bookings in B; what others wrote counts.
Show(B, u) ==
  shown' = shown \cup
    UNION {{b} \X OfOthers(b, u, Len(messages[b])) \X {u} : b \in B}

DbListMessages(r) ==
  /\ At(r, "list")
  /\ Show({reqs[r].b}, reqs[r].u)
  /\ Done(r)
  /\ UNCHANGED <<messages, cut>>

\* What the same two people wrote about other bookings; nothing is marked.
ListPreviousMessages(b, u) ==
  /\ IsParticipant(b, u)
  /\ Show({o \in Bookings \ {b} : /\ CustomerOf[o] = CustomerOf[b]
                                  /\ TechnicianOf[o] = TechnicianOf[b]}, u)
  /\ UNCHANGED <<messages, reqs, cut>>

-----------------------------------------------------------------------------
(* The chat list.                                                            *)

Unread(b, u) == {i \in OfOthers(b, u, Len(messages[b])) : ~messages[b][i].read}

\* UnreadMessageCounts, for the bookings listed just before; without its counts
\* the list goes out with none.
ListDetailed(r, u) ==
  /\ \E ok \in BOOLEAN :
       Begin(r, [at |-> "last", u |-> u, counts |-> [b \in Bookings |->
         IF ok THEN Cardinality(Unread(b, u)) ELSE 0]])
  /\ UNCHANGED <<messages, shown, cut>>

\* The message previewed beside each count, 0 for none.
LastMessages == [b \in Bookings |-> Len(messages[b])]

\* The list goes out; without its previews with none of those.
DbLastMessages(r) ==
  /\ At(r, "last")
  /\ Done(r)
  /\ UNCHANGED <<messages, shown, cut>>

\* A statement that matters fails, or the client goes away.
Abort(r) ==
  /\ At(r, "mark") \/ At(r, "list")
  /\ Done(r)
  /\ cut' = IF reqs[r].at = "list" THEN cut \cup {reqs[r].b} ELSE cut
  /\ UNCHANGED <<messages, shown>>

Next ==
  \/ \E b \in Bookings, u \in Users :
       \/ SendMessage(b, u)
       \/ ListPreviousMessages(b, u)
       \/ \E r \in Requests : ListMessages(r, b, u)
  \/ \E r \in Requests :
       \/ \E u \in Users : ListDetailed(r, u)
       \/ DbMarkMessagesRead(r)
       \/ DbListMessages(r)
       \/ DbLastMessages(r)
       \/ Abort(r)

Spec == Init /\ [][Next]_chatVars

-----------------------------------------------------------------------------
(* What the component promises.                                              *)

\* "Opening the thread is the read receipt" (booking_service.go): a message is
\* marked read only for somebody it was shown to, or is about to be, however
\* messages and readers cross; unless the request that marked it was cut off.
ReadWasShown ==
  \A b \in Bookings \ cut : \A i \in DOMAIN messages[b] :
    messages[b][i].read =>
      \E u \in Users \ {messages[b][i].by} :
        \/ <<b, i, u>> \in shown
        \/ \E r \in Requests : reqs[r] = [at |-> "list", b |-> b, u |-> u]

\* A badge fits its preview, whenever that is fetched: what it counts is the
\* message previewed or older, and none of the user's own.
BadgeFitsPreview ==
  \A r \in Requests : At(r, "last") => \A b \in Bookings :
    reqs[r].counts[b] <= Cardinality(OfOthers(b, reqs[r].u, LastMessages[b]))

-----------------------------------------------------------------------------
(* What the repository says of the program and the program does not do.      *)

\* "the other side's messages" (booking_repo.go): a message is read once the
\* other party has been shown it.  An admin who opens the thread marks the
\* messages of both parties read for each other.
ReadByOtherSide ==
  \A b \in Bookings \ cut : \A i \in DOMAIN messages[b] :
    messages[b][i].read /\ messages[b][i].by \in Parties(b) =>
      \E u \in Parties(b) \ {messages[b][i].by} :
        \/ <<b, i, u>> \in shown
        \/ \E r \in Requests : reqs[r] = [at |-> "list", b |-> b, u |-> u]
=============================================================================
