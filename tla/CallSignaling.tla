---------------------------- MODULE CallSignaling ----------------------------
(***************************************************************************)
(* The signaling relay of calls and the call history: CallHandler          *)
(* (internal/handler) with its rooms in memory, and CallLogRepository      *)
(* (internal/repository) with its rows in the database.                    *)
(*                                                                         *)
(* Every websocket is served by a goroutine: it is authorized, joins its   *)
(* room under the handler's mutex, then writes to the peers it saw there;  *)
(* when its socket is closed or has missed its pongs it leaves the room    *)
(* under the mutex and writes to those who remain.  The two writes to the  *)
(* call history are goroutines of their own, so they reach the database    *)
(* in any order, and not at all if the process dies.  Each is an UPDATE of *)
(* the row its subquery picks; when it has to wait for that row, it writes *)
(* to it without asking the subquery again, so it is two steps here, and   *)
(* any number of them may stand in between.                                *)
(*                                                                         *)
(* A thread is a booking or a consultation whose technician is settled:    *)
(* TechnicianBound of BookingLifecycle and of Consultation is why its two  *)
(* participants are constants here.                                        *)
(***************************************************************************)
EXTENDS Naturals, Sequences, FiniteSets

CONSTANTS
  Threads,       \* ids of bookings and consultations, which name the rooms
  BookingThreads,\* those that are bookings
  Users,         \* user accounts
  CustomerOf,    \* the customer of each thread
  TechnicianOf,  \* the user account of each thread's technician
  Sockets,       \* websocket connections served at the same time
  UsersOf,       \* bound: the users each socket may be of
  Callers,       \* bound: the users who place calls
  MaxCalls,      \* bound: calls placed in one thread
  MaxPending     \* bound: goroutines yet to begin each of the two log writes,
                 \* and goroutines that have picked one row

ASSUME ThreadAssumption ==
  /\ BookingThreads \subseteq Threads
  /\ CustomerOf \in [Threads -> Users]
  /\ TechnicianOf \in [Threads -> Users]
  /\ UsersOf \in [Sockets -> SUBSET Users]
  /\ Callers \subseteq Users

ASSUME BoundAssumption == MaxCalls \in Nat /\ MaxPending \in Nat

VARIABLES
  rooms,      \* CallHandler.rooms
  sock,       \* the goroutine serving each socket
  met,        \* sockets told "peer-joined" since somebody last left their room
  dead,       \* sockets whose client is gone without a close
  answering,  \* MarkAnswered goroutines yet to begin, per thread
  ending,     \* MarkEnded goroutines yet to begin, per thread
  picked,     \* MarkAnswered goroutines that have picked each row of a thread
  closing,    \* MarkEnded goroutines that have picked each row of a thread
  log,        \* table call_logs: the rows of each thread in order of creation
  filled,     \* history: what each room has held: never two sockets, two
              \* sockets of one user, or both users
  crashed     \* history: the process has died and been restarted

vars == <<rooms, sock, met, dead, answering, ending, picked, closing, log,
          filled, crashed>>

roomVars == <<rooms, sock, met, dead, filled>>

rowVars == <<picked, closing, log>>

logVars == <<answering, ending, rowVars>>

\* The room and the user of a socket, the sockets its goroutine has yet to
\* write to, and its news: "peer-joined" while it is in the room, "peer-left"
\* once it is out.
Socket == [th : Threads, u : Users, tell : SUBSET Sockets, in : BOOLEAN]

CallLog == [caller : Users, callee : Users,
            status : {"ringing", "received", "missed"},
            answered : BOOLEAN, ended : BOOLEAN]

Free == [tell |-> {}, in |-> FALSE]

\* No row of a thread is picked.
NotPicked == [i \in 1 .. MaxCalls |-> 0]

TypeOK ==
  /\ rooms \in [Threads -> SUBSET Sockets]
  /\ sock \in [Sockets -> Socket \cup {Free}]
  /\ met \subseteq Sockets
  /\ dead \subseteq Sockets
  /\ answering \in [Threads -> 0 .. MaxPending]
  /\ ending \in [Threads -> 0 .. MaxPending]
  /\ picked \in [Threads -> [1 .. MaxCalls -> 0 .. MaxPending]]
  /\ closing \in [Threads -> [1 .. MaxCalls -> 0 .. MaxPending]]
  /\ log \in [Threads -> Seq(CallLog)]
  /\ filled \in [Threads -> {"never", "sockets", "users"}]
  /\ crashed \in BOOLEAN

Participants(th) == {CustomerOf[th], TechnicianOf[th]}

Init ==
  /\ rooms = [th \in Threads |-> {}]
  /\ sock = [s \in Sockets |-> Free]
  /\ met = {}
  /\ dead = {}
  /\ answering = [th \in Threads |-> 0]
  /\ ending = [th \in Threads |-> 0]
  /\ picked = [th \in Threads |-> NotPicked]
  /\ closing = [th \in Threads |-> NotPicked]
  /\ log = [th \in Threads |-> <<>>]
  /\ filled = [th \in Threads |-> "never"]
  /\ crashed = FALSE

-----------------------------------------------------------------------------
(* The call history.                                                         *)

\* Create: a new row rings.
Ringing(u, v) == [caller |-> u, callee |-> v, status |-> "ringing",
                  answered |-> FALSE, ended |-> FALSE]

\* Either participant of a booking taps Call.  The job must be active, which
\* the booking component may make it at any time.
InitiateCall(u, th) ==
  /\ th \in BookingThreads
  /\ u \in Participants(th)
  /\ Len(log[th]) < MaxCalls
  /\ \E v \in Participants(th) \ {u} :
       log' = [log EXCEPT ![th] = Append(@, Ringing(u, v))]
  /\ UNCHANGED <<roomVars, answering, ending, picked, closing, crashed>>

\* The most recently created of the rows with an index in I.
LatestOf(I) == CHOOSE i \in I : \A j \in I : j <= i

StillRings(row) == row.status = "ringing"

\* The statement of a MarkAnswered or MarkEnded goroutine begins: the subquery
\* picks among the rows with an index in I; without one there is nothing to do.
Pick(th, I, waiting, pick) ==
  /\ waiting[th] > 0
  /\ waiting' = [waiting EXCEPT ![th] = @ - 1]
  /\ IF I = {}
     THEN UNCHANGED pick
     ELSE /\ pick[th][LatestOf(I)] < MaxPending
          /\ pick' = [pick EXCEPT ![th][LatestOf(I)] = @ + 1]

DbPickRinging(th) ==
  /\ Pick(th, {i \in DOMAIN log[th] : StillRings(log[th][i])},
          answering, picked)
  /\ UNCHANGED <<roomVars, ending, closing, log, crashed>>

\* The row as MarkAnswered leaves it.
Received(row) == [row EXCEPT !.status = "received", !.answered = TRUE]

\* MarkAnswered: the row that rang was answered.
DbMarkAnswered(th, i) ==
  /\ picked[th][i] > 0
  /\ log' = [log EXCEPT ![th][i] = Received(@)]
  /\ picked' = [picked EXCEPT ![th][i] = @ - 1]
  /\ UNCHANGED <<roomVars, answering, ending, closing, crashed>>

IsOpen(row) == ~row.ended

DbPickOpen(th) ==
  /\ Pick(th, {i \in DOMAIN log[th] : IsOpen(log[th][i])}, ending, closing)
  /\ UNCHANGED <<roomVars, answering, picked, log, crashed>>

\* Mutant of Settled: leaves the status of an unanswered call alone.
SettledStillRinging(row) == [row EXCEPT !.ended = TRUE]

\* Mutant of Settled: every call that ends was missed.
SettledAsMissed(row) == [row EXCEPT !.ended = TRUE, !.status = "missed"]

\* The row as MarkEnded leaves it: missed if nobody answered.
Settled(row) ==
  [row EXCEPT !.ended = TRUE, !.status = IF row.answered THEN @ ELSE "missed"]

\* MarkEnded: the row that was open is closed.
DbMarkEnded(th, i) ==
  /\ closing[th][i] > 0
  /\ log' = [log EXCEPT ![th][i] = Settled(@)]
  /\ closing' = [closing EXCEPT ![th][i] = @ - 1]
  /\ UNCHANGED <<roomVars, answering, ending, picked, crashed>>

\* What user u is shown: thread and index of every row u is a party of.
ListForUser(u) ==
  {e \in Threads \X (1 .. MaxCalls) :
     /\ e[2] \in DOMAIN log[e[1]]
     /\ u \in {log[e[1]][e[2]].caller, log[e[1]][e[2]].callee}}

-----------------------------------------------------------------------------
(* Rooms.                                                                    *)

\* Checked before the upgrade: only the customer and the technician.
authorize(th, u) == u \in Participants(th)

\* s enters room th, news goes to the sockets in tell, and the call becomes
\* answered or not.
Enter(s, th, u, tell, answered) ==
  /\ answering[th] < MaxPending
  /\ rooms' = [rooms EXCEPT ![th] = @ \cup {s}]
  /\ sock' = [sock EXCEPT ![s] = [th |-> th, u |-> u, tell |-> tell,
                                     in |-> TRUE]]
  /\ filled' = [filled EXCEPT ![th] =
       IF rooms[th] = {} \/ @ = "users" THEN @
       ELSE IF \E p \in rooms[th] : sock[p].u # u THEN "users" ELSE "sockets"]
  /\ answering' = [answering EXCEPT ![th] = IF answered THEN @ + 1 ELSE @]
  /\ UNCHANGED <<met, dead, ending, rowVars, crashed>>

\* Mutant of join: only the socket that was there first is told.
joinTellsFirst(s, th, u) ==
  /\ sock[s] = Free
  /\ Cardinality(rooms[th]) < 2
  /\ Enter(s, th, u, rooms[th], rooms[th] # {})

\* A full room turns s away.  The second one in makes the call answered, and
\* news to both.
join(s, th, u) ==
  /\ sock[s] = Free
  /\ Cardinality(rooms[th]) < 2
  /\ IF rooms[th] = {} THEN Enter(s, th, u, {}, FALSE)
                       ELSE Enter(s, th, u, rooms[th] \cup {s}, TRUE)

\* A goroutine whose socket is out of its room and who has nobody left to tell
\* has ended.
Ended(g) == IF g.in \/ g.tell # {} THEN g ELSE Free

\* The goroutine of s writes its news to p, who may have company again when
\* the news is "peer-left".
WriteMessage(s, p) ==
  /\ p \in sock[s].tell
  /\ sock' = [sock EXCEPT ![s] = Ended([sock[s] EXCEPT !.tell = @ \ {p}])]
  /\ met' = IF sock[s].in THEN met \cup {p} ELSE met
  /\ UNCHANGED <<rooms, dead, filled, logVars, crashed>>

\* ReadMessage has returned an error: s hung up, or missed its pongs.  The
\* last one out ends the call; one who stays is told, after the mutex is given
\* back.  What others write to s is lost.
leave(s) ==
  /\ sock[s].in /\ sock[s].tell = {}
  /\ LET th == sock[s].th
         room == rooms[th] \ {s} IN
     /\ ending[th] < MaxPending
     /\ rooms' = [rooms EXCEPT ![th] = room]
     /\ sock' = [x \in Sockets |->
          Ended(IF x = s THEN [sock[s] EXCEPT !.in = FALSE, !.tell = room]
                         ELSE [sock[x] EXCEPT !.tell = @ \ {s}])]
     /\ met' = met \ rooms[th]
     /\ ending' = [ending EXCEPT ![th] = IF room = {} THEN @ + 1 ELSE @]
  /\ dead' = dead \ {s}
  /\ UNCHANGED <<filled, answering, rowVars, crashed>>

\* The network drops the client silently.
Lose(s) ==
  /\ sock[s].in
  /\ dead' = dead \cup {s}
  /\ UNCHANGED <<rooms, sock, met, filled, logVars, crashed>>

\* Mutant of ReadTimeout: the read deadline is never set.
ReadTimeoutUnset(s) == FALSE

\* No pong within pongWait: pings go unanswered, and reading fails.
ReadTimeout(s) == s \in dead /\ leave(s)

\* The process dies and is restarted: rooms and goroutines are gone, the table
\* stays.  (Bound: once.)
Crash ==
  /\ ~crashed
  /\ crashed' = TRUE
  /\ rooms' = [th \in Threads |-> {}]
  /\ sock' = [s \in Sockets |-> Free]
  /\ met' = {}
  /\ dead' = {}
  /\ answering' = [th \in Threads |-> 0]
  /\ ending' = [th \in Threads |-> 0]
  /\ picked' = [th \in Threads |-> NotPicked]
  /\ closing' = [th \in Threads |-> NotPicked]
  /\ UNCHANGED <<log, filled>>

-----------------------------------------------------------------------------
\* A connection for user u is authorized and joins.
Signal(s, th, u) == authorize(th, u) /\ join(s, th, u)

LogStep(th) ==
  \/ DbPickRinging(th)
  \/ DbPickOpen(th)
  \/ \E i \in 1 .. MaxCalls : DbMarkAnswered(th, i) \/ DbMarkEnded(th, i)

Next ==
  \/ \E s \in Sockets :
       \/ \E th \in Threads, u \in UsersOf[s] : Signal(s, th, u)
       \/ \E p \in Sockets : WriteMessage(s, p)
       \/ leave(s)
       \/ Lose(s)
  \/ \E th \in Threads :
       \/ LogStep(th)
       \/ \E u \in Callers : InitiateCall(u, th)
  \/ Crash

Spec == Init /\ [][Next]_vars

\* Goroutines keep running, the database answers, and time passes, so a dead
\* client is found out.  Nobody has to call, to join or to hang up.
FairSpec ==
  /\ Spec
  /\ \A s \in Sockets :
       /\ \A p \in Sockets : WF_vars(WriteMessage(s, p))
       /\ WF_vars(ReadTimeout(s))
  /\ \A th \in Threads :
       /\ WF_vars(DbPickRinging(th)) /\ WF_vars(DbPickOpen(th))
       /\ \A i \in 1 .. MaxCalls :
            WF_vars(DbMarkAnswered(th, i)) /\ WF_vars(DbMarkEnded(th, i))

-----------------------------------------------------------------------------
(* Correctness.                                                              *)

\* A room holds two sockets at most, all of participants of its thread, and
\* exactly those whose goroutines are still reading.
RoomOK ==
  \A th \in Threads :
    /\ Cardinality(rooms[th]) <= 2
    /\ \A s \in rooms[th] : sock[s].u \in Participants(th)
    /\ rooms[th] = {s \in Sockets : sock[s].in /\ sock[s].th = th}

\* When two are in a room and nobody there has news to pass on, both have been
\* told of a peer since they have been this pair, whoever came first and
\* whoever was there before: the customer, who sends the offer, always learns
\* that somebody is there to receive it, and it is a participant.
BothTold ==
  /\ RoomOK
  /\ \A th \in Threads :
       /\ Cardinality(rooms[th]) = 2
       /\ \A s \in rooms[th] : sock[s].tell = {}
       => rooms[th] \subseteq met

\* The history makes sense: a call is received when it was answered, missed
\* when it ended unanswered, and nothing is shown as received in a thread
\* where nobody was ever joined, although the two writes that say so race each
\* other, new calls and a crash.
HistoryMakesSense ==
  \A th \in Threads : \A i \in DOMAIN log[th] :
    /\ log[th][i].status = "received" <=> log[th][i].answered
    /\ log[th][i].status = "missed" => log[th][i].ended
    /\ log[th][i].status = "ringing" => ~log[th][i].ended
    /\ log[th][i].status = "received" => filled[th] # "never"

\* A call stays in the history of both its parties: it is not opened again once
\* it has ended, and one that was received is not missed after all, in whatever
\* order the two writes of this call and of the next one arrive.
HistoryIsKept ==
  [][\A u \in Users : \A e \in ListForUser(u) :
       LET row == log[e[1]][e[2]] IN
       /\ e \in ListForUser(u)'
       /\ row.ended => log'[e[1]][e[2]].ended
       /\ row.answered => log'[e[1]][e[2]].status = "received"]_vars

Closed(th, i) == IF i \in DOMAIN log[th] THEN log[th][i].ended ELSE FALSE

\* When the last socket leaves a room the call placed last in its thread is
\* closed, unless another one is placed first or the process dies with the
\* write undone; and it does so too when every client in the room is gone
\* without a word, unless another one comes.
EmptyRoomEndsCall ==
  \A th \in Threads : \A i \in 1 .. MaxCalls :
    /\ ending[th] > 0 /\ Len(log[th]) = i ~>
         crashed \/ Len(log[th]) > i \/ Closed(th, i)
    /\ rooms[th] # {} /\ rooms[th] \subseteq dead /\ Len(log[th]) = i ~>
         \/ crashed \/ Len(log[th]) > i \/ Closed(th, i)
         \/ \E s \in rooms[th] : s \notin dead

-----------------------------------------------------------------------------
(* What the repository says of the program and the program does not do.      *)

\* "tells the remaining peer (if any) that the call ended" (call_handler.go):
\* whoever is about to be told so is alone in the room.
LeftIsAlone ==
  \A s \in Sockets : \A p \in sock[s].tell :
    ~sock[s].in => rooms[sock[s].th] = {p}

\* "If it was never answered, it settles as 'missed'" (call_log_repo.go): what
\* has settled does not change any more.
SettledIsFinal ==
  [][\A th \in Threads : \A i \in DOMAIN log[th] :
       log[th][i].ended => log'[th][i] = log[th][i]]_vars

\* "the moment both sides are actually in the call room together"
\* (call_log_repo.go): a call is received only where both users have been in
\* the room at once.
AnsweredByBoth ==
  \A th \in Threads : \A i \in DOMAIN log[th] :
    log[th][i].status = "received" => filled[th] = "users"
=============================================================================
