-------------------------- MODULE CallSignalingProofs --------------------------
(* What holds of CallSignaling for every value of its constants. *)
EXTENDS CallSignaling, FiniteSetTheorems, SequenceTheorems, TLAPS

-----------------------------------------------------------------------------
(* The inductive invariant.                                                  *)

\* A room is finite, besides what RoomOK says of it.
RoomsOK == RoomOK /\ \A th \in Threads : IsFiniteSet(rooms[th])

\* News goes to sockets that are in the room it is about: who leaves is struck
\* off everybody's list.
NewsIsForRoom ==
  \A s \in Sockets : sock[s] # Free => sock[s].tell \subseteq rooms[sock[s].th]

\* Whoever has company in a room has been told, or somebody in there has yet to
\* tell them.
WillBeTold ==
  \A th \in Threads : \A p, q \in rooms[th] :
    p # q => p \in met \/ \E s \in rooms[th] : p \in sock[s].tell

\* The row a write to the history has picked is there; an answer is only ever
\* written where two sockets have met.
WritesOK ==
  \A th \in Threads :
    /\ Len(log[th]) <= MaxCalls
    /\ answering[th] > 0 => filled[th] # "never"
    /\ \A i \in 1 .. MaxCalls :
         /\ picked[th][i] > 0 => i <= Len(log[th]) /\ filled[th] # "never"
         /\ closing[th][i] > 0 => i <= Len(log[th])

IInv ==
  /\ TypeOK
  /\ RoomsOK
  /\ NewsIsForRoom
  /\ WillBeTold
  /\ WritesOK
  /\ HistoryMakesSense

-----------------------------------------------------------------------------
(* Rooms.                                                                    *)

\* Whoever connects has an account.
LEMMA SocketUsers == \A s \in Sockets : UsersOf[s] \subseteq Users
  BY ThreadAssumption

RoomTypes ==
  /\ rooms \in [Threads -> SUBSET Sockets]
  /\ sock \in [Sockets -> Socket \cup {Free}]
  /\ met \subseteq Sockets
  /\ dead \subseteq Sockets

\* The part of the invariant that is about the rooms.
RoomInv == RoomTypes /\ RoomsOK /\ NewsIsForRoom /\ WillBeTold

\* Three sockets do not fit in a room.
LEMMA NoThird ==
  ASSUME NEW S, IsFiniteSet(S), Cardinality(S) <= 2,
         NEW a \in S, NEW b \in S, NEW c \in S, a # b, a # c, b # c
  PROVE  FALSE
<1> DEFINE T == S \ {a}
           U == T \ {b}
           V == U \ {c}
<1>1. IsFiniteSet(T) /\ Cardinality(T) = Cardinality(S) - 1
  BY FS_RemoveElement
<1>2. IsFiniteSet(U) /\ Cardinality(U) = Cardinality(T) - 1
  BY <1>1, FS_RemoveElement
<1>3. IsFiniteSet(V) /\ Cardinality(V) = Cardinality(U) - 1
  BY <1>2, FS_RemoveElement
<1> HIDE DEF T, U, V
<1>4. Cardinality(S) \in Nat /\ Cardinality(V) \in Nat
  BY <1>3, FS_CardinalityType
<1> QED
  BY <1>1, <1>2, <1>3, <1>4

\* A goroutine's record with its news and its presence written anew.
Edited(g, i, T) == [g EXCEPT !.in = i, !.tell = T]

\* What remains of it: nothing, or what was written.
LEMMA EndedIs ==
  ASSUME NEW g \in Socket \cup {Free}, NEW T \in SUBSET Sockets, NEW i \in BOOLEAN,
         g = Free => T = {} /\ ~i,
         NEW h, h = Ended(Edited(g, i, T))
  PROVE  /\ h \in Socket \cup {Free}
         /\ h.in = i /\ h.tell = T
         /\ h # Free => g # Free /\ h.th = g.th /\ h.u = g.u
  BY DEF Edited, Ended, Socket, Free

\* A goroutine that reads serves a socket.
LEMMA InIsSocket ==
  ASSUME RoomTypes, NEW s \in Sockets, sock[s].in \/ sock[s].tell # {}
  PROVE  sock[s] # Free /\ sock[s] \in Socket
  BY DEF RoomTypes, Free

\* A room that is not full and takes a socket in still keeps the invariant:
\* the newcomer is to tell itself and whoever it found.
LEMMA JoinKeeps ==
  ASSUME RoomInv, NEW s \in Sockets, NEW th \in Threads, NEW u \in Users,
         Signal(s, th, u)
  PROVE  RoomInv'
<1> DEFINE T == IF rooms[th] = {} THEN {} ELSE rooms[th] \cup {s}
           g == [th |-> th, u |-> u, tell |-> T, in |-> TRUE]
<1>1. /\ RoomTypes /\ RoomsOK /\ NewsIsForRoom /\ WillBeTold
      /\ sock[s] = Free /\ u \in Participants(th)
      /\ Cardinality(rooms[th]) < 2
  BY DEF RoomInv, Signal, join, authorize
<1>2. /\ rooms' = [rooms EXCEPT ![th] = @ \cup {s}]
      /\ sock' = [sock EXCEPT ![s] = g]
      /\ met' = met /\ dead' = dead
  BY DEF Signal, join, Enter
<1>3. /\ g \in Socket
      /\ g.th = th /\ g.u = u /\ g.in /\ g.tell = T
  BY <1>1 DEF RoomTypes, Socket
<1> HIDE DEF g
<1>4. RoomTypes'
  BY <1>1, <1>2, <1>3 DEF RoomTypes
<1>5. s \notin rooms[th] /\ \A t \in Threads : s \notin rooms[t]
  BY <1>1 DEF RoomsOK, RoomOK, Free
<1>6. RoomsOK'
  <2>1. ASSUME NEW t \in Threads
        PROVE  /\ IsFiniteSet(rooms'[t]) /\ Cardinality(rooms'[t]) <= 2
               /\ \A x \in rooms'[t] : sock'[x].u \in Participants(t)
               /\ rooms'[t] = {x \in Sockets : sock'[x].in /\ sock'[x].th = t}
    <3>1. /\ IsFiniteSet(rooms[t]) /\ Cardinality(rooms[t]) <= 2
          /\ \A x \in rooms[t] : sock[x].u \in Participants(t)
          /\ rooms[t] = {x \in Sockets : sock[x].in /\ sock[x].th = t}
      BY <1>1 DEF RoomsOK, RoomOK
    <3>2. \A x \in Sockets : sock'[x] = IF x = s THEN g ELSE sock[x]
      BY <1>1, <1>2 DEF RoomTypes
    <3>3. CASE t = th
      <4>1. rooms'[t] = rooms[t] \cup {s}
        BY <1>1, <1>2, <3>3 DEF RoomTypes
      <4>2. /\ IsFiniteSet(rooms[t] \cup {s})
            /\ Cardinality(rooms[t] \cup {s}) = Cardinality(rooms[t]) + 1
        BY <1>5, <3>1, FS_AddElement
      <4>3. Cardinality(rooms[t]) \in Nat
        BY <3>1, FS_CardinalityType
      <4>4. IsFiniteSet(rooms'[t]) /\ Cardinality(rooms'[t]) <= 2
        BY <1>1, <3>3, <4>1, <4>2, <4>3
      <4>5. rooms'[t] = {x \in Sockets : sock'[x].in /\ sock'[x].th = t}
        BY <1>3, <3>1, <3>2, <3>3, <4>1
      <4> QED
        BY <1>1, <1>3, <3>1, <3>2, <3>3, <4>1, <4>4, <4>5
    <3>4. CASE t # th
      <4>1. rooms'[t] = rooms[t]
        BY <1>1, <1>2, <3>4 DEF RoomTypes
      <4>2. rooms'[t] = {x \in Sockets : sock'[x].in /\ sock'[x].th = t}
        BY <1>3, <1>5, <3>1, <3>2, <3>4, <4>1
      <4> QED
        BY <1>5, <3>1, <3>2, <4>1, <4>2
    <3> QED
      BY <3>3, <3>4
  <2> QED
    BY <2>1 DEF RoomsOK, RoomOK, Participants
<1>7. NewsIsForRoom'
  <2> SUFFICES ASSUME NEW x \in Sockets, sock'[x] # Free
               PROVE  sock'[x].tell \subseteq rooms'[sock'[x].th]
    BY DEF NewsIsForRoom, Free
  <2>1. CASE x = s
    BY <1>1, <1>2, <1>3, <2>1 DEF RoomTypes
  <2>2. CASE x # s
    <3>1. sock'[x] = sock[x] /\ sock[x] \in Socket
      BY <1>1, <1>2, <2>2 DEF RoomTypes
    <3>2. sock[x].tell \subseteq rooms[sock[x].th] /\ sock[x].th \in Threads
      BY <1>1, <3>1 DEF NewsIsForRoom, Socket
    <3> QED
      BY <1>1, <1>2, <3>1, <3>2 DEF RoomTypes
  <2> QED
    BY <2>1, <2>2
<1>8. WillBeTold'
  <2> SUFFICES ASSUME NEW t \in Threads, NEW p \in rooms'[t], NEW q \in rooms'[t],
                      p # q, p \notin met
               PROVE  \E x \in rooms'[t] : p \in sock'[x].tell
    BY <1>2 DEF WillBeTold
  <2>1. CASE t = th
    <3>1. rooms'[t] = rooms[t] \cup {s}
      BY <1>1, <1>2, <2>1 DEF RoomTypes
    <3>2. rooms[th] # {}
      BY <2>1, <3>1
    <3>3. sock'[s].tell = rooms'[t]
      BY <1>1, <1>2, <1>3, <2>1, <3>1, <3>2 DEF RoomTypes
    <3> QED
      BY <3>1, <3>3
  <2>2. CASE t # th
    <3>1. rooms'[t] = rooms[t]
      BY <1>1, <1>2, <2>2 DEF RoomTypes
    <3>2. PICK x \in rooms[t] : p \in sock[x].tell
      BY <1>1, <3>1 DEF WillBeTold
    <3>3. sock'[x] = sock[x]
      BY <1>1, <1>2, <1>5, <3>2 DEF RoomTypes
    <3> QED
      BY <3>1, <3>2, <3>3
  <2> QED
    BY <2>1, <2>2
<1> QED
  BY <1>4, <1>6, <1>7, <1>8 DEF RoomInv

\* One who is told has been told, or was told by somebody outside.
LEMMA WriteKeeps ==
  ASSUME RoomInv, NEW s \in Sockets, NEW p \in Sockets, WriteMessage(s, p)
  PROVE  RoomInv'
<1> DEFINE h == Ended([sock[s] EXCEPT !.tell = sock[s].tell \ {p}])
<1>1. /\ RoomTypes /\ RoomsOK /\ NewsIsForRoom /\ WillBeTold
      /\ p \in sock[s].tell
  BY DEF RoomInv, WriteMessage
<1>2. /\ sock' = [sock EXCEPT ![s] = h]
      /\ rooms' = rooms /\ dead' = dead
      /\ met' = IF sock[s].in THEN met \cup {p} ELSE met
  BY DEF WriteMessage
<1>3. sock[s] \in Socket /\ sock[s] # Free
  BY <1>1, InIsSocket
<1>4. /\ h \in Socket \cup {Free}
      /\ h.in = sock[s].in /\ h.tell = sock[s].tell \ {p}
      /\ h # Free => h.th = sock[s].th /\ h.u = sock[s].u
  <2> DEFINE i == sock[s].in
             T == sock[s].tell \ {p}
  <2>1. i \in BOOLEAN /\ T \in SUBSET Sockets
    BY <1>3 DEF Socket
  <2>2. h = Ended(Edited(sock[s], i, T))
    <3>1. [sock[s] EXCEPT !.tell = T] = Edited(sock[s], i, T)
      BY <1>3 DEF Socket, Edited
    <3> QED
      BY <3>1
  <2> HIDE DEF i, T, h
  <2>3. /\ h \in Socket \cup {Free}
        /\ h.in = i /\ h.tell = T
        /\ h # Free => h.th = sock[s].th /\ h.u = sock[s].u
    BY <1>3, <2>1, <2>2, EndedIs
  <2> QED
    BY <2>3 DEF i, T
<1> HIDE DEF h
<1>5. \A x \in Sockets : sock'[x] = IF x = s THEN h ELSE sock[x]
  BY <1>1, <1>2 DEF RoomTypes
<1>6. RoomTypes'
  BY <1>1, <1>2, <1>4 DEF RoomTypes
<1>7. h.in => h # Free
  BY DEF Free
<1>8. RoomsOK'
  <2>1. ASSUME NEW t \in Threads
        PROVE  /\ IsFiniteSet(rooms'[t]) /\ Cardinality(rooms'[t]) <= 2
               /\ \A x \in rooms'[t] : sock'[x].u \in Participants(t)
               /\ rooms'[t] = {x \in Sockets : sock'[x].in /\ sock'[x].th = t}
    <3>1. /\ IsFiniteSet(rooms[t]) /\ Cardinality(rooms[t]) <= 2
          /\ \A x \in rooms[t] : sock[x].u \in Participants(t)
          /\ rooms[t] = {x \in Sockets : sock[x].in /\ sock[x].th = t}
      BY <1>1 DEF RoomsOK, RoomOK
    <3>2. \A x \in Sockets : /\ sock'[x].in <=> sock[x].in
                             /\ sock[x].in => /\ sock'[x].th = sock[x].th
                                              /\ sock'[x].u = sock[x].u
      BY <1>3, <1>4, <1>5, <1>7
    <3>3. rooms'[t] = {x \in Sockets : sock'[x].in /\ sock'[x].th = t}
      BY <1>2, <3>1, <3>2
    <3>4. \A x \in rooms'[t] : sock'[x].u \in Participants(t)
      BY <1>2, <3>1, <3>2
    <3> QED
      BY <1>2, <3>1, <3>3, <3>4
  <2> QED
    BY <2>1 DEF RoomsOK, RoomOK, Participants
<1>9. NewsIsForRoom'
  BY <1>1, <1>2, <1>3, <1>4, <1>5 DEF NewsIsForRoom, Free
<1>10. WillBeTold'
  <2> SUFFICES ASSUME NEW t \in Threads, NEW a \in rooms[t], NEW b \in rooms[t],
                      a # b, a \notin met'
               PROVE  \E x \in rooms[t] : a \in sock'[x].tell
    BY <1>2 DEF WillBeTold
  <2>1. PICK x \in rooms[t] : a \in sock[x].tell
    BY <1>1, <1>2 DEF WillBeTold
  <2>2. x \in Sockets /\ sock[x].in
    BY <1>1 DEF RoomsOK, RoomOK
  <2> QED
    BY <1>2, <1>4, <1>5, <2>1, <2>2
<1> QED
  BY <1>6, <1>8, <1>9, <1>10 DEF RoomInv

\* Who is left behind is alone, so there is nobody there to be told of.
LEMMA LeaveKeeps ==
  ASSUME RoomInv, NEW s \in Sockets, leave(s)
  PROVE  RoomInv'
<1> DEFINE th == sock[s].th
           room == rooms[th] \ {s}
           tell(x) == IF x = s THEN room ELSE sock[x].tell \ {s}
<1>1. /\ RoomTypes /\ RoomsOK /\ NewsIsForRoom /\ WillBeTold
      /\ sock[s].in /\ sock[s].tell = {}
  BY DEF RoomInv, leave
<1>2. /\ rooms' = [rooms EXCEPT ![th] = room]
      /\ sock' = [x \in Sockets |->
           Ended(IF x = s THEN [sock[s] EXCEPT !.in = FALSE, !.tell = room]
                          ELSE [sock[x] EXCEPT !.tell = @ \ {s}])]
      /\ met' = met \ rooms[th] /\ dead' = dead \ {s}
  BY DEF leave
<1>3. sock[s] \in Socket /\ th \in Threads
  BY <1>1, InIsSocket DEF Socket
<1>4. s \in rooms[th] /\ rooms[th] \subseteq Sockets
  BY <1>1, <1>3 DEF RoomsOK, RoomOK
<1>5. ASSUME NEW x \in Sockets
      PROVE  /\ sock'[x] \in Socket \cup {Free}
             /\ sock'[x].in <=> x # s /\ sock[x].in
             /\ sock'[x].tell = tell(x)
             /\ sock'[x] # Free => /\ sock[x] # Free
                                   /\ sock'[x].th = sock[x].th
                                   /\ sock'[x].u = sock[x].u
  <2> DEFINE i == IF x = s THEN FALSE ELSE sock[x].in
             T == tell(x)
  <2>1. sock[x] \in Socket \cup {Free}
    BY <1>1 DEF RoomTypes
  <2>2. i \in BOOLEAN /\ T \in SUBSET Sockets
    <3>1. sock[x].in \in BOOLEAN /\ sock[x].tell \subseteq Sockets
      <4>1. Free.in \in BOOLEAN /\ Free.tell \subseteq Sockets
        BY DEF Free
      <4>2. \A y \in Socket : y.in \in BOOLEAN /\ y.tell \subseteq Sockets
        BY DEF Socket
      <4> QED
        BY <2>1, <4>1, <4>2
    <3> QED
      BY <1>4, <3>1
  <2>3. sock[x] = Free => T = {} /\ ~i
    BY <1>1 DEF Free
  <2>4. sock'[x] = Ended(Edited(sock[x], i, T))
    <3>1. CASE x = s
      BY <1>2, <3>1 DEF Edited
    <3>2. CASE x # s
      <4>1. [sock[x] EXCEPT !.tell = @ \ {s}] = Edited(sock[x], i, T)
        BY <2>1, <3>2 DEF Socket, Free, Edited
      <4> QED
        BY <1>2, <3>2, <4>1
    <3> QED
      BY <3>1, <3>2
  <2> HIDE DEF T, i
  <2>5. /\ sock'[x] \in Socket \cup {Free}
        /\ sock'[x].in = i /\ sock'[x].tell = T
        /\ sock'[x] # Free => /\ sock[x] # Free
                              /\ sock'[x].th = sock[x].th
                              /\ sock'[x].u = sock[x].u
    BY <2>1, <2>2, <2>3, <2>4, EndedIs
  <2> QED
    BY <2>5 DEF i, T
<1>6. RoomTypes'
  <2>1. sock' \in [Sockets -> Socket \cup {Free}]
    BY <1>2, <1>5
  <2> QED
    BY <1>1, <1>2, <1>3, <2>1 DEF RoomTypes
<1>7. \A t \in Threads : rooms'[t] = rooms[t] \ {s}
  BY <1>1, <1>2, <1>3 DEF RoomTypes, RoomsOK, RoomOK
<1>8. RoomsOK'
  <2>1. ASSUME NEW t \in Threads
        PROVE  /\ IsFiniteSet(rooms'[t]) /\ Cardinality(rooms'[t]) <= 2
               /\ \A x \in rooms'[t] : sock'[x].u \in Participants(t)
               /\ rooms'[t] = {x \in Sockets : sock'[x].in /\ sock'[x].th = t}
    <3>1. /\ IsFiniteSet(rooms[t]) /\ Cardinality(rooms[t]) <= 2
          /\ \A x \in rooms[t] : sock[x].u \in Participants(t)
          /\ rooms[t] = {x \in Sockets : sock[x].in /\ sock[x].th = t}
      BY <1>1 DEF RoomsOK, RoomOK
    <3>2. IsFiniteSet(rooms'[t]) /\ Cardinality(rooms'[t]) <= 2
      <4>1. Cardinality(rooms[t]) \in Nat
        BY <3>1, FS_CardinalityType
      <4>2. /\ IsFiniteSet(rooms[t] \ {s})
            /\ Cardinality(rooms[t] \ {s}) =
                 IF s \in rooms[t] THEN Cardinality(rooms[t]) - 1
                                   ELSE Cardinality(rooms[t])
        BY <3>1, FS_RemoveElement
      <4>3. Cardinality(rooms[t] \ {s}) <= 2
        BY <3>1, <4>1, <4>2
      <4>4. rooms'[t] = rooms[t] \ {s}
        BY <1>7
      <4> QED
        BY <4>2, <4>3, <4>4
    <3>3. \A x \in Sockets : /\ sock'[x].in <=> x # s /\ sock[x].in
                             /\ sock'[x].in => /\ sock'[x].th = sock[x].th
                                               /\ sock'[x].u = sock[x].u
      <4>1. \A x \in Sockets : sock'[x].in => sock'[x] # Free
        BY DEF Free
      <4> QED
        BY <1>5, <4>1
    <3>4. rooms'[t] = {x \in Sockets : sock'[x].in /\ sock'[x].th = t}
      BY <1>7, <3>1, <3>3
    <3>5. \A x \in rooms'[t] : sock'[x].u \in Participants(t)
      BY <1>7, <3>1, <3>3
    <3> QED
      BY <3>2, <3>4, <3>5
  <2> QED
    BY <2>1 DEF RoomsOK, RoomOK, Participants
<1>9. NewsIsForRoom'
  <2> SUFFICES ASSUME NEW x \in Sockets, sock'[x] # Free
               PROVE  sock'[x].tell \subseteq rooms'[sock'[x].th]
    BY DEF NewsIsForRoom, Free
  <2>1. sock'[x].th = sock[x].th /\ sock'[x].tell = tell(x) /\ sock[x] # Free
    BY <1>5
  <2>2. sock[x].th \in Threads
    BY <1>1, <2>1 DEF RoomTypes, Socket
  <2> QED
    BY <1>1, <1>7, <2>1, <2>2 DEF NewsIsForRoom
<1>10. WillBeTold'
  <2> SUFFICES ASSUME NEW t \in Threads, NEW a \in rooms[t], NEW b \in rooms[t],
                      a # b, a # s, b # s, a \notin met'
               PROVE  \E x \in rooms[t] \ {s} : a \in sock'[x].tell
    BY <1>7 DEF WillBeTold
  <2>1. t # th
    BY <1>1, <1>4, NoThird DEF RoomsOK, RoomOK
  <2>2. a \notin met
    BY <1>1, <1>2, <1>3, <2>1 DEF RoomsOK, RoomOK
  <2>3. PICK x \in rooms[t] : a \in sock[x].tell
    BY <1>1, <2>2 DEF WillBeTold
  <2>4. x # s /\ x \in Sockets
    BY <1>1, <2>1 DEF RoomsOK, RoomOK
  <2> QED
    BY <1>5, <2>3, <2>4
<1> QED
  BY <1>6, <1>8, <1>9, <1>10 DEF RoomInv

\* The rooms are in order whatever happens.
LEMMA RoomsKept ==
  ASSUME RoomInv, Next
  PROVE  RoomInv'
<1>1. ASSUME UNCHANGED <<rooms, sock, met>>, dead' \subseteq Sockets
      PROVE  RoomInv'
  BY <1>1 DEF RoomInv, RoomTypes, RoomsOK, RoomOK, NewsIsForRoom, WillBeTold
<1>2. ASSUME NEW s \in Sockets, Lose(s)
      PROVE  RoomInv'
  BY <1>1, <1>2 DEF Lose, RoomInv, RoomTypes
<1>3. ASSUME UNCHANGED roomVars
      PROVE  RoomInv'
  BY <1>1, <1>3 DEF roomVars, RoomInv, RoomTypes
<1>4. CASE Crash
  <2>1. /\ rooms' = [t \in Threads |-> {}] /\ sock' = [s \in Sockets |-> Free]
        /\ met' = {} /\ dead' = {}
    BY <1>4 DEF Crash
  <2>2. RoomsOK'
    BY <2>1, FS_EmptySet DEF RoomsOK, RoomOK, Free
  <2>3. RoomTypes' /\ NewsIsForRoom' /\ WillBeTold'
    BY <2>1 DEF RoomTypes, NewsIsForRoom, WillBeTold
  <2> QED
    BY <2>2, <2>3 DEF RoomInv
<1>5. ASSUME NEW th \in Threads,
             LogStep(th) \/ \E u \in Callers : InitiateCall(u, th)
      PROVE  UNCHANGED roomVars
  BY <1>5 DEF LogStep, InitiateCall, DbPickRinging, DbMarkAnswered, DbPickOpen,
              DbMarkEnded
<1> QED
  BY <1>2, <1>3, <1>4, <1>5, SocketUsers, JoinKeeps, WriteKeeps, LeaveKeeps
     DEF Next

-----------------------------------------------------------------------------
(* The call history.                                                         *)

\* How many goroutines have picked each row of a thread.
Picks == [1 .. MaxCalls -> 0 .. MaxPending]

LogTypes ==
  /\ answering \in [Threads -> 0 .. MaxPending]
  /\ ending \in [Threads -> 0 .. MaxPending]
  /\ picked \in [Threads -> Picks]
  /\ closing \in [Threads -> Picks]
  /\ log \in [Threads -> Seq(CallLog)]
  /\ filled \in [Threads -> {"never", "sockets", "users"}]
  /\ crashed \in BOOLEAN

\* The part of the invariant that is about the history.
LogInv == LogTypes /\ WritesOK /\ HistoryMakesSense

\* The subquery finds a row when there is one: of the sets of the rows from
\* some index on, the smallest has the latest row alone.
LEMMA LatestIsIn ==
  ASSUME NEW n \in Nat, NEW I \in SUBSET (1 .. n), I # {}
  PROVE  LatestOf(I) \in I
<1> DEFINE From(i) == {j \in I : i <= j}
           F == {From(i) : i \in I}
           S == 1 .. n
<1>1. IsWellFoundedOn(StrictSubsetOrdering(S), SUBSET S)
  <2>1. IsFiniteSet(S)
    BY FS_Interval
  <2> HIDE DEF S
  <2>2. FiniteSubsetsOf(S) = SUBSET S
    BY <2>1, FS_FiniteSubsetsOfFinite
  <2>3. IsWellFoundedOn(StrictSubsetOrdering(S), FiniteSubsetsOf(S))
    BY <2>1, FS_StrictSubsetOrderingWellFounded
  <2> QED
    BY <2>2, <2>3
<1>2. F \subseteq SUBSET S /\ F # {}
  OBVIOUS
<1>3. PICK T \in F : \A U \in F : ~ (<<U, T>> \in StrictSubsetOrdering(S))
  <2> HIDE DEF F, S
  <2> QED
    BY <1>1, <1>2, WFMin
<1>4. PICK i \in I : T = From(i)
  OBVIOUS
<1>5. \A j \in I : j <= i
  <2> SUFFICES ASSUME NEW j \in I, i < j PROVE FALSE
    OBVIOUS
  <2>1. From(j) \subseteq From(i) /\ From(j) # From(i)
    <3>1. i \in From(i) /\ i \notin From(j)
      OBVIOUS
    <3>2. \A k \in From(j) : k \in From(i)
      OBVIOUS
    <3> QED
      BY <3>1, <3>2
  <2>2. From(j) \in F /\ From(i) \in SUBSET S /\ From(j) \in SUBSET S
    OBVIOUS
  <2> HIDE DEF From, F, S
  <2> QED
    BY <1>3, <1>4, <2>1, <2>2 DEF StrictSubsetOrdering
<1> QED
  BY <1>5 DEF LatestOf

\* What makes sense of a row of thread th.
RowOK(th, row) ==
  /\ row.status = "received" <=> row.answered
  /\ row.status = "missed" => row.ended
  /\ row.status = "ringing" => ~row.ended
  /\ row.status = "received" => filled[th] # "never"

LEMMA HistoryIsRows ==
  HistoryMakesSense <=>
    \A th \in Threads : \A i \in DOMAIN log[th] : RowOK(th, log[th][i])
  BY DEF HistoryMakesSense, RowOK

\* The rows the two UPDATEs leave.
LEMMA RowsWritten ==
  ASSUME NEW row \in CallLog
  PROVE  /\ Received(row) \in CallLog
         /\ Received(row).status = "received" /\ Received(row).answered
         /\ Received(row).caller = row.caller /\ Received(row).callee = row.callee
         /\ Received(row).ended = row.ended
         /\ Settled(row) \in CallLog
         /\ Settled(row).status = IF row.answered THEN row.status ELSE "missed"
         /\ Settled(row).answered = row.answered /\ Settled(row).ended
         /\ Settled(row).caller = row.caller /\ Settled(row).callee = row.callee
  BY DEF CallLog, Received, Settled

\* A row of the table is written and no other is touched.
LEMMA RowWritten ==
  ASSUME log \in [Threads -> Seq(CallLog)], NEW th \in Threads,
         NEW i \in 1 .. Len(log[th]), NEW row \in CallLog,
         log' = [log EXCEPT ![th][i] = row]
  PROVE  /\ log' \in [Threads -> Seq(CallLog)]
         /\ \A t \in Threads :
              /\ Len(log'[t]) = Len(log[t])
              /\ DOMAIN log'[t] = DOMAIN log[t]
              /\ \A j \in DOMAIN log[t] :
                   log'[t][j] = IF t = th /\ j = i THEN row ELSE log[t][j]
<1> DEFINE q == log[th]
           r == [q EXCEPT ![i] = row]
<1>1. q \in Seq(CallLog) /\ i \in 1 .. Len(q) /\ DOMAIN q = 1 .. Len(q)
  BY LenProperties
<1>2. log' = [log EXCEPT ![th] = r]
  OBVIOUS
<1> HIDE DEF q
<1>3. /\ r \in Seq(CallLog) /\ Len(r) = Len(q)
      /\ \A j \in 1 .. Len(q) : r[j] = IF j = i THEN row ELSE q[j]
  BY <1>1, ExceptSeq
<1>4. DOMAIN r = DOMAIN q
  BY <1>1
<1> HIDE DEF r
<1> QED
  BY <1>1, <1>2, <1>3, <1>4 DEF q

\* A thread that has ever been joined stays so.
LEMMA FilledStays ==
  ASSUME LogInv, Next
  PROVE  /\ filled' \in [Threads -> {"never", "sockets", "users"}]
         /\ \A th \in Threads : filled[th] # "never" => filled'[th] # "never"
<1>1. filled \in [Threads -> {"never", "sockets", "users"}]
  BY DEF LogInv, LogTypes
<1>2. ASSUME NEW s \in Sockets, NEW t \in Threads, NEW u \in Users, Signal(s, t, u)
      PROVE  /\ filled' = [filled EXCEPT ![t] = filled'[t]]
             /\ filled'[t] \in {filled[t], "users", "sockets"}
  BY <1>1, <1>2 DEF Signal, join, Enter
<1>3. ASSUME NEW s \in Sockets,
             (\E p \in Sockets : WriteMessage(s, p)) \/ leave(s) \/ Lose(s)
      PROVE  filled' = filled
  BY <1>3 DEF WriteMessage, leave, Lose
<1>4. ASSUME NEW t \in Threads,
             LogStep(t) \/ \E u \in Callers : InitiateCall(u, t)
      PROVE  filled' = filled
  BY <1>4 DEF LogStep, InitiateCall, DbPickRinging, DbMarkAnswered, DbPickOpen,
              DbMarkEnded, roomVars
<1>5. Crash => filled' = filled
  BY DEF Crash
<1> QED
  BY <1>1, <1>2, <1>3, <1>4, <1>5, SocketUsers DEF Next

\* What a step may do to the history.
Kept ==
  /\ log' \in [Threads -> Seq(CallLog)]
  /\ \A th \in Threads :
       /\ Len(log'[th]) <= MaxCalls
       /\ DOMAIN log[th] \subseteq DOMAIN log'[th]
       /\ \A i \in DOMAIN log'[th] : RowOK(th, log'[th][i])
       /\ \A i \in DOMAIN log[th] :
            /\ log'[th][i].caller = log[th][i].caller
            /\ log'[th][i].callee = log[th][i].callee
            /\ log[th][i].ended => log'[th][i].ended
            /\ log[th][i].answered => log'[th][i].status = "received"

\* Every step keeps the rows there are, and what sense they make: a call is
\* placed, or the row a write has picked is written, ended or answered since
\* it was picked though it may be.
LEMMA HistoryKept ==
  ASSUME IInv, Next
  PROVE  Kept
<1>1. /\ log \in [Threads -> Seq(CallLog)] /\ MaxCalls \in Nat
      /\ LogTypes /\ WritesOK
      /\ \A th \in Threads : \A i \in DOMAIN log[th] : RowOK(th, log[th][i])
  BY HistoryIsRows, BoundAssumption DEF IInv, TypeOK, LogTypes, Picks
<1>2. \A th \in Threads : /\ Len(log[th]) \in Nat /\ Len(log[th]) <= MaxCalls
                          /\ DOMAIN log[th] = 1 .. Len(log[th])
                          /\ \A i \in DOMAIN log[th] : log[th][i] \in CallLog
  BY <1>1, LenProperties, ElementOfSeq DEF WritesOK
<1>3. CASE log' = log
  BY <1>1, <1>2, <1>3 DEF Kept, RowOK
<1>4. ASSUME NEW th \in Threads, NEW u \in Callers, InitiateCall(u, th)
      PROVE  Kept
  <2>1. PICK v \in Participants(th) \ {u} :
          log' = [log EXCEPT ![th] = Append(@, Ringing(u, v))]
    BY <1>4 DEF InitiateCall
  <2> DEFINE row == Ringing(u, v)
             q == log[th]
             r == Append(q, row)
  <2>2. u \in Users /\ v \in Users
    BY <1>4, ThreadAssumption DEF InitiateCall, Participants
  <2>3. row \in CallLog /\ row.status = "ringing" /\ ~row.answered /\ ~row.ended
    BY <2>2 DEF Ringing, CallLog
  <2>4. q \in Seq(CallLog) /\ Len(q) < MaxCalls
    BY <1>1, <1>4 DEF InitiateCall
  <2>5. log' = [log EXCEPT ![th] = r]
    BY <2>1
  <2> HIDE DEF row, q
  <2>6. /\ r \in Seq(CallLog) /\ Len(r) = Len(q) + 1
        /\ \A i \in 1 .. Len(q) : r[i] = q[i]
        /\ r[Len(q) + 1] = row
    BY <2>3, <2>4, AppendProperties
  <2>7. DOMAIN r = 1 .. Len(q) + 1 /\ Len(q) \in Nat /\ DOMAIN q = 1 .. Len(q)
    BY <2>4, <2>6, LenProperties
  <2> HIDE DEF r
  <2>8. log' \in [Threads -> Seq(CallLog)]
    BY <1>1, <2>5, <2>6
  <2>9. \A t \in Threads : log'[t] = IF t = th THEN r ELSE log[t]
    BY <1>1, <2>5
  <2>10. ASSUME NEW t \in Threads
         PROVE  /\ Len(log'[t]) <= MaxCalls
                /\ DOMAIN log[t] \subseteq DOMAIN log'[t]
                /\ \A i \in DOMAIN log'[t] : RowOK(t, log'[t][i])
                /\ \A i \in DOMAIN log[t] : log'[t][i] = log[t][i]
    <3>1. CASE t # th
      BY <1>1, <1>2, <2>9, <3>1
    <3>2. CASE t = th
      <4>1. log'[t] = r /\ log[t] = q
        BY <2>9, <3>2 DEF q
      <4>2. Len(r) <= MaxCalls
        BY <1>1, <2>4, <2>6, <2>7
      <4>3. \A i \in DOMAIN q : i \in DOMAIN r /\ r[i] = q[i] /\ RowOK(t, r[i])
        BY <1>1, <2>6, <2>7, <4>1
      <4>4. RowOK(t, row)
        BY <2>3 DEF RowOK
      <4>5. \A i \in DOMAIN r : i \in DOMAIN q \/ i = Len(q) + 1
        BY <2>7
      <4> QED
        BY <2>6, <4>1, <4>2, <4>3, <4>4, <4>5
    <3> QED
      BY <3>1, <3>2
  <2> QED
    BY <1>1, <2>8, <2>10 DEF Kept, RowOK
<1>5. ASSUME NEW th \in Threads, NEW i \in 1 .. Len(log[th]), NEW row \in CallLog,
             log' = [log EXCEPT ![th][i] = row], RowOK(th, row),
             row.caller = log[th][i].caller, row.callee = log[th][i].callee,
             log[th][i].ended => row.ended,
             log[th][i].answered => row.status = "received"
      PROVE  Kept
  <2>1. /\ log' \in [Threads -> Seq(CallLog)]
        /\ \A t \in Threads :
              /\ Len(log'[t]) = Len(log[t])
              /\ DOMAIN log'[t] = DOMAIN log[t]
              /\ \A j \in DOMAIN log[t] :
                   log'[t][j] = IF t = th /\ j = i THEN row ELSE log[t][j]
    BY <1>1, <1>5, RowWritten
  <2>2. ASSUME NEW t \in Threads, NEW j \in DOMAIN log[t]
        PROVE  /\ RowOK(t, log'[t][j])
               /\ log'[t][j].caller = log[t][j].caller
               /\ log'[t][j].callee = log[t][j].callee
               /\ log[t][j].ended => log'[t][j].ended
               /\ log[t][j].answered => log'[t][j].status = "received"
    <3>1. log'[t][j] = IF t = th /\ j = i THEN row ELSE log[t][j]
      BY <2>1
    <3>2. RowOK(t, log[t][j])
      BY <1>1
    <3>3. CASE t = th /\ j = i
      BY <1>5, <3>1, <3>3
    <3>4. CASE ~ (t = th /\ j = i)
      BY <3>1, <3>2, <3>4 DEF RowOK
    <3> QED
      BY <3>3, <3>4
  <2> QED
    BY <1>2, <2>1, <2>2 DEF Kept
<1>6. ASSUME NEW th \in Threads, NEW i \in 1 .. MaxCalls, DbMarkAnswered(th, i)
      PROVE  Kept
  <2> DEFINE row == log[th][i]
  <2>1. i \in 1 .. Len(log[th]) /\ filled[th] # "never"
    BY <1>1, <1>2, <1>6 DEF DbMarkAnswered, WritesOK
  <2>2. row \in CallLog
    BY <1>2, <2>1
  <2>3. log' = [log EXCEPT ![th][i] = Received(row)]
    BY <1>6 DEF DbMarkAnswered
  <2>4. RowOK(th, row)
    BY <1>1, <1>2, <2>1
  <2>5. RowOK(th, Received(row))
    BY <2>1, <2>2, <2>4, RowsWritten DEF RowOK
  <2> QED
    BY <1>5, <2>1, <2>2, <2>3, <2>5, RowsWritten
<1>7. ASSUME NEW th \in Threads, NEW i \in 1 .. MaxCalls, DbMarkEnded(th, i)
      PROVE  Kept
  <2> DEFINE row == log[th][i]
  <2>1. i \in 1 .. Len(log[th])
    BY <1>1, <1>2, <1>7 DEF DbMarkEnded, WritesOK
  <2>2. row \in CallLog
    BY <1>2, <2>1
  <2>3. log' = [log EXCEPT ![th][i] = Settled(row)]
    BY <1>7 DEF DbMarkEnded
  <2>4. RowOK(th, row)
    BY <1>1, <1>2, <2>1
  <2>5. RowOK(th, Settled(row)) /\ (row.answered => Settled(row).status = "received")
    BY <2>2, <2>4, RowsWritten DEF RowOK
  <2> QED
    BY <1>5, <2>1, <2>2, <2>3, <2>5, RowsWritten
<1>8. ASSUME NEW s \in Sockets,
             \/ \E th \in Threads, u \in Users : Signal(s, th, u)
             \/ (\E p \in Sockets : WriteMessage(s, p)) \/ leave(s) \/ Lose(s)
      PROVE  log' = log
  BY <1>8 DEF Signal, join, Enter, WriteMessage, leave, Lose, logVars, rowVars
<1>9. ASSUME NEW th \in Threads, DbPickRinging(th) \/ DbPickOpen(th)
      PROVE  log' = log
  BY <1>9 DEF DbPickRinging, DbPickOpen
<1>10. Crash => log' = log
  BY DEF Crash
<1> QED
  BY <1>3, <1>4, <1>6, <1>7, <1>8, <1>9, <1>10, SocketUsers DEF Next, LogStep

\* The counters of the goroutines, and the rows they have picked, of one thread.
CountersOK(th) ==
  /\ answering[th] \in 0 .. MaxPending /\ ending[th] \in 0 .. MaxPending
  /\ picked[th] \in Picks /\ closing[th] \in Picks
  /\ answering[th] > 0 => filled[th] # "never"
  /\ \A i \in 1 .. MaxCalls :
       /\ picked[th][i] > 0 => i <= Len(log[th]) /\ filled[th] # "never"
       /\ closing[th][i] > 0 => i <= Len(log[th])

Counters == <<answering, ending, picked, closing>>

\* One goroutine more, or one less, that has picked row i.
LEMMA PicksMove ==
  ASSUME NEW f \in Picks, NEW i \in 1 .. MaxCalls
  PROVE  /\ f[i] < MaxPending => [f EXCEPT ![i] = @ + 1] \in Picks
         /\ f[i] > 0 => [f EXCEPT ![i] = @ - 1] \in Picks
  BY BoundAssumption DEF Picks

\* A row that a goroutine has picked is there.
LEMMA CountersKept ==
  ASSUME IInv, Next
  PROVE  /\ \A th \in Threads : CountersOK(th)'
         /\ answering' = [th \in Threads |-> answering'[th]]
         /\ ending' = [th \in Threads |-> ending'[th]]
         /\ picked' = [th \in Threads |-> picked'[th]]
         /\ closing' = [th \in Threads |-> closing'[th]]
<1> DEFINE Functions == /\ answering' = [th \in Threads |-> answering'[th]]
                        /\ ending' = [th \in Threads |-> ending'[th]]
                        /\ picked' = [th \in Threads |-> picked'[th]]
                        /\ closing' = [th \in Threads |-> closing'[th]]
           Same(t) == /\ answering'[t] = answering[t] /\ ending'[t] = ending[t]
                      /\ picked'[t] = picked[t] /\ closing'[t] = closing[t]
           Fine(t) == /\ answering'[t] \in 0 .. MaxPending
                      /\ ending'[t] \in 0 .. MaxPending
                      /\ picked'[t] \in Picks
                      /\ closing'[t] \in Picks
                      /\ answering'[t] > 0 => filled'[t] # "never"
                      /\ \A i \in 1 .. MaxCalls :
                           /\ picked'[t][i] > 0 => /\ i <= Len(log[t])
                                                   /\ filled'[t] # "never"
                           /\ closing'[t][i] > 0 => i <= Len(log[t])
<1>1. /\ answering \in [Threads -> 0 .. MaxPending]
      /\ ending \in [Threads -> 0 .. MaxPending]
      /\ picked \in [Threads -> Picks]
      /\ closing \in [Threads -> Picks]
      /\ filled \in [Threads -> {"never", "sockets", "users"}]
      /\ MaxPending \in Nat /\ MaxCalls \in Nat
      /\ \A th \in Threads : CountersOK(th)
  BY BoundAssumption DEF IInv, TypeOK, WritesOK, CountersOK, Picks
<1>2. ASSUME NEW t \in Threads
      PROVE  /\ filled[t] # "never" => filled'[t] # "never"
             /\ Len(log[t]) \in Nat /\ Len(log[t]) <= MaxCalls
             /\ DOMAIN log[t] = 1 .. Len(log[t])
             /\ Len(log'[t]) \in Nat /\ Len(log[t]) <= Len(log'[t])
  <2>1. LogInv
    BY DEF IInv, TypeOK, LogInv, LogTypes, Picks
  <2>2. log[t] \in Seq(CallLog) /\ log'[t] \in Seq(CallLog)
          /\ DOMAIN log[t] \subseteq DOMAIN log'[t]
    BY HistoryKept DEF Kept, IInv, TypeOK
  <2>3. /\ DOMAIN log[t] = 1 .. Len(log[t]) /\ Len(log[t]) \in Nat
        /\ DOMAIN log'[t] = 1 .. Len(log'[t]) /\ Len(log'[t]) \in Nat
    BY <2>2, LenProperties
  <2>4. Len(log[t]) <= MaxCalls
    BY DEF IInv, WritesOK
  <2>5. Len(log[t]) <= Len(log'[t])
    BY <2>2, <2>3
  <2> QED
    BY <2>1, <2>2, <2>3, <2>4, <2>5, FilledStays
<1>3. ASSUME NEW t \in Threads, Same(t)
      PROVE  Fine(t)
  BY <1>1, <1>2, <1>3 DEF CountersOK
<1>4. ASSUME NEW t \in Threads, Fine(t)
      PROVE  CountersOK(t)'
  BY <1>1, <1>2, <1>4 DEF CountersOK
<1> DEFINE Goal == Functions /\ \A t \in Threads : Fine(t)
<1>5. ASSUME NEW s \in Sockets, NEW th \in Threads, NEW u \in Users,
             Signal(s, th, u)
      PROVE  Goal
  <2>1. /\ UNCHANGED <<ending, picked, closing>>
        /\ answering[th] < MaxPending
        /\ \/ answering' = [answering EXCEPT ![th] = @ + 1] /\ rooms[th] # {}
           \/ answering' = [answering EXCEPT ![th] = @]
    BY <1>5 DEF Signal, join, Enter, rowVars
  <2>2. rooms[th] # {} => filled'[th] # "never"
    BY <1>1, <1>5 DEF Signal, join, Enter
  <2>3. \A t \in Threads \ {th} : Same(t)
    BY <1>1, <2>1
  <2>4. Fine(th)
    <3>1. /\ answering'[th] \in 0 .. MaxPending
          /\ answering'[th] > 0 => filled'[th] # "never"
      BY <1>1, <1>2, <2>1, <2>2 DEF CountersOK
    <3> QED
      BY <1>1, <1>2, <2>1, <3>1 DEF CountersOK
  <2> QED
    BY <1>1, <1>3, <2>1, <2>3, <2>4
<1>6. ASSUME NEW s \in Sockets, leave(s)
      PROVE  Goal
  <2> DEFINE th == sock[s].th
  <2>1. th \in Threads
    BY <1>6, InIsSocket DEF IInv, TypeOK, RoomTypes, leave, Socket
  <2>2. /\ UNCHANGED <<answering, picked, closing>>
        /\ ending[th] < MaxPending
        /\ \/ ending' = [ending EXCEPT ![th] = @ + 1]
           \/ ending' = [ending EXCEPT ![th] = @]
    BY <1>6 DEF leave, rowVars
  <2> HIDE DEF th
  <2>3. \A t \in Threads \ {th} : Same(t)
    BY <1>1, <2>2
  <2>4. Fine(th)
    <3>1. ending'[th] \in 0 .. MaxPending
      BY <1>1, <2>1, <2>2
    <3> QED
      BY <1>1, <1>2, <2>1, <2>2, <3>1 DEF CountersOK
  <2> QED
    BY <1>1, <1>3, <2>1, <2>2, <2>3, <2>4
<1>7. ASSUME NEW th \in Threads, DbPickRinging(th)
      PROVE  Goal
  <2> DEFINE I == {i \in DOMAIN log[th] : StillRings(log[th][i])}
             n == LatestOf(I)
  <2>1. /\ UNCHANGED <<ending, closing>>
        /\ answering[th] > 0
        /\ answering' = [answering EXCEPT ![th] = @ - 1]
        /\ \/ picked' = picked
           \/ /\ I # {} /\ picked[th][n] < MaxPending
              /\ picked' = [picked EXCEPT ![th][n] = @ + 1]
    BY <1>7 DEF DbPickRinging, Pick
  <2>2. I \in SUBSET (1 .. Len(log[th]))
    BY <1>2
  <2>3. I # {} => n \in 1 .. Len(log[th])
    <3> HIDE DEF I
    <3> QED
      BY <1>2, <2>2, LatestIsIn
  <2> HIDE DEF I, n
  <2>4. \A t \in Threads \ {th} : Same(t)
    BY <1>1, <2>1
  <2>5. Fine(th)
    <3>1. /\ answering'[th] \in 0 .. MaxPending
          /\ filled'[th] # "never"
      BY <1>1, <1>2, <2>1 DEF CountersOK
    <3>2. CASE picked' = picked
      BY <1>1, <1>2, <2>1, <3>1, <3>2 DEF CountersOK
    <3>3. CASE /\ I # {} /\ picked[th][n] < MaxPending
               /\ picked' = [picked EXCEPT ![th][n] = @ + 1]
      <4>1. /\ n \in 1 .. MaxCalls /\ n <= Len(log[th]) /\ picked[th] \in Picks
            /\ picked'[th] = [picked[th] EXCEPT ![n] = @ + 1]
        BY <1>1, <1>2, <2>3, <3>3
      <4>2. /\ picked'[th] \in Picks
            /\ \A i \in 1 .. MaxCalls \ {n} : picked'[th][i] = picked[th][i]
        BY <3>3, <4>1, PicksMove DEF Picks
      <4> QED
        BY <1>1, <1>2, <2>1, <3>1, <4>1, <4>2 DEF CountersOK
    <3> QED
      BY <2>1, <3>2, <3>3
  <2> QED
    BY <1>1, <1>3, <2>1, <2>4, <2>5
<1>8. ASSUME NEW th \in Threads, DbPickOpen(th)
      PROVE  Goal
  <2> DEFINE I == {i \in DOMAIN log[th] : IsOpen(log[th][i])}
             n == LatestOf(I)
  <2>1. /\ UNCHANGED <<answering, picked>>
        /\ ending[th] > 0
        /\ ending' = [ending EXCEPT ![th] = @ - 1]
        /\ \/ closing' = closing
           \/ /\ I # {} /\ closing[th][n] < MaxPending
              /\ closing' = [closing EXCEPT ![th][n] = @ + 1]
    BY <1>8 DEF DbPickOpen, Pick
  <2>2. I \in SUBSET (1 .. Len(log[th]))
    BY <1>2
  <2>3. I # {} => n \in 1 .. Len(log[th])
    <3> HIDE DEF I
    <3> QED
      BY <1>2, <2>2, LatestIsIn
  <2> HIDE DEF I, n
  <2>4. \A t \in Threads \ {th} : Same(t)
    BY <1>1, <2>1
  <2>5. Fine(th)
    <3>1. ending'[th] \in 0 .. MaxPending
      BY <1>1, <2>1
    <3>2. CASE closing' = closing
      BY <1>1, <1>2, <2>1, <3>1, <3>2 DEF CountersOK
    <3>3. CASE /\ I # {} /\ closing[th][n] < MaxPending
               /\ closing' = [closing EXCEPT ![th][n] = @ + 1]
      <4>1. /\ n \in 1 .. MaxCalls /\ n <= Len(log[th]) /\ closing[th] \in Picks
            /\ closing'[th] = [closing[th] EXCEPT ![n] = @ + 1]
        BY <1>1, <1>2, <2>3, <3>3
      <4>2. /\ closing'[th] \in Picks
            /\ \A i \in 1 .. MaxCalls \ {n} : closing'[th][i] = closing[th][i]
        BY <3>3, <4>1, PicksMove DEF Picks
      <4> QED
        BY <1>1, <1>2, <2>1, <3>1, <4>1, <4>2 DEF CountersOK
    <3> QED
      BY <2>1, <3>2, <3>3
  <2> QED
    BY <1>1, <1>3, <2>1, <2>4, <2>5
<1>9. ASSUME NEW th \in Threads, NEW n \in 1 .. MaxCalls, DbMarkAnswered(th, n)
      PROVE  Goal
  <2>1. /\ UNCHANGED <<answering, ending, closing>> /\ picked[th][n] > 0
        /\ picked' = [picked EXCEPT ![th][n] = @ - 1]
    BY <1>9 DEF DbMarkAnswered
  <2>2. \A t \in Threads \ {th} : Same(t)
    BY <1>1, <2>1
  <2>3. /\ picked[th] \in Picks
        /\ picked'[th] = [picked[th] EXCEPT ![n] = @ - 1]
    BY <1>1, <2>1
  <2>4. /\ picked'[th] \in Picks
        /\ \A i \in 1 .. MaxCalls \ {n} : picked'[th][i] = picked[th][i]
    BY <2>1, <2>3, PicksMove DEF Picks
  <2>5. Fine(th)
    BY <1>1, <1>2, <2>1, <2>4 DEF CountersOK
  <2> QED
    BY <1>1, <1>3, <2>1, <2>2, <2>5
<1>10. ASSUME NEW th \in Threads, NEW n \in 1 .. MaxCalls, DbMarkEnded(th, n)
       PROVE  Goal
  <2>1. /\ UNCHANGED <<answering, ending, picked>> /\ closing[th][n] > 0
        /\ closing' = [closing EXCEPT ![th][n] = @ - 1]
    BY <1>10 DEF DbMarkEnded
  <2>2. \A t \in Threads \ {th} : Same(t)
    BY <1>1, <2>1
  <2>3. /\ closing[th] \in Picks
        /\ closing'[th] = [closing[th] EXCEPT ![n] = @ - 1]
    BY <1>1, <2>1
  <2>4. /\ closing'[th] \in Picks
        /\ \A i \in 1 .. MaxCalls \ {n} : closing'[th][i] = closing[th][i]
    BY <2>1, <2>3, PicksMove DEF Picks
  <2>5. Fine(th)
    BY <1>1, <1>2, <2>1, <2>4 DEF CountersOK
  <2> QED
    BY <1>1, <1>3, <2>1, <2>2, <2>5
<1>11. ASSUME Crash
       PROVE  Goal
  <2>1. /\ answering' = [th \in Threads |-> 0] /\ ending' = [th \in Threads |-> 0]
        /\ picked' = [th \in Threads |-> NotPicked]
        /\ closing' = [th \in Threads |-> NotPicked]
    BY <1>11 DEF Crash
  <2>2. Functions
    BY <2>1
  <2>3. NotPicked \in Picks /\ \A i \in 1 .. MaxCalls : NotPicked[i] = 0
    BY <1>1 DEF NotPicked, Picks
  <2>4. \A t \in Threads : Fine(t)
    BY <1>1, <2>1, <2>3
  <2> QED
    BY <2>2, <2>4
<1>12. ASSUME UNCHANGED Counters
       PROVE  Goal
  <2>1. Functions
    BY <1>1, <1>12 DEF Counters
  <2>2. \A t \in Threads : Same(t)
    BY <1>12 DEF Counters
  <2> QED
    BY <1>3, <2>1, <2>2
<1>13. ASSUME NEW s \in Sockets, (\E p \in Sockets : WriteMessage(s, p)) \/ Lose(s)
       PROVE  UNCHANGED Counters
  BY <1>13 DEF WriteMessage, Lose, logVars, rowVars, Counters
<1>14. ASSUME NEW th \in Threads, NEW u \in Callers, InitiateCall(u, th)
       PROVE  UNCHANGED Counters
  BY <1>14 DEF InitiateCall, Counters
<1>15. Goal
  <2> HIDE DEF Goal
  <2>1. ASSUME NEW s \in Sockets,
               \/ \E th \in Threads, u \in Users : Signal(s, th, u)
               \/ (\E p \in Sockets : WriteMessage(s, p)) \/ leave(s) \/ Lose(s)
        PROVE  Goal
    BY <1>5, <1>6, <1>12, <1>13, <2>1
  <2>2. ASSUME NEW th \in Threads,
               LogStep(th) \/ \E u \in Callers : InitiateCall(u, th)
        PROVE  Goal
    BY <1>7, <1>8, <1>9, <1>10, <1>12, <1>14, <2>2 DEF LogStep
  <2> QED
    BY <1>11, <2>1, <2>2, SocketUsers DEF Next
<1> QED
  BY <1>4, <1>15

LEMMA CrashedType ==
  ASSUME LogInv, Next
  PROVE  crashed' \in BOOLEAN
<1>1. ASSUME NEW s \in Sockets,
             \/ \E th \in Threads, u \in Users : Signal(s, th, u)
             \/ (\E p \in Sockets : WriteMessage(s, p)) \/ leave(s) \/ Lose(s)
      PROVE  crashed' = crashed
  BY <1>1 DEF Signal, join, Enter, WriteMessage, leave, Lose
<1>2. ASSUME NEW th \in Threads,
             LogStep(th) \/ \E u \in Callers : InitiateCall(u, th)
      PROVE  crashed' = crashed
  BY <1>2 DEF LogStep, InitiateCall, DbPickRinging, DbMarkAnswered, DbPickOpen,
              DbMarkEnded
<1>3. Crash => crashed' = TRUE
  BY DEF Crash
<1> QED
  BY <1>1, <1>2, <1>3, SocketUsers DEF Next, LogInv, LogTypes

-----------------------------------------------------------------------------
(* The theorems.                                                             *)

\* The strengthening that makes the safety properties inductive is invariant.
THEOREM Invariance == Spec => []IInv
<1>1. Init => IInv
  <2> SUFFICES ASSUME Init PROVE IInv
    OBVIOUS
  <2>1. TypeOK
    <3>1. 0 \in 0 .. MaxPending
      BY BoundAssumption
    <3>2. <<>> \in Seq(CallLog)
      BY EmptySeq
    <3>3. log \in [Threads -> Seq(CallLog)]
      BY <3>2 DEF Init
    <3> QED
      BY <3>1, <3>3 DEF Init, TypeOK, NotPicked
  <2>2. RoomsOK
    BY FS_EmptySet DEF Init, RoomsOK, RoomOK, Free
  <2>3. NewsIsForRoom /\ WillBeTold
    BY DEF Init, NewsIsForRoom, WillBeTold
  <2>4. WritesOK /\ HistoryMakesSense
    BY BoundAssumption, EmptySeq
       DEF Init, NotPicked, WritesOK, HistoryMakesSense
  <2> QED
    BY <2>1, <2>2, <2>3, <2>4 DEF IInv
<1>2. IInv /\ [Next]_vars => IInv'
  <2> SUFFICES ASSUME IInv, [Next]_vars PROVE IInv'
    OBVIOUS
  <2>1. CASE UNCHANGED vars
    BY <2>1 DEF vars, rowVars, IInv, TypeOK, RoomsOK, RoomOK, NewsIsForRoom,
                WillBeTold, WritesOK, HistoryMakesSense
  <2>2. CASE Next
    <3>1. RoomInv /\ LogInv
      BY DEF IInv, TypeOK, RoomInv, RoomTypes, LogInv, LogTypes, Picks
    <3>2. RoomInv'
      BY <2>2, <3>1, RoomsKept
    <3>3. LogTypes'
      <4>1. log' \in [Threads -> Seq(CallLog)]
        BY <2>2, HistoryKept DEF Kept
      <4>2. filled' \in [Threads -> {"never", "sockets", "users"}]
        BY <2>2, <3>1, FilledStays
      <4>3. /\ answering' \in [Threads -> 0 .. MaxPending]
            /\ ending' \in [Threads -> 0 .. MaxPending]
            /\ picked' \in [Threads -> Picks]
            /\ closing' \in [Threads -> Picks]
        BY <2>2, CountersKept DEF CountersOK
      <4>4. crashed' \in BOOLEAN
        BY <2>2, <3>1, CrashedType
      <4> QED
        BY <4>1, <4>2, <4>3, <4>4 DEF LogTypes
    <3>4. WritesOK'
      BY <2>2, HistoryKept, CountersKept DEF WritesOK, Kept, CountersOK
    <3>5. HistoryMakesSense'
      BY <2>2, <3>1, HistoryKept, FilledStays DEF HistoryMakesSense, Kept, RowOK
    <3> QED
      BY <3>2, <3>3, <3>4, <3>5 DEF IInv, RoomInv, RoomTypes, LogTypes, Picks,
                                    TypeOK
  <2> QED
    BY <2>1, <2>2
<1> QED
  BY <1>1, <1>2, PTL DEF Spec

\* Every variable keeps its type.
THEOREM TypeCorrect == Spec => []TypeOK
<1>1. IInv => TypeOK
  BY DEF IInv
<1> QED
  BY <1>1, Invariance, PTL

\* Two at most are in a room, participants both, and once the news is out each
\* of them has been told of a peer.
THEOREM TwoAreTold == Spec => []BothTold
<1>1. IInv => BothTold
  <2> SUFFICES ASSUME IInv, NEW th \in Threads, Cardinality(rooms[th]) = 2,
                      \A s \in rooms[th] : sock[s].tell = {},
                      NEW p \in rooms[th]
               PROVE  p \in met
    BY DEF IInv, RoomsOK, BothTold
  <2>1. IsFiniteSet(rooms[th]) /\ WillBeTold
    BY DEF IInv, RoomsOK
  <2>2. PICK q \in rooms[th] : q # p
    <3>1. rooms[th] # {p}
      BY <2>1, FS_Singleton
    <3> QED
      BY <3>1
  <2> QED
    BY <2>1, <2>2 DEF WillBeTold
<1> QED
  BY <1>1, Invariance, PTL

\* What the history says of a call is what became of it.
THEOREM HistorySense == Spec => []HistoryMakesSense
<1>1. IInv => HistoryMakesSense
  BY DEF IInv
<1> QED
  BY <1>1, Invariance, PTL

\* No call disappears from the history, is opened again or loses its answer.
THEOREM HistoryStays == Spec => HistoryIsKept
<1> DEFINE Step == \A u \in Users : \A e \in ListForUser(u) :
                     LET row == log[e[1]][e[2]] IN
                     /\ e \in ListForUser(u)'
                     /\ row.ended => log'[e[1]][e[2]].ended
                     /\ row.answered => log'[e[1]][e[2]].status = "received"
<1>1. IInv /\ [Next]_vars => [Step]_vars
  <2> SUFFICES ASSUME IInv, Next PROVE Step
    OBVIOUS
  <2> SUFFICES ASSUME NEW u \in Users, NEW th \in Threads, NEW i \in 1 .. MaxCalls,
                      <<th, i>> \in ListForUser(u)
               PROVE  /\ <<th, i>> \in ListForUser(u)'
                      /\ log[th][i].ended => log'[th][i].ended
                      /\ log[th][i].answered => log'[th][i].status = "received"
    BY DEF ListForUser
  <2>1. i \in DOMAIN log[th]
    BY DEF ListForUser
  <2>2. /\ i \in DOMAIN log'[th]
        /\ log'[th][i].caller = log[th][i].caller
        /\ log'[th][i].callee = log[th][i].callee
        /\ log[th][i].ended => log'[th][i].ended
        /\ log[th][i].answered => log'[th][i].status = "received"
    BY <2>1, HistoryKept DEF Kept
  <2> QED
    BY <2>2 DEF ListForUser
<1> QED
  BY <1>1, Invariance, PTL DEF Spec, HistoryIsKept
=============================================================================
