----------------------------- MODULE Notifications -----------------------------
(***************************************************************************)
(* FirebaseService.SendToUser and NotificationRepository: a push to the    *)
(* device of a user and a row in the app's notification list.              *)
(*                                                                         *)
(* Sending reads the user's token, asks FCM to deliver, clears a token FCM *)
(* turns down and stores the row, each in its own step; meanwhile the      *)
(* user signs in elsewhere, signs out, or reads what there is.  Most       *)
(* callers ignore its error.  A send is a slot of sends.                   *)
(***************************************************************************)
EXTENDS Naturals

CONSTANTS
  Users,  \* user accounts
  Tokens, \* FCM registration tokens, one for each installation of the app
  Sends,  \* calls of SendToUser
  Pushes, \* whether Firebase is configured
  None    \* NULL and the empty token

TokenAssumption == None \notin Tokens \cup Users /\ Pushes \in BOOLEAN

VARIABLES
  token,     \* column fcm_token of users
  alive,     \* tokens FCM delivers to
  sends,     \* the calls made so far
  rows,      \* rows of notifications, by the call that wrote them
  delivered  \* history: calls whose push reached a device, and the token

noticeVars == <<token, alive, sends, rows, delivered>>

Row == [user : Users, sent_via_fcm : BOOLEAN, is_read : BOOLEAN]

Send == [at : {"push", "clear", "row", "done", "cut"}, user : Users,
         token : Tokens \cup {None}, ok : BOOLEAN]

Idle == [at |-> "idle"]

TypeOK ==
  /\ token \in [Users -> Tokens \cup {None}]
  /\ alive \subseteq Tokens
  /\ sends \in [Sends -> Send \cup {Idle}]
  /\ rows \in [Sends -> Row \cup {None}]
  /\ delivered \subseteq Sends \X Tokens

Init ==
  /\ token = [u \in Users |-> None]
  /\ alive = {}
  /\ sends = [s \in Sends |-> Idle]
  /\ rows = [s \in Sends |-> None]
  /\ delivered = {}

At(s, where) == sends[s].at = where

GoTo(s, where) == sends' = [sends EXCEPT ![s].at = where]

-----------------------------------------------------------------------------
(* The user's device.                                                        *)

\* The app registers its token after signing in, and again when FCM rotates it.
RegisterFCMToken(u, k) ==
  /\ alive' = alive \cup {k}
  /\ token' = [token EXCEPT ![u] = k]
  /\ UNCHANGED <<sends, rows, delivered>>

Logout(u) ==
  /\ token' = [token EXCEPT ![u] = None]
  /\ UNCHANGED <<alive, sends, rows, delivered>>

\* The app is uninstalled or its token rotated.
Uninstall(k) ==
  /\ alive' = alive \ {k}
  /\ UNCHANGED <<token, sends, rows, delivered>>

-----------------------------------------------------------------------------
(* Sending.                                                                  *)

\* Without a client or a token there is nothing to push.
SendToUser(s, u) ==
  /\ sends[s] = Idle
  /\ sends' = [sends EXCEPT ![s] =
       [at |-> IF Pushes /\ token[u] # None THEN "push" ELSE "row",
        user |-> u, token |-> token[u], ok |-> FALSE]]
  /\ UNCHANGED <<token, alive, rows, delivered>>

\* FCM delivers to a token it knows.
Deliver(s) ==
  /\ sends[s].token \in alive
  /\ delivered' = delivered \cup {<<s, sends[s].token>>}

\* The caller learns of success only after a delivery.  An error says that the
\* token is dead, is another project's or does not suit the message, whereupon
\* it is to be cleared, or anything else; and a push that is repeated, whose
\* answer is lost or whose context is done may have been delivered all the same.
Push(s) ==
  /\ At(s, "push")
  /\ \/ /\ Deliver(s)
        /\ sends' = [sends EXCEPT ![s].at = "row", ![s].ok = TRUE]
     \/ /\ Deliver(s) \/ UNCHANGED delivered
        /\ GoTo(s, "clear") \/ GoTo(s, "row")
  /\ UNCHANGED <<token, alive, rows>>

\* SetFCMToken with the empty token, whatever is stored by now; a failure is
\* only logged.
DbClearToken(s) ==
  /\ At(s, "clear")
  /\ token' \in {token, [token EXCEPT ![sends[s].user] = None]}
  /\ GoTo(s, "row")
  /\ UNCHANGED <<alive, rows, delivered>>

\* Mutant of DbCreate: only what was not pushed is stored.
DbCreateUnlessPushed(s) ==
  /\ At(s, "row")
  /\ rows' = IF sends[s].ok THEN rows
             ELSE [rows EXCEPT ![s] = [user |-> sends[s].user,
                     sent_via_fcm |-> FALSE, is_read |-> FALSE]]
  /\ GoTo(s, "done")
  /\ UNCHANGED <<token, alive, delivered>>

\* The row is stored whatever became of the push.
DbCreate(s) ==
  /\ At(s, "row")
  /\ rows' = [rows EXCEPT ![s] = [user |-> sends[s].user,
                sent_via_fcm |-> sends[s].ok, is_read |-> FALSE]]
  /\ GoTo(s, "done")
  /\ UNCHANGED <<token, alive, delivered>>

\* A statement fails, or the context of the request it serves is done.
Fail(s) ==
  /\ sends[s].at \in {"push", "clear", "row"}
  /\ GoTo(s, "cut")
  /\ UNCHANGED <<token, alive, rows, delivered>>

-----------------------------------------------------------------------------
(* Reading.                                                                  *)

ListByUser(u) == {s \in Sends : rows[s] # None /\ rows[s].user = u}

\* Any signed-in user, any notification.
MarkRead(s) ==
  /\ rows[s] # None
  /\ rows' = [rows EXCEPT ![s].is_read = TRUE]
  /\ UNCHANGED <<token, alive, sends, delivered>>

MarkAllRead(u) ==
  /\ rows' = [s \in Sends |-> IF s \in ListByUser(u)
                              THEN [rows[s] EXCEPT !.is_read = TRUE]
                              ELSE rows[s]]
  /\ UNCHANGED <<token, alive, sends, delivered>>

Next ==
  \/ \E u \in Users :
       \/ \E k \in Tokens : RegisterFCMToken(u, k)
       \/ Logout(u)
       \/ MarkAllRead(u)
       \/ \E s \in Sends : SendToUser(s, u)
  \/ \E k \in Tokens : Uninstall(k)
  \/ \E s \in Sends :
       Push(s) \/ DbClearToken(s) \/ DbCreate(s) \/ Fail(s) \/ MarkRead(s)

Spec == Init /\ [][Next]_noticeVars

-----------------------------------------------------------------------------
(* What the component promises.                                              *)

\* SendToUser "logs the notification row regardless of push outcome": a call
\* that was not cut off has left its notice in its user's list, whatever became
\* of the push and of the token meanwhile; and what the notice calls pushed did
\* reach a device.
NoticeIsKept ==
  \A s \in Sends :
    /\ At(s, "done") => s \in ListByUser(sends[s].user)
    /\ rows[s] # None /\ rows[s].sent_via_fcm =>
         <<s, sends[s].token>> \in delivered

-----------------------------------------------------------------------------
(* What the repository says of the program and the program does not do.      *)

\* "sent_via_fcm reflects actual result" (firebase_service.go) holds in one
\* direction only: a push may reach the device and its answer not the server.
SentIsTold ==
  \A s \in Sends :
    rows[s] # None /\ <<s, sends[s].token>> \in delivered =>
      rows[s].sent_via_fcm

\* "clearing stored token" is said of one that "is invalid/unregistered"
\* (firebase_service.go).  The clearing does not name the token it found dead,
\* so one that the user registered in the meantime is lost with it, and pushes
\* stop until the next sign-in.  So is a live one, when FCM blames the message.
OnlyDeadIsCleared ==
  [][\A s \in Sends :
       At(s, "clear") /\ sends'[s].at = "row" =>
         LET u == sends[s].user
         IN token[u] \in alive => token'[u] = token[u]]_noticeVars
=============================================================================
