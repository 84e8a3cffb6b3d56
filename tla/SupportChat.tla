----------------------------- MODULE SupportChat -----------------------------
(***************************************************************************)
(* SupportService: the customer's chat with support, where an automatic    *)
(* reply follows every message, and SupportMessageRepository.              *)
(*                                                                         *)
(* A message that matches a FAQ rule is answered within its request.  Any  *)
(* other is answered by a goroutine that has 25 seconds: it reads the      *)
(* thread, asks GroqService, falls back to a canned acknowledgement and    *)
(* saves the reply, all on the same context.  The goroutine of a message   *)
(* makes its call of GroqService, whose ring of keys other goroutines use  *)
(* at the same time; here the two are composed.  The other users of the    *)
(* ring, diagnoses and voice notes, are left to GroqService itself.        *)
(*                                                                         *)
(* The AI is optional: SetAI hands it to the service, and nothing in the   *)
(* repository calls SetAI.  So the server as it is built answers with FAQ  *)
(* replies and acknowledgements only; both wirings are modelled.           *)
(***************************************************************************)
EXTENDS GroqService, FiniteSets

CONSTANTS
  Users,     \* customers
  Posts,     \* messages customers send
  CallOf,    \* the call of GroqService a post's goroutine would make
  HumanMax,  \* bound: replies written by hand in a thread
  MayAbort   \* whether the process may die while a reply is under way

ASSUME ChatAssumption ==
  /\ CallOf \in [Posts -> Calls]
  /\ \A m, n \in Posts : CallOf[m] = CallOf[n] => m = n
  /\ None \notin Posts

VARIABLES
  thread, \* rows of support_messages of each user, oldest first
  past,   \* how many of them are older than autoReplyAckWindow
  posts,  \* the messages sent so far and their automatic replies
  ai      \* whether SetAI was called, at the start or never

chatVars == <<thread, past, posts, ai>>

vars == <<groqVars, thread, past, posts, ai>>

Row == [to : Posts \cup {None},
        text : {"message", "faq", "ai", "full", "short", "human"}]

\* late: the context is done.  broken: a reply of the AI of more than 700
\* bytes, cut in the middle of a character, which the database refuses.
Post == [at : {"idle", "faq", "load", "ask", "fallback", "save",
               "done"},
         user : Users, late : BOOLEAN,
         text : {"", "ai", "broken", "full", "short"}]

TypeOK ==
  /\ GroqTypeOK
  /\ thread \in [Users -> Seq(Row)]
  /\ \A u \in Users : past[u] \in 0 .. Len(thread[u])
  /\ posts \in [Posts -> Post]
  /\ ai \in BOOLEAN

Init ==
  /\ GroqInit
  /\ thread = [u \in Users |-> <<>>]
  /\ past = [u \in Users |-> 0]
  /\ posts \in [Posts -> {p \in Post : /\ p.at = "idle" /\ ~p.late
                                       /\ p.text = ""}]
  /\ ai \in BOOLEAN

PostAt(m, where) == posts[m].at = where

Move(m, where) == posts' = [posts EXCEPT ![m].at = where]

Say(u, m, text) ==
  thread' = [thread EXCEPT ![u] = Append(@, [to |-> m, text |-> text])]

\* sender_role = 'admin': everything but the customers' messages.
FromAdmin(row) == row.text # "message"

-----------------------------------------------------------------------------
\* Create stores the message, and matchFAQReply decides who answers it.
SendSupportMessage(m, faq) ==
  /\ PostAt(m, "idle")
  /\ Say(posts[m].user, m, "message")
  /\ posts' = [posts EXCEPT ![m].at = IF faq THEN "faq" ELSE "load"]
  /\ UNCHANGED <<groqVars, past, ai>>

\* Mutant of DbSaveFaqReply: goes on to the goroutine.
DbSaveFaqReplyAndGoOn(m) ==
  /\ PostAt(m, "faq")
  /\ Say(posts[m].user, m, "faq")
  /\ Move(m, "load")
  /\ UNCHANGED <<groqVars, past, ai>>

DbSaveFaqReply(m) ==
  /\ PostAt(m, "faq")
  /\ Say(posts[m].user, m, "faq")
  /\ Move(m, "done")
  /\ UNCHANGED <<groqVars, past, ai>>

\* aiReply up to its call: the AI is asked only when the customer had the last
\* word, and not at all when there is none or the thread cannot be read.
DbLoadThread(m) ==
  /\ PostAt(m, "load")
  /\ LET u == posts[m].user
         last == thread[u][Len(thread[u])]
     IN IF ai /\ ~posts[m].late /\ ~FromAdmin(last)
        THEN Move(m, "ask") /\ Chat(CallOf[m])
        ELSE Move(m, "fallback") /\ UNCHANGED groqVars
  /\ UNCHANGED <<thread, past, ai>>

\* aiReply from its call on; the reply may also be empty, or long.
AIAnswers(m) ==
  /\ PostAt(m, "ask")
  /\ At(CallOf[m], "done")
  /\ \/ /\ calls[CallOf[m]].result = "reply"
        /\ \E text \in {"ai", "broken"} :
             posts' = [posts EXCEPT ![m].at = "save", ![m].text = text]
     \/ Move(m, "fallback")
  /\ UNCHANGED <<groqVars, thread, past, ai>>

HasAdminMessageSince(u) ==
  \E n \in past[u] + 1 .. Len(thread[u]) : FromAdmin(thread[u][n])

\* Mutant of DbFallbackReply: who was answered lately is not answered again.
DbFallbackReplyOnce(m) ==
  /\ PostAt(m, "fallback")
  /\ posts' = [posts EXCEPT
       ![m].at = IF HasAdminMessageSince(posts[m].user) /\ ~posts[m].late
                 THEN "done" ELSE "save",
       ![m].text = "full"]
  /\ UNCHANGED <<groqVars, thread, past, ai>>

DbFallbackReply(m) ==
  /\ PostAt(m, "fallback")
  /\ posts' = [posts EXCEPT ![m].at = "save",
       ![m].text = IF HasAdminMessageSince(posts[m].user) /\ ~posts[m].late
                   THEN "short" ELSE "full"]
  /\ UNCHANGED <<groqVars, thread, past, ai>>

\* saveAutoReply: a failure is only logged.
DbSaveAutoReply(m) ==
  /\ PostAt(m, "save")
  /\ IF posts[m].late \/ posts[m].text = "broken" THEN UNCHANGED thread
     ELSE Say(posts[m].user, m, posts[m].text)
  /\ Move(m, "done")
  /\ UNCHANGED <<groqVars, past, ai>>

\* The 25 seconds are over, sooner than GroqService's client gives up waiting.
Deadline(m) ==
  /\ posts[m].at \in {"load", "ask", "fallback", "save"}
  /\ posts' = [posts EXCEPT ![m].late = TRUE]
  /\ UNCHANGED <<groqVars, thread, past, ai>>

\* The process dies, or a FAQ reply's request with its client.
Abort(m) ==
  /\ MayAbort
  /\ posts[m].at \notin {"idle", "done"}
  /\ posts' = [posts EXCEPT ![m].at = "done", ![m].late = TRUE]
  /\ UNCHANGED <<groqVars, thread, past, ai>>

\* Support answers by hand.
AdminReply(u) ==
  /\ Cardinality({n \in 1 .. Len(thread[u]) : thread[u][n].text = "human"})
       < HumanMax
  /\ Say(u, None, "human")
  /\ UNCHANGED <<groqVars, past, posts, ai>>

\* Ten minutes without a message.
LeaveWindow(u) ==
  /\ \A m \in Posts : posts[m].user = u => posts[m].at \in {"idle", "done"}
  /\ past' = [past EXCEPT ![u] = Len(thread[u])]
  /\ UNCHANGED <<groqVars, thread, posts, ai>>

ReplyStep(m) ==
  \/ DbSaveFaqReply(m)
  \/ DbLoadThread(m)
  \/ AIAnswers(m)
  \/ DbFallbackReply(m)
  \/ DbSaveAutoReply(m)

Next ==
  \/ \E m \in Posts :
       \/ \E faq \in BOOLEAN : SendSupportMessage(m, faq)
       \/ ReplyStep(m)
       \/ Deadline(m)
       \/ Abort(m)
  \/ \E u \in Users : AdminReply(u) \/ LeaveWindow(u)
  \/ \E c \in Calls : CallStep(c) /\ UNCHANGED chatVars

Spec == Init /\ [][Next]_vars

Fairness ==
  /\ \A m \in Posts : WF_vars(ReplyStep(m))
  /\ \A c \in Calls : WF_vars(CallStep(c) /\ UNCHANGED chatVars)

FairSpec == Spec /\ Fairness

-----------------------------------------------------------------------------
(* What the component promises.                                              *)

Stored(m) == \E u \in Users : \E n \in 1 .. Len(thread[u]) :
               thread[u][n] = [to |-> m, text |-> "message"]

Places == UNION {{u} \X (1 .. Len(thread[u])) : u \in Users}

Replies(m) == {r \in Places : LET row == thread[r[1]][r[2]]
                               IN row.to = m /\ FromAdmin(row)}

\* A message is answered automatically once at most, in its own thread and
\* below it, whatever other goroutines and people write there.
OneReplyPerMessage ==
  \A m \in Posts : \A r, q \in Replies(m) :
    /\ r = q
    /\ r[1] = posts[m].user
    /\ \E n \in 1 .. r[2] - 1 :
         thread[r[1]][n] = [to |-> m, text |-> "message"]

\* A message that is in the thread gets its reply, whatever was said there
\* lately and, with the AI, whether it answers, refuses or fails on every key;
\* unless the 25 seconds pass, the process dies, or the AI's reply cannot be
\* stored.
AnsweredInTime ==
  \A m \in Posts :
    Stored(m) ~> \/ Replies(m) # {}
                 \/ posts[m].late
                 \/ ai /\ posts[m].text = "broken"

\* support_service.go says of the automatic reply: "Falls back to a canned
\* acknowledgement if AI is unavailable".  Then every message is answered.
EveryMessageAnswered == \A m \in Posts : Stored(m) ~> Replies(m) # {}

=============================================================================
