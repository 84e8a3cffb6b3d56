-------------------------- MODULE SupportChatProofs --------------------------
(* What holds of SupportChat for every value of its constants: whatever the  *)
(* number of customers, of messages and of keys.                             *)
EXTENDS SupportChat, GroqServiceProofs

-----------------------------------------------------------------------------
(* The inductive invariant.                                                  *)

ChatTypeOK ==
  /\ thread \in [Users -> Seq(Row)]
  /\ past \in [Users -> Nat]
  /\ \A u \in Users : past[u] <= Len(thread[u])
  /\ posts \in [Posts -> Post]
  /\ ai \in BOOLEAN

\* Row n of user u's thread is an automatic reply to m.
IsReply(u, n, m) == thread[u][n].to = m /\ FromAdmin(thread[u][n])

\* What a goroutine is about to save is one of its answers.
ReplyIsChosen ==
  \A m \in Posts :
    posts[m].at = "save" =>
      posts[m].text \in {"ai", "broken", "full", "short"}

\* A message that was sent is in its user's thread.
SentIsStored ==
  \A m \in Posts : posts[m].at # "idle" =>
    \E n \in 1 .. Len(thread[posts[m].user]) :
      thread[posts[m].user][n] = [to |-> m, text |-> "message"]

\* A message is replied to only when its goroutine is over, in its user's
\* thread and below it.
RepliesAreFinal ==
  \A m \in Posts, u \in Users : \A n \in 1 .. Len(thread[u]) :
    IsReply(u, n, m) =>
      /\ posts[m].at = "done"
      /\ posts[m].user = u
      /\ \E k \in 1 .. n - 1 : thread[u][k] = [to |-> m, text |-> "message"]

\* It is replied to once.
RepliesAreUnique ==
  \A m \in Posts, u \in Users : \A n, k \in 1 .. Len(thread[u]) :
    IsReply(u, n, m) /\ IsReply(u, k, m) => n = k

RepliesOK ==
  ReplyIsChosen /\ SentIsStored /\ RepliesAreFinal /\ RepliesAreUnique

ChatInv == GroqInv /\ ChatTypeOK /\ RepliesOK

-----------------------------------------------------------------------------
(* Steps that write nothing in a thread.                                     *)

\* Post m becomes p, which is no step back.
Turns(m, p) ==
  /\ posts' = [posts EXCEPT ![m] = p]
  /\ p \in Post
  /\ p.user = posts[m].user
  /\ posts[m].at \notin {"idle", "done"}
  /\ p.at # "idle"

LEMMA TurnStep ==
  ASSUME ChatInv, NEW m \in Posts, NEW p, Turns(m, p),
         UNCHANGED <<thread, past, ai>>,
         p.at = "save" => p.text \in {"ai", "broken", "full", "short"}
  PROVE  ChatTypeOK' /\ RepliesOK'
<1>1. posts \in [Posts -> Post]
  BY DEF ChatInv, ChatTypeOK
<1>2. /\ posts' \in [Posts -> Post] /\ posts'[m] = p
      /\ \A d \in Posts \ {m} : posts'[d] = posts[d]
  BY <1>1 DEF Turns
<1>3. ChatTypeOK'
  BY <1>2 DEF ChatInv, ChatTypeOK
<1>4. ReplyIsChosen'
  BY <1>2 DEF ChatInv, RepliesOK, ReplyIsChosen
<1>5. \A d \in Posts :
        /\ posts'[d].user = posts[d].user
        /\ posts[d].at = "done" => posts'[d].at = "done"
        /\ posts'[d].at # "idle" => posts[d].at # "idle"
  BY <1>2 DEF Turns
<1>6. SentIsStored'
  BY <1>5 DEF ChatInv, RepliesOK, SentIsStored
<1>7. RepliesAreFinal'
  BY <1>5 DEF ChatInv, RepliesOK, RepliesAreFinal, IsReply
<1>8. RepliesAreUnique'
  BY DEF ChatInv, RepliesOK, RepliesAreUnique, IsReply
<1> QED
  BY <1>3, <1>4, <1>6, <1>7, <1>8 DEF RepliesOK

LEMMA StandStill ==
  ASSUME ChatInv, UNCHANGED chatVars
  PROVE  ChatTypeOK' /\ RepliesOK'
<1>1. UNCHANGED <<thread, past, posts, ai>>
  BY DEF chatVars
<1>2. ChatTypeOK'
  BY <1>1 DEF ChatInv, ChatTypeOK
<1>3. RepliesOK'
  BY <1>1 DEF ChatInv, RepliesOK, ReplyIsChosen, SentIsStored,
              RepliesAreFinal, RepliesAreUnique, IsReply
<1> QED
  BY <1>2, <1>3

\* The steps of a goroutine that do not write.
LEMMA QuietStep ==
  ASSUME ChatInv, NEW m \in Posts,
         \/ DbLoadThread(m)
         \/ AIAnswers(m)
         \/ DbFallbackReply(m)
         \/ Deadline(m)
         \/ Abort(m)
  PROVE  ChatTypeOK' /\ RepliesOK'
<1> DEFINE p == posts'[m]
<1>1. posts \in [Posts -> Post] /\ posts[m] \in Post
  BY DEF ChatInv, ChatTypeOK
<1>2. UNCHANGED <<thread, past, ai>>
  BY DEF DbLoadThread, AIAnswers, DbFallbackReply, Deadline, Abort
<1>3. posts[m].at = "save" =>
        posts[m].text \in {"ai", "broken", "full", "short"}
  BY DEF ChatInv, RepliesOK, ReplyIsChosen
<1>4. ASSUME NEW where \in {"ask", "fallback"}, Move(m, where),
             posts[m].at \in {"load", "ask"}
      PROVE  ChatTypeOK' /\ RepliesOK'
  <2> DEFINE q == [posts[m] EXCEPT !.at = where]
  <2>1. q \in Post /\ q.user = posts[m].user /\ q.at = where
    BY <1>1, <1>4 DEF Post
  <2>2. posts' = [posts EXCEPT ![m] = q]
    BY <1>1, <1>4 DEF Move
  <2> HIDE DEF q
  <2>3. Turns(m, q)
    BY <1>4, <2>1, <2>2 DEF Turns
  <2> QED
    BY <1>2, <1>4, <2>1, <2>3, TurnStep
<1>5. ASSUME NEW text \in {"ai", "broken", "full", "short"},
             posts[m].at \in {"ask", "fallback"},
             posts' = [posts EXCEPT ![m].at = "save", ![m].text = text]
      PROVE  ChatTypeOK' /\ RepliesOK'
  <2> DEFINE q == [posts[m] EXCEPT !.at = "save", !.text = text]
  <2>1. q \in Post /\ q.user = posts[m].user /\ q.at = "save" /\ q.text = text
    BY <1>1, <1>5 DEF Post
  <2>2. posts' = [posts EXCEPT ![m] = q]
    BY <1>1, <1>5
  <2> HIDE DEF q
  <2>3. Turns(m, q)
    BY <1>5, <2>1, <2>2 DEF Turns
  <2> QED
    BY <1>2, <1>5, <2>1, <2>3, TurnStep
<1>6. CASE DbLoadThread(m)
  BY <1>4, <1>6 DEF DbLoadThread, PostAt
<1>7. CASE AIAnswers(m)
  BY <1>4, <1>5, <1>7 DEF AIAnswers, PostAt
<1>8. CASE DbFallbackReply(m)
  BY <1>5, <1>8 DEF DbFallbackReply, PostAt
<1>9. CASE Deadline(m)
  <2> DEFINE q == [posts[m] EXCEPT !.late = TRUE]
  <2>1. /\ q \in Post /\ q.user = posts[m].user /\ q.at = posts[m].at
        /\ q.text = posts[m].text
    BY <1>1 DEF Post
  <2>2. posts' = [posts EXCEPT ![m] = q] /\ posts[m].at \notin {"idle", "done"}
    BY <1>1, <1>9 DEF Deadline
  <2> HIDE DEF q
  <2>3. Turns(m, q)
    BY <2>1, <2>2 DEF Turns
  <2> QED
    BY <1>2, <1>3, <2>1, <2>3, TurnStep
<1>10. CASE Abort(m)
  <2> DEFINE q == [posts[m] EXCEPT !.at = "done", !.late = TRUE]
  <2>1. q \in Post /\ q.user = posts[m].user /\ q.at = "done"
    BY <1>1 DEF Post
  <2>2. posts' = [posts EXCEPT ![m] = q] /\ posts[m].at \notin {"idle", "done"}
    BY <1>1, <1>10 DEF Abort
  <2> HIDE DEF q
  <2>3. Turns(m, q)
    BY <2>1, <2>2 DEF Turns
  <2> QED
    BY <1>2, <2>1, <2>3, TurnStep
<1> QED
  BY <1>6, <1>7, <1>8, <1>9, <1>10

LEMMA LeaveWindowStep ==
  ASSUME ChatInv, NEW u \in Users, LeaveWindow(u)
  PROVE  ChatTypeOK' /\ RepliesOK'
<1>1. /\ past' = [past EXCEPT ![u] = Len(thread[u])]
      /\ UNCHANGED <<thread, posts, ai>>
  BY DEF LeaveWindow
<1>2. Len(thread[u]) \in Nat
  BY LenProperties DEF ChatInv, ChatTypeOK
<1>3. ChatTypeOK'
  BY <1>1, <1>2 DEF ChatInv, ChatTypeOK
<1> QED
  BY <1>1, <1>3 DEF ChatInv, RepliesOK, ReplyIsChosen, SentIsStored,
                    RepliesAreFinal, RepliesAreUnique, IsReply

-----------------------------------------------------------------------------
(* Steps that write a row.                                                   *)

\* The rows that were there stay where they are, and row follows them.
RowAdded(u, row) ==
  /\ thread' \in [Users -> Seq(Row)]
  /\ \A v \in Users : Len(thread[v]) \in Nat
  /\ Len(thread'[u]) = Len(thread[u]) + 1
  /\ thread'[u][Len(thread[u]) + 1] = row
  /\ \A v \in Users \ {u} : thread'[v] = thread[v]
  /\ \A v \in Users : \A n \in 1 .. Len(thread[v]) :
       n \in 1 .. Len(thread'[v]) /\ thread'[v][n] = thread[v][n]
  /\ \A v \in Users : \A n \in 1 .. Len(thread'[v]) :
       \/ n \in 1 .. Len(thread[v]) /\ thread'[v][n] = thread[v][n]
       \/ v = u /\ n = Len(thread[u]) + 1

LEMMA SayRows ==
  ASSUME ChatInv, NEW u \in Users, NEW to \in Posts \cup {None},
         NEW text \in {"message", "faq", "ai", "full", "short", "human"},
         Say(u, to, text)
  PROVE  RowAdded(u, [to |-> to, text |-> text])
<1> DEFINE row == [to |-> to, text |-> text]
<1>1. row \in Row /\ thread \in [Users -> Seq(Row)]
  BY DEF Row, ChatInv, ChatTypeOK
<1> HIDE DEF row
<1>2. thread' = [thread EXCEPT ![u] = Append(@, row)]
  BY DEF Say, row
<1>3. \A v \in Users : Len(thread[v]) \in Nat
  BY <1>1, LenProperties
<1>4. /\ Append(thread[u], row) \in Seq(Row)
      /\ Len(Append(thread[u], row)) = Len(thread[u]) + 1
      /\ Append(thread[u], row)[Len(thread[u]) + 1] = row
      /\ \A n \in 1 .. Len(thread[u]) : Append(thread[u], row)[n] = thread[u][n]
  BY <1>1, AppendProperties
<1>5. /\ thread'[u] = Append(thread[u], row)
      /\ \A v \in Users \ {u} : thread'[v] = thread[v]
      /\ thread' \in [Users -> Seq(Row)]
  BY <1>1, <1>2, <1>4
<1>6. \A n \in 1 .. Len(thread'[u]) :
        n \in 1 .. Len(thread[u]) \/ n = Len(thread[u]) + 1
  BY <1>3, <1>4, <1>5
<1>7. \A n \in 1 .. Len(thread[u]) : n \in 1 .. Len(thread'[u])
  BY <1>3, <1>4, <1>5
<1> QED
  BY <1>3, <1>4, <1>5, <1>6, <1>7 DEF row, RowAdded

LEMMA PastFits ==
  ASSUME ChatInv, NEW u \in Users, UNCHANGED past,
         \A v \in Users : Len(thread[v]) \in Nat,
         Len(thread'[u]) = Len(thread[u]) + 1,
         \A v \in Users \ {u} : thread'[v] = thread[v]
  PROVE  \A v \in Users : past'[v] <= Len(thread'[v])
<1> SUFFICES ASSUME NEW v \in Users PROVE past[v] <= Len(thread'[v])
  OBVIOUS
<1>1. past[v] \in Nat /\ past[v] <= Len(thread[v]) /\ Len(thread[v]) \in Nat
  BY DEF ChatInv, ChatTypeOK
<1>2. CASE v = u
  BY <1>1, <1>2
<1>3. CASE v # u
  BY <1>1, <1>3
<1> QED
  BY <1>2, <1>3

\* Nothing new replies to a message: support writes, or a customer does.
LEMMA OthersWrite ==
  ASSUME ChatInv, NEW u \in Users, NEW to \in Posts \cup {None},
         NEW text \in {"message", "human"}, Say(u, to, text),
         UNCHANGED <<past, ai>>,
         text = "human" => to = None,
         posts' \in [Posts -> Post], ReplyIsChosen', SentIsStored',
         \A d \in Posts : /\ posts'[d].user = posts[d].user
                          /\ posts[d].at = "done" => posts'[d].at = "done"
  PROVE  ChatTypeOK' /\ RepliesOK'
<1>1. RowAdded(u, [to |-> to, text |-> text])
  <2>1. text \in {"message", "faq", "ai", "full", "short", "human"}
    OBVIOUS
  <2> QED
    BY <2>1, SayRows
<1> USE DEF RowAdded
<1>2. \A v \in Users : past'[v] <= Len(thread'[v])
  BY <1>1, PastFits
<1>3. ChatTypeOK'
  BY <1>1, <1>2 DEF ChatInv, ChatTypeOK
<1>4. \A m \in Posts, v \in Users : \A n \in 1 .. Len(thread'[v]) :
        IsReply(v, n, m)' => n \in 1 .. Len(thread[v]) /\ IsReply(v, n, m)
  BY <1>1, ChatAssumption DEF IsReply, FromAdmin
<1>5. RepliesAreFinal'
  <2> SUFFICES ASSUME NEW m \in Posts, NEW v \in Users,
                      NEW n \in 1 .. Len(thread'[v]), IsReply(v, n, m)'
               PROVE  /\ posts'[m].at = "done" /\ posts'[m].user = v
                      /\ \E k \in 1 .. n - 1 :
                           thread'[v][k] = [to |-> m, text |-> "message"]
    BY DEF RepliesAreFinal
  <2>1. n \in 1 .. Len(thread[v]) /\ IsReply(v, n, m)
    BY <1>4
  <2>2. /\ posts[m].at = "done" /\ posts[m].user = v
        /\ \E k \in 1 .. n - 1 : thread[v][k] = [to |-> m, text |-> "message"]
    BY <2>1 DEF ChatInv, RepliesOK, RepliesAreFinal
  <2>3. \A k \in 1 .. n - 1 : k \in 1 .. Len(thread[v])
    BY <1>1, <2>1
  <2> QED
    BY <1>1, <2>2, <2>3
<1>6. RepliesAreUnique'
  BY <1>4 DEF ChatInv, RepliesOK, RepliesAreUnique
<1> QED
  BY <1>3, <1>5, <1>6 DEF RepliesOK

LEMMA AdminReplyStep ==
  ASSUME ChatInv, NEW u \in Users, AdminReply(u)
  PROVE  ChatTypeOK' /\ RepliesOK'
<1>1. Say(u, None, "human") /\ UNCHANGED <<past, posts, ai>>
  BY DEF AdminReply
<1>2. \A v \in Users : \A n \in 1 .. Len(thread[v]) :
        n \in 1 .. Len(thread'[v]) /\ thread'[v][n] = thread[v][n]
  BY <1>1, SayRows DEF RowAdded
<1>3. ReplyIsChosen'
  BY <1>1 DEF ChatInv, RepliesOK, ReplyIsChosen
<1>4. SentIsStored'
  <2> SUFFICES ASSUME NEW m \in Posts, posts[m].at # "idle"
               PROVE  \E n \in 1 .. Len(thread'[posts[m].user]) :
                        thread'[posts[m].user][n]
                          = [to |-> m, text |-> "message"]
    BY <1>1 DEF SentIsStored
  <2>1. posts[m].user \in Users
    BY DEF ChatInv, ChatTypeOK, Post
  <2> QED
    BY <1>2, <2>1 DEF ChatInv, RepliesOK, SentIsStored
<1>5. posts' \in [Posts -> Post]
  BY <1>1 DEF ChatInv, ChatTypeOK
<1> QED
  BY <1>1, <1>3, <1>4, <1>5, OthersWrite

LEMMA SendStepOfChat ==
  ASSUME ChatInv, NEW m \in Posts, NEW faq \in BOOLEAN,
         SendSupportMessage(m, faq)
  PROVE  ChatTypeOK' /\ RepliesOK'
<1> DEFINE u == posts[m].user
           where == IF faq THEN "faq" ELSE "load"
           q == [posts[m] EXCEPT !.at = where]
<1>1. /\ posts \in [Posts -> Post] /\ posts[m].at = "idle"
      /\ Say(u, m, "message") /\ UNCHANGED <<past, ai>>
      /\ posts' = [posts EXCEPT ![m].at = where]
  BY DEF SendSupportMessage, PostAt, ChatInv, ChatTypeOK
<1>2. u \in Users /\ where \in {"faq", "load"}
  BY <1>1 DEF Post
<1> HIDE DEF where
<1>3. q \in Post /\ q.user = u /\ q.at = where
  BY <1>1, <1>2 DEF Post
<1>4. /\ posts' \in [Posts -> Post] /\ posts'[m] = q
      /\ \A d \in Posts \ {m} : posts'[d] = posts[d]
  BY <1>1, <1>3
<1> HIDE DEF u, q
<1>5. /\ Len(thread[u]) \in Nat
      /\ Len(thread'[u]) = Len(thread[u]) + 1
      /\ thread'[u][Len(thread[u]) + 1] = [to |-> m, text |-> "message"]
      /\ \A v \in Users : \A n \in 1 .. Len(thread[v]) :
           n \in 1 .. Len(thread'[v]) /\ thread'[v][n] = thread[v][n]
  BY <1>1, <1>2, SayRows DEF RowAdded
<1>6. ReplyIsChosen'
  BY <1>2, <1>3, <1>4 DEF ChatInv, RepliesOK, ReplyIsChosen
<1>7. SentIsStored'
  <2> SUFFICES ASSUME NEW d \in Posts, posts'[d].at # "idle"
               PROVE  \E n \in 1 .. Len(thread'[posts'[d].user]) :
                        thread'[posts'[d].user][n]
                          = [to |-> d, text |-> "message"]
    BY DEF SentIsStored
  <2>1. CASE d = m
    BY <1>3, <1>4, <1>5, <2>1
  <2>2. CASE d # m
    <3>1. posts'[d] = posts[d] /\ posts[d].user \in Users
      BY <1>1, <1>4, <2>2 DEF Post
    <3> QED
      BY <1>5, <3>1 DEF ChatInv, RepliesOK, SentIsStored
  <2> QED
    BY <2>1, <2>2
<1>8. \A d \in Posts : /\ posts'[d].user = posts[d].user
                       /\ posts[d].at = "done" => posts'[d].at = "done"
  BY <1>1, <1>3, <1>4 DEF u
<1> QED
  BY <1>1, <1>2, <1>4, <1>6, <1>7, <1>8, OthersWrite

\* The one reply, of a goroutine that is over with it.
LEMMA ReplyWritten ==
  ASSUME ChatInv, NEW m \in Posts, posts[m].at \notin {"idle", "done"},
         NEW text \in {"faq", "ai", "full", "short"},
         Say(posts[m].user, m, text), Move(m, "done"), UNCHANGED <<past, ai>>
  PROVE  ChatTypeOK' /\ RepliesOK'
<1> DEFINE u == posts[m].user
           q == [posts[m] EXCEPT !.at = "done"]
           N == Len(thread[u])
<1>1. /\ posts \in [Posts -> Post] /\ posts' = [posts EXCEPT ![m].at = "done"]
      /\ u \in Users
  BY DEF Move, ChatInv, ChatTypeOK, Post
<1>2. q \in Post /\ q.user = u /\ q.at = "done"
  BY <1>1 DEF Post
<1>3. /\ posts' \in [Posts -> Post] /\ posts'[m] = q
      /\ \A d \in Posts \ {m} : posts'[d] = posts[d]
  BY <1>1, <1>2
<1>4. /\ Say(u, m, text) /\ m \in Posts \cup {None}
      /\ text \in {"message", "faq", "ai", "full", "short", "human"}
  OBVIOUS
<1> HIDE DEF u, q
<1>5. RowAdded(u, [to |-> m, text |-> text])
  BY <1>1, <1>4, SayRows
<1> USE DEF RowAdded
<1>6. \A v \in Users : past'[v] <= Len(thread'[v])
  BY <1>1, <1>5, PastFits
<1>7. ChatTypeOK'
  BY <1>3, <1>5, <1>6 DEF ChatInv, ChatTypeOK
<1>8. \A d \in Posts :
        /\ posts'[d].user = posts[d].user
        /\ posts[d].at = "done" => posts'[d].at = "done"
        /\ posts'[d].at # "idle" => posts[d].at # "idle"
        /\ posts'[d].at = "save" => posts'[d] = posts[d]
  BY <1>2, <1>3 DEF u
<1>9. ReplyIsChosen'
  BY <1>8 DEF ChatInv, RepliesOK, ReplyIsChosen
<1>10. SentIsStored'
  <2> SUFFICES ASSUME NEW d \in Posts, posts'[d].at # "idle"
               PROVE  \E n \in 1 .. Len(thread'[posts'[d].user]) :
                        thread'[posts'[d].user][n]
                          = [to |-> d, text |-> "message"]
    BY DEF SentIsStored
  <2>1. posts[d].user \in Users /\ posts'[d].user = posts[d].user
    BY <1>1, <1>8 DEF Post
  <2>2. PICK n \in 1 .. Len(thread[posts[d].user]) :
          thread[posts[d].user][n] = [to |-> d, text |-> "message"]
    BY <1>8 DEF ChatInv, RepliesOK, SentIsStored
  <2>3. /\ n \in 1 .. Len(thread'[posts[d].user])
        /\ thread'[posts[d].user][n] = thread[posts[d].user][n]
    <3>1. \A v \in Users : \A k \in 1 .. Len(thread[v]) :
            k \in 1 .. Len(thread'[v]) /\ thread'[v][k] = thread[v][k]
      BY <1>5
    <3> QED
      BY ONLY <2>1, <3>1, n \in 1 .. Len(thread[posts[d].user])
  <2> QED
    BY <2>1, <2>2, <2>3
<1> HIDE DEF N
<1>11. \A d \in Posts, v \in Users : \A n \in 1 .. Len(thread'[v]) :
         IsReply(v, n, d)' =>
           \/ n \in 1 .. Len(thread[v]) /\ IsReply(v, n, d) /\ d # m
           \/ d = m /\ v = u /\ n = N + 1
  <2> SUFFICES ASSUME NEW d \in Posts, NEW v \in Users,
                      NEW n \in 1 .. Len(thread'[v]), IsReply(v, n, d)'
               PROVE  \/ n \in 1 .. Len(thread[v]) /\ IsReply(v, n, d) /\ d # m
                      \/ d = m /\ v = u /\ n = N + 1
    OBVIOUS
  <2>1. CASE v = u /\ n = N + 1
    BY <1>5, <2>1 DEF IsReply, N
  <2>2. CASE ~(v = u /\ n = N + 1)
    <3>1. n \in 1 .. Len(thread[v]) /\ IsReply(v, n, d)
      BY <1>5, <2>2 DEF IsReply, FromAdmin, N
    <3>2. posts[d].at = "done"
      BY <3>1 DEF ChatInv, RepliesOK, RepliesAreFinal
    <3> QED
      BY <3>1, <3>2
  <2> QED
    BY <2>1, <2>2
<1>12. RepliesAreFinal'
  <2> SUFFICES ASSUME NEW d \in Posts, NEW v \in Users,
                      NEW n \in 1 .. Len(thread'[v]), IsReply(v, n, d)'
               PROVE  /\ posts'[d].at = "done" /\ posts'[d].user = v
                      /\ \E k \in 1 .. n - 1 :
                           thread'[v][k] = [to |-> d, text |-> "message"]
    BY ZenonT(40) DEF RepliesAreFinal
  <2>1. CASE d = m /\ v = u /\ n = N + 1
    <3>1. PICK k \in 1 .. N : thread[u][k] = [to |-> m, text |-> "message"]
      BY DEF ChatInv, RepliesOK, SentIsStored, u, N
    <3>2. k \in 1 .. n - 1 /\ thread'[u][k] = thread[u][k]
      BY <1>1, <1>5, <2>1, <3>1 DEF N
    <3> QED
      BY <1>2, <1>3, <2>1, <3>1, <3>2
  <2>2. CASE n \in 1 .. Len(thread[v]) /\ IsReply(v, n, d) /\ d # m
    <3>1. /\ posts[d].at = "done" /\ posts[d].user = v
          /\ \E k \in 1 .. n - 1 : thread[v][k] = [to |-> d, text |-> "message"]
      BY <2>2 DEF ChatInv, RepliesOK, RepliesAreFinal
    <3>2. \A k \in 1 .. n - 1 : k \in 1 .. Len(thread[v])
      BY <1>5, <2>2
    <3> QED
      BY <1>5, <1>8, <3>1, <3>2
  <2> QED
    BY <1>11, <2>1, <2>2
<1>13. RepliesAreUnique'
  <2> SUFFICES ASSUME NEW d \in Posts, NEW v \in Users,
                      NEW n \in 1 .. Len(thread'[v]),
                      NEW k \in 1 .. Len(thread'[v]),
                      IsReply(v, n, d)', IsReply(v, k, d)'
               PROVE  n = k
    BY DEF RepliesAreUnique
  <2> QED
    BY <1>11 DEF ChatInv, RepliesOK, RepliesAreUnique
<1> QED
  BY <1>7, <1>9, <1>10, <1>12, <1>13 DEF RepliesOK

-----------------------------------------------------------------------------
(* The theorems.                                                             *)

LEMMA ReplyStepKeeps ==
  ASSUME ChatInv, NEW m \in Posts, ReplyStep(m)
  PROVE  ChatTypeOK' /\ RepliesOK'
<1>1. CASE DbSaveFaqReply(m)
  BY <1>1, ReplyWritten DEF DbSaveFaqReply, PostAt
<1>2. CASE DbSaveAutoReply(m)
  <2>1. /\ posts[m].text \in {"ai", "broken", "full", "short"}
        /\ posts[m].at = "save"
    BY <1>2 DEF DbSaveAutoReply, PostAt, ChatInv, RepliesOK, ReplyIsChosen
  <2>2. CASE posts[m].late \/ posts[m].text = "broken"
    <3> DEFINE q == [posts[m] EXCEPT !.at = "done"]
    <3>1. posts \in [Posts -> Post] /\ posts[m] \in Post
      BY DEF ChatInv, ChatTypeOK
    <3>2. q \in Post /\ q.user = posts[m].user /\ q.at = "done"
      BY <3>1 DEF Post
    <3>3. posts' = [posts EXCEPT ![m] = q] /\ UNCHANGED <<thread, past, ai>>
      BY <1>2, <2>2, <3>1 DEF DbSaveAutoReply, Move
    <3> HIDE DEF q
    <3>4. Turns(m, q)
      BY <2>1, <3>2, <3>3 DEF Turns
    <3> QED
      BY <3>2, <3>3, <3>4, TurnStep
  <2>3. CASE ~posts[m].late /\ posts[m].text # "broken"
    BY <1>2, <2>1, <2>3, ReplyWritten DEF DbSaveAutoReply
  <2> QED
    BY <2>2, <2>3
<1> QED
  BY <1>1, <1>2, QuietStep DEF ReplyStep

\* What a step of a goroutine does to the client is a step of the client.
LEMMA GroqOfReply ==
  ASSUME ChatInv, NEW m \in Posts,
         \/ \E faq \in BOOLEAN : SendSupportMessage(m, faq)
         \/ ReplyStep(m) \/ Deadline(m) \/ Abort(m)
  PROVE  GroqInv'
<1>1. CallOf[m] \in Calls
  BY ChatAssumption
<1>2. CASE Chat(CallOf[m])
  BY <1>1, <1>2, SendStep DEF ChatInv
<1>3. CASE UNCHANGED groqVars
  BY <1>3, GroqStays DEF ChatInv
<1> QED
  BY <1>2, <1>3
     DEF SendSupportMessage, ReplyStep, DbSaveFaqReply, DbLoadThread, AIAnswers,
         DbFallbackReply, DbSaveAutoReply, Deadline, Abort

LEMMA ChatStart == ASSUME Init PROVE ChatInv
<1>1. GroqInv
  BY GroqStart DEF Init
<1>2. /\ thread = [u \in Users |-> <<>>] /\ past = [u \in Users |-> 0]
      /\ posts \in [Posts -> Post] /\ ai \in BOOLEAN
      /\ \A m \in Posts : posts[m].at = "idle"
  BY DEF Init
<1>3. \A u \in Users : Len(thread[u]) = 0 /\ 1 .. Len(thread[u]) = {}
  BY <1>2
<1>4. ChatTypeOK
  BY <1>2, <1>3 DEF ChatTypeOK
<1>5. RepliesOK
  BY <1>2, <1>3 DEF RepliesOK, ReplyIsChosen, SentIsStored, RepliesAreFinal,
                    RepliesAreUnique
<1> QED
  BY <1>1, <1>4, <1>5 DEF ChatInv

LEMMA ChatStep == ASSUME ChatInv, [Next]_vars PROVE ChatInv'
<1>1. ASSUME NEW m \in Posts,
             \/ \E faq \in BOOLEAN : SendSupportMessage(m, faq)
             \/ ReplyStep(m) \/ Deadline(m) \/ Abort(m)
      PROVE  ChatInv'
  <2>1. ChatTypeOK' /\ RepliesOK'
    BY <1>1, SendStepOfChat, ReplyStepKeeps, QuietStep
  <2> QED
    BY <1>1, <2>1, GroqOfReply DEF ChatInv
<1>2. ASSUME NEW u \in Users, AdminReply(u) \/ LeaveWindow(u) PROVE ChatInv'
  <2>1. UNCHANGED groqVars
    BY <1>2 DEF AdminReply, LeaveWindow
  <2>2. GroqInv'
    BY <2>1, GroqStays DEF ChatInv
  <2> QED
    BY <1>2, <2>2, AdminReplyStep, LeaveWindowStep DEF ChatInv
<1>3. ASSUME NEW c \in Calls, CallStep(c), UNCHANGED chatVars PROVE ChatInv'
  BY <1>3, CallStepKeepsInv, StandStill DEF ChatInv
<1>4. CASE UNCHANGED vars
  BY <1>4, GroqStays, StandStill DEF vars, chatVars, ChatInv
<1> QED
  BY <1>1, <1>2, <1>3, <1>4 DEF Next

\* The invariant speaks of rows, the promise of the set of their places.
LEMMA OneReply == ASSUME ChatInv PROVE OneReplyPerMessage
<1> SUFFICES ASSUME NEW m \in Posts, NEW r \in Replies(m), NEW q \in Replies(m)
             PROVE  /\ r = q
                    /\ r[1] = posts[m].user
                    /\ \E n \in 1 .. r[2] - 1 :
                         thread[r[1]][n] = [to |-> m, text |-> "message"]
  BY DEF OneReplyPerMessage
<1>1. ASSUME NEW x \in Replies(m)
      PROVE  /\ x = <<x[1], x[2]>>
             /\ x[1] \in Users /\ x[2] \in 1 .. Len(thread[x[1]])
             /\ IsReply(x[1], x[2], m)
  BY DEF Replies, Places, IsReply
<1>2. ASSUME NEW x \in Replies(m)
      PROVE  /\ x[1] = posts[m].user
             /\ \E n \in 1 .. x[2] - 1 :
                  thread[x[1]][n] = [to |-> m, text |-> "message"]
  BY <1>1 DEF ChatInv, RepliesOK, RepliesAreFinal
<1>3. r[1] = q[1]
  BY <1>2
<1>4. r[2] = q[2]
  BY <1>1, <1>3 DEF ChatInv, RepliesOK, RepliesAreUnique
<1>5. r = q
  BY <1>1, <1>3, <1>4
<1> QED
  BY <1>2, <1>5

\* The invariant holds of every behaviour of the chat and of the client it
\* shares with others.
THEOREM ChatInvariant == Spec => []ChatInv
<1>1. Init => ChatInv
  BY ChatStart
<1>2. ChatInv /\ [Next]_vars => ChatInv'
  BY ChatStep
<1> QED
  BY <1>1, <1>2, PTL DEF Spec

\* Every variable keeps its type.
THEOREM ChatTypeCorrect == Spec => []TypeOK
<1>1. ChatInv => TypeOK
  <2> SUFFICES ASSUME ChatInv PROVE TypeOK
    OBVIOUS
  <2>1. \A u \in Users : past[u] \in 0 .. Len(thread[u])
    <3> SUFFICES ASSUME NEW u \in Users PROVE past[u] \in 0 .. Len(thread[u])
      OBVIOUS
    <3>1. /\ past[u] \in Nat /\ past[u] <= Len(thread[u])
          /\ Len(thread[u]) \in Nat
      BY LenProperties DEF ChatInv, ChatTypeOK
    <3> QED
      BY <3>1
  <2> QED
    BY <2>1 DEF ChatInv, ChatTypeOK, GroqInv, TypeOK
<1> QED
  BY <1>1, ChatInvariant, PTL

\* A message has one automatic reply at most, below it in its own thread,
\* whatever else is written there and whoever else uses the ring.
THEOREM RepliedToOnce == Spec => []OneReplyPerMessage
<1>1. ChatInv => OneReplyPerMessage
  BY OneReply
<1> QED
  BY <1>1, ChatInvariant, PTL

=============================================================================
