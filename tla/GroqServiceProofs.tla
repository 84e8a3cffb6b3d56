-------------------------- MODULE GroqServiceProofs --------------------------
(* What holds of GroqService for every number of keys, calls and sessions.   *)
EXTENDS GroqService, TLAPS, SequenceTheorems

-----------------------------------------------------------------------------
(* The inductive invariant.                                                  *)

\* How many times the ring has to turn to come from key k to the index.
Behind(k) == IF k <= idx THEN idx - k ELSE idx - k + KeyCount

\* A call has a session exactly if it is a diagnosis, and a result once it is
\* over.
KindOK(call) ==
  /\ call.session # None <=> call.kind = "diagnosis"
  /\ call.at \in {"history", "save"} => call.kind = "diagnosis"
  /\ call.at = "idle" => call.session = None
  /\ call.at # "done" => call.result = "none"

\* A call whose ring nobody else turned has tried the keys just behind the
\* index, one for each round of its loop, and every key if it gave up.
TriedOK(call) ==
  /\ call.at = "history" => call.i = 0 /\ call.tried = {}
  /\ call.at \in {"send", "wait"} => call.i < KeyCount
  /\ call.at = "send" /\ call.tried = {} => call.i = 0
  /\ call.at = "wait" => call.tried # {}
  /\ call.at = "send" /\ call.alone =>
       \A k \in Key : k \in call.tried <=> Behind(k) \in 1 .. call.i
  /\ call.at = "wait" /\ call.alone =>
       \A k \in Key : k \in call.tried <=> Behind(k) <= call.i
  /\ call.result = "exhausted" /\ call.alone => call.tried = Key

CallsOK == \A c \in Calls : KindOK(calls[c]) /\ TriedOK(calls[c])

\* Row n of session s is what call c wrote there as role.
IsRow(s, n, c, role) == messages[s][n] = [by |-> c, role |-> role]

\* What stands in a session was written by a call of that session.
RowsAreOfCalls ==
  \A c \in Calls, s \in Sessions : \A n \in 1 .. Len(messages[s]) :
    messages[s][n].by = c => calls[c].session = s

\* The question of a call is stored first, and it is what the model is asked.
QuestionsStored ==
  \A c \in Calls, s \in Sessions : calls[c].session = s =>
    /\ \E n \in 1 .. Len(messages[s]) : IsRow(s, n, c, "user")
    /\ calls[c].at \in {"send", "wait"} =>
         [by |-> c, role |-> "user"] \in calls[c].seen

\* The answer is stored when the call is over, below the question.
AnswersStored ==
  \A c \in Calls, s \in Sessions : \A n \in 1 .. Len(messages[s]) :
    IsRow(s, n, c, "assistant") =>
      calls[c].at = "done" /\ \E k \in 1 .. n - 1 : IsRow(s, k, c, "user")

\* It is stored once.
OneAnswer ==
  \A c \in Calls, s \in Sessions : \A n, k \in 1 .. Len(messages[s]) :
    IsRow(s, n, c, "assistant") /\ IsRow(s, k, c, "assistant") => n = k

RowsOK == RowsAreOfCalls /\ QuestionsStored /\ AnswersStored /\ OneAnswer

GroqInv == GroqTypeOK /\ CallsOK /\ RowsOK

-----------------------------------------------------------------------------
(* Steps that leave the ring alone.                                          *)

\* Call c becomes x and the others stay what they are.
Becomes(c, x) == calls' = [calls EXCEPT ![c] = x]

LEMMA CallsStay ==
  ASSUME GroqInv, NEW c \in Calls, NEW x \in Call, Becomes(c, x),
         UNCHANGED idx, KindOK(x), TriedOK(x)
  PROVE  /\ calls' \in [Calls -> Call]
         /\ calls'[c] = x
         /\ \A d \in Calls \ {c} : calls'[d] = calls[d]
         /\ CallsOK'
<1>1. calls \in [Calls -> Call]
  BY DEF GroqInv, GroqTypeOK
<1>2. /\ calls' \in [Calls -> Call]
      /\ calls'[c] = x
      /\ \A d \in Calls \ {c} : calls'[d] = calls[d]
  BY <1>1 DEF Becomes
<1>3. ASSUME NEW d \in Calls PROVE KindOK(calls'[d]) /\ TriedOK(calls'[d])
  BY <1>2 DEF GroqInv, CallsOK
<1>4. ASSUME NEW d \in Calls PROVE (KindOK(calls[d]) /\ TriedOK(calls[d]))'
  <2>1. \A k : Behind(k)' = Behind(k)
    BY DEF Behind
  <2>2. KindOK(calls[d])' /\ TriedOK(calls[d])'
    BY <1>3, <2>1 DEF KindOK, TriedOK
  <2> QED
    BY <2>2
<1> QED
  BY <1>2, <1>4 DEF CallsOK

\* Nothing is written, and the call keeps its session.
LEMMA RowsStay ==
  ASSUME GroqInv, NEW c \in Calls, NEW x \in Call, Becomes(c, x),
         UNCHANGED messages, x.session = calls[c].session,
         calls[c].at = "done" => x.at = "done",
         x.at \in {"send", "wait"} =>
           \/ x.session = None
           \/ [by |-> c, role |-> "user"] \in x.seen
  PROVE  RowsOK'
<1>1. calls \in [Calls -> Call] /\ None \notin Sessions
  BY NoSessionAssumption DEF GroqInv, GroqTypeOK
<1>2. /\ calls'[c] = x
      /\ \A d \in Calls \ {c} : calls'[d] = calls[d]
  BY <1>1 DEF Becomes
<1>3. \A d \in Calls :
        /\ calls'[d].session = calls[d].session
        /\ calls[d].at = "done" => calls'[d].at = "done"
  BY <1>2
<1>4. RowsAreOfCalls'
  BY <1>3 DEF GroqInv, RowsOK, RowsAreOfCalls
<1>5. QuestionsStored'
  <2> SUFFICES ASSUME NEW d \in Calls, NEW s \in Sessions,
                      calls'[d].session = s
               PROVE  /\ \E n \in 1 .. Len(messages[s]) :
                           messages[s][n] = [by |-> d, role |-> "user"]
                      /\ calls'[d].at \in {"send", "wait"} =>
                           [by |-> d, role |-> "user"] \in calls'[d].seen
    BY DEF QuestionsStored, IsRow
  <2>1. calls[d].session = s
    BY <1>3
  <2>2. CASE d = c
    BY <1>1, <1>2, <2>1, <2>2 DEF GroqInv, RowsOK, QuestionsStored, IsRow
  <2>3. CASE d # c
    BY <1>2, <2>1, <2>3 DEF GroqInv, RowsOK, QuestionsStored, IsRow
  <2> QED
    BY <2>2, <2>3
<1>6. AnswersStored'
  BY <1>3 DEF GroqInv, RowsOK, AnswersStored, IsRow
<1>7. OneAnswer'
  BY DEF GroqInv, RowsOK, OneAnswer, IsRow
<1> QED
  BY <1>4, <1>5, <1>6, <1>7 DEF RowsOK

\* A call ends without giving up.
LEMMA EndStep ==
  ASSUME GroqInv, NEW c \in Calls,
         NEW result \in {"reply", "silence", "refused", "failed"},
         End(c, result), UNCHANGED idx
  PROVE  /\ calls' \in [Calls -> Call]
         /\ CallsOK'
         /\ UNCHANGED messages => RowsOK'
         /\ calls'[c].at = "done" /\ calls'[c].session = calls[c].session
         /\ \A d \in Calls \ {c} : calls'[d] = calls[d]
<1> DEFINE x == [calls[c] EXCEPT !.at = "done", !.result = result,
                                 !.i = 0, !.key = 0, !.seen = {}]
<1>1. calls \in [Calls -> Call] /\ KindOK(calls[c])
  BY DEF GroqInv, GroqTypeOK, CallsOK
<1>2. 0 \in Key
  BY KeyCountAssumption DEF Key
<1>3. /\ x \in Call /\ x.at = "done" /\ x.session = calls[c].session
      /\ x.kind = calls[c].kind /\ x.result = result
  BY ZenonT(40), <1>1, <1>2 DEF Call
<1>4. Becomes(c, x)
  BY <1>1 DEF End, Becomes
<1>5. KindOK(x) /\ TriedOK(x)
  BY <1>1, <1>3 DEF KindOK, TriedOK
<1> HIDE DEF x
<1>6. /\ calls' \in [Calls -> Call] /\ CallsOK'
      /\ calls'[c] = x /\ \A d \in Calls \ {c} : calls'[d] = calls[d]
  BY <1>3, <1>4, <1>5, CallsStay
<1>7. UNCHANGED messages => RowsOK'
  BY <1>3, <1>4, RowsStay
<1> QED
  BY <1>3, <1>6, <1>7

-----------------------------------------------------------------------------
(* Starting a call.                                                          *)

\* The place of an empty ring of tried keys: nothing is behind by 1 .. 0.
LEMMA NewCallOK ==
  ASSUME NEW call \in Call, call.at \in {"history", "send"}, call.i = 0,
         call.tried = {}, call.result = "none",
         call.session # None <=> call.kind = "diagnosis",
         call.at = "history" => call.kind = "diagnosis"
  PROVE  KindOK(call) /\ TriedOK(call)
<1>1. 0 < KeyCount /\ \A n : n \notin 1 .. 0
  BY KeyCountAssumption
<1> QED
  BY <1>1 DEF KindOK, TriedOK

\* Transcribe and Chat.
LEMMA SendStep ==
  ASSUME GroqInv, NEW c \in Calls, Transcribe(c) \/ Chat(c)
  PROVE  GroqInv'
<1>1. calls[c].at = "idle" /\ UNCHANGED <<idx, opened, messages>>
  BY DEF Transcribe, Chat, At
<1>2. 0 \in Key
  BY KeyCountAssumption DEF Key
<1>3. PICK x \in Call :
        /\ Becomes(c, x) /\ x.at = "send" /\ x.i = 0 /\ x.tried = {}
        /\ x.result = "none" /\ x.session = None /\ x.kind # "diagnosis"
  <2>1. CASE Transcribe(c)
    <3> DEFINE y == [NewCall EXCEPT !.at = "send", !.kind = "audio"]
    <3>1. /\ y \in Call /\ y.at = "send" /\ y.i = 0 /\ y.tried = {}
          /\ y.result = "none" /\ y.session = None /\ y.kind = "audio"
      BY <1>2 DEF NewCall, Call
    <3>2. Becomes(c, y)
      BY <2>1 DEF Transcribe, Becomes
    <3> QED
      BY <3>1, <3>2
  <2>2. CASE Chat(c)
    <3> DEFINE y == [NewCall EXCEPT !.at = "send"]
    <3>1. /\ y \in Call /\ y.at = "send" /\ y.i = 0 /\ y.tried = {}
          /\ y.result = "none" /\ y.session = None /\ y.kind = "chat"
      BY <1>2 DEF NewCall, Call
    <3>2. Becomes(c, y)
      BY <2>2 DEF Chat, Becomes
    <3> QED
      BY <3>1, <3>2
  <2> QED
    BY <2>1, <2>2
<1>4. calls[c].session = None
  BY <1>1 DEF GroqInv, CallsOK, KindOK
<1>5. KindOK(x) /\ TriedOK(x)
  BY <1>3, NewCallOK
<1>6. calls' \in [Calls -> Call] /\ CallsOK'
  BY <1>1, <1>3, <1>5, CallsStay
<1>7. RowsOK'
  BY <1>1, <1>3, <1>4, RowsStay
<1> QED
  BY <1>1, <1>6, <1>7 DEF GroqInv, GroqTypeOK

\* A row is added to a session: the ones before it stay.
LEMMA SaidRows ==
  ASSUME GroqInv, NEW c \in Calls, NEW s \in Sessions,
         NEW role \in {"user", "assistant"}, Said(c, s, role)
  PROVE  /\ messages' \in [Sessions -> Seq(Message)]
         /\ Len(messages[s]) \in Nat /\ Len(messages'[s]) = Len(messages[s]) + 1
         /\ messages'[s][Len(messages[s]) + 1] = [by |-> c, role |-> role]
         /\ \A n \in 1 .. Len(messages[s]) : messages'[s][n] = messages[s][n]
         /\ \A r \in Sessions \ {s} : messages'[r] = messages[r]
<1> DEFINE row == [by |-> c, role |-> role]
<1>1. row \in Message /\ messages \in [Sessions -> Seq(Message)]
  BY DEF Message, GroqInv, GroqTypeOK
<1> HIDE DEF row
<1>2. messages' = [messages EXCEPT ![s] = Append(@, row)]
  BY DEF Said, row
<1>3. /\ Append(messages[s], row) \in Seq(Message)
      /\ Len(messages[s]) \in Nat
      /\ Len(Append(messages[s], row)) = Len(messages[s]) + 1
      /\ Append(messages[s], row)[Len(messages[s]) + 1] = row
      /\ \A n \in 1 .. Len(messages[s]) :
           Append(messages[s], row)[n] = messages[s][n]
  BY <1>1, AppendProperties, LenProperties
<1>4. /\ messages'[s] = Append(messages[s], row)
      /\ \A r \in Sessions \ {s} : messages'[r] = messages[r]
      /\ messages' \in [Sessions -> Seq(Message)]
  BY <1>1, <1>2, <1>3
<1> QED
  BY <1>3, <1>4 DEF row

LEMMA SendMessageStep ==
  ASSUME GroqInv, NEW c \in Calls, NEW s \in Sessions, SendMessage(c, s)
  PROVE  GroqInv'
<1> DEFINE x == [NewCall EXCEPT !.at = "history", !.kind = "diagnosis",
                                !.session = s]
           N == Len(messages[s])
<1>1. /\ calls[c].at = "idle" /\ UNCHANGED <<idx, opened>>
      /\ Said(c, s, "user") /\ Becomes(c, x) /\ s # None
  BY NoSessionAssumption DEF SendMessage, Becomes, At
<1>2. 0 \in Key
  BY KeyCountAssumption DEF Key
<1>3. /\ x \in Call /\ x.at = "history" /\ x.i = 0 /\ x.tried = {}
      /\ x.result = "none" /\ x.session = s /\ x.kind = "diagnosis"
  BY <1>2 DEF NewCall, Call
<1>4. \A r \in Sessions : calls[c].session # r
  BY <1>1, NoSessionAssumption DEF GroqInv, CallsOK, KindOK
<1> HIDE DEF x
<1>5. KindOK(x) /\ TriedOK(x)
  BY <1>1, <1>3, NewCallOK
<1>6. /\ calls' \in [Calls -> Call] /\ CallsOK' /\ calls'[c] = x
      /\ \A d \in Calls \ {c} : calls'[d] = calls[d]
  BY <1>1, <1>3, <1>5, CallsStay
<1>7. /\ messages' \in [Sessions -> Seq(Message)]
      /\ N \in Nat /\ Len(messages'[s]) = N + 1
      /\ messages'[s][N + 1] = [by |-> c, role |-> "user"]
      /\ \A n \in 1 .. N : messages'[s][n] = messages[s][n]
      /\ \A r \in Sessions \ {s} : messages'[r] = messages[r]
  BY <1>1, SaidRows
<1> HIDE DEF N
<1>8. /\ \A n \in 1 .. Len(messages'[s]) : n \in 1 .. N \/ n = N + 1
      /\ \A n \in 1 .. N : n \in 1 .. Len(messages'[s])
      /\ N + 1 \in 1 .. Len(messages'[s])
  BY <1>7
<1>9. \A r \in Sessions : \A n \in 1 .. Len(messages[r]) :
        messages[r][n].by # c
  BY <1>4 DEF GroqInv, RowsOK, RowsAreOfCalls
<1>10. RowsAreOfCalls'
  BY <1>3, <1>4, <1>6, <1>7, <1>8 DEF GroqInv, RowsOK, RowsAreOfCalls, N
<1>11. QuestionsStored'
  <2> SUFFICES ASSUME NEW d \in Calls, NEW r \in Sessions,
                      calls'[d].session = r
               PROVE  /\ \E n \in 1 .. Len(messages'[r]) :
                           messages'[r][n] = [by |-> d, role |-> "user"]
                      /\ calls'[d].at \in {"send", "wait"} =>
                           [by |-> d, role |-> "user"] \in calls'[d].seen
    BY DEF QuestionsStored, IsRow
  <2>1. CASE d = c
    BY <1>3, <1>6, <1>7, <1>8, <2>1
  <2>2. CASE d # c
    <3>1. /\ \E n \in 1 .. Len(messages[r]) :
               messages[r][n] = [by |-> d, role |-> "user"]
          /\ calls'[d].at \in {"send", "wait"} =>
               [by |-> d, role |-> "user"] \in calls'[d].seen
      BY <1>6, <2>2 DEF GroqInv, RowsOK, QuestionsStored, IsRow
    <3> QED
      BY <1>7, <1>8, <3>1 DEF N
  <2> QED
    BY <2>1, <2>2
<1>12. \A d \in Calls, r \in Sessions : \A n \in 1 .. Len(messages'[r]) :
         messages'[r][n] = [by |-> d, role |-> "assistant"] =>
           /\ n \in 1 .. Len(messages[r])
           /\ messages[r][n] = [by |-> d, role |-> "assistant"]
           /\ d # c
  <2>1. \A d \in Calls : [by |-> c, role |-> "user"]
                           # [by |-> d, role |-> "assistant"]
    OBVIOUS
  <2>2. \A d : [by |-> d, role |-> "assistant"].by = d
    OBVIOUS
  <2> QED
    BY <1>7, <1>8, <1>9, <2>1, <2>2 DEF N
<1>13. AnswersStored'
  <2> SUFFICES ASSUME NEW d \in Calls, NEW r \in Sessions,
                      NEW n \in 1 .. Len(messages'[r]),
                      messages'[r][n] = [by |-> d, role |-> "assistant"]
               PROVE  calls'[d].at = "done" /\ \E k \in 1 .. n - 1 :
                        messages'[r][k] = [by |-> d, role |-> "user"]
    BY DEF AnswersStored, IsRow
  <2>1. /\ n \in 1 .. Len(messages[r]) /\ d # c
        /\ messages[r][n] = [by |-> d, role |-> "assistant"]
    BY <1>12
  <2>2. PICK k \in 1 .. n - 1 : messages[r][k] = [by |-> d, role |-> "user"]
    BY <2>1 DEF GroqInv, RowsOK, AnswersStored, IsRow
  <2>3. calls[d].at = "done"
    BY <2>1 DEF GroqInv, RowsOK, AnswersStored, IsRow
  <2>4. Len(messages[r]) \in Nat
    BY LenProperties DEF GroqInv, GroqTypeOK
  <2>5. k \in 1 .. Len(messages[r])
    BY <2>1, <2>2, <2>4
  <2>6. messages'[r][k] = messages[r][k]
    BY <1>7, <2>5 DEF N
  <2> QED
    BY <1>6, <2>1, <2>2, <2>3, <2>6
<1>14. OneAnswer'
  BY <1>12 DEF GroqInv, RowsOK, OneAnswer, IsRow
<1> QED
  BY <1>1, <1>6, <1>7, <1>10, <1>11, <1>13, <1>14
     DEF GroqInv, GroqTypeOK, RowsOK

-----------------------------------------------------------------------------
(* The statements around the request.                                        *)

LEMMA ListMessagesStep ==
  ASSUME GroqInv, NEW c \in Calls, DbListMessages(c)
  PROVE  GroqInv'
<1> DEFINE s == calls[c].session
           x == [calls[c] EXCEPT !.at = "send", !.seen = Rows(s)]
<1>1. /\ calls \in [Calls -> Call] /\ KindOK(calls[c]) /\ TriedOK(calls[c])
      /\ messages \in [Sessions -> Seq(Message)]
  BY DEF GroqInv, GroqTypeOK, CallsOK
<1>2. calls[c].at = "history" /\ UNCHANGED <<idx, opened, messages>>
  BY DEF DbListMessages, At
<1>3. s \in Sessions /\ s # None
  BY <1>1, <1>2 DEF KindOK, Call
<1>4. Rows(s) \subseteq Message
  <2>1. messages[s] \in Seq(Message)
    BY <1>1, <1>3
  <2>2. \A n \in 1 .. Len(messages[s]) : messages[s][n] \in Message
    BY <2>1
  <2> QED
    BY <2>2 DEF Rows
<1>5. /\ x \in Call /\ x.at = "send" /\ x.session = s /\ x.kind = calls[c].kind
      /\ x.i = 0 /\ x.tried = {} /\ x.result = "none" /\ x.seen = Rows(s)
  BY <1>1, <1>2, <1>4 DEF Call, KindOK, TriedOK
<1>6. Becomes(c, x)
  BY <1>1 DEF DbListMessages, Becomes
<1>7. [by |-> c, role |-> "user"] \in Rows(s)
  BY <1>3 DEF GroqInv, RowsOK, QuestionsStored, IsRow, Rows
<1> HIDE DEF x
<1>8. KindOK(x) /\ TriedOK(x)
  BY <1>1, <1>5, NewCallOK DEF KindOK
<1>9. calls' \in [Calls -> Call] /\ CallsOK'
  BY <1>2, <1>5, <1>6, <1>8, CallsStay
<1>10. RowsOK'
  BY <1>2, <1>5, <1>6, <1>7, RowsStay
<1> QED
  BY <1>1, <1>2, <1>9, <1>10 DEF GroqInv, GroqTypeOK

\* What ends a call and nothing else: a statement fails, the API refuses, or it
\* answers what is not stored.
LEMMA OverStep ==
  ASSUME GroqInv, NEW c \in Calls,
         NEW result \in {"reply", "silence", "refused", "failed"},
         End(c, result), UNCHANGED <<idx, opened, messages>>
  PROVE  GroqInv'
<1>1. calls' \in [Calls -> Call] /\ CallsOK' /\ RowsOK'
  BY EndStep
<1> QED
  BY <1>1 DEF GroqInv, GroqTypeOK

LEMMA AnsweredStep ==
  ASSUME GroqInv, NEW c \in Calls, calls[c].at = "wait",
         calls[c].kind = "diagnosis", GoTo(c, "save"),
         UNCHANGED <<idx, opened, messages>>
  PROVE  GroqInv'
<1> DEFINE x == [calls[c] EXCEPT !.at = "save"]
<1>1. calls \in [Calls -> Call] /\ KindOK(calls[c]) /\ TriedOK(calls[c])
  BY DEF GroqInv, GroqTypeOK, CallsOK
<1>2. /\ x \in Call /\ x.at = "save" /\ x.session = calls[c].session
      /\ x.kind = "diagnosis" /\ x.result = calls[c].result
  BY <1>1 DEF Call
<1>3. Becomes(c, x)
  BY <1>1 DEF GoTo, Becomes
<1>4. KindOK(x) /\ TriedOK(x)
  BY <1>1, <1>2 DEF KindOK, TriedOK
<1> HIDE DEF x
<1>5. calls' \in [Calls -> Call] /\ CallsOK'
  BY <1>2, <1>3, <1>4, CallsStay
<1>6. RowsOK'
  BY <1>2, <1>3, RowsStay
<1> QED
  BY <1>5, <1>6 DEF GroqInv, GroqTypeOK

LEMMA AddAnswerStep ==
  ASSUME GroqInv, NEW c \in Calls, DbAddAnswer(c)
  PROVE  GroqInv'
<1> DEFINE s == calls[c].session
           N == Len(messages[s])
<1>1. /\ calls \in [Calls -> Call] /\ KindOK(calls[c])
      /\ calls[c].at = "save" /\ UNCHANGED <<idx, opened>>
      /\ Said(c, s, "assistant") /\ End(c, "reply")
  BY DEF DbAddAnswer, At, GroqInv, GroqTypeOK, CallsOK
<1>2. s \in Sessions
  BY <1>1 DEF KindOK, Call
<1>3. /\ calls' \in [Calls -> Call] /\ CallsOK'
      /\ calls'[c].at = "done" /\ calls'[c].session = s
      /\ \A d \in Calls \ {c} : calls'[d] = calls[d]
  BY <1>1, EndStep
<1> HIDE DEF s
<1>4. /\ messages' \in [Sessions -> Seq(Message)]
      /\ N \in Nat /\ Len(messages'[s]) = N + 1
      /\ messages'[s][N + 1] = [by |-> c, role |-> "assistant"]
      /\ \A n \in 1 .. N : messages'[s][n] = messages[s][n]
      /\ \A r \in Sessions \ {s} : messages'[r] = messages[r]
  BY <1>1, <1>2, SaidRows
<1> HIDE DEF N
<1>5. /\ \A n \in 1 .. Len(messages'[s]) : n \in 1 .. N \/ n = N + 1
      /\ \A n \in 1 .. N : n \in 1 .. Len(messages'[s])
      /\ N + 1 \in 1 .. Len(messages'[s])
      /\ \A n \in 1 .. N : n \in 1 .. (N + 1) - 1
  BY <1>4
<1>6. \A d \in Calls : calls'[d].session = calls[d].session
  BY <1>3 DEF s
<1>7. RowsAreOfCalls'
  BY <1>3, <1>4, <1>5, <1>6 DEF GroqInv, RowsOK, RowsAreOfCalls, N
<1>8. \A r \in Sessions : \A n \in 1 .. Len(messages[r]) :
        n \in 1 .. Len(messages'[r]) /\ messages'[r][n] = messages[r][n]
  BY <1>4, <1>5 DEF N
<1>9. QuestionsStored'
  <2> SUFFICES ASSUME NEW d \in Calls, NEW r \in Sessions,
                      calls'[d].session = r
               PROVE  /\ \E n \in 1 .. Len(messages'[r]) :
                           messages'[r][n] = [by |-> d, role |-> "user"]
                      /\ calls'[d].at \in {"send", "wait"} =>
                           [by |-> d, role |-> "user"] \in calls'[d].seen
    BY DEF QuestionsStored, IsRow
  <2>1. \E n \in 1 .. Len(messages[r]) :
          messages[r][n] = [by |-> d, role |-> "user"]
    BY <1>6 DEF GroqInv, RowsOK, QuestionsStored, IsRow
  <2>2. calls'[d].at \in {"send", "wait"} =>
          [by |-> d, role |-> "user"] \in calls'[d].seen
    BY <1>3 DEF GroqInv, RowsOK, QuestionsStored, IsRow
  <2> QED
    BY <1>8, <2>1, <2>2
<1>10. \A d \in Calls, r \in Sessions : \A n \in 1 .. Len(messages'[r]) :
         messages'[r][n] = [by |-> d, role |-> "assistant"] =>
           \/ /\ n \in 1 .. Len(messages[r])
              /\ messages[r][n] = [by |-> d, role |-> "assistant"]
              /\ d # c
           \/ d = c /\ r = s /\ n = N + 1
  <2> SUFFICES ASSUME NEW d \in Calls, NEW r \in Sessions,
                      NEW n \in 1 .. Len(messages'[r]),
                      messages'[r][n] = [by |-> d, role |-> "assistant"]
               PROVE  \/ /\ n \in 1 .. Len(messages[r])
                         /\ messages[r][n] = [by |-> d, role |-> "assistant"]
                         /\ d # c
                      \/ d = c /\ r = s /\ n = N + 1
    OBVIOUS
  <2>1. CASE r = s /\ n = N + 1
    <3>1. [by |-> d, role |-> "assistant"].by =
            [by |-> c, role |-> "assistant"].by
      BY <1>4, <2>1
    <3> QED
      BY <2>1, <3>1
  <2>2. CASE ~(r = s /\ n = N + 1)
    <3>1. n \in 1 .. Len(messages[r]) /\ messages'[r][n] = messages[r][n]
      BY <1>4, <1>5, <2>2 DEF N
    <3>2. calls[d].at = "done"
      BY <3>1 DEF GroqInv, RowsOK, AnswersStored, IsRow
    <3> QED
      BY <1>1, <3>1, <3>2
  <2> QED
    BY <2>1, <2>2
<1>11. AnswersStored'
  <2> SUFFICES ASSUME NEW d \in Calls, NEW r \in Sessions,
                      NEW n \in 1 .. Len(messages'[r]),
                      messages'[r][n] = [by |-> d, role |-> "assistant"]
               PROVE  calls'[d].at = "done" /\ \E k \in 1 .. n - 1 :
                        messages'[r][k] = [by |-> d, role |-> "user"]
    BY DEF AnswersStored, IsRow
  <2>1. CASE d = c /\ r = s /\ n = N + 1
    <3>1. PICK k \in 1 .. N : messages[s][k] = [by |-> c, role |-> "user"]
      BY <1>2 DEF GroqInv, RowsOK, QuestionsStored, IsRow, s, N
    <3> QED
      BY <1>3, <1>4, <1>5, <2>1, <3>1
  <2>2. CASE /\ n \in 1 .. Len(messages[r])
             /\ messages[r][n] = [by |-> d, role |-> "assistant"]
             /\ d # c
    <3>1. PICK k \in 1 .. n - 1 : messages[r][k] = [by |-> d, role |-> "user"]
      BY <2>2 DEF GroqInv, RowsOK, AnswersStored, IsRow
    <3>2. calls[d].at = "done"
      BY <2>2 DEF GroqInv, RowsOK, AnswersStored, IsRow
    <3>3. Len(messages[r]) \in Nat
      BY LenProperties DEF GroqInv, GroqTypeOK
    <3>4. k \in 1 .. Len(messages[r])
      BY <2>2, <3>1, <3>3
    <3> QED
      BY <1>3, <1>8, <2>2, <3>1, <3>2, <3>4
  <2> QED
    BY <1>10, <2>1, <2>2
<1>12. OneAnswer'
  <2> SUFFICES ASSUME NEW d \in Calls, NEW r \in Sessions,
                      NEW n \in 1 .. Len(messages'[r]),
                      NEW k \in 1 .. Len(messages'[r]),
                      messages'[r][n] = [by |-> d, role |-> "assistant"],
                      messages'[r][k] = [by |-> d, role |-> "assistant"]
               PROVE  n = k
    BY DEF OneAnswer, IsRow
  <2>1. CASE d = c
    BY <1>10, <2>1
  <2>2. CASE d # c
    BY <1>10, <2>2 DEF GroqInv, RowsOK, OneAnswer, IsRow
  <2> QED
    BY <2>1, <2>2
<1> QED
  BY <1>1, <1>3, <1>4, <1>7, <1>9, <1>11, <1>12
     DEF GroqInv, GroqTypeOK, RowsOK

-----------------------------------------------------------------------------
(* The loop over the keys.                                                   *)

LEMMA BehindRange ==
  ASSUME idx \in Key, NEW k \in Key
  PROVE  /\ Behind(k) \in 0 .. KeyCount - 1
         /\ Behind(k) = 0 <=> k = idx
  BY KeyCountAssumption DEF Key, Behind

LEMMA SendRequestStep ==
  ASSUME GroqInv, NEW c \in Calls, SendRequest(c)
  PROVE  GroqInv'
<1> DEFINE x == [calls[c] EXCEPT !.at = "wait", !.key = idx,
                                 !.tried = calls[c].tried \cup {idx}]
<1>1. /\ calls \in [Calls -> Call] /\ KindOK(calls[c]) /\ TriedOK(calls[c])
      /\ idx \in Key
  BY DEF GroqInv, GroqTypeOK, CallsOK
<1>2. calls[c].at = "send" /\ UNCHANGED <<idx, opened, messages>>
  BY DEF SendRequest, At
<1>3. /\ x \in Call /\ x.at = "wait" /\ x.session = calls[c].session
      /\ x.kind = calls[c].kind /\ x.result = calls[c].result
      /\ x.seen = calls[c].seen /\ x.i = calls[c].i
      /\ x.alone = calls[c].alone /\ x.tried = calls[c].tried \cup {idx}
  BY <1>1 DEF Call
<1>4. Becomes(c, x)
  BY <1>1 DEF SendRequest, Becomes
<1>5. calls[c].i \in Nat /\ calls[c].result = "none"
  BY <1>1, <1>2 DEF Call, KindOK
<1> HIDE DEF x
<1>6. KindOK(x)
  BY <1>1, <1>2, <1>3 DEF KindOK
<1>7. ASSUME x.alone, NEW k \in Key
      PROVE  k \in x.tried <=> Behind(k) <= x.i
  <2>1. k \in calls[c].tried <=> Behind(k) \in 1 .. calls[c].i
    BY <1>1, <1>2, <1>3, <1>7 DEF TriedOK
  <2>2. Behind(k) \in 0 .. KeyCount - 1 /\ (Behind(k) = 0 <=> k = idx)
    BY <1>1, BehindRange
  <2> HIDE DEF Behind
  <2> QED
    BY <1>3, <1>5, <2>1, <2>2, KeyCountAssumption
<1>8. TriedOK(x)
  BY <1>1, <1>2, <1>3, <1>5, <1>7 DEF TriedOK
<1>9. calls' \in [Calls -> Call] /\ CallsOK'
  BY <1>2, <1>3, <1>4, <1>6, <1>8, CallsStay
<1>10. x.session = None \/ [by |-> c, role |-> "user"] \in x.seen
  <2>1. x.session \in Sessions \cup {None}
    BY <1>3 DEF Call
  <2> QED
    BY <1>2, <1>3, <2>1 DEF GroqInv, RowsOK, QuestionsStored
<1>11. RowsOK'
  BY <1>2, <1>3, <1>4, <1>10, RowsStay
<1> QED
  BY <1>1, <1>2, <1>9, <1>11 DEF GroqInv, GroqTypeOK

\* advance goes round the ring.
LEMMA NextKeyIs ==
  ASSUME idx \in Key
  PROVE  /\ NextKey = IF idx + 1 = KeyCount THEN 0 ELSE idx + 1
         /\ NextKey \in Key
<1>1. idx \in Nat /\ idx < KeyCount /\ KeyCount \in Nat /\ KeyCount > 0
  BY KeyCountAssumption DEF Key
<1>2. CASE idx + 1 = KeyCount
  <2>1. KeyCount % KeyCount = 0
    BY <1>1
  <2> QED
    BY <1>1, <1>2, <2>1 DEF NextKey, Key
<1>3. CASE idx + 1 < KeyCount
  <2>1. (idx + 1) % KeyCount = idx + 1
    BY <1>1, <1>3
  <2> QED
    BY <1>1, <1>3, <2>1 DEF NextKey, Key
<1> QED
  BY <1>1, <1>2, <1>3

\* Turning the ring leaves every key one further behind.
LEMMA BehindTurns ==
  ASSUME idx \in Key, idx' = NextKey, NEW k \in Key
  PROVE  Behind(k)' = IF Behind(k) = KeyCount - 1 THEN 0 ELSE Behind(k) + 1
<1>1. idx' = IF idx + 1 = KeyCount THEN 0 ELSE idx + 1
  BY NextKeyIs
<1> QED
  BY <1>1, KeyCountAssumption DEF Behind, Key

LEMMA KeyFailedStep ==
  ASSUME GroqInv, NEW c \in Calls, KeyFailed(c)
  PROVE  GroqInv'
<1>1. /\ calls \in [Calls -> Call] /\ idx \in Key
      /\ \A d \in Calls : KindOK(calls[d]) /\ TriedOK(calls[d])
  BY DEF GroqInv, GroqTypeOK, CallsOK
<1>2. /\ calls[c].at = "wait" /\ UNCHANGED <<opened, messages>>
      /\ idx' = NextKey /\ idx' \in Key
  BY <1>1, NextKeyIs DEF KeyFailed, At
<1>3. \A k \in Key :
        /\ Behind(k) \in 0 .. KeyCount - 1
        /\ Behind(k)' = IF Behind(k) = KeyCount - 1 THEN 0 ELSE Behind(k) + 1
  BY <1>1, <1>2, BehindRange, BehindTurns
<1>4. 0 \in Key /\ KeyCount \in Nat /\ KeyCount > 0
  BY KeyCountAssumption DEF Key
<1>5. /\ calls[c].i \in Nat /\ calls[c].i < KeyCount /\ calls[c].tried # {}
      /\ calls[c].result = "none" /\ calls[c].tried \subseteq Key
  BY <1>1, <1>2 DEF TriedOK, KindOK, Call
\* What each call is after the step.
<1>6. ASSUME NEW d \in Calls
      PROVE  /\ calls'[d] \in Call
             /\ calls'[d].session = calls[d].session
             /\ calls'[d].kind = calls[d].kind
             /\ calls'[d].tried = calls[d].tried
             /\ calls'[d].alone => calls[d].alone
             /\ d # c => /\ calls'[d].at = calls[d].at
                         /\ calls'[d].i = calls[d].i
                         /\ calls'[d].seen = calls[d].seen
                         /\ calls'[d].result = calls[d].result
             /\ d # c /\ calls[d].at \in {"send", "wait"} /\ calls'[d].alone =>
                  calls[d].tried = {}
             /\ d = c /\ calls[c].i + 1 = KeyCount =>
                  calls'[d].at = "done" /\ calls'[d].result = "exhausted"
             /\ d = c /\ calls[c].i + 1 # KeyCount =>
                  /\ calls'[d].at = "send" /\ calls'[d].i = calls[c].i + 1
                  /\ calls'[d].result = "none" /\ calls'[d].seen = calls[c].seen
  <2>1. calls'[d] =
          IF d = c
          THEN IF calls[c].i + 1 = KeyCount
               THEN [calls[c] EXCEPT !.at = "done", !.result = "exhausted",
                                     !.i = 0, !.key = 0, !.seen = {}]
               ELSE [calls[c] EXCEPT !.at = "send", !.key = 0,
                                     !.i = calls[c].i + 1]
          ELSE IF calls[d].at \in {"send", "wait"} /\ calls[d].tried # {}
               THEN [calls[d] EXCEPT !.alone = FALSE]
               ELSE calls[d]
    BY DEF KeyFailed, LastTry, Tries
  <2>2. calls[d] \in Call /\ calls[c] \in Call
    BY <1>1
  <2>3. CASE d = c /\ calls[c].i + 1 = KeyCount
    <3> DEFINE y == [calls[c] EXCEPT !.at = "done", !.result = "exhausted",
                                     !.i = 0, !.key = 0, !.seen = {}]
    <3>1. /\ y \in Call /\ y.session = calls[c].session
          /\ y.kind = calls[c].kind /\ y.tried = calls[c].tried
          /\ y.alone = calls[c].alone /\ y.at = "done"
          /\ y.result = "exhausted"
      BY <1>4, <2>2 DEF Call
    <3>2. calls'[d] = y
      BY <2>1, <2>3
    <3> HIDE DEF y
    <3> QED
      BY <2>3, <3>1, <3>2
  <2>4. CASE d = c /\ calls[c].i + 1 # KeyCount
    <3> DEFINE j == calls[c].i + 1
               y == [calls[c] EXCEPT !.at = "send", !.key = 0, !.i = j]
    <3>0. j \in Nat
      BY <1>5
    <3> HIDE DEF j
    <3>1. /\ y \in Call /\ y.session = calls[c].session
          /\ y.kind = calls[c].kind /\ y.tried = calls[c].tried
          /\ y.alone = calls[c].alone /\ y.at = "send"
          /\ y.result = calls[c].result /\ y.seen = calls[c].seen
          /\ y.i = j
      BY <1>4, <2>2, <3>0 DEF Call
    <3>2. calls'[d] = y
      BY <2>1, <2>4 DEF j
    <3> HIDE DEF y
    <3> QED
      BY <1>5, <2>4, <3>1, <3>2 DEF j
  <2>5. CASE d # c /\ calls[d].at \in {"send", "wait"} /\ calls[d].tried # {}
    BY <2>1, <2>2, <2>5 DEF Call
  <2>6. CASE d # c /\ ~(calls[d].at \in {"send", "wait"} /\ calls[d].tried # {})
    BY <2>1, <2>2, <2>6
  <2> QED
    BY <2>3, <2>4, <2>5, <2>6
<1>7. calls' \in [Calls -> Call]
  BY <1>6 DEF KeyFailed
<1>8. CallsOK'
  <2> SUFFICES ASSUME NEW d \in Calls
               PROVE  KindOK(calls'[d]) /\ TriedOK(calls[d])'
    BY DEF CallsOK, KindOK
  <2>1. KindOK(calls'[d])
    <3>1. CASE d = c
      BY <1>1, <1>2, <1>6, <3>1 DEF KindOK
    <3>2. CASE d # c
      BY <1>1, <1>6, <3>2 DEF KindOK
    <3> QED
      BY <3>1, <3>2
  <2>2. ASSUME d = c, calls[c].i + 1 # KeyCount PROVE TriedOK(calls[d])'
    <3>1. ASSUME calls'[d].alone, NEW k \in Key
          PROVE  k \in calls'[d].tried <=> Behind(k)' \in 1 .. calls'[d].i
      <4>1. k \in calls[c].tried <=> Behind(k) <= calls[c].i
        BY <1>1, <1>2, <1>6, <2>2, <3>1 DEF TriedOK
      <4>2. calls'[d].tried = calls[c].tried /\ calls'[d].i = calls[c].i + 1
        BY <1>6, <2>2
      <4> QED
        BY <1>3, <1>4, <1>5, <2>2, <4>1, <4>2
    <3>2. /\ calls'[d].at = "send" /\ calls'[d].i = calls[c].i + 1
          /\ calls'[d].result = "none" /\ calls'[d].tried # {}
      BY <1>5, <1>6, <2>2
    <3> QED
      BY <1>4, <1>5, <2>2, <3>1, <3>2 DEF TriedOK
  <2>3. ASSUME d = c, calls[c].i + 1 = KeyCount PROVE TriedOK(calls[d])'
    <3>1. ASSUME calls'[d].alone PROVE calls'[d].tried = Key
      <4>1. calls[d].alone
        BY <1>6, <3>1
      <4>2. \A k \in Key : k \in calls[c].tried
        BY <1>1, <1>2, <1>3, <1>4, <1>5, <2>3, <4>1 DEF TriedOK
      <4> QED
        BY <1>5, <1>6, <2>3, <4>2
    <3> QED
      BY <1>6, <2>3, <3>1 DEF TriedOK
  <2>4. ASSUME d # c PROVE TriedOK(calls[d])'
    <3>1. TriedOK(calls[d])
      BY <1>1
    <3>2. ASSUME calls'[d].at = "send", calls'[d].alone, NEW k \in Key
          PROVE  k \in calls'[d].tried <=> Behind(k)' \in 1 .. calls'[d].i
      BY <1>6, <2>4, <3>1, <3>2 DEF TriedOK
    <3>3. ~(calls'[d].at = "wait" /\ calls'[d].alone)
      BY <1>6, <2>4, <3>1 DEF TriedOK
    <3> QED
      BY <1>6, <2>4, <3>1, <3>2, <3>3 DEF TriedOK
  <2> QED
    BY <2>1, <2>2, <2>3, <2>4
<1>9. /\ \A d \in Calls : calls'[d].session = calls[d].session
      /\ \A d \in Calls : calls[d].at = "done" => calls'[d].at = "done"
      /\ \A d \in Calls : calls'[d].at \in {"send", "wait"} =>
           calls[d].at \in {"send", "wait"} /\ calls'[d].seen = calls[d].seen
  BY <1>2, <1>6
<1>10. RowsAreOfCalls'
  BY <1>2, <1>9 DEF GroqInv, RowsOK, RowsAreOfCalls
<1>11. QuestionsStored'
  BY <1>2, <1>9 DEF GroqInv, RowsOK, QuestionsStored, IsRow
<1>12. AnswersStored'
  BY ZenonT(40), <1>2, <1>9 DEF GroqInv, RowsOK, AnswersStored, IsRow
<1>13. OneAnswer'
  BY <1>2 DEF GroqInv, RowsOK, OneAnswer, IsRow
<1> QED
  BY <1>1, <1>2, <1>7, <1>8, <1>10, <1>11, <1>12, <1>13
     DEF GroqInv, GroqTypeOK, RowsOK

-----------------------------------------------------------------------------
(* The theorems.                                                             *)

LEMMA CallStepKeepsInv ==
  ASSUME GroqInv, NEW c \in Calls, CallStep(c)
  PROVE  GroqInv'
<1>1. CASE DbListMessages(c)
  BY <1>1, ListMessagesStep
<1>2. CASE DbAddAnswer(c)
  BY <1>2, AddAnswerStep
<1>3. CASE DbFails(c)
  BY <1>3, OverStep DEF DbFails
<1>4. CASE SendRequest(c)
  BY <1>4, SendRequestStep
<1>5. CASE Answered(c)
  BY <1>5, AnsweredStep, OverStep DEF Answered, At
<1>6. CASE Refused(c)
  BY <1>6, OverStep DEF Refused
<1>7. CASE KeyFailed(c)
  BY <1>7, KeyFailedStep
<1> QED
  BY <1>1, <1>2, <1>3, <1>4, <1>5, <1>6, <1>7 DEF CallStep

LEMMA GroqStart == ASSUME GroqInit PROVE GroqInv
<1>1. 0 \in Key /\ NewCall \in Call
  BY KeyCountAssumption DEF Key, NewCall, Call
<1>2. /\ NewCall.at = "idle" /\ NewCall.kind = "chat" /\ NewCall.session = None
      /\ NewCall.result = "none"
  BY DEF NewCall
<1>3. \A c \in Calls : calls[c] = NewCall
  BY DEF GroqInit
<1>4. GroqTypeOK
  BY <1>1 DEF GroqInit, GroqTypeOK
<1>5. KindOK(NewCall) /\ TriedOK(NewCall)
  BY <1>2 DEF KindOK, TriedOK
<1>6. CallsOK
  BY <1>3, <1>5 DEF CallsOK
<1>7. \A s \in Sessions : 1 .. Len(messages[s]) = {}
  BY DEF GroqInit
<1>8. RowsOK
  BY <1>2, <1>3, <1>7, NoSessionAssumption
     DEF RowsOK, RowsAreOfCalls, QuestionsStored, AnswersStored, OneAnswer
<1> QED
  BY <1>4, <1>6, <1>8 DEF GroqInv

LEMMA GroqStays == ASSUME GroqInv, UNCHANGED groqVars PROVE GroqInv'
<1>1. UNCHANGED <<idx, calls, opened, messages>>
  BY DEF groqVars
<1>2. GroqTypeOK'
  BY <1>1 DEF GroqInv, GroqTypeOK
<1>3. CallsOK'
  BY <1>1 DEF GroqInv, CallsOK, KindOK, TriedOK, Behind
<1>4. RowsOK'
  BY <1>1 DEF GroqInv, RowsOK, RowsAreOfCalls, QuestionsStored, AnswersStored,
              OneAnswer, IsRow
<1> QED
  BY <1>2, <1>3, <1>4 DEF GroqInv

LEMMA GroqStep == ASSUME GroqInv, [GroqNext]_groqVars PROVE GroqInv'
<1>1. ASSUME NEW s \in Sessions, StartSession(s) PROVE GroqInv'
  <2>1. UNCHANGED <<idx, calls, messages>> /\ opened' = opened \cup {s}
    BY <1>1 DEF StartSession
  <2>2. GroqTypeOK'
    BY <2>1 DEF GroqInv, GroqTypeOK
  <2>3. CallsOK'
    BY <2>1 DEF GroqInv, CallsOK, KindOK, TriedOK, Behind
  <2>4. RowsOK'
    BY <2>1 DEF GroqInv, RowsOK, RowsAreOfCalls, QuestionsStored, AnswersStored,
                OneAnswer, IsRow
  <2> QED
    BY <2>2, <2>3, <2>4 DEF GroqInv
<1>2. ASSUME NEW c \in Calls,
             \/ \E s \in Sessions : SendMessage(c, s)
             \/ Transcribe(c)
             \/ Chat(c)
             \/ CallStep(c)
      PROVE  GroqInv'
  BY <1>2, SendMessageStep, SendStep, CallStepKeepsInv
<1>3. CASE UNCHANGED groqVars
  BY <1>3, GroqStays
<1> QED
  BY <1>1, <1>2, <1>3 DEF GroqNext

\* The three promises follow from the invariant.
LEMMA GroqPromises ==
  ASSUME GroqInv PROVE LoneCallTriesEveryKey /\ AnswersFollowQuestions
<1>1. LoneCallTriesEveryKey
  BY DEF GroqInv, CallsOK, TriedOK, LoneCallTriesEveryKey
<1>2. ASSUME NEW c \in Calls, calls[c].session # None
      PROVE  LET s == calls[c].session
                 where(role) == {n \in 1 .. Len(messages[s]) :
                                   messages[s][n] = [by |-> c, role |-> role]}
             IN /\ calls[c].at \in {"send", "wait"} =>
                     [by |-> c, role |-> "user"] \in calls[c].seen
                /\ \A n, k \in where("assistant") : n = k
                /\ \A n \in where("assistant") : \E k \in where("user") : k < n
  <2> DEFINE s == calls[c].session
  <2>1. s \in Sessions
    BY <1>2 DEF GroqInv, GroqTypeOK, Call
  <2> HIDE DEF s
  <2>2. calls[c].session = s
    BY DEF s
  <2>3. calls[c].at \in {"send", "wait"} =>
          [by |-> c, role |-> "user"] \in calls[c].seen
    BY <2>1, <2>2 DEF GroqInv, RowsOK, QuestionsStored
  <2>4. \A n, k \in 1 .. Len(messages[s]) :
          /\ messages[s][n] = [by |-> c, role |-> "assistant"]
          /\ messages[s][k] = [by |-> c, role |-> "assistant"]
          => n = k
    BY <2>1 DEF GroqInv, RowsOK, OneAnswer, IsRow
  <2>5. Len(messages[s]) \in Nat
    BY <2>1, LenProperties DEF GroqInv, GroqTypeOK
  <2>6. \A n \in 1 .. Len(messages[s]) :
          messages[s][n] = [by |-> c, role |-> "assistant"] =>
            \E k \in 1 .. Len(messages[s]) :
              k < n /\ messages[s][k] = [by |-> c, role |-> "user"]
    <3> SUFFICES ASSUME NEW n \in 1 .. Len(messages[s]),
                        messages[s][n] = [by |-> c, role |-> "assistant"]
                 PROVE  \E k \in 1 .. Len(messages[s]) :
                          k < n /\ messages[s][k] = [by |-> c, role |-> "user"]
      OBVIOUS
    <3>1. PICK k \in 1 .. n - 1 : messages[s][k] = [by |-> c, role |-> "user"]
      BY <2>1 DEF GroqInv, RowsOK, AnswersStored, IsRow
    <3>2. k \in 1 .. Len(messages[s]) /\ k < n
      BY <2>5
    <3> QED
      BY <3>1, <3>2
  <2> QED
    BY <2>2, <2>3, <2>4, <2>6
<1> QED
  BY <1>1, <1>2 DEF AnswersFollowQuestions

\* The invariant holds of every behaviour of the client and its ring.
THEOREM GroqInvariant == GroqSpec => []GroqInv
<1>1. GroqInit => GroqInv
  BY GroqStart
<1>2. GroqInv /\ [GroqNext]_groqVars => GroqInv'
  BY GroqStep
<1> QED
  BY <1>1, <1>2, PTL DEF GroqSpec

\* For any number of keys and of calls that race for them: a call that gives up
\* and whose ring nobody else turned has tried every key.
THEOREM LoneCallsTryAll == GroqSpec => []LoneCallTriesEveryKey
<1>1. GroqInv => LoneCallTriesEveryKey
  BY GroqPromises
<1> QED
  BY <1>1, GroqInvariant, PTL

\* Whoever else writes in a session, the answer to a question stands below it,
\* once, and was made with the question in view.
THEOREM AnswersFollow == GroqSpec => []AnswersFollowQuestions
<1>1. GroqInv => AnswersFollowQuestions
  BY GroqPromises
<1> QED
  BY <1>1, GroqInvariant, PTL

=============================================================================
