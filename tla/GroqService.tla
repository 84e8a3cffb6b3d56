----------------------------- MODULE GroqService -----------------------------
(***************************************************************************)
(* GroqService: the one client of the Groq API, shared by the AI diagnosis *)
(* chat, the transcription of voice notes and the support chat.            *)
(*                                                                         *)
(* All calls take their API key from one ring.  A call that fails on its   *)
(* key turns the ring and tries again, as often as there are keys.  The    *)
(* ring's mutex is held to read the index and to move it, never during the *)
(* request, so other calls turn the ring in between.                       *)
(*                                                                         *)
(* A call is a slot of calls, standing at its next statement or request.   *)
(* When its client leaves or its deadline passes, its requests and         *)
(* statements fail from then on, as they may at any time.                  *)
(* What is said is left out: a message is its call and its author.         *)
(***************************************************************************)
EXTENDS Integers, Sequences

CONSTANTS
  KeyCount, \* API keys in the ring
  Sessions, \* diagnosis sessions that may be opened
  Calls,    \* calls of GroqService
  None      \* no session

ASSUME KeyCountAssumption == KeyCount \in Nat \ {0}

ASSUME NoSessionAssumption == None \notin Sessions

Key == 0 .. KeyCount - 1

VARIABLES
  idx,       \* keyRing.idx
  calls,     \* the calls made so far
  opened,    \* rows of ai_diagnosis_sessions
  messages   \* rows of ai_diagnosis_messages of each session, oldest first

groqVars == <<idx, calls, opened, messages>>

Message == [by : Calls, role : {"user", "assistant"}]

\* i: the loop counter; key: the key of the request under way; seen: the history
\* sent along; they are gone with the call.  For the properties: tried, the keys
\* it has used; alone, that no other call has turned the ring since it first did.
Call ==
  [at : {"idle", "history", "send", "wait", "save", "done"},
   kind : {"diagnosis", "audio", "chat"},
   session : Sessions \cup {None},
   i : Nat, key : Key, seen : SUBSET Message,
   result : {"none", "reply", "silence", "refused", "exhausted", "failed"},
   tried : SUBSET Key, alone : BOOLEAN]

NewCall == [at |-> "idle", kind |-> "chat", session |-> None, i |-> 0,
            key |-> 0, seen |-> {}, result |-> "none", tried |-> {},
            alone |-> TRUE]

GroqTypeOK ==
  /\ idx \in Key
  /\ calls \in [Calls -> Call]
  /\ opened \subseteq Sessions
  /\ messages \in [Sessions -> Seq(Message)]

GroqInit ==
  /\ idx = 0
  /\ calls = [c \in Calls |-> NewCall]
  /\ opened = {}
  /\ messages = [s \in Sessions |-> <<>>]

At(c, where) == calls[c].at = where

GoTo(c, where) == calls' = [calls EXCEPT ![c].at = where]

End(c, result) ==
  calls' = [calls EXCEPT ![c].at = "done", ![c].result = result,
                         ![c].i = 0, ![c].key = 0, ![c].seen = {}]

Running(c) == calls[c].at \notin {"idle", "done"}

-----------------------------------------------------------------------------
(* Starting a call.                                                          *)

StartSession(s) ==
  /\ opened' = opened \cup {s}
  /\ UNCHANGED <<idx, calls, messages>>

Said(c, s, role) ==
  messages' = [messages EXCEPT ![s] = Append(@, [by |-> c, role |-> role])]

Rows(s) == {messages[s][n] : n \in 1 .. Len(messages[s])}

\* The handler takes any non-empty message for any session; one for a session
\* that does not exist is refused by the foreign key.  The question is stored
\* by the first statement.
SendMessage(c, s) ==
  /\ At(c, "idle")
  /\ s \in opened
  /\ Said(c, s, "user")
  /\ calls' = [calls EXCEPT ![c] = [NewCall EXCEPT
       !.at = "history", !.kind = "diagnosis", !.session = s]]
  /\ UNCHANGED <<idx, opened>>

\* The handler turns down recordings that are too large or too short.
Transcribe(c) ==
  /\ At(c, "idle")
  /\ calls' = [calls EXCEPT ![c] = [NewCall EXCEPT
       !.at = "send", !.kind = "audio"]]
  /\ UNCHANGED <<idx, opened, messages>>

Chat(c) ==
  /\ At(c, "idle")
  /\ calls' = [calls EXCEPT ![c] = [NewCall EXCEPT !.at = "send"]]
  /\ UNCHANGED <<idx, opened, messages>>

-----------------------------------------------------------------------------
(* The statements around the request of a diagnosis.                         *)

DbListMessages(c) ==
  /\ At(c, "history")
  /\ calls' = [calls EXCEPT ![c].at = "send",
                            ![c].seen = Rows(calls[c].session)]
  /\ UNCHANGED <<idx, opened, messages>>

DbAddAnswer(c) ==
  /\ At(c, "save")
  /\ Said(c, calls[c].session, "assistant")
  /\ End(c, "reply")
  /\ UNCHANGED <<idx, opened>>

\* A statement fails, as every statement does once the context is done.
DbFails(c) ==
  /\ calls[c].at \in {"history", "save"}
  /\ End(c, "failed")
  /\ UNCHANGED <<idx, opened, messages>>

-----------------------------------------------------------------------------
(* The loop over the keys.                                                   *)

\* current: the request goes out with the key the ring is at.
SendRequest(c) ==
  /\ At(c, "send")
  /\ calls' = [calls EXCEPT ![c].at = "wait", ![c].key = idx,
                            ![c].tried = @ \cup {idx}]
  /\ UNCHANGED <<idx, opened, messages>>

\* An answer with a choice in it.  A diagnosis is stored, a recording may turn
\* out to hold no speech.
Answered(c) ==
  /\ At(c, "wait")
  /\ \/ calls[c].kind = "diagnosis" /\ GoTo(c, "save")
     \/ calls[c].kind # "diagnosis" /\ End(c, "reply")
     \/ calls[c].kind = "audio" /\ End(c, "silence")
  /\ UNCHANGED <<idx, opened, messages>>

\* An API error that another key would not cure ends the call.
Refused(c) ==
  /\ At(c, "wait")
  /\ End(c, "refused")
  /\ UNCHANGED <<idx, opened, messages>>

\* advance.
NextKey == (idx + 1) % KeyCount

Tries(c) == calls[c].i + 1

\* Mutant of LastTry: the loop ends one key early.
LastTryEarly(c) == Tries(c) >= KeyCount - 1

LastTry(c) == Tries(c) = KeyCount

\* The key failed: it is spent or invalid, the request broke off (it does when
\* the context is done), or the answer was empty or not understood.
KeyFailed(c) ==
  /\ At(c, "wait")
  /\ idx' = NextKey
  /\ calls' = [d \in Calls |->
       IF d = c
       THEN IF LastTry(c)
            THEN [calls[c] EXCEPT !.at = "done", !.result = "exhausted",
                                  !.i = 0, !.key = 0, !.seen = {}]
            ELSE [calls[c] EXCEPT !.at = "send", !.key = 0, !.i = Tries(c)]
       ELSE IF calls[d].at \in {"send", "wait"} /\ calls[d].tried # {}
            THEN [calls[d] EXCEPT !.alone = FALSE]
            ELSE calls[d]]
  /\ UNCHANGED <<opened, messages>>

\* The steps of a call once it is made.
CallStep(c) ==
  \/ DbListMessages(c)
  \/ DbAddAnswer(c)
  \/ DbFails(c)
  \/ SendRequest(c)
  \/ Answered(c)
  \/ Refused(c)
  \/ KeyFailed(c)

GroqNext ==
  \/ \E s \in Sessions : StartSession(s)
  \/ \E c \in Calls :
       \/ \E s \in Sessions : SendMessage(c, s)
       \/ Transcribe(c)
       \/ Chat(c)
       \/ CallStep(c)

GroqSpec == GroqInit /\ [][GroqNext]_groqVars

\* A statement returns and a request ends: the HTTP client waits 30 seconds.
GroqFairness == \A c \in Calls : WF_groqVars(CallStep(c))

-----------------------------------------------------------------------------
(* What the component promises.                                              *)

\* A call that gives up has been through all keys, unless another call turned
\* the ring meanwhile: between two of its requests the ring moves by one.
LoneCallTriesEveryKey ==
  \A c \in Calls :
    calls[c].result = "exhausted" /\ calls[c].alone => calls[c].tried = Key

\* groq_service.go says of the keys: "Requests automatically rotate through all
\* provided keys as each one is exhausted", and a call that gives up answers
\* "all configured API keys exhausted".  Then it has tried them all.
ExhaustedMeansAllTried ==
  \A c \in Calls : calls[c].result = "exhausted" => calls[c].tried = Key

\* Whoever else writes in the session: the model is asked with the question in
\* view, and the session holds one answer at most to each question, after it.
AnswersFollowQuestions ==
  \A c \in Calls :
    LET s == calls[c].session
        where(role) == {n \in 1 .. Len(messages[s]) :
                          messages[s][n] = [by |-> c, role |-> role]}
    IN s # None =>
         /\ calls[c].at \in {"send", "wait"} =>
              [by |-> c, role |-> "user"] \in calls[c].seen
         /\ \A n, k \in where("assistant") : n = k
         /\ \A n \in where("assistant") : \E k \in where("user") : k < n

=============================================================================
