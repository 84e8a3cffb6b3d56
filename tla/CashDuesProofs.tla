---------------------------- MODULE CashDuesProofs ----------------------------
(* What holds of CashDues for every value of its constants. *)
EXTENDS CashDues, TLAPS

\* The records a slot may hold.
OnCodes == [at : {"InsertPayment", "SetOtp", "LockOtp", "AddDue", "MarkPaid"},
            p : Ids, code : Codes]
Counts == [at : {"CountWrong"}, p : Ids, seen : 0 .. MaxAttempts - 1]
Settles == [at : {"InsertSettlement"}, u : Users, dues : SUBSET Ids]

LEMMA SlotKind ==
  ASSUME TypeOK, NEW r \in Requests
  PROVE  /\ reqs[r].at \in {"InsertPayment", "SetOtp", "LockOtp", "AddDue",
                            "MarkPaid"} => reqs[r] \in OnCodes
         /\ reqs[r].at = "CountWrong" => reqs[r] \in Counts
         /\ reqs[r].at = "InsertSettlement" => reqs[r] \in Settles
<1>1. reqs[r] \in OnCodes \cup Counts \cup Settles \cup {Idle}
  BY DEF TypeOK, Request, OnCodes, Counts, Settles
<1> QED
  BY <1>1 DEF OnCodes, Counts, Settles, Idle

\* A step that changes one slot, to a request that relies on what holds, and
\* the tables only as the other requests allow.
LEMMA SlotStep ==
  ASSUME CashInv, NEW r \in Requests, NEW q \in Request \cup {Idle},
         reqs' = [reqs EXCEPT ![r] = q],
         \A x \in Requests \ {r} : At(x, "CountWrong") =>
           /\ locked'[reqs[x].p] = locked[reqs[x].p]
           /\ attempts'[reqs[x].p] = attempts[reqs[x].p],
         confirmed \subseteq confirmed',
         \A p \in Ids : due[p] # "none" => due'[p] # "none",
         /\ q.at = "CountWrong" => locked'[q.p] = r /\ q.seen = attempts'[q.p]
         /\ q.at \in {"AddDue", "MarkPaid"} => q.p \in confirmed'
         /\ q.at = "MarkPaid" => due'[q.p] # "none"
         /\ q.at = "InsertSettlement" =>
              \A p \in q.dues : TechnicianOf[p] = q.u /\ due'[p] # "none"
  PROVE  /\ reqs' \in [Requests -> Request \cup {Idle}]
         /\ \A x \in Requests : RequestOK(x)'
<1>1. TypeOK
  BY DEF CashInv, GuessesAreCounted
<1>2. /\ reqs' \in [Requests -> Request \cup {Idle}]
      /\ reqs'[r] = q
      /\ \A x \in Requests \ {r} : reqs'[x] = reqs[x]
  BY <1>1 DEF TypeOK
<1>3. RequestOK(r)'
  BY <1>2 DEF RequestOK, At
<1>4. ASSUME NEW x \in Requests \ {r} PROVE RequestOK(x)'
  <2>1. RequestOK(x)
    BY DEF CashInv
  <2>2. /\ reqs[x].at = "MarkPaid" => reqs[x].p \in Ids
        /\ reqs[x].at = "InsertSettlement" => reqs[x].dues \subseteq Ids
    BY <1>1, SlotKind DEF OnCodes, Settles
  <2> QED
    BY <1>2, <2>1, <2>2 DEF RequestOK, At
<1> QED
  BY <1>2, <1>3, <1>4

\* What the money half promises survives a step that leaves it alone.
LEMMA DuesUntouched ==
  ASSUME CashInv, UNCHANGED <<due, settlement, captured>>
  PROVE  /\ ClearedIsCollected'
         /\ \A o \in captured' : settlement'[o] # None
         /\ \A o \in Orders : settlement'[o] # None =>
              \A p \in settlement'[o].dues : due'[p] # "none"
  BY DEF CashInv, ClearedIsCollected

\* A handler that takes up a call writes nothing.
LEMMA AskStep ==
  ASSUME CashInv, NEW r \in Requests, Ask(r)
  PROVE  CashInv'
<1>1. UNCHANGED <<payment, otp, attempts, locked, due, old, settlement, captured,
                  wrong, confirmed>>
  BY DEF Ask, CreateCodOrder, GetCashOTP, RefreshCashOTP, ConfirmCashPayment,
         CreateSettlementOrder, codVars, dueVars
<1>2. \E q \in Request :
        /\ reqs' = [reqs EXCEPT ![r] = q]
        /\ q.at \in {"InsertPayment", "SetOtp", "LockOtp", "InsertSettlement"}
        /\ q.at = "InsertSettlement" =>
             \A p \in q.dues : TechnicianOf[p] = q.u /\ due[p] # "none"
  <2>1. ASSUME NEW p \in Ids, NEW c \in Codes,
               NEW at \in {"InsertPayment", "SetOtp", "LockOtp"},
               Begin(r, OnCode(at, p, c))
        PROVE  \E q \in Request :
                 /\ reqs' = [reqs EXCEPT ![r] = q]
                 /\ q.at \in {"InsertPayment", "SetOtp", "LockOtp"}
    <3>1. OnCode(at, p, c) \in Request /\ OnCode(at, p, c).at = at
      BY DEF OnCode, Request
    <3> QED
      BY <2>1, <3>1 DEF Begin
  <2>2. ASSUME NEW u \in Users, NEW only \in SUBSET Ids,
               CreateSettlementOrder(r, u, only)
        PROVE  \E q \in Request :
                 /\ reqs' = [reqs EXCEPT ![r] = q]
                 /\ q.at = "InsertSettlement"
                 /\ \A p \in q.dues : TechnicianOf[p] = q.u /\ due[p] # "none"
    <3> DEFINE dues == IF only = {} THEN Pending(u) ELSE Pending(u) \cap only
               q == [at |-> "InsertSettlement", u |-> u, dues |-> dues]
    <3>1. /\ dues \in SUBSET Ids
          /\ \A p \in dues : TechnicianOf[p] = u /\ due[p] # "none"
      BY DEF Pending
    <3>2. q \in Request
      BY <3>1 DEF Request
    <3>3. reqs' = [reqs EXCEPT ![r] = q]
      BY <2>2 DEF CreateSettlementOrder, Begin
    <3> QED
      BY <3>1, <3>2, <3>3
  <2>3. CASE \E u \in Users : \/ CreateSettlementOrder(r, u, {})
                              \/ \E p \in Ids : CreateSettlementOrder(r, u, {p})
    BY <2>2, <2>3
  <2>4. CASE \E p \in Ids, c \in Codes :
               \/ CreateCodOrder(r, p, c) \/ GetCashOTP(r, p, c)
               \/ RefreshCashOTP(r, p, c) \/ ConfirmCashPayment(r, p, c)
    BY <2>1, <2>4 DEF CreateCodOrder, GetCashOTP, RefreshCashOTP,
                      ConfirmCashPayment
  <2> QED
    BY <2>3, <2>4 DEF Ask
<1>3. PICK q \in Request :
        /\ reqs' = [reqs EXCEPT ![r] = q]
        /\ q.at \in {"InsertPayment", "SetOtp", "LockOtp", "InsertSettlement"}
        /\ q.at = "InsertSettlement" =>
             \A p \in q.dues : TechnicianOf[p] = q.u /\ due[p] # "none"
  BY <1>2
<1>4. /\ reqs' \in [Requests -> Request \cup {Idle}]
      /\ \A x \in Requests : RequestOK(x)'
  BY <1>1, <1>3, SlotStep
<1> QED
  BY <1>1, <1>4, DuesUntouched
     DEF CashInv, GuessesAreCounted, TypeOK, ConfirmedByCode
\* A slot whose request ends or goes on to its next statement.
LEMMA NextSlot ==
  ASSUME CashInv, NEW r \in Requests, reqs[r] \in OnCodes
  PROVE  /\ reqs[r].p \in Ids /\ reqs[r].code \in Codes
         /\ \A s \in {"SetOtp", "AddDue", "MarkPaid"} :
              /\ [reqs[r] EXCEPT !.at = s] \in Request
              /\ [reqs[r] EXCEPT !.at = s].at = s
              /\ [reqs[r] EXCEPT !.at = s].p = reqs[r].p
  BY DEF OnCodes, Request

LEMMA InsertPaymentStep ==
  ASSUME CashInv, NEW r \in Requests, DbInsertPayment(r)
  PROVE  CashInv'
<1>1. reqs[r] \in OnCodes
  BY SlotKind DEF DbInsertPayment, At, CashInv, GuessesAreCounted
<1> DEFINE p == reqs[r].p
           next == [reqs[r] EXCEPT !.at = "SetOtp"]
<1>2. p \in Ids /\ next \in Request /\ next.at = "SetOtp"
  BY <1>1, NextSlot
<1>3. /\ \/ /\ payment[p] = "absent"
            /\ payment' = [payment EXCEPT ![p] = "created"]
            /\ reqs' = [reqs EXCEPT ![r] = next]
         \/ payment' = payment /\ reqs' = [reqs EXCEPT ![r] = Idle]
      /\ UNCHANGED <<otp, attempts, locked, wrong, confirmed, due, old,
                     settlement, captured>>
  BY DEF DbInsertPayment, Proceed, Done, dueVars
<1> HIDE DEF p, next
<1>4. /\ reqs' \in [Requests -> Request \cup {Idle}]
      /\ \A x \in Requests : RequestOK(x)'
  BY <1>2, <1>3, SlotStep DEF Idle
<1>5. /\ payment' \in [Ids -> {"absent", "created", "paid"}]
      /\ \A x \in Ids : payment'[x] = "paid" => payment[x] = "paid"
  BY <1>2, <1>3 DEF CashInv, GuessesAreCounted, TypeOK
<1> QED
  BY <1>3, <1>4, <1>5, DuesUntouched
     DEF CashInv, GuessesAreCounted, TypeOK, ConfirmedByCode

\* A new code starts with no wrong entries; no entry is being counted, since
\* the row is free.
LEMMA SetOtpStep ==
  ASSUME CashInv, NEW r \in Requests, DbSetOtp(r)
  PROVE  CashInv'
<1>1. reqs[r] \in OnCodes
  BY SlotKind DEF DbSetOtp, At, CashInv, GuessesAreCounted
<1> DEFINE p == reqs[r].p
           c == reqs[r].code
<1>2. p \in Ids /\ c \in Codes
  BY <1>1, NextSlot
<1>3. /\ locked[p] = None /\ reqs' = [reqs EXCEPT ![r] = Idle]
      /\ \/ /\ otp' = [otp EXCEPT ![p] = c]
            /\ attempts' = [attempts EXCEPT ![p] = 0]
            /\ wrong' = [wrong EXCEPT ![p] = 0]
         \/ UNCHANGED <<otp, attempts, wrong>>
      /\ UNCHANGED <<payment, locked, confirmed, due, old, settlement, captured>>
  BY DEF DbSetOtp, Done, dueVars
<1> HIDE DEF p, c
<1>4. \A x \in Requests : At(x, "CountWrong") => reqs[x].p # p
  BY <1>3, NoneAssumption DEF CashInv, RequestOK
<1>5. /\ otp' \in [Ids -> Codes \cup {None}]
      /\ attempts' \in [Ids -> 0 .. MaxAttempts]
      /\ wrong' \in [Ids -> Nat]
      /\ \A x \in Ids : wrong'[x] = attempts'[x] /\ wrong'[x] <= MaxAttempts
      /\ \A x \in Ids \ {p} : attempts'[x] = attempts[x]
  BY <1>2, <1>3, LedgerAssumption DEF CashInv, GuessesAreCounted, TypeOK
<1>6. \A x \in Requests : At(x, "CountWrong") =>
        attempts'[reqs[x].p] = attempts[reqs[x].p]
  BY <1>4, <1>5, SlotKind DEF CashInv, GuessesAreCounted, At, Counts
<1>7. /\ reqs' \in [Requests -> Request \cup {Idle}]
      /\ \A x \in Requests : RequestOK(x)'
  BY <1>3, <1>6, SlotStep DEF Idle
<1> QED
  BY <1>3, <1>5, <1>7, DuesUntouched
     DEF CashInv, GuessesAreCounted, TypeOK, ConfirmedByCode

\* An entry is compared under the lock, which a wrong one keeps until it is
\* counted.
LEMMA LockOtpStep ==
  ASSUME CashInv, NEW r \in Requests, DbLockOtp(r)
  PROVE  CashInv'
<1>1. reqs[r] \in OnCodes
  BY SlotKind DEF DbLockOtp, At, CashInv, GuessesAreCounted
<1> DEFINE p == reqs[r].p
           right == [reqs[r] EXCEPT !.at = "AddDue"]
           count == [at |-> "CountWrong", p |-> p, seen |-> attempts[p]]
<1>2. /\ p \in Ids /\ right \in Request /\ right.at = "AddDue" /\ right.p = p
  BY <1>1, NextSlot
<1>3. /\ locked[p] = None
      /\ \/ /\ confirmed' = confirmed \cup {p} /\ locked' = locked
            /\ reqs' = [reqs EXCEPT ![r] = right]
         \/ /\ attempts[p] < MaxAttempts /\ locked' = [locked EXCEPT ![p] = r]
            /\ confirmed' = confirmed /\ reqs' = [reqs EXCEPT ![r] = count]
         \/ UNCHANGED <<locked, confirmed>> /\ reqs' = [reqs EXCEPT ![r] = Idle]
      /\ UNCHANGED <<payment, otp, attempts, wrong, due, old, settlement, captured>>
  BY DEF DbLockOtp, EntriesLeft, Proceed, Done, dueVars
<1>4. /\ attempts[p] < MaxAttempts => count \in Request
      /\ count.at = "CountWrong" /\ count.p = p /\ count.seen = attempts[p]
  BY <1>2, LedgerAssumption DEF Request, CashInv, GuessesAreCounted, TypeOK
<1> HIDE DEF p, right, count
<1>5. /\ locked' \in [Ids -> Requests \cup {None}]
      /\ locked'[p] \in {r, locked[p]}
      /\ \A x \in Ids \ {p} : locked'[x] = locked[x]
      /\ confirmed' \subseteq Ids /\ confirmed \subseteq confirmed'
  BY <1>2, <1>3 DEF CashInv, GuessesAreCounted, TypeOK
<1>6. \A x \in Requests : At(x, "CountWrong") => reqs[x].p \in Ids \ {p}
  BY <1>3, NoneAssumption, SlotKind
     DEF CashInv, RequestOK, GuessesAreCounted, At, Counts
<1>7. \A x \in Requests : At(x, "CountWrong") =>
        /\ locked'[reqs[x].p] = locked[reqs[x].p]
        /\ attempts'[reqs[x].p] = attempts[reqs[x].p]
  BY <1>3, <1>5, <1>6
<1>8. /\ reqs' \in [Requests -> Request \cup {Idle}]
      /\ \A x \in Requests : RequestOK(x)'
  <2>1. CASE confirmed' = confirmed \cup {p} /\ reqs' = [reqs EXCEPT ![r] = right]
    BY <1>2, <1>3, <1>5, <1>7, <2>1, SlotStep
  <2>2. CASE /\ attempts[p] < MaxAttempts /\ locked' = [locked EXCEPT ![p] = r]
             /\ reqs' = [reqs EXCEPT ![r] = count]
    <3>1. locked'[p] = r /\ attempts' = attempts
      BY <1>2, <1>3, <2>2 DEF CashInv, GuessesAreCounted, TypeOK
    <3> QED
      BY <1>3, <1>4, <1>5, <1>7, <2>2, <3>1, SlotStep
  <2>3. CASE reqs' = [reqs EXCEPT ![r] = Idle]
    BY <1>3, <1>5, <1>7, <2>3, SlotStep DEF Idle
  <2> QED
    BY <1>3, <2>1, <2>2, <2>3
<1> QED
  BY <1>3, <1>5, <1>8, DuesUntouched
     DEF CashInv, GuessesAreCounted, TypeOK, ConfirmedByCode

\* The count that is written is one more than the count that is stored.
LEMMA CountWrongStep ==
  ASSUME CashInv, NEW r \in Requests, DbCountWrong(r)
  PROVE  CashInv'
<1>1. reqs[r] \in Counts /\ RequestOK(r) /\ reqs[r].at = "CountWrong"
  BY SlotKind DEF DbCountWrong, At, CashInv, GuessesAreCounted
<1> DEFINE p == reqs[r].p
<1>2. /\ p \in Ids /\ locked[p] = r
      /\ attempts[p] \in 0 .. MaxAttempts - 1 /\ wrong[p] = attempts[p]
  BY <1>1 DEF Counts, RequestOK, At, CashInv, GuessesAreCounted
<1>3. /\ attempts' = [attempts EXCEPT ![p] = attempts[p] + 1]
      /\ wrong' = [wrong EXCEPT ![p] = @ + 1]
      /\ locked' = [locked EXCEPT ![p] = None]
      /\ reqs' = [reqs EXCEPT ![r] = Idle]
      /\ UNCHANGED <<payment, otp, confirmed, due, old, settlement, captured>>
  BY <1>1 DEF DbCountWrong, Done, dueVars, RequestOK, At
<1> HIDE DEF p
<1>4. /\ attempts' \in [Ids -> 0 .. MaxAttempts] /\ wrong' \in [Ids -> Nat]
      /\ locked' \in [Ids -> Requests \cup {None}]
      /\ attempts'[p] = attempts[p] + 1 /\ wrong'[p] = wrong[p] + 1
      /\ \A x \in Ids \ {p} : /\ attempts'[x] = attempts[x]
                              /\ wrong'[x] = wrong[x] /\ locked'[x] = locked[x]
  BY <1>2, <1>3, LedgerAssumption DEF CashInv, GuessesAreCounted, TypeOK
<1>5. \A x \in Ids : wrong'[x] = attempts'[x] /\ wrong'[x] <= MaxAttempts
  BY <1>2, <1>4, LedgerAssumption DEF CashInv, GuessesAreCounted, TypeOK
<1>6. \A x \in Requests \ {r} : At(x, "CountWrong") => reqs[x].p \in Ids \ {p}
  BY <1>2, SlotKind DEF CashInv, RequestOK, GuessesAreCounted, At, Counts
<1>7. /\ reqs' \in [Requests -> Request \cup {Idle}]
      /\ \A x \in Requests : RequestOK(x)'
  BY <1>3, <1>4, <1>6, SlotStep DEF Idle
<1> QED
  BY <1>3, <1>4, <1>5, <1>7, DuesUntouched
     DEF CashInv, GuessesAreCounted, TypeOK, ConfirmedByCode

LEMMA AddDueStep ==
  ASSUME CashInv, NEW r \in Requests, DbAddDue(r)
  PROVE  CashInv'
<1>1. reqs[r] \in OnCodes /\ RequestOK(r) /\ reqs[r].at = "AddDue"
  BY SlotKind DEF DbAddDue, At, CashInv, GuessesAreCounted
<1> DEFINE p == reqs[r].p
           next == [reqs[r] EXCEPT !.at = "MarkPaid"]
<1>2. /\ p \in Ids /\ p \in confirmed
      /\ next \in Request /\ next.at = "MarkPaid" /\ next.p = p
  BY <1>1, NextSlot DEF RequestOK
<1>3. /\ due' = [due EXCEPT ![p] = IF @ = "none" THEN "pending" ELSE @]
      /\ reqs' = [reqs EXCEPT ![r] = next]
      /\ UNCHANGED <<payment, otp, attempts, locked, wrong, confirmed, old,
                     settlement, captured>>
  BY DEF DbAddDue, Proceed, codVars
<1> HIDE DEF p, next
<1>4. /\ due' \in [Ids -> {"none", "pending", "paid"}]
      /\ due'[p] # "none"
      /\ \A x \in Ids \ {p} : due'[x] = due[x]
      /\ \A x \in Ids : due[x] # "none" => due'[x] # "none"
      /\ \A x \in Ids : due'[x] = "paid" <=> due[x] = "paid"
  BY <1>2, <1>3 DEF CashInv, GuessesAreCounted, TypeOK
<1>5. /\ reqs' \in [Requests -> Request \cup {Idle}]
      /\ \A x \in Requests : RequestOK(x)'
  BY <1>2, <1>3, <1>4, SlotStep
<1>6. ConfirmedByCode'
  BY <1>2, <1>3, <1>4 DEF CashInv, ConfirmedByCode
<1>7. ClearedIsCollected'
  <2>1. \A o \in Orders : settlement[o] # None => settlement[o].dues \subseteq Ids
    BY DEF CashInv, GuessesAreCounted, TypeOK, Settlement
  <2> QED
    BY <1>3, <1>4, <2>1 DEF CashInv, ClearedIsCollected
<1>8. \A o \in Orders : settlement[o] # None =>
        \A d \in settlement[o].dues : due'[d] # "none"
  BY <1>4 DEF CashInv, GuessesAreCounted, TypeOK, Settlement
<1> QED
  BY <1>3, <1>4, <1>5, <1>6, <1>7, <1>8 DEF CashInv, GuessesAreCounted, TypeOK

LEMMA MarkPaidStep ==
  ASSUME CashInv, NEW r \in Requests, DbMarkVerifiedPaidCash(r)
  PROVE  CashInv'
<1>1. reqs[r] \in OnCodes /\ RequestOK(r) /\ reqs[r].at = "MarkPaid"
  BY SlotKind DEF DbMarkVerifiedPaidCash, At, CashInv, GuessesAreCounted
<1> DEFINE p == reqs[r].p
<1>2. p \in Ids /\ p \in confirmed /\ due[p] # "none"
  BY <1>1, NextSlot DEF RequestOK, At
<1>3. /\ payment' = [payment EXCEPT ![p] = "paid"]
      /\ reqs' = [reqs EXCEPT ![r] = Idle]
      /\ UNCHANGED <<otp, attempts, locked, wrong, confirmed, due, old,
                     settlement, captured>>
  BY DEF DbMarkVerifiedPaidCash, Done, dueVars
<1> HIDE DEF p
<1>4. /\ payment' \in [Ids -> {"absent", "created", "paid"}]
      /\ \A x \in Ids \ {p} : payment'[x] = payment[x]
  BY <1>2, <1>3 DEF CashInv, GuessesAreCounted, TypeOK
<1>5. /\ reqs' \in [Requests -> Request \cup {Idle}]
      /\ \A x \in Requests : RequestOK(x)'
  BY <1>3, SlotStep DEF Idle
<1>6. ConfirmedByCode'
  BY <1>2, <1>3, <1>4 DEF CashInv, ConfirmedByCode
<1> QED
  BY <1>3, <1>4, <1>5, <1>6, DuesUntouched DEF CashInv, GuessesAreCounted, TypeOK

\* A new settlement covers dues of the technician who asked for it.
LEMMA CreateSettlementStep ==
  ASSUME CashInv, NEW r \in Requests, DbCreateSettlement(r)
  PROVE  CashInv'
<1>1. reqs[r] \in Settles /\ RequestOK(r) /\ reqs[r].at = "InsertSettlement"
  BY SlotKind DEF DbCreateSettlement, At, CashInv, GuessesAreCounted
<1> DEFINE w == [u |-> reqs[r].u, dues |-> reqs[r].dues, status |-> "created"]
<1>2. /\ w \in Settlement /\ w.status = "created"
      /\ \A p \in w.dues : TechnicianOf[p] = w.u /\ due[p] # "none"
  BY <1>1 DEF Settles, Settlement, RequestOK, At
<1>3. PICK o \in Orders :
        settlement[o] = None /\ settlement' = [settlement EXCEPT ![o] = w]
  BY DEF DbCreateSettlement
<1>4. /\ reqs' = [reqs EXCEPT ![r] = Idle]
      /\ UNCHANGED <<payment, otp, attempts, locked, wrong, confirmed, due, old,
                     captured>>
  BY DEF DbCreateSettlement, Done, codVars
<1> HIDE DEF w
<1>5. /\ settlement' \in [Orders -> Settlement \cup {None}]
      /\ settlement'[o] = w
      /\ \A x \in Orders \ {o} : settlement'[x] = settlement[x]
  BY <1>2, <1>3 DEF CashInv, GuessesAreCounted, TypeOK
<1>6. captured \subseteq Orders \ {o}
  BY <1>3 DEF CashInv, GuessesAreCounted, TypeOK
<1>7. /\ reqs' \in [Requests -> Request \cup {Idle}]
      /\ \A x \in Requests : RequestOK(x)'
  BY <1>4, SlotStep DEF Idle
<1>8. ClearedIsCollected'
  <2>1. \A p \in Ids : due[p] = "paid" =>
          \E x \in captured : /\ settlement'[x] # None
                              /\ settlement'[x].status = "paid"
                              /\ settlement'[x].u = TechnicianOf[p]
                              /\ p \in settlement'[x].dues
    BY <1>5, <1>6 DEF CashInv, ClearedIsCollected
  <2>2. \A x \in Orders : settlement'[x] # None =>
          /\ \A p \in settlement'[x].dues : TechnicianOf[p] = settlement'[x].u
          /\ settlement'[x].status = "paid" =>
               \A p \in settlement'[x].dues : due[p] = "paid"
    BY <1>2, <1>5 DEF CashInv, ClearedIsCollected
  <2> QED
    BY <1>4, <2>1, <2>2 DEF ClearedIsCollected
<1>9. /\ \A x \in captured : settlement'[x] # None
      /\ \A x \in Orders : settlement'[x] # None =>
           \A p \in settlement'[x].dues : due[p] # "none"
  BY <1>2, <1>5, <1>6 DEF CashInv
<1> QED
  BY <1>4, <1>5, <1>7, <1>8, <1>9
     DEF CashInv, GuessesAreCounted, TypeOK, ConfirmedByCode

\* Requests do not notice what a step without one does to the rest.
LEMMA NoSlot ==
  ASSUME CashInv, UNCHANGED <<reqs, locked, attempts, confirmed>>,
         \A p \in Ids : due[p] # "none" => due'[p] # "none"
  PROVE  \A x \in Requests : RequestOK(x)'
<1> SUFFICES ASSUME NEW x \in Requests PROVE RequestOK(x)'
  OBVIOUS
<1>1. RequestOK(x)
  BY DEF CashInv
<1>2. /\ reqs[x].at = "MarkPaid" => reqs[x].p \in Ids
      /\ reqs[x].at = "InsertSettlement" => reqs[x].dues \subseteq Ids
  BY SlotKind DEF CashInv, GuessesAreCounted, OnCodes, Settles
<1> QED
  BY <1>1, <1>2 DEF RequestOK, At

\* A settlement that is paid clears its dues, in the transaction that holds it.
LEMMA SettleStep ==
  ASSUME CashInv, NEW u \in Users, NEW o \in Orders, DbMarkSettlementPaid(u, o)
  PROVE  CashInv'
<1>1. /\ o \in captured /\ settlement[o] # None
      /\ settlement[o] \in Settlement /\ settlement[o].status = "created"
      /\ \A p \in settlement[o].dues : TechnicianOf[p] = settlement[o].u
  BY DEF DbMarkSettlementPaid, CashInv, GuessesAreCounted, TypeOK,
         ClearedIsCollected
<1> DEFINE w == [settlement[o] EXCEPT !.status = "paid"]
<1>2. /\ w \in Settlement /\ w.status = "paid" /\ w.u = settlement[o].u
      /\ w.dues = settlement[o].dues /\ w.dues \subseteq Ids /\ w # None
  BY <1>1, SettlementAssumption DEF Settlement
<1>3. /\ due' = [p \in Ids |-> IF p \in settlement[o].dues THEN "paid" ELSE due[p]]
      /\ settlement' = [settlement EXCEPT ![o] = w]
      /\ UNCHANGED <<payment, otp, attempts, locked, wrong, confirmed, old,
                     captured, reqs>>
  BY DEF DbMarkSettlementPaid, codVars
<1> HIDE DEF w
<1>4. /\ due' \in [Ids -> {"none", "pending", "paid"}]
      /\ \A p \in Ids : due'[p] = IF p \in w.dues THEN "paid" ELSE due[p]
      /\ \A p \in Ids : due[p] # "none" => due'[p] # "none"
      /\ settlement' \in [Orders -> Settlement \cup {None}]
      /\ settlement'[o] = w
      /\ \A x \in Orders \ {o} : settlement'[x] = settlement[x]
  BY <1>2, <1>3 DEF CashInv, GuessesAreCounted, TypeOK
<1>5. \A x \in Requests : RequestOK(x)'
  BY <1>3, <1>4, NoSlot
<1>6. \A p \in Ids : due[p] = "none" <=> due'[p] = "none"
  BY <1>1, <1>2, <1>4 DEF CashInv, GuessesAreCounted, TypeOK
<1>7. ConfirmedByCode'
  BY <1>3, <1>6 DEF CashInv, ConfirmedByCode
<1>8. ClearedIsCollected'
  <2>1. \A p \in Ids : due'[p] = "paid" =>
          \E x \in captured : /\ settlement'[x] # None
                              /\ settlement'[x].status = "paid"
                              /\ settlement'[x].u = TechnicianOf[p]
                              /\ p \in settlement'[x].dues
    <3> SUFFICES ASSUME NEW p \in Ids, due'[p] = "paid"
                 PROVE  \E x \in captured :
                          /\ settlement'[x] # None
                          /\ settlement'[x].status = "paid"
                          /\ settlement'[x].u = TechnicianOf[p]
                          /\ p \in settlement'[x].dues
      OBVIOUS
    <3>1. CASE p \in w.dues
      BY <1>1, <1>2, <1>4, <3>1
    <3>2. CASE p \notin w.dues
      <4>1. PICK x \in captured : /\ settlement[x] # None
                                  /\ settlement[x].status = "paid"
                                  /\ settlement[x].u = TechnicianOf[p]
                                  /\ p \in settlement[x].dues
        BY <1>4, <3>2 DEF CashInv, ClearedIsCollected
      <4>2. x \in Orders \ {o}
        BY <1>1, <4>1 DEF CashInv, GuessesAreCounted, TypeOK
      <4> QED
        BY <1>4, <4>1, <4>2
    <3> QED
      BY <3>1, <3>2
  <2>2. \A x \in Orders : settlement'[x] # None =>
          /\ \A p \in settlement'[x].dues : TechnicianOf[p] = settlement'[x].u
          /\ settlement'[x].status = "paid" =>
               \A p \in settlement'[x].dues : due'[p] = "paid"
    <3>1. \A x \in Orders : settlement[x] # None => settlement[x].dues \subseteq Ids
      BY DEF CashInv, GuessesAreCounted, TypeOK, Settlement
    <3> QED
      BY <1>1, <1>2, <1>4, <3>1 DEF CashInv, ClearedIsCollected
  <2> QED
    BY <1>3, <2>1, <2>2 DEF ClearedIsCollected
<1>9. /\ \A x \in captured : settlement'[x] # None
      /\ \A x \in Orders : settlement'[x] # None =>
           \A p \in settlement'[x].dues : due'[p] # "none"
  <2>1. \A x \in Orders : settlement[x] # None => settlement[x].dues \subseteq Ids
    BY DEF CashInv, GuessesAreCounted, TypeOK, Settlement
  <2>2. captured \subseteq Orders
    BY DEF CashInv, GuessesAreCounted, TypeOK
  <2> QED
    BY <1>2, <1>4, <2>1, <2>2 DEF CashInv
<1> QED
  BY <1>3, <1>4, <1>5, <1>7, <1>8, <1>9 DEF CashInv, GuessesAreCounted, TypeOK

\* A rolled back transaction frees its rows, and nobody else's.
LEMMA AbortStep ==
  ASSUME CashInv, NEW r \in Requests, Abort(r)
  PROVE  CashInv'
<1>1. /\ reqs' = [reqs EXCEPT ![r] = Idle]
      /\ locked' = [p \in Ids |-> IF locked[p] = r THEN None ELSE locked[p]]
      /\ UNCHANGED <<payment, otp, attempts, wrong, confirmed, due, old,
                     settlement, captured>>
  BY DEF Abort, Done, dueVars
<1>2. locked' \in [Ids -> Requests \cup {None}]
  BY <1>1 DEF CashInv, GuessesAreCounted, TypeOK
<1>3. \A x \in Requests \ {r} : At(x, "CountWrong") =>
        locked'[reqs[x].p] = locked[reqs[x].p]
  BY <1>1, SlotKind DEF CashInv, RequestOK, GuessesAreCounted, At, Counts
<1>4. /\ reqs' \in [Requests -> Request \cup {Idle}]
      /\ \A x \in Requests : RequestOK(x)'
  BY <1>1, <1>3, SlotStep DEF Idle
<1> QED
  BY <1>1, <1>2, <1>4, DuesUntouched
     DEF CashInv, GuessesAreCounted, TypeOK, ConfirmedByCode

\* Razorpay captures an order, or a due becomes overdue.
LEMMA OutsideStep ==
  ASSUME CashInv,
         (\E o \in Orders : GatewayCapture(o)) \/ (\E p \in Ids : GrowOld(p))
  PROVE  CashInv'
<1>1. /\ UNCHANGED <<payment, otp, attempts, locked, wrong, confirmed, due,
                     settlement, reqs>>
      /\ old' \subseteq Ids
      /\ \/ captured' = captured
         \/ \E o \in Orders : /\ settlement[o] # None
                              /\ captured' = captured \cup {o}
  BY DEF GatewayCapture, GrowOld, codVars, CashInv, GuessesAreCounted, TypeOK
<1>2. \A x \in Requests : RequestOK(x)'
  BY <1>1, NoSlot
<1>3. /\ captured \subseteq captured' /\ captured' \subseteq Orders
      /\ \A o \in captured' : settlement[o] # None
  BY <1>1 DEF CashInv, GuessesAreCounted, TypeOK
<1>4. ClearedIsCollected'
  BY <1>1, <1>3 DEF CashInv, ClearedIsCollected
<1> QED
  BY <1>1, <1>2, <1>3, <1>4 DEF CashInv, GuessesAreCounted, TypeOK, ConfirmedByCode

LEMMA Initially == Init => CashInv
<1> SUFFICES ASSUME Init PROVE CashInv
  OBVIOUS
<1>1. GuessesAreCounted
  BY LedgerAssumption DEF Init, GuessesAreCounted, TypeOK
<1>2. ConfirmedByCode /\ ClearedIsCollected
  BY DEF Init, ConfirmedByCode, ClearedIsCollected
<1>3. \A r \in Requests : RequestOK(r)
  BY DEF Init, RequestOK, At, Idle
<1> QED
  BY <1>1, <1>2, <1>3 DEF Init, CashInv

LEMMA EveryStep == CashInv /\ [Next]_vars => CashInv'
<1> SUFFICES ASSUME CashInv, [Next]_vars PROVE CashInv'
  OBVIOUS
<1>1. ASSUME NEW r \in Requests, Ask(r) \/ Abort(r) PROVE CashInv'
  BY <1>1, AskStep, AbortStep
<1>2. ASSUME NEW r \in Requests, Continue(r) PROVE CashInv'
  BY <1>2, InsertPaymentStep, SetOtpStep, LockOtpStep, CountWrongStep, AddDueStep,
     MarkPaidStep, CreateSettlementStep DEF Continue
<1>3. ASSUME NEW u \in Users, NEW o \in Orders, DbMarkSettlementPaid(u, o)
      PROVE  CashInv'
  BY <1>3, SettleStep
<1>4. CASE (\E o \in Orders : GatewayCapture(o)) \/ (\E p \in Ids : GrowOld(p))
  BY <1>4, OutsideStep
<1>5. CASE UNCHANGED vars
  BY <1>5 DEF vars, CashInv, GuessesAreCounted, TypeOK, ConfirmedByCode,
              ClearedIsCollected, RequestOK, At
<1> QED
  BY <1>1, <1>2, <1>3, <1>4, <1>5 DEF Next

\* What a cash request relies on holds when it goes on, however requests race
\* and wherever they are cut.
THEOREM CashInvariant == Spec => []CashInv
  BY Initially, EveryStep, PTL DEF Spec

\* No cash job is paid, or owed a commission on, before the customer's code was
\* entered, and none is paid without its due.
THEOREM CashIsConfirmed == Spec => []ConfirmedByCode
<1>1. CashInv => ConfirmedByCode
  BY DEF CashInv
<1> QED
  BY <1>1, CashInvariant, PTL

\* No wrong entry of a code goes uncounted, so no code is answered more wrong
\* entries than the limit.
THEOREM GuessesNeverLost == Spec => []GuessesAreCounted
<1>1. CashInv => GuessesAreCounted
  BY DEF CashInv
<1> QED
  BY <1>1, CashInvariant, PTL

\* Dues are cleared by the settlements that were paid for them, and by no other.
THEOREM DuesAreCollected == Spec => []ClearedIsCollected
<1>1. CashInv => ClearedIsCollected
  BY DEF CashInv
<1> QED
  BY <1>1, CashInvariant, PTL

=============================================================================
