--------------------------- MODULE BackOfficeProofs ---------------------------
(***************************************************************************)
(* What holds of the components of BackOffice for every value of their     *)
(* constants.  Each has an inductive invariant, a lemma for each of its    *)
(* steps, and the theorem of what it promises.                             *)
(***************************************************************************)
EXTENDS BackOffice, GroqServiceProofs, FiniteSetTheorems

-----------------------------------------------------------------------------
(* Inventory: the steps.                                                     *)

\* An open transaction is a well-formed record of its kind.
LEMMA OpenTx ==
  ASSUME StockTypeOK, NEW t \in Txs
  PROVE  /\ txs[t].at = "adjust" =>
              txs[t].p \in Parts /\ txs[t].delta \in -Quantity .. Quantity
         /\ txs[t].at = "receive" => txs[t].o \in Orders
<1>1. txs[t] \in [at : {"adjust"}, p : Parts, delta : -Quantity .. Quantity]
                 \cup [at : {"receive"}, o : Orders] \cup {Idle}
  BY DEF StockTypeOK, Tx
<1>2. txs[t] = Idle => txs[t].at = "idle"
  BY DEF Idle
<1> QED
  BY <1>1, <1>2

\* A transaction that opens takes a row nobody holds, so it disturbs nobody.
LEMMA Opens ==
  ASSUME StockInv, NEW t \in Txs, NEW tx \in Tx, NEW x \in Parts \cup Orders,
         Begin(t, tx), locked[x] = Null, locked' = [locked EXCEPT ![x] = t],
         UNCHANGED <<stock, opening, moved, order, restocks>>,
         tx.at = "adjust" =>
           tx.p = x /\ stock[x] # Null /\ stock[x] + tx.delta >= 0,
         tx.at = "receive" =>
           tx.o = x /\ order[x] # Null /\ order[x].status = "ordered"
  PROVE  StockInv'
<1>1. StockTypeOK'
  BY DEF StockInv, StockTypeOK, Begin
<1>2. StockIsLogged' /\ PartsExist'
  BY DEF StockInv, StockIsLogged, PartsExist
<1>3. ASSUME NEW u \in Txs PROVE TxOK(u)'
  <2>1. CASE u = t
    <3>1. txs'[u] = tx /\ locked'[x] = u
      BY <2>1 DEF StockInv, StockTypeOK, Begin
    <3> QED
      BY <3>1 DEF TxOK
  <2>2. CASE u # t
    <3>1. txs'[u] = txs[u] /\ TxOK(u)
      BY <2>2 DEF StockInv, StockTypeOK, Begin
    <3>2. \A y \in Parts \cup Orders : locked[y] = u => locked'[y] = u
      BY NoTransactionAssumption DEF StockInv, StockTypeOK
    <3> QED
      BY <3>1, <3>2, OpenTx DEF TxOK, StockInv
  <2> QED
    BY <2>1, <2>2
<1> QED
  BY <1>1, <1>2, <1>3 DEF StockInv

\* What a transaction that ends leaves of the others' slots and rows.
LEMMA Ends ==
  ASSUME StockInv, NEW t \in Txs, txs' = [txs EXCEPT ![t] = Idle],
         locked' = Unlocked(t)
  PROVE  /\ txs' \in [Txs -> Tx \cup {Idle}]
         /\ locked' \in [Parts \cup Orders -> Txs \cup {Null}]
         /\ txs'[t] = Idle
         /\ \A u \in Txs \ {t} : txs'[u] = txs[u]
         /\ \A x \in Parts \cup Orders, u \in Txs \ {t} :
              locked[x] = u => locked'[x] = u
  BY DEF StockInv, StockTypeOK, Unlocked

\* An idle slot claims nothing.
LEMMA IdleOK == ASSUME NEW t \in Txs, txs[t] = Idle PROVE TxOK(t)
  BY DEF TxOK, Idle

LEMMA CreatePartStep ==
  ASSUME StockInv, NEW p \in Parts, NEW n \in -Quantity .. Quantity,
         CreateSparePart(p, n)
  PROVE  StockInv'
<1> USE QuantityAssumption, NoTransactionAssumption
<1>1. StockTypeOK'
  BY DEF StockInv, StockTypeOK, CreateSparePart
<1>2. StockIsLogged'
  BY DEF StockInv, StockTypeOK, StockIsLogged, PartsExist, CreateSparePart
<1>3. PartsExist'
  <2>1. \A q \in Parts : stock'[q] = Null => stock[q] = Null
    BY DEF StockInv, StockTypeOK, CreateSparePart
  <2>2. \A q \in Parts : stock[q] # Null => stock'[q] # Null
    BY DEF StockInv, StockTypeOK, CreateSparePart
  <2>3. \A o \in Orders : order[o] # Null => order[o].p \in Parts
    BY DEF StockInv, StockTypeOK, Order
  <2> QED
    BY <2>1, <2>2, <2>3 DEF StockInv, PartsExist, CreateSparePart
<1>4. ASSUME NEW t \in Txs PROVE TxOK(t)'
  <2>1. \A q \in Parts : stock[q] # Null => stock'[q] = stock[q]
    BY DEF StockInv, StockTypeOK, CreateSparePart
  <2> QED
    BY <2>1, OpenTx DEF StockInv, TxOK, CreateSparePart
<1> QED
  BY <1>1, <1>2, <1>3, <1>4 DEF StockInv

LEMMA CreateOrderStep ==
  ASSUME StockInv, NEW o \in Orders, NEW p \in Parts, NEW n \in 1 .. Quantity,
         CreateOrder(o, p, n)
  PROVE  StockInv'
<1> DEFINE new == [p |-> p, quantity |-> n, status |-> "ordered"]
<1>1. new \in Order /\ new.status = "ordered" /\ new.p = p
  BY DEF Order
<1>2. /\ order' = [order EXCEPT ![o] = new]
      /\ order[o] = Null /\ stock[p] # Null
      /\ UNCHANGED <<stock, opening, moved, restocks, txs, locked>>
  BY DEF CreateOrder
<1> HIDE DEF new
<1>3. StockTypeOK'
  BY <1>1, <1>2 DEF StockInv, StockTypeOK
<1>4. \A x \in Orders : order'[x] = IF x = o THEN new ELSE order[x]
  BY <1>2 DEF StockInv, StockTypeOK
<1>5. StockIsLogged'
  BY <1>1, <1>2, <1>4 DEF StockInv, StockIsLogged
<1>6. PartsExist'
  BY <1>1, <1>2, <1>4 DEF StockInv, PartsExist
<1>7. ASSUME NEW t \in Txs PROVE TxOK(t)'
  BY <1>2, <1>4, OpenTx DEF StockInv, TxOK
<1> QED
  BY <1>3, <1>5, <1>6, <1>7 DEF StockInv

\* The row stays locked from the check to the commit, so the check still holds
\* when the delta is added.
LEMMA CommitAdjustStep ==
  ASSUME StockInv, NEW t \in Txs, DbCommitAdjust(t)
  PROVE  StockInv'
<1> DEFINE p == txs[t].p
           d == txs[t].delta
<1>1. p \in Parts /\ d \in Int
  BY OpenTx, QuantityAssumption DEF StockInv, DbCommitAdjust
<1>2. locked[p] = t /\ stock[p] \in Int /\ stock[p] + d >= 0
  BY <1>1 DEF StockInv, StockTypeOK, TxOK, DbCommitAdjust
<1>3. /\ stock' = [stock EXCEPT ![p] = @ + d]
      /\ moved' = [moved EXCEPT ![p] = @ + d]
      /\ txs' = [txs EXCEPT ![t] = Idle]
      /\ locked' = Unlocked(t)
      /\ UNCHANGED <<opening, order, restocks>>
  BY DEF DbCommitAdjust, Move
<1> HIDE DEF p, d
<1>4. /\ stock'[p] = stock[p] + d /\ moved'[p] = moved[p] + d
      /\ \A q \in Parts \ {p} : stock'[q] = stock[q] /\ moved'[q] = moved[q]
  BY <1>1, <1>3 DEF StockInv, StockTypeOK
<1>5. StockTypeOK'
  <2>1. stock' \in [Parts -> Int \cup {Null}] /\ moved' \in [Parts -> Int]
    BY <1>1, <1>2, <1>3 DEF StockInv, StockTypeOK
  <2>2. /\ opening' \in [Parts -> -Quantity .. Quantity]
        /\ order' \in [Orders -> Order \cup {Null}]
        /\ restocks' \in [Orders -> Nat]
    BY <1>3 DEF StockInv, StockTypeOK
  <2> QED
    BY <2>1, <2>2, <1>3, Ends DEF StockTypeOK
<1>6. StockIsLogged'
  BY <1>1, <1>2, <1>3, <1>4, NoTransactionAssumption
     DEF StockInv, StockTypeOK, StockIsLogged
<1>7. PartsExist'
  <2>1. \A o \in Orders : order[o] # Null => order[o].p \in Parts
    BY DEF StockInv, StockTypeOK, Order
  <2>2. stock[p] + d # Null
    BY <1>1, <1>2, NoTransactionAssumption
  <2> QED
    BY <1>3, <1>4, <2>1, <2>2 DEF StockInv, PartsExist
<1>9. /\ txs'[t] = Idle
      /\ \A v \in Txs \ {t} : txs'[v] = txs[v]
      /\ \A x \in Parts \cup Orders, v \in Txs \ {t} :
           locked[x] = v => locked'[x] = v
  BY <1>3, Ends
<1>8. ASSUME NEW u \in Txs PROVE TxOK(u)'
  <2>1. CASE u = t
    BY <2>1, <1>9 DEF TxOK, Idle
  <2>2. CASE u # t
    <3>1. txs'[u] = txs[u] /\ TxOK(u)
      BY <2>2, <1>9 DEF StockInv
    <3>2. txs[u].at = "adjust" => txs[u].p \in Parts \ {p}
      BY <3>1, <2>2, <1>2, OpenTx DEF StockInv, TxOK
    <3> QED
      <4>1. txs[u].at = "adjust" =>
              LET q == txs[u].p IN
              locked'[q] = u /\ stock'[q] # Null /\ stock'[q] + txs[u].delta >= 0
        BY <3>1, <3>2, <2>2, <1>4, <1>9 DEF TxOK
      <4>2. txs[u].at = "receive" => txs[u].o \in Orders
        BY OpenTx DEF StockInv
      <4>3. txs[u].at = "receive" =>
              LET x == txs[u].o IN
              locked'[x] = u /\ order'[x] # Null /\ order'[x].status = "ordered"
        BY <3>1, <4>2, <2>2, <1>3, <1>9 DEF TxOK
      <4> QED
        BY <3>1, <4>1, <4>3 DEF TxOK
  <2> QED
    BY <2>1, <2>2
<1> QED
  BY <1>5, <1>6, <1>7, <1>8 DEF StockInv

\* The order stays locked from the check to the commit, so that nobody else
\* receives it; no adjustment of its part is under way.
LEMMA CommitReceiveStep ==
  ASSUME StockInv, NEW t \in Txs, DbCommitReceive(t)
  PROVE  StockInv'
<1> DEFINE o == txs[t].o
           p == order[o].p
           n == order[o].quantity
           done == [order[o] EXCEPT !.status = "received"]
<1>1. o \in Orders
  BY OpenTx DEF StockInv, DbCommitReceive
<1>2. locked[o] = t /\ order[o] # Null /\ order[o].status = "ordered"
  BY DEF StockInv, TxOK, DbCommitReceive
<1>3. order[o] \in Order
  BY <1>1, <1>2 DEF StockInv, StockTypeOK
<1>4. /\ p \in Parts /\ n \in Nat
      /\ done.p = p /\ done.status = "received"
      /\ done \in Order
  BY <1>3, QuantityAssumption DEF Order
<1>13. done # Null
  BY <1>4, NoTransactionAssumption DEF Order
<1>5. stock[p] \in Int /\ moved[p] \in Int /\ stock[p] # Null
  BY <1>1, <1>2, <1>4
     DEF StockInv, StockTypeOK, StockIsLogged, PartsExist
<1>6. /\ locked[p] = Null
      /\ stock' = [stock EXCEPT ![p] = @ + n]
      /\ moved' = [moved EXCEPT ![p] = @ + n]
      /\ order' = [order EXCEPT ![o] = done]
      /\ restocks' = [restocks EXCEPT ![o] = @ + 1]
      /\ txs' = [txs EXCEPT ![t] = Idle]
      /\ locked' = Unlocked(t)
      /\ UNCHANGED opening
  BY DEF DbCommitReceive, Move
<1> HIDE DEF o, p, n, done
<1>7. /\ stock'[p] = stock[p] + n /\ moved'[p] = moved[p] + n
      /\ \A q \in Parts \ {p} : stock'[q] = stock[q] /\ moved'[q] = moved[q]
  BY <1>4, <1>6 DEF StockInv, StockTypeOK
<1>8. /\ order'[o] = done /\ restocks'[o] = restocks[o] + 1
      /\ \A x \in Orders \ {o} :
           order'[x] = order[x] /\ restocks'[x] = restocks[x]
  BY <1>1, <1>6 DEF StockInv, StockTypeOK
<1>9. StockTypeOK'
  <2>1. stock' \in [Parts -> Int \cup {Null}] /\ moved' \in [Parts -> Int]
    BY <1>4, <1>5, <1>6 DEF StockInv, StockTypeOK
  <2>2. /\ opening' \in [Parts -> -Quantity .. Quantity]
        /\ order' \in [Orders -> Order \cup {Null}]
        /\ restocks' \in [Orders -> Nat]
    BY <1>1, <1>4, <1>6 DEF StockInv, StockTypeOK
  <2> QED
    BY <2>1, <2>2, <1>6, Ends DEF StockTypeOK
<1>10. StockIsLogged'
  <2>1. /\ stock[p] = opening[p] + moved[p] /\ opening[p] \in Int
        /\ restocks[o] = 0
    BY <1>1, <1>2, <1>4, <1>5, QuantityAssumption
       DEF StockInv, StockTypeOK, StockIsLogged
  <2>2. \A q \in Parts : stock'[q] # Null =>
          /\ stock'[q] < 0 => stock'[q] >= opening'[q]
          /\ stock'[q] = opening'[q] + moved'[q]
    BY <1>4, <1>5, <1>6, <1>7, <2>1 DEF StockInv, StockIsLogged
  <2>3. \A x \in Orders :
          restocks'[x] = IF order'[x] # Null /\ order'[x].status = "received"
                         THEN 1 ELSE 0
    BY <1>4, <1>8, <1>13, <2>1 DEF StockInv, StockIsLogged
  <2> QED
    BY <2>2, <2>3 DEF StockIsLogged
<1>11. PartsExist'
  <2>1. stock[p] + n # Null
    BY <1>4, <1>5, NoTransactionAssumption
  <2>2. \A x \in Orders : order'[x] # Null =>
          order[x] # Null /\ order'[x].p = order[x].p
    BY <1>1, <1>2, <1>4, <1>8 DEF p
  <2>3. \A x \in Orders : order[x] # Null => order[x].p \in Parts
    BY DEF StockInv, StockTypeOK, Order
  <2> QED
    BY <1>4, <1>5, <1>7, <2>1, <2>2, <2>3 DEF StockInv, PartsExist
<1>14. /\ txs'[t] = Idle
       /\ \A v \in Txs \ {t} : txs'[v] = txs[v]
       /\ \A x \in Parts \cup Orders, v \in Txs \ {t} :
            locked[x] = v => locked'[x] = v
  BY <1>6, Ends
<1>12. ASSUME NEW u \in Txs PROVE TxOK(u)'
  <2>1. CASE u = t
    BY <2>1, <1>14 DEF TxOK, Idle
  <2>2. CASE u # t
    <3>1. txs'[u] = txs[u] /\ TxOK(u)
      BY <2>2, <1>14 DEF StockInv
    <3>2. txs[u].at = "adjust" => txs[u].p \in Parts \ {p}
      BY <3>1, <1>6, OpenTx, NoTransactionAssumption DEF StockInv, TxOK
    <3>3. txs[u].at = "receive" => txs[u].o \in Orders \ {o}
      BY <3>1, <2>2, <1>2, OpenTx DEF StockInv, TxOK
    <3> QED
      <4>1. txs[u].at = "adjust" =>
              LET q == txs[u].p IN
              locked'[q] = u /\ stock'[q] # Null /\ stock'[q] + txs[u].delta >= 0
        BY <3>1, <3>2, <2>2, <1>7, <1>14 DEF TxOK
      <4>2. txs[u].at = "receive" =>
              LET x == txs[u].o IN
              locked'[x] = u /\ order'[x] # Null /\ order'[x].status = "ordered"
        BY <3>1, <3>3, <2>2, <1>8, <1>14 DEF TxOK
      <4> QED
        BY <3>1, <4>1, <4>2 DEF TxOK
  <2> QED
    BY <2>1, <2>2
<1> QED
  BY <1>9, <1>10, <1>11, <1>12 DEF StockInv

LEMMA RollbackStep ==
  ASSUME StockInv, NEW t \in Txs, Rollback(t)
  PROVE  StockInv'
<1>1. StockTypeOK'
  BY Ends DEF StockInv, StockTypeOK, Rollback
<1>2. StockIsLogged' /\ PartsExist'
  BY DEF StockInv, StockIsLogged, PartsExist, Rollback
<1>4. /\ txs'[t] = Idle
      /\ \A v \in Txs \ {t} : txs'[v] = txs[v]
      /\ \A x \in Parts \cup Orders, v \in Txs \ {t} :
           locked[x] = v => locked'[x] = v
  BY Ends DEF Rollback
<1>3. ASSUME NEW u \in Txs PROVE TxOK(u)'
  <2>1. CASE u = t
    BY <2>1, <1>4 DEF TxOK, Idle
  <2>2. CASE u # t
    <3>1. txs'[u] = txs[u] /\ TxOK(u)
      BY <2>2, <1>4 DEF StockInv
    <3>2. /\ txs[u].at = "adjust" => txs[u].p \in Parts
          /\ txs[u].at = "receive" => txs[u].o \in Orders
      BY OpenTx DEF StockInv
    <3> QED
      BY <3>1, <3>2, <2>2, <1>4 DEF TxOK, Rollback
  <2> QED
    BY <2>1, <2>2
<1> QED
  BY <1>1, <1>2, <1>3 DEF StockInv

LEMMA StockInit0 == StockInit => StockInv
<1> SUFFICES ASSUME StockInit PROVE StockInv
  OBVIOUS
<1>1. StockTypeOK
  BY QuantityAssumption DEF StockInit, StockTypeOK
<1>2. StockIsLogged /\ PartsExist
  BY DEF StockInit, StockIsLogged, PartsExist
<1>3. \A t \in Txs : TxOK(t)
  BY DEF StockInit, TxOK, Idle
<1> QED
  BY <1>1, <1>2, <1>3 DEF StockInv

LEMMA StockStep == StockInv /\ [StockNext]_stockVars => StockInv'
<1> SUFFICES ASSUME StockInv, [StockNext]_stockVars PROVE StockInv'
  OBVIOUS
<1>1. ASSUME NEW p \in Parts, NEW n \in -Quantity .. Quantity,
             CreateSparePart(p, n)
      PROVE  StockInv'
  BY <1>1, CreatePartStep
<1>2. ASSUME NEW o \in Orders, NEW p \in Parts, NEW n \in 1 .. Quantity,
             CreateOrder(o, p, n)
      PROVE  StockInv'
  BY <1>2, CreateOrderStep
<1>3. ASSUME NEW t \in Txs, NEW p \in Parts, NEW n \in -Quantity .. Quantity,
             DbLockPart(t, p, n)
      PROVE  StockInv'
  <2> DEFINE tx == [at |-> "adjust", p |-> p, delta |-> n]
  <2>1. tx \in Tx
    BY DEF Tx
  <2> QED
    BY <1>3, <2>1, Opens DEF DbLockPart
<1>4. ASSUME NEW t \in Txs, NEW o \in Orders, DbLockOrder(t, o)
      PROVE  StockInv'
  <2> DEFINE tx == [at |-> "receive", o |-> o]
  <2>1. tx \in Tx
    BY DEF Tx
  <2> QED
    BY <1>4, <2>1, Opens DEF DbLockOrder
<1>5. ASSUME NEW t \in Txs, DbCommitAdjust(t) PROVE StockInv'
  BY <1>5, CommitAdjustStep
<1>6. ASSUME NEW t \in Txs, DbCommitReceive(t) PROVE StockInv'
  BY <1>6, CommitReceiveStep
<1>7. ASSUME NEW t \in Txs, Rollback(t) PROVE StockInv'
  BY <1>7, RollbackStep
<1>8. CASE UNCHANGED stockVars
  BY <1>8 DEF stockVars, StockInv, StockTypeOK, StockIsLogged, PartsExist, TxOK
<1> QED
  BY <1>1, <1>2, <1>3, <1>4, <1>5, <1>6, <1>7, <1>8 DEF StockNext

\* However many adjustments and receptions overlap, what each of them read
\* stays true until it commits (inventory_repo.go reads FOR UPDATE).
THEOREM StockInvariant == StockSpec => []StockInv
  BY StockInit0, StockStep, PTL DEF StockSpec

\* Stock, the log of its movements and the purchase orders never drift apart,
\* and no movement takes a stock below zero.
THEOREM StockNeverDrifts == StockSpec => []StockIsLogged
<1>1. StockInv => StockIsLogged
  BY DEF StockInv
<1> QED
  BY <1>1, StockInvariant, PTL

-----------------------------------------------------------------------------
(* Reviews: rounding.                                                        *)

LEMMA Quotient ==
  ASSUME NEW x \in Int, NEW b \in Nat \ {0}
  PROVE  /\ x \div b \in Int
         /\ b * (x \div b) <= x
         /\ x < b * (x \div b) + b
  OBVIOUS

\* The stored average is off the average it rounds by half a hundredth at most.
LEMMA AverageRounds ==
  ASSUME NEW a \in Nat, NEW n \in Nat, NEW r \in Rating
  PROVE  /\ Average(a, n, r) \in Int
         /\ 2 * (Average(a, n, r) * (n + 1)) <= 2 * (a * n + 100 * r) + (n + 1)
         /\ 2 * (a * n + 100 * r) <= 2 * (Average(a, n, r) * (n + 1)) + (n + 1)
<1> DEFINE x == 2 * (a * n + 100 * r) + n + 1
           b == 2 * (n + 1)
           q == x \div b
<1>1. r \in Nat /\ a * n \in Nat
  BY DEF Rating
<1>2. x \in Int /\ b \in Nat \ {0}
  BY <1>1
<1>3. q \in Int /\ b * q <= x /\ x < b * q + b
  BY <1>2, Quotient
<1>4. Average(a, n, r) = q
  BY DEF Average
<1>5. b * q = 2 * (q * (n + 1))
  BY <1>3
<1>6. q * (n + 1) \in Int
  BY <1>3
<1> HIDE DEF q
<1> QED
  BY <1>1, <1>3, <1>4, <1>5, <1>6

\* It stays on the scale.
LEMMA AverageOnScale ==
  ASSUME NEW a \in Nat, NEW n \in Nat, NEW r \in Rating,
         n > 0 => a \in 100 .. 500
  PROVE  Average(a, n, r) \in 100 .. 500
<1> DEFINE q == Average(a, n, r)
<1>1. r \in 1 .. 5 /\ q \in Int
  BY AverageRounds DEF Rating
<1>2. 100 * n <= a * n /\ a * n <= 500 * n /\ a * n \in Nat
  BY SMT
<1>3. /\ 2 * (q * (n + 1)) <= 2 * (a * n + 100 * r) + (n + 1)
      /\ 2 * (a * n + 100 * r) <= 2 * (q * (n + 1)) + (n + 1)
  BY AverageRounds
<1> HIDE DEF q
<1>4. /\ 2 * (q * (n + 1)) <= 1001 * (n + 1)
      /\ 199 * (n + 1) <= 2 * (q * (n + 1))
  BY <1>1, <1>2, <1>3
<1>5. q <= 500
  BY <1>1, <1>4
<1>6. q >= 100
  BY <1>1, <1>4
<1> QED
  BY <1>1, <1>5, <1>6 DEF q

\* The errors add up to no more than the next bound.
LEMMA ErrorsAdd ==
  ASSUME NEW a \in Nat, NEW n \in Nat, NEW r \in Rating, NEW s \in Nat,
         4 * Abs(a * n - 100 * s) <= n * (n + 1)
  PROVE  4 * Abs(Average(a, n, r) * (n + 1) - 100 * (s + r)) <=
           (n + 1) * (n + 2)
<1> DEFINE q == Average(a, n, r)
           P == a * n
           Q == q * (n + 1)
           E == n * (n + 1)
<1>1. /\ q \in Int
      /\ 2 * Q <= 2 * (P + 100 * r) + (n + 1)
      /\ 2 * (P + 100 * r) <= 2 * Q + (n + 1)
  BY AverageRounds
<1>2. r \in Int /\ P \in Int /\ Q \in Int /\ E \in Int
  BY <1>1 DEF Rating
<1>3. (n + 1) * (n + 2) = E + 2 * (n + 1)
  OBVIOUS
<1>4. 4 * (P - 100 * s) <= E /\ 4 * (100 * s - P) <= E
  BY <1>2 DEF Abs
<1> HIDE DEF P, Q, E
<1>5. /\ 4 * (Q - 100 * (s + r)) <= E + 2 * (n + 1)
      /\ 4 * (100 * (s + r) - Q) <= E + 2 * (n + 1)
  BY <1>1, <1>2, <1>4
<1>6. 4 * Abs(Q - 100 * (s + r)) <= E + 2 * (n + 1)
  BY <1>2, <1>5 DEF Abs
<1> QED
  BY <1>3, <1>6 DEF Q

-----------------------------------------------------------------------------
(* Reviews: the invariant.                                                   *)

\* An insert, with the trigger in it, makes its booking count once more.
LEMMA ReviewCreated ==
  ASSUME RatingInv, NEW q \in Requests, DbCreate(q)
  PROVE  RatingInv'
<1> DEFINE b == requests[q].booking
           r == requests[q].rating
           t == TechnicianOf[b]
           n == rating_count[t]
           a == rating_avg[t]
<1>1. /\ b \in Bookings /\ r \in Rating /\ t \in Technicians
      /\ n \in Nat /\ a \in Nat /\ stars[t] \in Nat
  BY TechnicianOfAssumption DEF DbCreate, RatingInv, RatingTypeOK, Request
<1>2. /\ b \notin reviewed
      /\ reviewed' = reviewed \cup {b}
      /\ rating_count' = [rating_count EXCEPT ![t] = n + 1]
      /\ rating_avg' = [rating_avg EXCEPT ![t] = Average(a, n, r)]
      /\ stars' = [stars EXCEPT ![t] = @ + r]
      /\ requests' = [requests EXCEPT ![q] = NoRequest]
  BY <1>1 DEF DbCreate, Trigger, RatingInv, RatingTypeOK
<1>3. /\ n > 0 => a \in 100 .. 500
      /\ 4 * Abs(a * n - 100 * stars[t]) <= n * (n + 1)
  BY <1>1 DEF RatingInv, RatingNearMean
<1>4. Average(a, n, r) \in 100 .. 500
  BY <1>1, <1>3, AverageOnScale
<1>5. 4 * Abs(Average(a, n, r) * (n + 1) - 100 * (stars[t] + r))
        <= (n + 1) * (n + 2)
  BY <1>1, <1>3, ErrorsAdd
<1> HIDE DEF b, r, t, n, a
<1>6. /\ rating_count'[t] = n + 1 /\ rating_avg'[t] = Average(a, n, r)
      /\ stars'[t] = stars[t] + r
      /\ \A u \in Technicians \ {t} :
           /\ rating_count'[u] = rating_count[u]
           /\ rating_avg'[u] = rating_avg[u] /\ stars'[u] = stars[u]
  BY <1>1, <1>2 DEF RatingInv, RatingTypeOK
<1>7. RatingTypeOK'
  <2>1. r \in Nat /\ Average(a, n, r) \in Nat
    BY <1>1, <1>4 DEF Rating
  <2> QED
    BY <1>1, <1>2, <2>1 DEF RatingInv, RatingTypeOK
<1>8. CountIsReviews'
  <2> SUFFICES ASSUME NEW u \in Technicians
               PROVE  rating_count'[u] = Cardinality(ReviewedOf(u)')
    BY DEF CountIsReviews
  <2>1. rating_count[u] = Cardinality(ReviewedOf(u))
    BY DEF RatingInv, CountIsReviews
  <2>2. CASE u = t
    <3>1. ReviewedOf(u)' = ReviewedOf(u) \cup {b} /\ b \notin ReviewedOf(u)
      BY <1>2, <2>2 DEF ReviewedOf, t
    <3>2. IsFiniteSet(ReviewedOf(u))
      <4>1. ReviewedOf(u) \subseteq Bookings
        BY DEF ReviewedOf, RatingInv, RatingTypeOK
      <4> QED
        BY <4>1, BookingsAssumption, FS_Subset
    <3>3. Cardinality(ReviewedOf(u) \cup {b}) = Cardinality(ReviewedOf(u)) + 1
      BY <3>1, <3>2, FS_AddElement
    <3> QED
      BY <1>6, <2>1, <2>2, <3>1, <3>3 DEF n
  <2>3. CASE u # t
    <3>1. ReviewedOf(u)' = ReviewedOf(u)
      BY <1>2, <2>3 DEF ReviewedOf, t
    <3> QED
      BY <1>6, <2>1, <2>3, <3>1
  <2> QED
    BY <2>2, <2>3
<1>9. RatingNearMean'
  <2> SUFFICES ASSUME NEW u \in Technicians
               PROVE  LET m == rating_count'[u] IN
                      /\ m > 0 => rating_avg'[u] \in 100 .. 500
                      /\ 4 * Abs(rating_avg'[u] * m - 100 * stars'[u])
                           <= m * (m + 1)
    BY DEF RatingNearMean, Abs
  <2>1. CASE u = t
    <3>1. n + 1 + 1 = n + 2
      BY <1>1
    <3> QED
      BY <1>4, <1>5, <1>6, <2>1, <3>1
  <2>2. CASE u # t
    BY <1>6, <2>2 DEF RatingInv, RatingNearMean
  <2> QED
    BY <2>1, <2>2
<1> QED
  BY <1>7, <1>8, <1>9 DEF RatingInv

\* The other steps leave the ratings alone.
LEMMA ReviewOtherSteps ==
  ASSUME RatingInv, NEW q \in Requests,
         \/ \E b \in Bookings, rating \in Rating : Create(q, b, rating)
         \/ CreateFails(q)
  PROVE  RatingInv'
<1>1. UNCHANGED <<reviewed, rating_count, rating_avg, stars>>
  BY DEF Create, CreateFails
<1>2. requests' \in [Requests -> Request \cup {NoRequest}]
  BY DEF Create, CreateFails, RatingInv, RatingTypeOK, Request
<1>3. CountIsReviews'
  BY <1>1 DEF RatingInv, CountIsReviews, ReviewedOf
<1>4. RatingNearMean'
  BY <1>1 DEF RatingInv, RatingNearMean, Abs
<1> QED
  BY <1>1, <1>2, <1>3, <1>4 DEF RatingInv, RatingTypeOK

\* However requests to review race, a booking counts once and the rounded
\* average stays near the mean.
THEOREM RatingInvariant == RatingSpec => []RatingInv
<1>1. RatingInit => RatingInv
  <2> SUFFICES ASSUME RatingInit PROVE RatingInv
    OBVIOUS
  <2>1. RatingTypeOK
    BY DEF RatingInit, RatingTypeOK
  <2>2. CountIsReviews
    <3>1. \A t \in Technicians : ReviewedOf(t) = {}
      BY DEF RatingInit, ReviewedOf
    <3> QED
      BY <3>1, FS_EmptySet DEF RatingInit, CountIsReviews
  <2>3. RatingNearMean
    BY DEF RatingInit, RatingNearMean, Abs
  <2> QED
    BY <2>1, <2>2, <2>3 DEF RatingInv
<1>2. RatingInv /\ [RatingNext]_reviewVars => RatingInv'
  <2> SUFFICES ASSUME RatingInv, [RatingNext]_reviewVars PROVE RatingInv'
    OBVIOUS
  <2>1. CASE RatingNext
    BY <2>1, ReviewCreated, ReviewOtherSteps DEF RatingNext
  <2>2. CASE UNCHANGED reviewVars
    <3>1. CountIsReviews' /\ RatingNearMean'
      BY <2>2 DEF reviewVars, RatingInv, CountIsReviews, ReviewedOf,
                  RatingNearMean, Abs
    <3> QED
      BY <2>2, <3>1 DEF reviewVars, RatingInv, RatingTypeOK
  <2> QED
    BY <2>1, <2>2
<1> QED
  BY <1>1, <1>2, PTL DEF RatingSpec

\* Rounding at every review never takes a technician's rating off the scale,
\* nor further from the mean than the rounding of that many reviews explains.
THEOREM RatingStaysNear == RatingSpec => []RatingNearMean
<1>1. RatingInv => RatingNearMean
  BY DEF RatingInv
<1> QED
  BY <1>1, RatingInvariant, PTL

\* No booking counts twice in a rating, and none that was reviewed is missing.
THEOREM ReviewsCountOnce == RatingSpec => []CountIsReviews
<1>1. RatingInv => CountIsReviews
  BY DEF RatingInv
<1> QED
  BY <1>1, RatingInvariant, PTL

-----------------------------------------------------------------------------
(* GroqService: the promise as BackOffice names it.                          *)

\* For any number of keys, calls and sessions that race.
THEOREM GroqStaysConsistent == GroqSpec => []GroqIsConsistent
<1>1. GroqInv => GroqIsConsistent
  BY GroqPromises DEF GroqInv, GroqIsConsistent
<1> QED
  BY <1>1, GroqInvariant, PTL

-----------------------------------------------------------------------------
(* Disputes: the invariant.                                                  *)

\* Booking b is shown as refunded, or a confirmation has written over that.
Shown(b) == marked[b] = "refunded" \/ b \in remarked

\* The booking a dispute is about has a refund, and was marked so.
PaidBack(d) ==
  /\ \E p \in PaymentIds :
       BookingOf[p] = dispute[d].about /\ payment[p] = "refunded"
  /\ Shown(dispute[d].about)

\* What a decision to refund has done by the statement it stands at.
DecisionOK(a) ==
  LET d == decisions[a].d
      p == decisions[a].p
  IN /\ dispute[d] # None
     /\ decisions[a].at # "Resolve" => decisions[a].status \in Dsp!Refunds
     /\ decisions[a].status \in Dsp!Refunds =>
          p \in PaymentIds /\ BookingOf[p] = dispute[d].about
     /\ decisions[a].at = "MarkRefunded" => payment[p] \in {"paid", "refunded"}
     /\ decisions[a].at = "SetRefunded" => payment[p] = "refunded"
     /\ decisions[a].at = "Resolve" /\ decisions[a].status \in Dsp!Refunds =>
          PaidBack(d)

DisputeInv ==
  /\ Dsp!TypeOK
  /\ \A d \in DisputeIds : Dsp!RefundGranted(d) => PaidBack(d)
  /\ \A a \in Decisions : decisions[a] # Dsp!Idle => DecisionOK(a)

\* No step takes a refund back, nor the mark of one without leaving a trace.
MoneyStays ==
  /\ payment' \in [PaymentIds -> {"created", "paid", "failed", "refunded"}]
  /\ marked' \in [PaidBookings -> {"pending", "paid", "refunded"}]
  /\ confirming' \subseteq PaymentIds
  /\ remarked' \subseteq PaidBookings
  /\ \A p \in PaymentIds :
       payment[p] \in {"paid", "refunded"} =>
         payment'[p] \in {"paid", "refunded"}
  /\ \A p \in PaymentIds :
       payment[p] = "refunded" => payment'[p] = "refunded"
  /\ \A b \in PaidBookings : Shown(b) => Shown(b)'

LEMMA DisputeTypes ==
  ASSUME DisputeInv
  PROVE  /\ dispute \in [DisputeIds -> Dsp!Dispute \cup {None}]
         /\ None \notin Dsp!Dispute
         /\ payment \in [PaymentIds -> {"created", "paid", "failed", "refunded"}]
         /\ marked \in [PaidBookings -> {"pending", "paid", "refunded"}]
         /\ confirming \subseteq PaymentIds
         /\ remarked \subseteq PaidBookings
         /\ BookingOf \in [PaymentIds -> PaidBookings]
         /\ decisions \in [Decisions -> Dsp!Decision \cup {Dsp!Idle}]
         /\ Dsp!Idle \notin Dsp!Decision
         /\ \A a \in Decisions :
              decisions[a] # Dsp!Idle =>
                /\ decisions[a] \in Dsp!Decision
                /\ decisions[a].d \in DisputeIds
                /\ decisions[a].status \in Dsp!Resolved
         /\ \A d \in DisputeIds :
              dispute[d] # None => dispute[d] \in Dsp!Dispute
<1>1. Dsp!Idle \notin Dsp!Decision
  BY DEF Dsp!Idle, Dsp!Decision
<1>2. \A x \in Dsp!Decision : x.d \in DisputeIds /\ x.status \in Dsp!Resolved
  BY DEF Dsp!Decision
<1>3. BookingOf \in [PaymentIds -> PaidBookings]
  BY PartsAssumption DEF Dsp!PartyAssumption
<1> QED
  BY <1>1, <1>2, <1>3, NullAssumption DEF DisputeInv, Dsp!TypeOK

\* Refunds stay, disputes keep what they are about, and a decision that does not
\* move stays right.
LEMMA RefundsStay ==
  ASSUME DisputeInv, MoneyStays,
         \A d \in DisputeIds : dispute[d] # None =>
           /\ dispute'[d] # None
           /\ dispute'[d].about = dispute[d].about
  PROVE  /\ \A d \in DisputeIds :
              dispute[d] # None /\ PaidBack(d) => PaidBack(d)'
         /\ \A a \in Decisions :
              decisions[a] # Dsp!Idle /\ decisions'[a] = decisions[a] =>
                DecisionOK(a)'
<1>1. ASSUME NEW d \in DisputeIds, dispute[d] # None, PaidBack(d)
      PROVE  PaidBack(d)'
  <2>1. PICK p \in PaymentIds :
          BookingOf[p] = dispute[d].about /\ payment[p] = "refunded"
    BY <1>1 DEF PaidBack
  <2>2. dispute[d].about \in PaidBookings /\ dispute'[d].about = BookingOf[p]
    BY <1>1, <2>1, DisputeTypes
  <2>3. payment'[p] = "refunded" /\ Shown(BookingOf[p])'
    BY <1>1, <2>1, <2>2 DEF MoneyStays, PaidBack
  <2> QED
    BY <2>2, <2>3 DEF PaidBack
<1>2. ASSUME NEW a \in Decisions, decisions[a] # Dsp!Idle,
             decisions'[a] = decisions[a]
      PROVE  DecisionOK(a)'
  <2>1. DecisionOK(a) /\ decisions[a].d \in DisputeIds
    BY <1>2, DisputeTypes DEF DisputeInv
  <2> QED
    BY <1>1, <1>2, <2>1, DisputeTypes DEF DecisionOK, MoneyStays
<1> QED
  BY <1>1, <1>2

\* Steps that leave the money alone.
LEMMA MoneyUntouched ==
  ASSUME DisputeInv, UNCHANGED <<payment, marked, confirming, remarked>>
  PROVE  MoneyStays
  BY DisputeTypes DEF MoneyStays, Shown

\* A payment is paid, fails, or is refunded.
LEMMA PaymentMoves ==
  ASSUME DisputeInv, NEW p \in PaymentIds,
         NEW status \in {"created", "paid", "failed", "refunded"},
         payment' = [payment EXCEPT ![p] = status],
         payment[p] \in {"paid", "refunded"} => status \in {"paid", "refunded"},
         payment[p] = "refunded" => status = "refunded",
         UNCHANGED <<marked, confirming, remarked>>
  PROVE  MoneyStays
<1>1. /\ payment' \in [PaymentIds -> {"created", "paid", "failed", "refunded"}]
      /\ payment'[p] = status
      /\ \A q \in PaymentIds \ {p} : payment'[q] = payment[q]
  BY DisputeTypes
<1>2. \A q \in PaymentIds :
        /\ payment[q] \in {"paid", "refunded"} =>
             payment'[q] \in {"paid", "refunded"}
        /\ payment[q] = "refunded" => payment'[q] = "refunded"
  BY <1>1
<1>3. \A b \in PaidBookings : Shown(b) => Shown(b)'
  BY DEF Shown
<1> QED
  BY <1>1, <1>2, <1>3, DisputeTypes DEF MoneyStays

\* A booking is marked, and shows a refund if it did.
LEMMA MarkMoves ==
  ASSUME DisputeInv, NEW b \in PaidBookings, NEW mark \in {"paid", "refunded"},
         marked' = [marked EXCEPT ![b] = mark],
         remarked' \subseteq PaidBookings,
         \A c \in PaidBookings \ {b} : c \in remarked => c \in remarked',
         Shown(b) => mark = "refunded" \/ b \in remarked',
         UNCHANGED <<payment, confirming>>
  PROVE  MoneyStays
<1>1. /\ marked' \in [PaidBookings -> {"pending", "paid", "refunded"}]
      /\ marked'[b] = mark
      /\ \A c \in PaidBookings \ {b} : marked'[c] = marked[c]
  BY DisputeTypes
<1>2. \A c \in PaidBookings : Shown(c) => Shown(c)'
  BY <1>1 DEF Shown
<1> QED
  BY <1>1, <1>2, DisputeTypes DEF MoneyStays

\* Neither disputes nor decisions move.
LEMMA PartiesStep ==
  ASSUME DisputeInv, MoneyStays, UNCHANGED <<dispute, decisions>>, Dsp!TypeOK'
  PROVE  DisputeInv'
<1>1. /\ \A d \in DisputeIds :
           dispute[d] # None /\ PaidBack(d) => PaidBack(d)'
      /\ \A a \in Decisions : decisions[a] # Dsp!Idle => DecisionOK(a)'
  BY RefundsStay
<1> QED
  BY <1>1 DEF DisputeInv, Dsp!RefundGranted

\* The parties and support write, and jobs are reassigned.
LEMMA WritesStep ==
  ASSUME DisputeInv,
         \/ \E d \in DisputeIds, u \in Dsp!People :
              Dsp!AddEvidence(d, u) \/ Dsp!SendMessage(d, u)
         \/ \E s \in Dsp!Subjects, t \in Technicians \cup {None} :
              Dsp!Reassign(s, t)
         \/ \E d \in DisputeIds : Dsp!AdminReply(d)
  PROVE  DisputeInv'
<1>1. UNCHANGED <<dispute, payment, marked, confirming, remarked, decisions>>
  BY DEF Dsp!AddEvidence, Dsp!SendMessage, Dsp!AdminReply, Dsp!Post,
         Dsp!Reassign, Dsp!moneyVars
<1>2. Dsp!TypeOK'
  <2>1. CASE \E d \in DisputeIds : Dsp!Post(d)
    <3>1. posts' \in [DisputeIds -> Nat] /\ UNCHANGED technician
      BY <2>1 DEF Dsp!Post, DisputeInv, Dsp!TypeOK
    <3> QED
      BY <1>1, <3>1 DEF DisputeInv, Dsp!TypeOK
  <2>2. CASE \E s \in Dsp!Subjects, t \in Technicians \cup {None} :
               Dsp!Reassign(s, t)
    BY <1>1, <2>2 DEF Dsp!Reassign, DisputeInv, Dsp!TypeOK
  <2> QED
    BY <2>1, <2>2 DEF Dsp!AddEvidence, Dsp!SendMessage, Dsp!AdminReply
<1> QED
  BY <1>1, <1>2, MoneyUntouched, PartiesStep

\* Payments are confirmed, fail, and are refunded without a dispute.
LEMMA MoneyStep ==
  ASSUME DisputeInv, NEW p \in PaymentIds,
         \/ Dsp!Confirm(p) \/ Dsp!DbMarkPaid(p) \/ Dsp!DbMarkFailed(p)
         \/ Dsp!DbSetPaid(p) \/ Dsp!Confirmed(p)
         \/ Dsp!RefundApart(p) \/ Dsp!SetRefundedApart(p)
  PROVE  DisputeInv'
<1>1. UNCHANGED <<dispute, posts, technician, decisions>>
  BY DEF Dsp!Confirm, Dsp!DbMarkPaid, Dsp!DbMarkFailed, Dsp!DbSetPaid,
         Dsp!Confirmed, Dsp!RefundApart, Dsp!SetRefundedApart, Dsp!SetPayment
<1>2. BookingOf[p] \in PaidBookings
  BY DisputeTypes
<1>3. MoneyStays
  <2>1. CASE Dsp!Confirm(p) \/ Dsp!Confirmed(p)
    <3>1. UNCHANGED <<payment, marked, remarked>>
      BY <2>1 DEF Dsp!Confirm, Dsp!Confirmed
    <3>2. confirming' \subseteq PaymentIds
      BY <2>1, DisputeTypes DEF Dsp!Confirm, Dsp!Confirmed
    <3> QED
      BY <3>1, <3>2, DisputeTypes DEF MoneyStays, Shown
  <2>2. CASE Dsp!DbMarkPaid(p)
    BY <2>2, PaymentMoves DEF Dsp!DbMarkPaid, Dsp!SetPayment
  <2>3. CASE Dsp!DbMarkFailed(p)
    BY <2>3, PaymentMoves DEF Dsp!DbMarkFailed, Dsp!SetPayment
  <2>4. CASE Dsp!DbSetPaid(p)
    <3> DEFINE b == BookingOf[p]
    <3>1. /\ marked' = [marked EXCEPT ![b] = "paid"]
          /\ remarked' = IF marked[b] = "refunded" THEN remarked \cup {b}
                                                   ELSE remarked
          /\ UNCHANGED <<payment, confirming>>
      BY <2>4 DEF Dsp!DbSetPaid
    <3>2. b \in PaidBookings /\ remarked \subseteq PaidBookings
      BY <1>2, DisputeTypes
    <3> HIDE DEF b
    <3>3. /\ remarked' \subseteq PaidBookings
          /\ \A c \in PaidBookings \ {b} : c \in remarked => c \in remarked'
          /\ Shown(b) => b \in remarked'
      BY <3>1, <3>2 DEF Shown
    <3> QED
      BY <3>1, <3>2, <3>3, MarkMoves
  <2>5. CASE Dsp!RefundApart(p) \/ Dsp!SetRefundedApart(p)
    <3>1. CASE Dsp!RefundApart(p)
      BY <3>1, PaymentMoves DEF Dsp!RefundApart, Dsp!MarkRefunded
    <3>2. CASE Dsp!SetRefundedApart(p)
      BY <1>2, <3>2, DisputeTypes, MarkMoves
         DEF Dsp!SetRefundedApart, Dsp!SetRefunded
    <3> QED
      BY <2>5, <3>1, <3>2
  <2> QED
    BY <2>1, <2>2, <2>3, <2>4, <2>5
<1>4. Dsp!TypeOK'
  BY <1>1, <1>3 DEF MoneyStays, DisputeInv, Dsp!TypeOK
<1> QED
  BY <1>1, <1>3, <1>4, PartiesStep

\* A dispute is raised, or looked at.
LEMMA DisputeOpened ==
  ASSUME DisputeInv, NEW d \in DisputeIds, NEW row \in Dsp!Dispute,
         row.status \notin Dsp!Refunds,
         dispute[d] # None => row.about = dispute[d].about,
         dispute' = [dispute EXCEPT ![d] = row],
         UNCHANGED <<posts, technician, payment, marked, confirming,
                     remarked, decisions>>
  PROVE  DisputeInv'
<1>1. /\ dispute' \in [DisputeIds -> Dsp!Dispute \cup {None}]
      /\ dispute'[d] = row /\ row # None
      /\ \A e \in DisputeIds \ {d} : dispute'[e] = dispute[e]
  BY DisputeTypes
<1>2. /\ \A e \in DisputeIds :
           dispute[e] # None /\ PaidBack(e) => PaidBack(e)'
      /\ \A a \in Decisions : decisions[a] # Dsp!Idle => DecisionOK(a)'
  BY <1>1, MoneyUntouched, RefundsStay
<1>3. Dsp!TypeOK'
  BY <1>1 DEF DisputeInv, Dsp!TypeOK
<1> QED
  BY <1>1, <1>2, <1>3 DEF DisputeInv, Dsp!RefundGranted

LEMMA RaiseStep ==
  ASSUME DisputeInv, NEW d \in DisputeIds, NEW u \in Dsp!People,
         NEW s \in Dsp!Subjects, Dsp!Raise(d, s, u)
  PROVE  DisputeInv'
<1> DEFINE row == [about |-> s, status |-> "open"]
<1>1. row \in Dsp!Dispute /\ row.status = "open"
  BY DEF Dsp!Dispute
<1>2. /\ dispute[d] = None /\ dispute' = [dispute EXCEPT ![d] = row]
      /\ UNCHANGED <<posts, technician, payment, marked, confirming,
                     remarked, decisions>>
  BY DEF Dsp!Raise, Dsp!moneyVars
<1> HIDE DEF row
<1> QED
  BY <1>1, <1>2, DisputeOpened DEF Dsp!Refunds

LEMMA ReviewStep ==
  ASSUME DisputeInv, NEW d \in DisputeIds, Dsp!SetUnderReview(d)
  PROVE  DisputeInv'
<1> DEFINE row == [dispute[d] EXCEPT !.status = "under_review"]
<1>1. /\ dispute[d] \in Dsp!Dispute
      /\ UNCHANGED <<posts, technician, payment, marked, confirming,
                     remarked, decisions>>
  BY DisputeTypes DEF Dsp!SetUnderReview, Dsp!moneyVars
<1>2. /\ row \in Dsp!Dispute /\ row.status = "under_review"
      /\ row.about = dispute[d].about
  BY <1>1 DEF Dsp!Dispute
<1>3. dispute' = [dispute EXCEPT ![d] = row]
  BY DisputeTypes DEF Dsp!SetUnderReview
<1> HIDE DEF row
<1> QED
  BY <1>1, <1>2, <1>3, DisputeOpened DEF Dsp!Refunds

\* Decision a becomes x, which is right for it, and refunds stay.
LEMMA DecisionStep ==
  ASSUME DisputeInv, MoneyStays, NEW a \in Decisions,
         NEW x \in Dsp!Decision \cup {Dsp!Idle},
         decisions' = [decisions EXCEPT ![a] = x],
         UNCHANGED <<dispute, posts, technician>>,
         x # Dsp!Idle => DecisionOK(a)'
  PROVE  DisputeInv'
<1>1. /\ decisions' \in [Decisions -> Dsp!Decision \cup {Dsp!Idle}]
      /\ decisions'[a] = x
      /\ \A c \in Decisions \ {a} : decisions'[c] = decisions[c]
  BY DisputeTypes
<1>2. /\ \A e \in DisputeIds :
           dispute[e] # None /\ PaidBack(e) => PaidBack(e)'
      /\ \A c \in Decisions :
           decisions[c] # Dsp!Idle /\ decisions'[c] = decisions[c] =>
             DecisionOK(c)'
  BY RefundsStay
<1>3. Dsp!TypeOK'
  BY <1>1 DEF MoneyStays, DisputeInv, Dsp!TypeOK
<1> QED
  BY <1>1, <1>2, <1>3 DEF DisputeInv, Dsp!RefundGranted

LEMMA DisputeResolveStep ==
  ASSUME DisputeInv, NEW a \in Decisions, NEW d \in DisputeIds,
         NEW status \in Dsp!Resolved, NEW p \in PaymentIds \cup {None},
         Dsp!Resolve(a, d, status, p)
  PROVE  DisputeInv'
<1> DEFINE where == IF status \in Dsp!Refunds THEN "MarkRefunded" ELSE "Resolve"
           x == [at |-> where, d |-> d, status |-> status, p |-> p]
<1>1. /\ dispute[d] # None /\ decisions' = [decisions EXCEPT ![a] = x]
      /\ status \in Dsp!Refunds => /\ p \in PaymentIds
                                   /\ BookingOf[p] = dispute[d].about
                                   /\ payment[p] = "paid"
      /\ UNCHANGED <<dispute, posts, technician, payment, marked,
                     confirming, remarked>>
  BY DEF Dsp!Resolve, Dsp!moneyVars
<1>2. /\ where \in {"MarkRefunded", "Resolve"}
      /\ where = "MarkRefunded" <=> status \in Dsp!Refunds
  OBVIOUS
<1> HIDE DEF where
<1>3. /\ x \in Dsp!Decision /\ x.at = where /\ x.d = d /\ x.status = status
      /\ x.p = p
  BY <1>2 DEF Dsp!Decision
<1> HIDE DEF x
<1>4. decisions'[a] = x
  BY <1>1, DisputeTypes
<1>5. DecisionOK(a)'
  BY <1>1, <1>2, <1>3, <1>4 DEF DecisionOK
<1> QED
  BY <1>1, <1>3, <1>5, MoneyUntouched, DecisionStep

LEMMA MarkRefundedStep ==
  ASSUME DisputeInv, NEW a \in Decisions, Dsp!DbMarkRefunded(a)
  PROVE  DisputeInv'
<1> DEFINE p == decisions[a].p
           x == [decisions[a] EXCEPT !.at = "SetRefunded"]
<1>1. /\ decisions[a].at = "MarkRefunded" /\ decisions[a] # Dsp!Idle
      /\ payment' = IF payment[p] = "paid"
                    THEN [payment EXCEPT ![p] = "refunded"] ELSE payment
      /\ UNCHANGED <<dispute, posts, technician, marked, confirming,
                     remarked>>
  BY DEF Dsp!DbMarkRefunded, Dsp!MarkRefunded, Dsp!Idle
<1>2. decisions[a] \in Dsp!Decision /\ DecisionOK(a)
  BY <1>1, DisputeTypes DEF DisputeInv
<1>3. /\ dispute[decisions[a].d] # None /\ decisions[a].status \in Dsp!Refunds
      /\ p \in PaymentIds /\ BookingOf[p] = dispute[decisions[a].d].about
      /\ payment[p] \in {"paid", "refunded"}
  BY <1>1, <1>2 DEF DecisionOK
<1>4. /\ x \in Dsp!Decision /\ x.at = "SetRefunded" /\ x.d = decisions[a].d
      /\ x.status = decisions[a].status /\ x.p = p
  BY <1>2 DEF Dsp!Decision
<1>5. decisions' = [decisions EXCEPT ![a] = x]
  BY DisputeTypes DEF Dsp!DbMarkRefunded, Dsp!Proceed
<1> HIDE DEF p, x
<1>6. MoneyStays /\ payment'[p] = "refunded"
  <2>1. CASE payment[p] = "paid"
    BY <1>1, <1>3, <2>1, DisputeTypes, PaymentMoves
  <2>2. CASE payment[p] = "refunded"
    BY <1>1, <1>3, <2>2, MoneyUntouched
  <2> QED
    BY <1>3, <2>1, <2>2
<1>7. decisions'[a] = x
  BY <1>5, DisputeTypes
<1>8. DecisionOK(a)'
  BY <1>1, <1>3, <1>4, <1>6, <1>7 DEF DecisionOK
<1> QED
  BY <1>1, <1>4, <1>5, <1>6, <1>8, DecisionStep

LEMMA SetRefundedStep ==
  ASSUME DisputeInv, NEW a \in Decisions, Dsp!DbSetRefunded(a)
  PROVE  DisputeInv'
<1> DEFINE d == decisions[a].d
           p == decisions[a].p
           x == [decisions[a] EXCEPT !.at = "Resolve"]
<1>1. /\ decisions[a].at = "SetRefunded" /\ decisions[a] # Dsp!Idle
      /\ marked' = [marked EXCEPT ![BookingOf[p]] = "refunded"]
      /\ remarked' = remarked \ {BookingOf[p]}
      /\ UNCHANGED <<dispute, posts, technician, payment, confirming>>
  BY DEF Dsp!DbSetRefunded, Dsp!SetRefunded, Dsp!Idle
<1>2. decisions[a] \in Dsp!Decision /\ DecisionOK(a)
  BY <1>1, DisputeTypes DEF DisputeInv
<1>3. /\ dispute[d] # None /\ decisions[a].status \in Dsp!Refunds
      /\ p \in PaymentIds /\ BookingOf[p] = dispute[d].about
      /\ payment[p] = "refunded"
  BY <1>1, <1>2 DEF DecisionOK
<1>4. /\ x \in Dsp!Decision /\ x.at = "Resolve" /\ x.d = d
      /\ x.status = decisions[a].status /\ x.p = p
  BY <1>2 DEF Dsp!Decision
<1>5. decisions' = [decisions EXCEPT ![a] = x]
  BY DisputeTypes DEF Dsp!DbSetRefunded, Dsp!Proceed
<1> HIDE DEF d, p, x
<1>6. BookingOf[p] \in PaidBookings
  BY <1>3, DisputeTypes
<1>7. MoneyStays /\ marked'[BookingOf[p]] = "refunded"
  BY <1>1, <1>6, DisputeTypes, MarkMoves
<1>8. decisions'[a] = x
  BY <1>5, DisputeTypes
<1>9. PaidBack(decisions[a].d)' /\ decisions'[a].d = d
  BY <1>1, <1>3, <1>4, <1>7, <1>8 DEF PaidBack, Shown, d
<1>10. DecisionOK(a)'
  BY <1>1, <1>3, <1>4, <1>8, <1>9 DEF DecisionOK
<1> QED
  BY <1>1, <1>4, <1>5, <1>7, <1>10, DecisionStep

LEMMA ResolvedStep ==
  ASSUME DisputeInv, NEW a \in Decisions, Dsp!DbResolve(a)
  PROVE  DisputeInv'
<1> DEFINE d == decisions[a].d
           status == decisions[a].status
           row == [dispute[d] EXCEPT !.status = status]
<1>1. /\ decisions[a].at = "Resolve" /\ decisions[a] # Dsp!Idle
      /\ decisions' = [decisions EXCEPT ![a] = Dsp!Idle]
      /\ UNCHANGED <<posts, technician, payment, marked, confirming,
                     remarked>>
  BY DEF Dsp!DbResolve, Dsp!Idle, Dsp!moneyVars
<1>2. /\ decisions[a] \in Dsp!Decision /\ DecisionOK(a) /\ d \in DisputeIds
      /\ status \in Dsp!Resolved
  BY <1>1, DisputeTypes DEF DisputeInv
<1>3. /\ dispute[d] \in Dsp!Dispute
      /\ status \in Dsp!Refunds => PaidBack(d)
  BY <1>1, <1>2, DisputeTypes DEF DecisionOK
<1>4. /\ row \in Dsp!Dispute /\ row.status = status
      /\ row.about = dispute[d].about
  BY <1>2, <1>3 DEF Dsp!Dispute
<1>5. dispute' = [dispute EXCEPT ![d] = row]
  BY <1>2, DisputeTypes DEF Dsp!DbResolve
<1> HIDE DEF d, status, row
<1>6. /\ dispute' \in [DisputeIds -> Dsp!Dispute \cup {None}]
      /\ dispute'[d] = row /\ row # None
      /\ \A e \in DisputeIds \ {d} : dispute'[e] = dispute[e]
  BY <1>2, <1>4, <1>5, DisputeTypes
<1>7. /\ decisions' \in [Decisions -> Dsp!Decision \cup {Dsp!Idle}]
      /\ \A c \in Decisions : decisions'[c] # Dsp!Idle =>
           decisions[c] # Dsp!Idle /\ decisions'[c] = decisions[c]
  BY <1>1, DisputeTypes
<1>8. /\ \A e \in DisputeIds :
           dispute[e] # None /\ PaidBack(e) => PaidBack(e)'
      /\ \A c \in Decisions :
           decisions[c] # Dsp!Idle /\ decisions'[c] = decisions[c] =>
             DecisionOK(c)'
  BY <1>1, <1>4, <1>6, MoneyUntouched, RefundsStay
<1>9. \A e \in DisputeIds : Dsp!RefundGranted(e)' => PaidBack(e)'
  BY <1>2, <1>3, <1>4, <1>6, <1>8, DisputeTypes
     DEF DisputeInv, Dsp!RefundGranted
<1>10. Dsp!TypeOK'
  BY <1>1, <1>6, <1>7 DEF DisputeInv, Dsp!TypeOK
<1> QED
  BY <1>7, <1>8, <1>9, <1>10 DEF DisputeInv

LEMMA DecisionAborted ==
  ASSUME DisputeInv, NEW a \in Decisions, Dsp!Abort(a)
  PROVE  DisputeInv'
<1>1. /\ decisions' = [decisions EXCEPT ![a] = Dsp!Idle]
      /\ UNCHANGED <<dispute, posts, technician, payment, marked,
                     confirming, remarked>>
  BY DEF Dsp!Abort, Dsp!moneyVars
<1> QED
  BY <1>1, MoneyUntouched, DecisionStep

LEMMA DisputeStep == ASSUME DisputeInv, [Dsp!Next]_disputeVars PROVE DisputeInv'
<1>1. CASE UNCHANGED disputeVars
  <2>1. /\ UNCHANGED <<dispute, payment, marked, confirming, remarked, decisions>>
        /\ Dsp!TypeOK'
    BY <1>1 DEF disputeVars, DisputeInv, Dsp!TypeOK
  <2> QED
    BY <2>1, MoneyUntouched, PartiesStep
<1>2. CASE Dsp!Next
  BY <1>2, WritesStep, MoneyStep, RaiseStep, ReviewStep, DisputeResolveStep,
     MarkRefundedStep, SetRefundedStep, ResolvedStep, DecisionAborted
     DEF Dsp!Next
<1> QED
  BY <1>1, <1>2

\* For any number of disputes, payments and decisions that cross or break off: a
\* dispute that ends in a refund has a payment of its booking refunded, and the
\* booking shown so unless a confirmation marked it paid afterwards.
THEOREM RefundsAreReal == Dsp!Spec => []RefundedIsPaidBack
<1>1. Dsp!Init => DisputeInv
  <2> SUFFICES ASSUME Dsp!Init PROVE DisputeInv
    OBVIOUS
  <2>1. Dsp!TypeOK
    BY DEF Dsp!Init, Dsp!TypeOK
  <2> QED
    BY <2>1 DEF Dsp!Init, DisputeInv, Dsp!RefundGranted
<1>2. DisputeInv /\ [Dsp!Next]_disputeVars => DisputeInv'
  BY DisputeStep
<1>3. DisputeInv => RefundedIsPaidBack
  BY DEF DisputeInv, PaidBack, Shown, RefundedIsPaidBack,
         Dsp!RefundedIsPaidBack
<1> QED
  BY <1>1, <1>2, <1>3, PTL
     DEF Dsp!Spec, Dsp!disputeVars, disputeVars

-----------------------------------------------------------------------------
(* Technicians: the invariant.                                               *)

\* The category shown first is one of those the technician is found under.
Filed(t) == technicians[t].primary \in technicians[t].serves

\* A registration is about to store the categories of t.
Pending(t) ==
  \E r \in Registrations : /\ registrations[r] # Tch!Idle
                           /\ registrations[r].at = "categories"
                           /\ registrations[r].id = t

RegistrationOK(r) ==
  registrations[r] # Tch!Idle =>
    /\ registrations[r].first \in registrations[r].chosen
    /\ registrations[r].at # "create" =>
         technicians[registrations[r].id] # None

\* What a boot has read of t is still the primary category, or t is filed.
BackfillOK(t) ==
  backfill[t] # None =>
    /\ technicians[t] # None
    /\ backfill[t] = technicians[t].primary \/ Filed(t)

ProfileInv ==
  /\ Tch!TypeOK
  /\ Tch!OneProfilePerUser
  /\ \A r \in Registrations : RegistrationOK(r)
  /\ \A t \in ProfileIds : technicians[t] # None =>
       /\ t \in uncategorised \/ Pending(t) \/ Filed(t)
       /\ technicians[t].serves # {} => Filed(t)
  /\ backfill # None => \A t \in ProfileIds : BackfillOK(t)

LEMMA ProfileTypes ==
  ASSUME ProfileInv
  PROVE  /\ technicians \in [ProfileIds -> Tch!Technician \cup {None}]
         /\ None \notin Tch!Technician
         /\ None \notin Providers \cup Categories
         /\ registrations \in
              [Registrations -> Tch!Registration \cup {Tch!Idle}]
         /\ \A t \in ProfileIds : technicians[t] # None =>
              /\ technicians[t] \in Tch!Technician
              /\ technicians[t].primary \in Categories
              /\ technicians[t].serves \subseteq Categories
         /\ Tch!Profiles = {t \in ProfileIds : technicians[t] # None}
<1>1. \A x \in Tch!Technician :
        x.primary \in Categories /\ x.serves \subseteq Categories
  BY DEF Tch!Technician
<1> QED
  BY <1>1, NullAssumption, PartsAssumption
     DEF ProfileInv, Tch!TypeOK, Tch!Profiles, Tch!NoUserAssumption

LEMMA RegistrationTypes ==
  ASSUME ProfileInv, NEW r \in Registrations
  PROVE  /\ registrations[r].at = "idle" <=> registrations[r] = Tch!Idle
         /\ registrations[r] # Tch!Idle =>
              /\ registrations[r] \in Tch!Registration
              /\ registrations[r].first \in Categories
              /\ registrations[r].chosen \subseteq Categories
              /\ registrations[r].first \in registrations[r].chosen
         /\ registrations[r].at = "create" =>
              registrations[r].user \in Providers
         /\ registrations[r].at \in {"categories", "approve"} =>
              /\ registrations[r].id \in ProfileIds
              /\ technicians[registrations[r].id] # None
<1>1. registrations[r] \in Tch!Registration \cup {Tch!Idle}
  BY ProfileTypes
<1>2. RegistrationOK(r)
  BY DEF ProfileInv
<1> QED
  BY <1>1, <1>2 DEF Tch!Registration, Tch!Idle, RegistrationOK

\* The same profiles, of the same users; what changes of categories is filed.
LEMMA ProfilesStay ==
  ASSUME ProfileInv, Tch!TypeOK', UNCHANGED backfill,
         \A t \in ProfileIds : technicians'[t] # None <=> technicians[t] # None,
         \A t \in ProfileIds : technicians[t] # None =>
           /\ technicians'[t].user = technicians[t].user
           /\ \/ /\ technicians'[t].primary = technicians[t].primary
                 /\ technicians'[t].serves = technicians[t].serves
              \/ Filed(t)',
         \A r \in Registrations :
           registrations'[r] = registrations[r] \/ RegistrationOK(r)',
         \A t \in ProfileIds :
           technicians[t] # None /\ (t \in uncategorised \/ Pending(t)) =>
             t \in uncategorised' \/ Pending(t)' \/ Filed(t)'
  PROVE  ProfileInv'
<1>1. Tch!OneProfilePerUser'
  BY DEF ProfileInv, Tch!OneProfilePerUser, Tch!Profiles
<1>2. ASSUME NEW r \in Registrations PROVE RegistrationOK(r)'
  <2>1. CASE registrations'[r] = registrations[r]
    <3>1. RegistrationOK(r)
      BY DEF ProfileInv
    <3>2. registrations[r] # Tch!Idle /\ registrations[r].at # "create" =>
            registrations[r].id \in ProfileIds
      BY RegistrationTypes, ProfileTypes DEF Tch!Registration
    <3> QED
      BY <2>1, <3>1, <3>2 DEF RegistrationOK
  <2> QED
    BY <2>1
<1>3. ASSUME NEW t \in ProfileIds, technicians'[t] # None
      PROVE  /\ t \in uncategorised' \/ Pending(t)' \/ Filed(t)'
             /\ technicians'[t].serves # {} => Filed(t)'
  BY <1>3 DEF ProfileInv, Filed
<1>4. ASSUME backfill' # None, NEW t \in ProfileIds PROVE BackfillOK(t)'
  <2>1. BackfillOK(t)
    BY <1>4 DEF ProfileInv
  <2> QED
    BY <2>1 DEF BackfillOK, Filed
<1> QED
  BY <1>1, <1>2, <1>3, <1>4 DEF ProfileInv

\* One profile, and nobody's registration, changes.
LEMMA RowStep ==
  ASSUME ProfileInv, NEW t \in ProfileIds, technicians[t] # None,
         NEW row \in Tch!Technician, row.user = technicians[t].user,
         \/ /\ row.primary = technicians[t].primary
            /\ row.serves = technicians[t].serves
            /\ UNCHANGED uncategorised
         \/ row.primary \in row.serves /\ uncategorised' = uncategorised \ {t},
         technicians' = [technicians EXCEPT ![t] = row],
         UNCHANGED <<registrations, backfill>>
  PROVE  ProfileInv'
<1>1. /\ technicians' \in [ProfileIds -> Tch!Technician \cup {None}]
      /\ technicians'[t] = row /\ row # None
      /\ \A v \in ProfileIds \ {t} : technicians'[v] = technicians[v]
  BY ProfileTypes
<1>2. Tch!TypeOK'
  BY <1>1 DEF ProfileInv, Tch!TypeOK
<1>3. \A v \in ProfileIds : Pending(v) => Pending(v)'
  BY DEF Pending
<1>4. row.primary \in row.serves => Filed(t)'
  BY <1>1 DEF Filed
<1> QED
  BY <1>1, <1>2, <1>3, <1>4, ProfilesStay

LEMMA UpdateCategoriesStep ==
  ASSUME ProfileInv, NEW t \in ProfileIds, NEW c \in Categories,
         NEW chosen \in SUBSET Categories, Tch!UpdateCategories(t, c, chosen)
  PROVE  ProfileInv'
<1> DEFINE row == [technicians[t] EXCEPT !.primary = c, !.serves = chosen]
<1>1. /\ technicians[t] \in Tch!Technician /\ technicians[t] # None
      /\ c \in chosen /\ uncategorised' = uncategorised \ {t}
      /\ UNCHANGED <<registrations, backfill>>
  BY ProfileTypes DEF Tch!UpdateCategories
<1>2. /\ row \in Tch!Technician /\ row.user = technicians[t].user
      /\ row.primary = c /\ row.serves = chosen
  BY <1>1 DEF Tch!Technician
<1>3. technicians' = [technicians EXCEPT ![t] = row]
  BY ProfileTypes DEF Tch!UpdateCategories, Tch!WithCategories
<1> HIDE DEF row
<1> QED
  BY <1>1, <1>2, <1>3, RowStep

LEMMA OfficeStep ==
  ASSUME ProfileInv, NEW t \in ProfileIds,
         \/ \E status \in {"approved", "rejected"} : Tch!Verify(t, status)
         \/ \E b \in BOOLEAN :
              Tch!SetVerifiedBadge(t, b) \/ Tch!SetAvailability(t, b)
  PROVE  ProfileInv'
<1>1. /\ technicians[t] \in Tch!Technician /\ technicians[t] # None
      /\ UNCHANGED <<registrations, backfill, uncategorised>>
  BY ProfileTypes DEF Tch!Verify, Tch!SetVerifiedBadge, Tch!SetAvailability
<1> DEFINE Rewritten(row) ==
             /\ row.user = technicians[t].user
             /\ row.primary = technicians[t].primary
             /\ row.serves = technicians[t].serves
             /\ technicians' = [technicians EXCEPT ![t] = row]
<1>2. \E row \in Tch!Technician : Rewritten(row)
  <2>1. CASE \E status \in {"approved", "rejected"} : Tch!Verify(t, status)
    <3>1. PICK status \in {"approved", "rejected"} : Tch!Verify(t, status)
      BY <2>1
    <3> DEFINE row == [technicians[t] EXCEPT !.approval = status,
                                             !.badge = (status = "approved")]
    <3>2. (status = "approved") \in BOOLEAN
      OBVIOUS
    <3>3. /\ row \in Tch!Technician /\ row.user = technicians[t].user
          /\ row.primary = technicians[t].primary
          /\ row.serves = technicians[t].serves
      BY <1>1, <3>2 DEF Tch!Technician
    <3>4. technicians' = [technicians EXCEPT ![t] = row]
      BY <3>1, ProfileTypes DEF Tch!Verify, Tch!WithApproval
    <3> HIDE DEF row
    <3> QED
      BY <3>3, <3>4
  <2>2. ASSUME NEW b \in BOOLEAN, Tch!SetVerifiedBadge(t, b)
        PROVE  \E row \in Tch!Technician : Rewritten(row)
    <3> DEFINE row == [technicians[t] EXCEPT !.badge = b]
    <3>1. /\ row \in Tch!Technician /\ row.user = technicians[t].user
          /\ row.primary = technicians[t].primary
          /\ row.serves = technicians[t].serves
      BY <1>1 DEF Tch!Technician
    <3>2. technicians' = [technicians EXCEPT ![t] = row]
      BY <2>2, ProfileTypes DEF Tch!SetVerifiedBadge
    <3> HIDE DEF row
    <3> QED
      BY <3>1, <3>2
  <2>3. ASSUME NEW b \in BOOLEAN, Tch!SetAvailability(t, b)
        PROVE  \E row \in Tch!Technician : Rewritten(row)
    <3> DEFINE row == [technicians[t] EXCEPT !.available = b]
    <3>1. /\ row \in Tch!Technician /\ row.user = technicians[t].user
          /\ row.primary = technicians[t].primary
          /\ row.serves = technicians[t].serves
      BY <1>1 DEF Tch!Technician
    <3>2. technicians' = [technicians EXCEPT ![t] = row]
      BY <2>3, ProfileTypes DEF Tch!SetAvailability
    <3> HIDE DEF row
    <3> QED
      BY <3>1, <3>2
  <2> QED
    BY <2>1, <2>2, <2>3
<1> QED
  BY <1>1, <1>2, RowStep

\* A registration begins, goes from storing the approval to its end, or fails.
LEMMA RegisterStep ==
  ASSUME ProfileInv, NEW r \in Registrations, NEW u \in Providers,
         NEW c \in Categories, NEW chosen \in SUBSET Categories,
         Tch!RegisterTechnician(r, u, c, chosen)
  PROVE  ProfileInv'
<1> DEFINE x == [at |-> "create", user |-> u, first |-> c, chosen |-> chosen]
<1>1. /\ registrations[r] = Tch!Idle /\ c \in chosen
      /\ registrations' = [registrations EXCEPT ![r] = x]
      /\ UNCHANGED <<technicians, backfill, uncategorised>>
  BY DEF Tch!RegisterTechnician
<1>2. /\ x \in Tch!Registration /\ x.at = "create"
      /\ x.first = c /\ x.chosen = chosen
  BY DEF Tch!Registration
<1> HIDE DEF x
<1>3. /\ registrations' \in [Registrations -> Tch!Registration \cup {Tch!Idle}]
      /\ registrations'[r] = x
      /\ \A s \in Registrations \ {r} : registrations'[s] = registrations[s]
  BY <1>1, <1>2, ProfileTypes
<1>4. Tch!TypeOK'
  BY <1>1, <1>3 DEF ProfileInv, Tch!TypeOK
<1>5. \A t \in ProfileIds : Pending(t) => Pending(t)'
  BY <1>1, <1>3 DEF Pending
<1>6. RegistrationOK(r)'
  BY <1>1, <1>2, <1>3 DEF RegistrationOK
<1> QED
  BY <1>1, <1>3, <1>4, <1>5, <1>6, ProfilesStay

LEMMA FailStep ==
  ASSUME ProfileInv, NEW r \in Registrations, Tch!RegistrationFails(r)
  PROVE  ProfileInv'
<1>1. /\ registrations[r] # Tch!Idle
      /\ registrations' = [registrations EXCEPT ![r] = Tch!Idle]
      /\ uncategorised \subseteq uncategorised'
      /\ registrations[r].at = "categories" =>
           registrations[r].id \in uncategorised'
      /\ uncategorised' \subseteq ProfileIds
      /\ UNCHANGED <<technicians, backfill>>
  BY RegistrationTypes DEF Tch!RegistrationFails, ProfileInv, Tch!TypeOK
<1>2. /\ registrations' \in [Registrations -> Tch!Registration \cup {Tch!Idle}]
      /\ registrations'[r] = Tch!Idle
      /\ \A s \in Registrations \ {r} : registrations'[s] = registrations[s]
  BY <1>1, ProfileTypes
<1>3. Tch!TypeOK'
  BY <1>1, <1>2 DEF ProfileInv, Tch!TypeOK
<1>4. RegistrationOK(r)'
  BY <1>2 DEF RegistrationOK
<1>5. \A t \in ProfileIds : Pending(t) => Pending(t)' \/ t \in uncategorised'
  BY <1>1, <1>2 DEF Pending
<1> QED
  BY <1>1, <1>2, <1>3, <1>4, <1>5, ProfilesStay

LEMMA AutoApproveStep ==
  ASSUME ProfileInv, NEW r \in Registrations, Tch!DbAutoApprove(r)
  PROVE  ProfileInv'
<1> DEFINE t == registrations[r].id
           row == [technicians[t] EXCEPT !.approval = "approved",
                                         !.badge = ("approved" = "approved")]
<1>1. /\ registrations[r].at = "approve" /\ registrations[r] # Tch!Idle
      /\ registrations' = [registrations EXCEPT ![r] = Tch!Idle]
      /\ technicians' = [technicians EXCEPT ![t].approval = "approved",
                           ![t].badge = ("approved" = "approved")]
      /\ UNCHANGED <<backfill, uncategorised>>
  BY DEF Tch!DbAutoApprove, Tch!WithApproval, Tch!Idle
<1>2. /\ t \in ProfileIds /\ technicians[t] # None
      /\ technicians[t] \in Tch!Technician
  BY <1>1, RegistrationTypes, ProfileTypes
<1>3. /\ row \in Tch!Technician /\ row.user = technicians[t].user
      /\ row.primary = technicians[t].primary
      /\ row.serves = technicians[t].serves
  BY <1>2 DEF Tch!Technician
<1>4. technicians' = [technicians EXCEPT ![t] = row]
  BY <1>1, <1>2, ProfileTypes
<1> HIDE DEF t, row
<1>5. /\ technicians' \in [ProfileIds -> Tch!Technician \cup {None}]
      /\ technicians'[t] = row /\ row # None
      /\ \A v \in ProfileIds \ {t} : technicians'[v] = technicians[v]
  BY <1>2, <1>3, <1>4, ProfileTypes
<1>6. /\ registrations' \in [Registrations -> Tch!Registration \cup {Tch!Idle}]
      /\ registrations'[r] = Tch!Idle
      /\ \A s \in Registrations \ {r} : registrations'[s] = registrations[s]
  BY <1>1, ProfileTypes
<1>7. Tch!TypeOK'
  BY <1>1, <1>5, <1>6 DEF ProfileInv, Tch!TypeOK
<1>8. RegistrationOK(r)'
  BY <1>6 DEF RegistrationOK
<1>9. \A v \in ProfileIds : Pending(v) => Pending(v)'
  BY <1>1, <1>6 DEF Pending
<1> QED
  BY <1>1, <1>2, <1>3, <1>5, <1>6, <1>7, <1>8, <1>9, ProfilesStay

LEMMA SetCategoriesStep ==
  ASSUME ProfileInv, NEW r \in Registrations, Tch!DbSetCategories(r)
  PROVE  ProfileInv'
<1> DEFINE t == registrations[r].id
           c == registrations[r].first
           chosen == registrations[r].chosen
           row == [technicians[t] EXCEPT !.primary = c, !.serves = chosen]
           x == [registrations[r] EXCEPT !.at = "approve"]
<1>1. /\ registrations[r].at = "categories" /\ registrations[r] # Tch!Idle
      /\ technicians' = [technicians EXCEPT ![t].primary = c,
                                            ![t].serves = chosen]
      /\ UNCHANGED <<backfill, uncategorised>>
  BY DEF Tch!DbSetCategories, Tch!WithCategories, Tch!Idle
<1>2. /\ t \in ProfileIds /\ technicians[t] # None
      /\ technicians[t] \in Tch!Technician
      /\ c \in Categories /\ chosen \subseteq Categories /\ c \in chosen
      /\ registrations[r] \in Tch!Registration
  BY <1>1, RegistrationTypes, ProfileTypes
<1>3. /\ row \in Tch!Technician /\ row.user = technicians[t].user
      /\ row.primary = c /\ row.serves = chosen
  BY <1>2 DEF Tch!Technician
<1>4. technicians' = [technicians EXCEPT ![t] = row]
  BY <1>1, <1>2, ProfileTypes
<1>5. /\ x \in Tch!Registration /\ x.at = "approve" /\ x.id = t
      /\ x.first = c /\ x.chosen = chosen
  BY <1>1, <1>2 DEF Tch!Registration
<1>6. registrations' = [registrations EXCEPT ![r] = x]
  BY ProfileTypes DEF Tch!DbSetCategories
<1> HIDE DEF t, c, chosen, row, x
<1>7. /\ technicians' \in [ProfileIds -> Tch!Technician \cup {None}]
      /\ technicians'[t] = row /\ row # None
      /\ \A v \in ProfileIds \ {t} : technicians'[v] = technicians[v]
  BY <1>2, <1>3, <1>4, ProfileTypes
<1>8. /\ registrations' \in [Registrations -> Tch!Registration \cup {Tch!Idle}]
      /\ registrations'[r] = x
      /\ \A s \in Registrations \ {r} : registrations'[s] = registrations[s]
  BY <1>5, <1>6, ProfileTypes
<1>9. Tch!TypeOK'
  BY <1>1, <1>7, <1>8 DEF ProfileInv, Tch!TypeOK
<1>10. RegistrationOK(r)'
  BY <1>2, <1>5, <1>7, <1>8 DEF RegistrationOK
<1>11. \A v \in ProfileIds \ {t} : Pending(v) => Pending(v)'
  BY <1>8 DEF Pending, t
<1>12. technicians'[t].primary \in technicians'[t].serves
  BY <1>2, <1>3, <1>7
<1>13. \A v \in ProfileIds : technicians[v] # None =>
         /\ technicians'[v] # None
         /\ technicians'[v].user = technicians[v].user
         /\ \/ v # t /\ technicians'[v] = technicians[v]
            \/ Filed(v)'
  BY <1>3, <1>7, <1>12 DEF Filed
<1> QED
  BY <1>1, <1>2, <1>7, <1>8, <1>9, <1>10, <1>11, <1>13, ProfilesStay

\* The new profile is the user's only one, and its categories are to follow.
LEMMA CreateProfileStep ==
  ASSUME ProfileInv, NEW r \in Registrations, NEW t \in ProfileIds,
         Tch!DbCreate(r, t)
  PROVE  ProfileInv'
<1> DEFINE u == registrations[r].user
           c == registrations[r].first
           chosen == registrations[r].chosen
           row == [user |-> u, primary |-> c, serves |-> {},
                   approval |-> "pending", badge |-> FALSE, available |-> TRUE]
           x == [at |-> "categories", id |-> t, first |-> c, chosen |-> chosen]
<1>1. /\ registrations[r].at = "create" /\ registrations[r] # Tch!Idle
      /\ technicians[t] = None
      /\ \A v \in ProfileIds : technicians[v] # None => technicians[v].user # u
      /\ technicians' = [technicians EXCEPT ![t] = row]
      /\ registrations' = [registrations EXCEPT ![r] = x]
      /\ UNCHANGED <<backfill, uncategorised>>
  BY ProfileTypes DEF Tch!DbCreate, Tch!Insert, Tch!Idle, Tch!HasProfile
<1>2. /\ u \in Providers /\ c \in Categories /\ chosen \subseteq Categories
      /\ c \in chosen
  BY <1>1, RegistrationTypes
<1>3. row \in Tch!Technician /\ row.user = u /\ row.serves = {}
  BY <1>2 DEF Tch!Technician
<1>4. /\ x \in Tch!Registration /\ x.at = "categories" /\ x.id = t
      /\ x.first = c /\ x.chosen = chosen
  BY <1>2 DEF Tch!Registration
<1>5. x # Tch!Idle
  BY DEF Tch!Idle
<1> HIDE DEF u, c, chosen, row, x
<1>6. /\ technicians' \in [ProfileIds -> Tch!Technician \cup {None}]
      /\ technicians'[t] = row /\ row # None
      /\ \A v \in ProfileIds \ {t} : technicians'[v] = technicians[v]
  BY <1>1, <1>3, ProfileTypes
<1>7. /\ registrations' \in [Registrations -> Tch!Registration \cup {Tch!Idle}]
      /\ registrations'[r] = x
      /\ \A s \in Registrations \ {r} : registrations'[s] = registrations[s]
  BY <1>1, <1>4, ProfileTypes
<1>8. Tch!TypeOK'
  BY <1>1, <1>6, <1>7 DEF ProfileInv, Tch!TypeOK
<1>9. Tch!OneProfilePerUser'
  BY <1>1, <1>3, <1>6 DEF ProfileInv, Tch!OneProfilePerUser, Tch!Profiles
<1>10. ASSUME NEW s \in Registrations PROVE RegistrationOK(s)'
  <2>1. CASE s = r
    BY <1>2, <1>4, <1>6, <1>7, <2>1 DEF RegistrationOK
  <2>2. CASE s # r
    <3>1. RegistrationOK(s)
      BY DEF ProfileInv
    <3>2. registrations[s] # Tch!Idle /\ registrations[s].at # "create" =>
            registrations[s].id \in ProfileIds
      BY RegistrationTypes, ProfileTypes DEF Tch!Registration
    <3> QED
      BY <1>6, <1>7, <2>2, <3>1, <3>2 DEF RegistrationOK
  <2> QED
    BY <2>1, <2>2
<1>11. Pending(t)' /\ \A v \in ProfileIds : Pending(v) => Pending(v)'
  BY <1>1, <1>4, <1>5, <1>7 DEF Pending
<1>12. \A v \in ProfileIds : technicians'[v] # None =>
         /\ v \in uncategorised' \/ Pending(v)' \/ Filed(v)'
         /\ technicians'[v].serves # {} => Filed(v)'
  BY <1>1, <1>3, <1>6, <1>11 DEF ProfileInv, Filed
<1>13. ASSUME backfill' # None, NEW v \in ProfileIds PROVE BackfillOK(v)'
  <2>1. BackfillOK(v)
    BY <1>1, <1>13 DEF ProfileInv
  <2> QED
    BY <1>1, <1>6, <2>1 DEF BackfillOK, Filed
<1> QED
  BY <1>8, <1>9, <1>10, <1>12, <1>13 DEF ProfileInv

\* A boot reads, and later writes what it has read.
LEMMA BootStep == ASSUME ProfileInv, Tch!Boot PROVE ProfileInv'
<1>1. /\ UNCHANGED <<technicians, registrations, uncategorised>>
      /\ backfill' = [t \in ProfileIds |->
           IF technicians[t] # None THEN technicians[t].primary ELSE None]
  BY ProfileTypes DEF Tch!Boot
<1>2. backfill' \in [ProfileIds -> Categories \cup {None}]
  BY <1>1, ProfileTypes
<1>3. Tch!TypeOK'
  BY <1>1, <1>2 DEF ProfileInv, Tch!TypeOK
<1>4. \A t \in ProfileIds : BackfillOK(t)'
  BY <1>1 DEF BackfillOK
<1> QED
  BY <1>1, <1>3, <1>4
     DEF ProfileInv, Tch!OneProfilePerUser, Tch!Profiles, RegistrationOK,
         Pending, Filed

LEMMA BackfillStep == ASSUME ProfileInv, Tch!DbBackfill PROVE ProfileInv'
<1>1. /\ backfill # None /\ backfill' = None /\ UNCHANGED registrations
      /\ backfill \in [ProfileIds -> Categories \cup {None}]
      /\ uncategorised' = {t \in uncategorised : backfill[t] = None}
      /\ technicians' = [t \in ProfileIds |->
           IF backfill[t] = None THEN technicians[t]
           ELSE [technicians[t] EXCEPT !.serves = @ \cup {backfill[t]}]]
  BY DEF Tch!DbBackfill, ProfileInv, Tch!TypeOK
<1>2. ASSUME NEW t \in ProfileIds
      PROVE  /\ technicians'[t] \in Tch!Technician \cup {None}
             /\ technicians'[t] # None <=> technicians[t] # None
             /\ backfill[t] = None => technicians'[t] = technicians[t]
             /\ backfill[t] # None =>
                  technicians'[t].user = technicians[t].user /\ Filed(t)'
  <2>1. CASE backfill[t] = None
    BY <1>1, <2>1, ProfileTypes
  <2>2. CASE backfill[t] # None
    <3> DEFINE row ==
          [technicians[t] EXCEPT !.serves = @ \cup {backfill[t]}]
    <3>1. /\ technicians[t] # None /\ technicians[t] \in Tch!Technician
          /\ backfill[t] \in Categories
          /\ backfill[t] = technicians[t].primary \/ Filed(t)
      BY <1>1, <2>2, ProfileTypes DEF ProfileInv, BackfillOK
    <3>2. /\ row \in Tch!Technician /\ row.user = technicians[t].user
          /\ row.primary = technicians[t].primary
          /\ row.serves = technicians[t].serves \cup {backfill[t]}
      BY <3>1 DEF Tch!Technician
    <3>3. technicians'[t] = row
      BY <1>1, <2>2
    <3> HIDE DEF row
    <3> QED
      BY <2>2, <3>1, <3>2, <3>3, ProfileTypes DEF Filed
  <2> QED
    BY <2>1, <2>2
<1>3. Tch!TypeOK'
  <2>1. technicians' \in [ProfileIds -> Tch!Technician \cup {None}]
    BY <1>1, <1>2
  <2> QED
    BY <1>1, <2>1 DEF ProfileInv, Tch!TypeOK
<1>4. \A t \in ProfileIds : technicians'[t].user = technicians[t].user
  BY <1>2
<1>5. Tch!OneProfilePerUser'
  BY <1>2, <1>4 DEF ProfileInv, Tch!OneProfilePerUser, Tch!Profiles
<1>6. ASSUME NEW r \in Registrations PROVE RegistrationOK(r)'
  <2>1. RegistrationOK(r)
    BY DEF ProfileInv
  <2>2. registrations[r] # Tch!Idle /\ registrations[r].at # "create" =>
          registrations[r].id \in ProfileIds
    BY RegistrationTypes, ProfileTypes DEF Tch!Registration
  <2> QED
    BY <1>1, <1>2, <2>1, <2>2 DEF RegistrationOK
<1>7. \A t \in ProfileIds : Pending(t) => Pending(t)'
  BY <1>1 DEF Pending
<1>8. \A t \in ProfileIds : technicians'[t] # None =>
        /\ t \in uncategorised' \/ Pending(t)' \/ Filed(t)'
        /\ technicians'[t].serves # {} => Filed(t)'
  BY <1>1, <1>2, <1>7 DEF ProfileInv, Filed
<1> QED
  BY <1>1, <1>3, <1>5, <1>6, <1>8 DEF ProfileInv

LEMMA ProfileStep ==
  ASSUME ProfileInv, [Tch!Next]_technicianVars PROVE ProfileInv'
<1>1. CASE UNCHANGED technicianVars
  BY <1>1
     DEF technicianVars, ProfileInv, Tch!TypeOK, Tch!OneProfilePerUser,
         Tch!Profiles, RegistrationOK, Pending, Filed, BackfillOK
<1>2. CASE Tch!Next
  BY <1>2, BootStep, BackfillStep, RegisterStep, CreateProfileStep,
     SetCategoriesStep, AutoApproveStep, FailStep, UpdateCategoriesStep,
     OfficeStep
     DEF Tch!Next
<1> QED
  BY <1>1, <1>2

\* For any number of users, registrations and boots: a user has one profile, the
\* primary category is served, and who is approved and available is found.
THEOREM ProfilesStayFound == Tch!Spec => []ProfilesAreConsistent
<1>1. Tch!Init => ProfileInv
  BY DEF Tch!Init, ProfileInv, Tch!TypeOK, Tch!OneProfilePerUser, Tch!Profiles,
         RegistrationOK
<1>2. ProfileInv /\ [Tch!Next]_technicianVars => ProfileInv'
  BY ProfileStep
<1>3. ProfileInv => ProfilesAreConsistent
  <2> SUFFICES ASSUME ProfileInv PROVE ProfilesAreConsistent
    OBVIOUS
  <2>1. Tch!PrimaryIsServed
    BY ProfileTypes DEF ProfileInv, Tch!PrimaryIsServed, Filed
  <2>2. ASSUME NEW t \in Tch!Profiles \ uncategorised,
               \A r \in Registrations : registrations[r] # Tch!Idle =>
                 ~(registrations[r].at = "categories"
                     /\ registrations[r].id = t)
        PROVE  Filed(t)
    BY <2>2, ProfileTypes DEF ProfileInv, Pending
  <2>3. Tch!ApprovedIsFound
    BY <2>2 DEF Tch!ApprovedIsFound, Tch!ListAvailableByCategory,
                Tch!ListPublic, Filed
  <2> QED
    BY <2>1, <2>3 DEF ProfileInv, ProfilesAreConsistent
<1> QED
  BY <1>1, <1>2, <1>3, PTL DEF Tch!Spec, Tch!technicianVars, technicianVars

-----------------------------------------------------------------------------
(* Accounts: the invariant.                                                  *)

\* The writes that are about an account already found.
OfAccount == {"link", "otp", "emailOtp", "activate", "markEmail", "clearEmail"}

\* A phone number a code was generated for.
Challenged(phone) == phone \in Phones /\ issued[phone] # {}

\* What a call that stands at its write has read stays so: no account is ever
\* deleted, and none changes its phone number.
SignInOK(r) ==
  /\ calling[r].at \in OfAccount => users[calling[r].user] # None
  /\ calling[r].at = "otp" => users[calling[r].user].phone \in Phones
  /\ calling[r].at = "activate" => Challenged(users[calling[r].user].phone)

\* The columns of a row that hold of the phone code.
CodeOK(row) ==
  /\ row.otp # None => row.phone \in Phones /\ row.otp \in issued[row.phone]
  /\ row.phoneVerified => Challenged(row.phone)

AccountInv ==
  /\ Acc!TypeOK
  /\ Acc!OneAccountPerIdentity
  /\ \A u \in AccountIds : users[u] # None => CodeOK(users[u])
  /\ \A r \in SignIns : SignInOK(r)

LEMMA AccountTypes ==
  ASSUME AccountInv
  PROVE  /\ users \in [AccountIds -> Acc!User \cup {None}]
         /\ None \notin Acc!User
         /\ None \notin Codes
         /\ calling \in [SignIns -> Acc!Request \cup {Acc!Idle}]
         /\ issued \in [Phones -> SUBSET Codes]
         /\ Acc!Accounts = {u \in AccountIds : users[u] # None}
         /\ \A u \in Acc!Accounts : users[u] \in Acc!User
         /\ GoogleEmail \in [Googles -> Emails]
  BY NullAssumption, PartsAssumption
     DEF AccountInv, Acc!TypeOK, Acc!Accounts, Acc!GoogleEmailAssumption

LEMMA SignInTypes ==
  ASSUME AccountInv, NEW r \in SignIns
  PROVE  /\ calling[r].at \in {"signup", "newPhone"} =>
              calling[r].phone \in Phones
         /\ calling[r].at = "signup" => calling[r].email \in Emails
         /\ calling[r].at \in {"googleRead", "newGoogle", "link"} =>
              calling[r].google \in Googles
         /\ calling[r].at \in OfAccount =>
              /\ calling[r].user \in AccountIds
              /\ users[calling[r].user] # None
              /\ users[calling[r].user] \in Acc!User
  BY AccountTypes
     DEF Acc!Request, Acc!Idle, OfAccount, AccountInv, SignInOK

\* No account goes, or changes its number, and no code is forgotten.
AccountsStay ==
  /\ \A u \in AccountIds : users[u] # None =>
       users'[u] # None /\ users'[u].phone = users[u].phone
  /\ issued' \in [Phones -> SUBSET Codes]
  /\ \A p \in Phones : issued[p] \subseteq issued'[p]

LEMMA SignInsStay ==
  ASSUME AccountInv, AccountsStay, NEW r \in SignIns, calling'[r] = calling[r]
  PROVE  SignInOK(r)'
<1>1. SignInOK(r)
  BY DEF AccountInv
<1>2. calling[r].at \in OfAccount =>
        calling[r].user \in AccountIds /\ users[calling[r].user] # None
  BY SignInTypes
<1> QED
  BY <1>1, <1>2 DEF SignInOK, AccountsStay, OfAccount, Challenged

\* A call moves on, and nothing is written.
LEMMA CallMoves ==
  ASSUME AccountInv, NEW r \in SignIns, NEW x \in Acc!Request \cup {Acc!Idle},
         calling' = [calling EXCEPT ![r] = x], UNCHANGED <<users, issued>>,
         SignInOK(r)'
  PROVE  AccountInv'
<1>1. /\ calling' \in [SignIns -> Acc!Request \cup {Acc!Idle}]
      /\ \A s \in SignIns \ {r} : calling'[s] = calling[s]
  BY AccountTypes
<1>2. Acc!TypeOK' /\ AccountsStay
  BY <1>1 DEF AccountInv, Acc!TypeOK, AccountsStay
<1>3. \A s \in SignIns : SignInOK(s)'
  BY <1>1, <1>2, SignInsStay
<1> QED
  BY <1>2, <1>3
     DEF AccountInv, Acc!OneAccountPerIdentity, Acc!Accounts, CodeOK, Challenged

\* Row u is written, its unique columns free.
LEMMA RowWritten ==
  ASSUME AccountInv, NEW u \in AccountIds, NEW row \in Acc!User,
         Acc!Update(u, row),
         users[u] # None => row.phone = users[u].phone,
         issued' \in [Phones -> SUBSET Codes],
         \A p \in Phones : issued[p] \subseteq issued'[p],
         row.otp # None =>
           row.phone \in Phones /\ row.otp \in issued'[row.phone],
         row.phoneVerified => row.phone \in Phones /\ issued'[row.phone] # {},
         calling' \in [SignIns -> Acc!Request \cup {Acc!Idle}],
         \A r \in SignIns : calling'[r] = calling[r] \/ SignInOK(r)'
  PROVE  AccountInv'
<1>1. /\ users' \in [AccountIds -> Acc!User \cup {None}]
      /\ users'[u] = row /\ row # None
      /\ \A v \in AccountIds \ {u} : users'[v] = users[v]
  BY AccountTypes DEF Acc!Update
<1>2. Acc!TypeOK' /\ AccountsStay
  BY <1>1 DEF Acc!TypeOK, AccountsStay
<1>3. \A s \in SignIns : SignInOK(s)'
  BY <1>2, SignInsStay
<1>4. ASSUME NEW v \in AccountIds, users'[v] # None PROVE CodeOK(users[v])'
  <2>1. CASE v = u
    BY <1>1, <2>1 DEF CodeOK, Challenged
  <2>2. CASE v # u
    <3>1. CodeOK(users[v]) /\ users'[v] = users[v]
      BY <1>1, <1>4, <2>2 DEF AccountInv
    <3> QED
      BY <3>1 DEF CodeOK, Challenged
  <2> QED
    BY <2>1, <2>2
<1>5. Acc!OneAccountPerIdentity'
  <2>1. \A v \in AccountIds \ {u} :
          users[v] # None => \A column \in {"phone", "email", "google"} :
            row[column] # None => users[v][column] # row[column]
    BY AccountTypes DEF Acc!Update, Acc!Free
  <2> SUFFICES ASSUME NEW v \in AccountIds, NEW w \in AccountIds,
                      users'[v] # None, users'[w] # None, v # w,
                      NEW column \in {"phone", "email", "google"},
                      users'[v][column] # None
               PROVE  users'[v][column] # users'[w][column]
    BY DEF Acc!OneAccountPerIdentity, Acc!Accounts
  <2>2. CASE v # u /\ w # u
    BY <1>1, <2>2 DEF AccountInv, Acc!OneAccountPerIdentity, Acc!Accounts
  <2>3. CASE v = u
    BY <1>1, <2>1, <2>3
  <2>4. CASE w = u
    BY <1>1, <2>1, <2>4
  <2> QED
    BY <2>2, <2>3, <2>4
<1> QED
  BY <1>2, <1>3, <1>4, <1>5 DEF AccountInv

-----------------------------------------------------------------------------
(* Accounts: the steps.                                                      *)

\* A call that finds no account.
LEMMA NobodyFound ==
  ASSUME AccountInv, NEW r \in SignIns,
         \/ \E p \in Phones : Acc!Begin(r, [at |-> "newPhone", phone |-> p])
         \/ \E p \in Phones, e \in Emails : Acc!SignupWithPassword(r, p, e)
         \/ \E g \in Googles : Acc!LoginWithGoogle(r, g)
  PROVE  AccountInv'
<1>1. PICK x \in Acc!Request :
        /\ x.at \in {"newPhone", "signup", "googleRead"}
        /\ calling' = [calling EXCEPT ![r] = x]
        /\ UNCHANGED <<users, issued>>
  BY DEF Acc!Begin, Acc!SignupWithPassword, Acc!LoginWithGoogle, Acc!Request
<1>2. calling'[r] = x
  BY <1>1, AccountTypes
<1>3. SignInOK(r)'
  BY <1>1, <1>2 DEF SignInOK, OfAccount
<1> QED
  BY <1>1, <1>3, CallMoves

\* A call that finds account u.
LEMMA AccountFound ==
  ASSUME AccountInv, NEW r \in SignIns, NEW u \in Acc!Accounts,
         NEW where \in OfAccount \ {"link"},
         Acc!Begin(r, [at |-> where, user |-> u]),
         where = "otp" => users[u].phone \in Phones,
         where = "activate" => Challenged(users[u].phone)
  PROVE  AccountInv'
<1> DEFINE x == [at |-> where, user |-> u]
<1>1. u \in AccountIds /\ users[u] # None
  BY AccountTypes
<1>2. x \in Acc!Request /\ x.at = where /\ x.user = u
  BY <1>1 DEF Acc!Request, OfAccount
<1>3. /\ calling' = [calling EXCEPT ![r] = x]
      /\ UNCHANGED <<users, issued>>
  BY DEF Acc!Begin
<1> HIDE DEF x
<1>4. calling'[r] = x
  BY <1>3, AccountTypes
<1>5. SignInOK(r)'
  BY <1>1, <1>2, <1>3, <1>4 DEF SignInOK, Challenged
<1> QED
  BY <1>2, <1>3, <1>5, CallMoves

LEMMA RequestsStep ==
  ASSUME AccountInv, NEW r \in SignIns,
         \/ \E p \in Phones : Acc!RequestOTP(r, p)
         \/ \E p \in Phones, c \in Codes : Acc!VerifyOTP(r, p, c)
         \/ \E e \in Emails :
              Acc!RequestEmailCode(r, e) \/ Acc!ResetPassword(r, e)
         \/ \E e \in Emails, c \in Codes : Acc!VerifyEmailOTP(r, e, c)
  PROVE  AccountInv'
<1>1. ASSUME NEW p \in Phones, Acc!RequestOTP(r, p) PROVE AccountInv'
  <2>1. CASE Acc!Begin(r, [at |-> "newPhone", phone |-> p])
    BY <2>1, NobodyFound
  <2>2. CASE \E u \in Acc!Accounts : /\ users[u].phone = p
                                     /\ Acc!Begin(r, [at |-> "otp", user |-> u])
    BY <2>2, AccountFound DEF OfAccount
  <2> QED
    BY <1>1, <2>1, <2>2 DEF Acc!RequestOTP
<1>2. ASSUME NEW p \in Phones, NEW c \in Codes, Acc!VerifyOTP(r, p, c)
      PROVE  AccountInv'
  <2>1. PICK u \in Acc!Accounts :
          /\ users[u].phone = p /\ users[u].otp = c
          /\ Acc!Begin(r, [at |-> "activate", user |-> u])
    BY <1>2 DEF Acc!VerifyOTP
  <2>2. users[u].otp # None /\ CodeOK(users[u])
    BY <2>1, AccountTypes DEF AccountInv
  <2>3. Challenged(users[u].phone)
    BY <2>2 DEF CodeOK, Challenged
  <2> QED
    BY <2>1, <2>3, AccountFound DEF OfAccount
<1>3. ASSUME NEW u \in Acc!Accounts,
             NEW where \in {"emailOtp", "clearEmail", "markEmail"},
             Acc!Begin(r, [at |-> where, user |-> u])
      PROVE  AccountInv'
  BY <1>3, AccountFound DEF OfAccount
<1> QED
  BY <1>1, <1>2, <1>3
     DEF Acc!RequestEmailCode, Acc!ResetPassword, Acc!VerifyEmailOTP

LEMMA GetByEmailStep ==
  ASSUME AccountInv, NEW r \in SignIns, Acc!GoogleGetByEmail(r)
  PROVE  AccountInv'
<1>1. calling[r].google \in Googles /\ UNCHANGED <<users, issued>>
  BY SignInTypes DEF Acc!GoogleGetByEmail, Acc!At
<1>2. \E x \in Acc!Request :
        /\ calling' = [calling EXCEPT ![r] = x]
        /\ \/ x.at = "newGoogle"
           \/ x.at = "link" /\ users[x.user] # None
  <2>1. CASE Acc!Continue(r, [at |-> "newGoogle", google |-> calling[r].google])
    <3> DEFINE x == [at |-> "newGoogle", google |-> calling[r].google]
    <3>1. x \in Acc!Request /\ x.at = "newGoogle"
      BY <1>1 DEF Acc!Request
    <3>2. calling' = [calling EXCEPT ![r] = x]
      BY <2>1 DEF Acc!Continue
    <3> HIDE DEF x
    <3> QED
      BY <3>1, <3>2
  <2>2. CASE \E u \in Acc!Accounts : Acc!Continue(r,
               [at |-> "link", google |-> calling[r].google, user |-> u])
    <3>1. PICK u \in Acc!Accounts : Acc!Continue(r,
            [at |-> "link", google |-> calling[r].google, user |-> u])
      BY <2>2
    <3> DEFINE x == [at |-> "link", google |-> calling[r].google, user |-> u]
    <3>2. x \in Acc!Request /\ x.at = "link" /\ x.user = u
      BY <1>1, AccountTypes DEF Acc!Request
    <3>3. calling' = [calling EXCEPT ![r] = x]
      BY <3>1 DEF Acc!Continue
    <3> HIDE DEF x
    <3> QED
      BY <3>2, <3>3, AccountTypes
  <2> QED
    BY <2>1, <2>2 DEF Acc!GoogleGetByEmail
<1>3. PICK x \in Acc!Request :
        /\ calling' = [calling EXCEPT ![r] = x]
        /\ \/ x.at = "newGoogle"
           \/ x.at = "link" /\ users[x.user] # None
  BY <1>2
<1>4. calling'[r] = x
  BY <1>3, AccountTypes
<1>5. SignInOK(r)'
  BY <1>1, <1>3, <1>4 DEF SignInOK, OfAccount
<1> QED
  BY <1>1, <1>3, <1>5, CallMoves

\* A call writes row u, and is over.
LEMMA LastWrite ==
  ASSUME AccountInv, NEW r \in SignIns, NEW u \in AccountIds,
         NEW row \in Acc!User, Acc!Update(u, row), Acc!End(r),
         users[u] # None => row.phone = users[u].phone,
         issued' \in [Phones -> SUBSET Codes],
         \A p \in Phones : issued[p] \subseteq issued'[p],
         row.otp # None =>
           row.phone \in Phones /\ row.otp \in issued'[row.phone],
         row.phoneVerified => row.phone \in Phones /\ issued'[row.phone] # {}
  PROVE  AccountInv'
<1>1. /\ calling' \in [SignIns -> Acc!Request \cup {Acc!Idle}]
      /\ calling'[r] = Acc!Idle
      /\ \A s \in SignIns \ {r} : calling'[s] = calling[s]
  BY AccountTypes DEF Acc!End, Acc!Continue
<1>2. SignInOK(r)'
  BY <1>1 DEF SignInOK, Acc!Idle, OfAccount
<1> QED
  BY <1>1, <1>2, RowWritten

\* An account is inserted, no code of it yet.
LEMMA CreateAccountStep ==
  ASSUME AccountInv, NEW r \in SignIns, NEW u \in AccountIds,
         \/ Acc!CreateFull(r, u)
         \/ Acc!CreateWithPhone(r, u)
         \/ Acc!CreateWithGoogle(r, u)
  PROVE  AccountInv'
<1>1. UNCHANGED issued /\ users[u] = None
  BY DEF Acc!CreateFull, Acc!CreateWithPhone, Acc!CreateWithGoogle, Acc!Insert
<1>2. CASE Acc!CreateFull(r, u)
  <2> DEFINE row == [Acc!NewUser EXCEPT !.phone = calling[r].phone,
                                        !.email = calling[r].email]
  <2>1. calling[r].phone \in Phones /\ calling[r].email \in Emails
    BY <1>2, SignInTypes DEF Acc!CreateFull, Acc!At
  <2>2. row \in Acc!User /\ row.otp = None /\ ~row.phoneVerified
    BY <2>1 DEF Acc!NewUser, Acc!User, Acc!Maybe
  <2>3. Acc!Update(u, row) /\ Acc!End(r)
    BY <1>2 DEF Acc!CreateFull, Acc!Insert, Acc!Update
  <2> HIDE DEF row
  <2> QED
    BY <1>1, <2>2, <2>3, LastWrite, AccountTypes
<1>3. CASE Acc!CreateWithGoogle(r, u)
  <2> DEFINE g == calling[r].google
             row == [Acc!NewUser EXCEPT !.google = g, !.email = GoogleEmail[g],
                                        !.emailVerified = TRUE]
  <2>1. g \in Googles /\ GoogleEmail[g] \in Emails
    BY <1>3, SignInTypes, AccountTypes DEF Acc!CreateWithGoogle, Acc!At
  <2>2. row \in Acc!User /\ row.otp = None /\ ~row.phoneVerified
    BY <2>1 DEF Acc!NewUser, Acc!User, Acc!Maybe
  <2>3. Acc!Update(u, row) /\ Acc!End(r)
    BY <1>3 DEF Acc!CreateWithGoogle, Acc!Insert, Acc!Update
  <2> HIDE DEF row
  <2> QED
    BY <1>1, <2>2, <2>3, LastWrite, AccountTypes
<1>4. CASE Acc!CreateWithPhone(r, u)
  <2> DEFINE row == [Acc!NewUser EXCEPT !.phone = calling[r].phone]
             x == [at |-> "otp", user |-> u]
  <2>1. calling[r].phone \in Phones
    BY <1>4, SignInTypes DEF Acc!CreateWithPhone, Acc!At
  <2>2. /\ row \in Acc!User /\ row.otp = None /\ ~row.phoneVerified
        /\ row.phone \in Phones
    BY <2>1 DEF Acc!NewUser, Acc!User, Acc!Maybe
  <2>3. /\ Acc!Update(u, row) /\ users' = [users EXCEPT ![u] = row]
        /\ calling' = [calling EXCEPT ![r] = x]
    BY <1>4 DEF Acc!CreateWithPhone, Acc!Insert, Acc!Update, Acc!Continue
  <2>4. x \in Acc!Request /\ x.at = "otp" /\ x.user = u
    BY DEF Acc!Request
  <2> HIDE DEF row, x
  <2>5. /\ calling' \in [SignIns -> Acc!Request \cup {Acc!Idle}]
        /\ calling'[r] = x /\ users'[u] = row /\ row # None
        /\ \A s \in SignIns \ {r} : calling'[s] = calling[s]
    BY <2>2, <2>3, <2>4, AccountTypes
  <2>6. SignInOK(r)'
    BY <2>2, <2>4, <2>5 DEF SignInOK
  <2> QED
    BY <1>1, <2>2, <2>3, <2>5, <2>6, RowWritten, AccountTypes
<1> QED
  BY <1>2, <1>3, <1>4

\* A call writes the account it is about, whose number stays.
LEMMA AccountWritten ==
  ASSUME AccountInv, NEW r \in SignIns,
         \/ Acc!LinkGoogleID(r)
         \/ \E c \in Codes : Acc!SetEmailOTP(r, c)
         \/ Acc!VerifyOTPAndActivate(r)
         \/ Acc!MarkEmailVerified(r)
         \/ Acc!ClearEmailOTP(r)
  PROVE  AccountInv'
<1> DEFINE u == calling[r].user
           old == users[u]
<1>1. /\ calling[r].at \in OfAccount /\ Acc!End(r) /\ UNCHANGED issued
      /\ calling[r].at = "link" => calling[r].google \in Googles
  BY SignInTypes
     DEF Acc!LinkGoogleID, Acc!SetEmailOTP, Acc!VerifyOTPAndActivate,
         Acc!MarkEmailVerified, Acc!ClearEmailOTP, Acc!At, OfAccount
<1>2. /\ u \in AccountIds /\ old # None /\ old \in Acc!User
      /\ CodeOK(old) /\ SignInOK(r)
  BY <1>1, SignInTypes DEF AccountInv
<1>3. ASSUME NEW row \in Acc!User, Acc!Update(u, row), row.phone = old.phone,
             row.otp \in {None, old.otp},
             row.phoneVerified => old.phoneVerified \/ Challenged(old.phone)
      PROVE  AccountInv'
  BY <1>1, <1>2, <1>3, LastWrite, AccountTypes DEF CodeOK, Challenged
<1>4. CASE Acc!LinkGoogleID(r)
  <2> DEFINE row == [old EXCEPT !.google = calling[r].google]
  <2>1. Acc!Update(u, row) /\ calling[r].google \in Googles
    BY <1>1, <1>4 DEF Acc!LinkGoogleID, Acc!At
  <2>2. /\ row \in Acc!User /\ row.phone = old.phone /\ row.otp = old.otp
        /\ row.phoneVerified = old.phoneVerified
    BY <1>2, <2>1 DEF Acc!User, Acc!Maybe
  <2> HIDE DEF row
  <2> QED
    BY <1>3, <2>1, <2>2
<1>5. ASSUME NEW c \in Codes, Acc!SetEmailOTP(r, c) PROVE AccountInv'
  <2> DEFINE row == [old EXCEPT !.emailOtp = c]
  <2>1. Acc!Update(u, row)
    BY <1>5 DEF Acc!SetEmailOTP
  <2>2. /\ row \in Acc!User /\ row.phone = old.phone /\ row.otp = old.otp
        /\ row.phoneVerified = old.phoneVerified
    BY <1>2 DEF Acc!User, Acc!Maybe
  <2> HIDE DEF row
  <2> QED
    BY <1>3, <2>1, <2>2
<1>6. CASE Acc!VerifyOTPAndActivate(r)
  <2> DEFINE row == [old EXCEPT !.phoneVerified = TRUE, !.otp = None]
  <2>1. Acc!Update(u, row) /\ calling[r].at = "activate"
    BY <1>6 DEF Acc!VerifyOTPAndActivate, Acc!At
  <2>2. row \in Acc!User /\ row.phone = old.phone /\ row.otp = None
    BY <1>2 DEF Acc!User, Acc!Maybe
  <2>3. Challenged(old.phone)
    BY <1>2, <2>1 DEF SignInOK
  <2> HIDE DEF row
  <2> QED
    BY <1>3, <2>1, <2>2, <2>3
<1>7. CASE Acc!MarkEmailVerified(r)
  <2> DEFINE row == [old EXCEPT !.emailVerified = TRUE, !.emailOtp = None]
  <2>1. Acc!Update(u, row)
    BY <1>7 DEF Acc!MarkEmailVerified
  <2>2. /\ row \in Acc!User /\ row.phone = old.phone /\ row.otp = old.otp
        /\ row.phoneVerified = old.phoneVerified
    BY <1>2 DEF Acc!User, Acc!Maybe
  <2> HIDE DEF row
  <2> QED
    BY <1>3, <2>1, <2>2
<1>8. CASE Acc!ClearEmailOTP(r)
  <2> DEFINE row == [old EXCEPT !.emailOtp = None]
  <2>1. Acc!Update(u, row)
    BY <1>8 DEF Acc!ClearEmailOTP
  <2>2. /\ row \in Acc!User /\ row.phone = old.phone /\ row.otp = old.otp
        /\ row.phoneVerified = old.phoneVerified
    BY <1>2 DEF Acc!User, Acc!Maybe
  <2> HIDE DEF row
  <2> QED
    BY <1>3, <2>1, <2>2
<1> QED
  BY <1>4, <1>5, <1>6, <1>7, <1>8

LEMMA SetOTPStep ==
  ASSUME AccountInv, NEW r \in SignIns, NEW c \in Codes, Acc!SetOTP(r, c)
  PROVE  AccountInv'
<1> DEFINE u == calling[r].user
           old == users[u]
           row == [old EXCEPT !.otp = c]
<1>1. /\ calling[r].at = "otp" /\ Acc!End(r) /\ Acc!Update(u, row)
      /\ issued' = [issued EXCEPT ![old.phone] = @ \cup {c}]
  BY DEF Acc!SetOTP, Acc!At
<1>2. /\ u \in AccountIds /\ old # None /\ old \in Acc!User
      /\ old.phone \in Phones /\ CodeOK(old)
  BY <1>1, SignInTypes DEF AccountInv, SignInOK, OfAccount
<1>3. /\ row \in Acc!User /\ row.phone = old.phone /\ row.otp = c
      /\ row.phoneVerified = old.phoneVerified
  BY <1>2 DEF Acc!User, Acc!Maybe
<1> HIDE DEF u, old, row
<1>4. /\ issued' \in [Phones -> SUBSET Codes]
      /\ c \in issued'[old.phone]
      /\ \A p \in Phones : issued[p] \subseteq issued'[p]
  BY <1>1, <1>2, AccountTypes
<1> QED
  BY <1>1, <1>2, <1>3, <1>4, LastWrite DEF old

\* The address of an account changes, or a call is over.
LEMMA ProfileOrFailure ==
  ASSUME AccountInv,
         \/ \E u \in AccountIds, e \in Acc!Maybe(Emails) :
              Acc!UpdateProfile(u, e)
         \/ \E r \in SignIns : Acc!RequestFails(r)
  PROVE  AccountInv'
<1>1. ASSUME NEW u \in AccountIds, NEW e \in Acc!Maybe(Emails),
             Acc!UpdateProfile(u, e)
      PROVE  AccountInv'
  <2> DEFINE row == [users[u] EXCEPT !.email = e]
  <2>1. /\ Acc!Update(u, row) /\ users[u] # None /\ users[u] \in Acc!User
        /\ CodeOK(users[u]) /\ UNCHANGED <<calling, issued>>
    BY <1>1, AccountTypes DEF Acc!UpdateProfile, AccountInv
  <2>2. /\ row \in Acc!User /\ row.phone = users[u].phone
        /\ row.otp = users[u].otp /\ row.phoneVerified = users[u].phoneVerified
    BY <2>1 DEF Acc!User, Acc!Maybe
  <2> HIDE DEF row
  <2> QED
    BY <2>1, <2>2, RowWritten, AccountTypes DEF CodeOK, Challenged
<1>2. ASSUME NEW r \in SignIns, Acc!RequestFails(r) PROVE AccountInv'
  <2>1. /\ calling' = [calling EXCEPT ![r] = Acc!Idle]
        /\ UNCHANGED <<users, issued>>
    BY <1>2 DEF Acc!RequestFails, Acc!End, Acc!Continue
  <2>2. calling'[r] = Acc!Idle
    BY <2>1, AccountTypes
  <2>3. SignInOK(r)'
    BY <2>2 DEF SignInOK, Acc!Idle, OfAccount
  <2> QED
    BY <2>1, <2>3, CallMoves
<1> QED
  BY <1>1, <1>2

LEMMA AccountStep ==
  ASSUME AccountInv, [Acc!Next]_accountVars PROVE AccountInv'
<1>1. CASE UNCHANGED accountVars
  BY <1>1
     DEF accountVars, AccountInv, Acc!TypeOK, Acc!OneAccountPerIdentity,
         Acc!Accounts, CodeOK, Challenged, SignInOK
<1>2. CASE Acc!Next
  BY <1>2, NobodyFound, RequestsStep, GetByEmailStep, CreateAccountStep,
     AccountWritten, SetOTPStep, ProfileOrFailure
     DEF Acc!Next
<1> QED
  BY <1>1, <1>2

\* For any number of sign-ups that cross: an identity leads to one account, and
\* a pending phone code was generated for that phone.
THEOREM AccountsStayApart == Acc!Spec => []AccountsAreConsistent
<1>1. Acc!Init => AccountInv
  BY DEF Acc!Init, AccountInv, Acc!TypeOK, Acc!OneAccountPerIdentity,
         Acc!Accounts, SignInOK, Acc!Idle, OfAccount
<1>2. AccountInv /\ [Acc!Next]_accountVars => AccountInv'
  BY AccountStep
<1>3. AccountInv => AccountsAreConsistent
  BY DEF AccountInv, AccountsAreConsistent, Acc!PhoneCodeWasIssued,
         Acc!Accounts, CodeOK, Challenged
<1> QED
  BY <1>1, <1>2, <1>3, PTL DEF Acc!Spec, Acc!accountVars, accountVars

-----------------------------------------------------------------------------
(* BookingChat: the invariant.                                               *)

\* The messages of a booking that others than u wrote.
Others(b, u) == {i \in 1 .. Len(chat[b]) : chat[b][i].by # u}

\* Request r has marked the messages of b for u and is about to list them.
Listing(r, b, u) ==
  serving[r].at = "list" /\ serving[r].b = b /\ serving[r].u = u

\* Message i of b, if marked read, was or is about to be shown to another.
ReadOK(b, i) ==
  chat[b][i].read =>
    \E u \in ChatUsers \ {chat[b][i].by} :
      <<b, i, u>> \in shown \/ \E r \in ChatRequests : Listing(r, b, u)

\* What a chat list has counted is still there.
BadgeOK(r) ==
  serving[r].at = "last" =>
    \A b \in ChatBookings, u \in ChatUsers :
      serving[r].u = u => serving[r].counts[b] <= Cardinality(Others(b, u))

ThreadInv ==
  /\ Cht!TypeOK
  /\ \A b \in ChatBookings \ unseen : \A i \in 1 .. Len(chat[b]) : ReadOK(b, i)
  /\ \A r \in ChatRequests : BadgeOK(r)

LEMMA ThreadTypes ==
  ASSUME ThreadInv
  PROVE  /\ chat \in [ChatBookings -> Seq(Cht!Message)]
         /\ serving \in [ChatRequests -> Cht!Request \cup {Cht!Idle}]
         /\ shown \subseteq ChatBookings \X Nat \X ChatUsers
         /\ \A b \in ChatBookings :
              /\ Len(chat[b]) \in Nat
              /\ \A i \in 1 .. Len(chat[b]) : /\ chat[b][i] \in Cht!Message
                                              /\ chat[b][i].by \in ChatUsers
         /\ \A r \in ChatRequests :
              /\ serving[r].at \in {"mark", "list"} =>
                   /\ serving[r] \in [at : {"mark", "list"}, u : ChatUsers,
                                      b : ChatBookings]
                   /\ serving[r].u \in ChatUsers
                   /\ serving[r].b \in ChatBookings
              /\ serving[r].at = "last" =>
                   /\ serving[r].u \in ChatUsers
                   /\ serving[r].counts \in [ChatBookings -> Nat]
<1>1. \A x \in Cht!Message : x.by \in ChatUsers
  BY DEF Cht!Message
<1> QED
  BY <1>1 DEF ThreadInv, Cht!TypeOK, Cht!Request, Cht!Idle

\* The instance counts as this module does.
LEMMA SameCardinality ==
  ASSUME NEW S PROVE Cht!Cardinality(S) = Cardinality(S)
BY DEF Cardinality, Cht!Cardinality

LEMMA OthersAreFinite ==
  ASSUME ThreadInv, NEW b \in ChatBookings, NEW u
  PROVE  IsFiniteSet(Others(b, u)) /\ Cardinality(Others(b, u)) \in Nat
<1>1. IsFiniteSet(1 .. Len(chat[b]))
  BY ThreadTypes, FS_Interval
<1>2. Others(b, u) \subseteq 1 .. Len(chat[b])
  BY DEF Others
<1> QED
  BY <1>1, <1>2, FS_Subset, FS_CardinalityType

\* Each thread keeps its messages and who wrote them.
ThreadsGrow ==
  /\ chat' \in [ChatBookings -> Seq(Cht!Message)]
  /\ \A b \in ChatBookings :
       /\ Len(chat[b]) <= Len(chat'[b])
       /\ \A i \in 1 .. Len(chat[b]) : chat'[b][i].by = chat[b][i].by

LEMMA OthersGrow ==
  ASSUME ThreadInv, ThreadsGrow, NEW b \in ChatBookings, NEW u
  PROVE  Cardinality(Others(b, u)) <= Cardinality(Others(b, u)')
<1>1. Len(chat'[b]) \in Nat /\ Len(chat[b]) \in Nat
  BY ThreadTypes DEF ThreadsGrow
<1>2. Others(b, u) \subseteq Others(b, u)'
  BY <1>1 DEF Others, ThreadsGrow
<1>3. IsFiniteSet(1 .. Len(chat'[b]))
  BY <1>1, FS_Interval
<1>4. IsFiniteSet(Others(b, u)')
  <2>1. Others(b, u)' \subseteq 1 .. Len(chat'[b])
    BY DEF Others
  <2> QED
    BY <1>3, <2>1, FS_Subset
<1> QED
  BY <1>2, <1>4, FS_Subset

LEMMA BadgesStay ==
  ASSUME ThreadInv, ThreadsGrow, NEW r \in ChatRequests,
         serving'[r] = serving[r]
  PROVE  BadgeOK(r)'
<1> SUFFICES ASSUME serving[r].at = "last", NEW b \in ChatBookings,
                    NEW u \in ChatUsers, serving[r].u = u
             PROVE  serving[r].counts[b] <= Cardinality(Others(b, u)')
  BY DEF BadgeOK
<1>2. /\ serving[r].counts[b] <= Cardinality(Others(b, u))
      /\ serving[r].counts[b] \in Nat
  BY ThreadTypes DEF ThreadInv, BadgeOK
<1>3. Cardinality(Others(b, u)) <= Cardinality(Others(b, u)')
  BY OthersGrow
<1>4. Cardinality(Others(b, u)) \in Nat
  BY OthersAreFinite
<1>5. IsFiniteSet(Others(b, u)') /\ Cardinality(Others(b, u)') \in Nat
  <2>1. IsFiniteSet(1 .. Len(chat'[b]))
    BY FS_Interval DEF ThreadsGrow
  <2>2. Others(b, u)' \subseteq 1 .. Len(chat'[b])
    BY DEF Others
  <2> QED
    BY <2>1, <2>2, FS_Subset, FS_CardinalityType
<1> QED
  BY <1>2, <1>3, <1>4, <1>5

\* Messages that were read before stay accounted for.
LEMMA ReadStays ==
  ASSUME ThreadInv, shown \subseteq shown',
         NEW b \in ChatBookings \ unseen, NEW i \in 1 .. Len(chat[b]),
         chat'[b][i] = chat[b][i],
         \A r \in ChatRequests : serving[r].at = "list" /\ serving[r].b = b =>
           \/ serving'[r] = serving[r]
           \/ chat[b][i].by # serving[r].u => <<b, i, serving[r].u>> \in shown'
  PROVE  ReadOK(b, i)'
<1>1. ReadOK(b, i)
  BY DEF ThreadInv
<1> QED
  BY <1>1 DEF ReadOK, Listing

\* Nothing is written; request r moves to x.
LEMMA ServingStep ==
  ASSUME ThreadInv, NEW r \in ChatRequests,
         NEW x \in Cht!Request \cup {Cht!Idle},
         serving' = [serving EXCEPT ![r] = x], UNCHANGED chat,
         shown \subseteq shown',
         shown' \subseteq ChatBookings \X Nat \X ChatUsers,
         unseen \subseteq unseen', unseen' \subseteq ChatBookings,
         serving[r].at = "list" =>
           \/ serving[r].b \in unseen'
           \/ \A i \in Others(serving[r].b, serving[r].u) :
                <<serving[r].b, i, serving[r].u>> \in shown',
         BadgeOK(r)'
  PROVE  ThreadInv'
<1>1. /\ serving' \in [ChatRequests -> Cht!Request \cup {Cht!Idle}]
      /\ \A s \in ChatRequests \ {r} : serving'[s] = serving[s]
  BY ThreadTypes
<1>2. Cht!TypeOK'
  BY <1>1 DEF ThreadInv, Cht!TypeOK
<1>3. ThreadsGrow
  BY ThreadTypes DEF ThreadsGrow
<1>4. \A s \in ChatRequests : BadgeOK(s)'
  BY <1>1, <1>3, BadgesStay
<1>5. ASSUME NEW b \in ChatBookings \ unseen', NEW i \in 1 .. Len(chat[b])
      PROVE  ReadOK(b, i)'
  BY <1>1, ReadStays DEF Others
<1> QED
  BY <1>2, <1>4, <1>5 DEF ThreadInv

LEMMA OpenThreadStep ==
  ASSUME ThreadInv, NEW r \in ChatRequests, NEW b \in ChatBookings,
         NEW u \in ChatUsers, Cht!ListMessages(r, b, u)
  PROVE  ThreadInv'
<1> DEFINE x == [at |-> "mark", b |-> b, u |-> u]
<1>1. /\ serving[r] = Cht!Idle /\ serving' = [serving EXCEPT ![r] = x]
      /\ UNCHANGED <<chat, shown, unseen>>
  BY DEF Cht!ListMessages, Cht!Begin
<1>2. x \in Cht!Request /\ x.at = "mark"
  BY DEF Cht!Request
<1> HIDE DEF x
<1>3. serving'[r] = x
  BY <1>1, ThreadTypes
<1>4. BadgeOK(r)'
  BY <1>2, <1>3 DEF BadgeOK
<1>5. /\ shown \subseteq ChatBookings \X Nat \X ChatUsers
      /\ unseen \subseteq ChatBookings
  BY DEF ThreadInv, Cht!TypeOK
<1>6. serving[r].at # "list"
  BY <1>1 DEF Cht!Idle
<1> QED
  BY <1>1, <1>2, <1>4, <1>5, <1>6, ServingStep

LEMMA ListDetailedStep ==
  ASSUME ThreadInv, NEW r \in ChatRequests, NEW u \in ChatUsers,
         Cht!ListDetailed(r, u)
  PROVE  ThreadInv'
<1>1. PICK ok \in BOOLEAN :
        /\ serving[r] = Cht!Idle
        /\ serving' = [serving EXCEPT ![r] =
             [at |-> "last", u |-> u, counts |-> [b \in ChatBookings |->
               IF ok THEN Cht!Cardinality(Cht!Unread(b, u)) ELSE 0]]]
  BY DEF Cht!ListDetailed, Cht!Begin
<1> DEFINE n == [b \in ChatBookings |->
                   IF ok THEN Cht!Cardinality(Cht!Unread(b, u)) ELSE 0]
           x == [at |-> "last", u |-> u, counts |-> n]
<1>2. /\ serving[r] = Cht!Idle /\ serving' = [serving EXCEPT ![r] = x]
      /\ UNCHANGED <<chat, shown, unseen>>
  BY <1>1 DEF Cht!ListDetailed, Cht!Begin
<1>3. ASSUME NEW b \in ChatBookings
      PROVE  n[b] \in Nat /\ n[b] <= Cardinality(Others(b, u))
  <2>1. Cht!Unread(b, u) \subseteq Others(b, u)
    BY DEF Cht!Unread, Cht!OfOthers, Others
  <2>2. IsFiniteSet(Others(b, u)) /\ Cardinality(Others(b, u)) \in Nat
    BY OthersAreFinite
  <2>3. /\ IsFiniteSet(Cht!Unread(b, u))
        /\ Cardinality(Cht!Unread(b, u)) <= Cardinality(Others(b, u))
    BY <2>1, <2>2, FS_Subset
  <2>4. Cardinality(Cht!Unread(b, u)) \in Nat
    BY <2>3, FS_CardinalityType
  <2> QED
    BY <2>2, <2>3, <2>4, SameCardinality
<1>4. n \in [ChatBookings -> Nat]
  BY <1>3
<1> HIDE DEF n
<1>5. x \in Cht!Request /\ x.at = "last" /\ x.u = u /\ x.counts = n
  BY <1>4 DEF Cht!Request
<1> HIDE DEF x
<1>6. serving'[r] = x
  BY <1>2, ThreadTypes
<1>7. \A b \in ChatBookings : Others(b, u)' = Others(b, u)
  BY <1>2 DEF Others
<1>8. BadgeOK(r)'
  BY <1>3, <1>5, <1>6, <1>7 DEF BadgeOK
<1>9. /\ shown \subseteq ChatBookings \X Nat \X ChatUsers
      /\ unseen \subseteq ChatBookings
  BY DEF ThreadInv, Cht!TypeOK
<1>10. serving[r].at # "list"
  BY <1>2 DEF Cht!Idle
<1> QED
  BY <1>2, <1>5, <1>8, <1>9, <1>10, ServingStep

\* A request ends: it lists the thread it marked, sends its previews, or breaks
\* off.
LEMMA DoneStep ==
  ASSUME ThreadInv, NEW r \in ChatRequests,
         Cht!DbListMessages(r) \/ Cht!DbLastMessages(r) \/ Cht!Abort(r)
  PROVE  ThreadInv'
<1>1. /\ serving' = [serving EXCEPT ![r] = Cht!Idle] /\ UNCHANGED chat
      /\ unseen \subseteq unseen'
  BY DEF Cht!DbListMessages, Cht!DbLastMessages, Cht!Abort, Cht!Done
<1>2. serving'[r] = Cht!Idle
  BY <1>1, ThreadTypes
<1>3. BadgeOK(r)'
  BY <1>2 DEF BadgeOK, Cht!Idle
<1>4. /\ shown \subseteq ChatBookings \X Nat \X ChatUsers
      /\ unseen \subseteq ChatBookings
  BY DEF ThreadInv, Cht!TypeOK
<1>5. CASE Cht!DbListMessages(r)
  <2> DEFINE b == serving[r].b
             u == serving[r].u
  <2>1. /\ b \in ChatBookings /\ u \in ChatUsers
    BY <1>5, ThreadTypes DEF Cht!DbListMessages, Cht!At
  <2>2. shown' = shown \cup ({b} \X Others(b, u) \X {u}) /\ UNCHANGED unseen
    BY <1>5 DEF Cht!DbListMessages, Cht!Show, Cht!OfOthers, Others
  <2>3. Others(b, u) \subseteq Nat
    BY DEF Others
  <2> HIDE DEF b, u
  <2>4. shown' \subseteq ChatBookings \X Nat \X ChatUsers
    BY <1>4, <2>1, <2>2, <2>3
  <2>5. shown \subseteq shown' /\ \A i \in Others(b, u) : <<b, i, u>> \in shown'
    BY <2>2
  <2> QED
    BY <1>1, <1>3, <1>4, <2>2, <2>4, <2>5, ServingStep DEF b, u
<1>6. CASE Cht!DbLastMessages(r)
  BY <1>1, <1>3, <1>4, <1>6, ServingStep DEF Cht!DbLastMessages, Cht!At
<1>7. CASE Cht!Abort(r)
  <2>1. /\ serving[r].at = "list" =>
             serving[r].b \in ChatBookings /\ serving[r].b \in unseen'
        /\ unseen' \subseteq ChatBookings /\ UNCHANGED shown
    BY <1>4, <1>7, ThreadTypes DEF Cht!Abort
  <2> QED
    BY <1>1, <1>3, <1>4, <2>1, ServingStep
<1> QED
  BY <1>5, <1>6, <1>7

\* The thread of a reader is marked: who marks is about to list it.
LEMMA MarkStep ==
  ASSUME ThreadInv, NEW r \in ChatRequests, Cht!DbMarkMessagesRead(r)
  PROVE  ThreadInv'
<1>1. PICK b \in ChatBookings, u \in ChatUsers :
        serving[r].at = "mark" /\ serving[r].b = b /\ serving[r].u = u
  BY ThreadTypes DEF Cht!DbMarkMessagesRead, Cht!At
<1> DEFINE x == [serving[r] EXCEPT !.at = "list"]
           m == Cht!Marked(chat[b], u)
<1>2. /\ serving[r].at = "mark" /\ UNCHANGED <<shown, unseen>>
      /\ serving' = [serving EXCEPT ![r].at = "list"]
      /\ chat' = [chat EXCEPT ![b] = m] \/ UNCHANGED chat
  BY <1>1 DEF Cht!DbMarkMessagesRead, Cht!At
<1>3. serving[r] \in [at : {"mark", "list"}, u : ChatUsers, b : ChatBookings]
  BY <1>2, ThreadTypes
<1>4. x \in Cht!Request /\ x.at = "list" /\ x.b = b /\ x.u = u
  BY <1>1, <1>3 DEF Cht!Request
<1>5. serving' = [serving EXCEPT ![r] = x]
  BY <1>2, ThreadTypes
<1> HIDE DEF x
<1>6. /\ serving' \in [ChatRequests -> Cht!Request \cup {Cht!Idle}]
      /\ serving'[r] = x
      /\ \A s \in ChatRequests \ {r} : serving'[s] = serving[s]
  BY <1>4, <1>5, ThreadTypes
<1>7. /\ m \in Seq(Cht!Message)
      /\ Len(m) = Len(chat[b])
      /\ \A i \in 1 .. Len(chat[b]) :
           /\ m[i].by = chat[b][i].by
           /\ chat[b][i].by = u => m[i] = chat[b][i]
  <2>1. ASSUME NEW i \in 1 .. Len(chat[b])
        PROVE  /\ [chat[b][i] EXCEPT !.read = TRUE] \in Cht!Message
               /\ [chat[b][i] EXCEPT !.read = TRUE].by = chat[b][i].by
    BY ZenonT(40), <1>3, ThreadTypes DEF Cht!Message
  <2>2. chat[b] \in Seq(Cht!Message) /\ DOMAIN chat[b] = 1 .. Len(chat[b])
    BY <1>3, ThreadTypes
  <2>3. m =
          [i \in 1 .. Len(chat[b]) |->
             IF chat[b][i].by = u THEN chat[b][i]
             ELSE [chat[b][i] EXCEPT !.read = TRUE]]
    BY <2>2 DEF Cht!Marked
  <2> QED
    BY <1>3, <2>1, <2>2, <2>3, ThreadTypes
<1> HIDE DEF m
<1>8. /\ chat' \in [ChatBookings -> Seq(Cht!Message)]
      /\ \A c \in ChatBookings \ {b} : chat'[c] = chat[c]
      /\ chat'[b] = chat[b] \/ chat'[b] = m
  BY ZenonT(40), <1>2, <1>3, <1>7, ThreadTypes
<1>9. /\ Len(chat'[b]) = Len(chat[b])
      /\ \A i \in 1 .. Len(chat[b]) :
           /\ chat'[b][i].by = chat[b][i].by
           /\ chat[b][i].by = u => chat'[b][i] = chat[b][i]
  BY <1>7, <1>8
<1>10. ThreadsGrow
  <2>1. ASSUME NEW c \in ChatBookings
        PROVE  /\ Len(chat[c]) <= Len(chat'[c])
               /\ \A i \in 1 .. Len(chat[c]) : chat'[c][i].by = chat[c][i].by
    <3>1. Len(chat[c]) \in Nat
      BY ThreadTypes
    <3>2. CASE c = b
      BY <1>8, <1>9, <3>1, <3>2
    <3>3. CASE c # b
      BY <1>8, <3>1, <3>3
    <3> QED
      BY <3>2, <3>3
  <2> QED
    BY <1>8, <2>1 DEF ThreadsGrow
<1>11. Cht!TypeOK'
  BY <1>2, <1>6, <1>8 DEF ThreadInv, Cht!TypeOK
<1>12. \A s \in ChatRequests : BadgeOK(s)'
  BY <1>4, <1>6, <1>10, BadgesStay DEF BadgeOK
<1>13. ASSUME NEW c \in ChatBookings \ unseen, NEW i \in 1 .. Len(chat'[c])
       PROVE  ReadOK(c, i)'
  <2>1. \A s \in ChatRequests :
          serving[s].at = "list" => serving'[s] = serving[s]
    BY <1>2, <1>6
  <2>2. CASE c # b \/ chat[c][i].by = u
    <3>1. i \in 1 .. Len(chat[c]) /\ chat'[c][i] = chat[c][i]
      BY <1>8, <1>9, <2>2
    <3> QED
      BY <1>2, <2>1, <3>1, ReadStays
  <2>3. CASE c = b /\ chat[c][i].by # u
    <3>1. u \in ChatUsers \ {chat'[c][i].by} /\ Listing(r, c, u)'
      BY <1>3, <1>4, <1>6, <1>9, <2>3 DEF Listing
    <3> QED
      BY <3>1 DEF ReadOK
  <2> QED
    BY <2>2, <2>3
<1> QED
  BY <1>2, <1>11, <1>12, <1>13 DEF ThreadInv

\* A message is written, unread.
LEMMA WriteStep ==
  ASSUME ThreadInv, NEW b \in ChatBookings, NEW u \in ChatUsers,
         Cht!SendMessage(b, u)
  PROVE  ThreadInv'
<1> DEFINE m == [by |-> u, read |-> FALSE]
<1>1. /\ chat' = [chat EXCEPT ![b] = Append(@, m)]
      /\ UNCHANGED <<serving, shown, unseen>>
  BY DEF Cht!SendMessage, Cht!CreateMessage
<1>2. m \in Cht!Message /\ ~m.read
  BY DEF Cht!Message
<1> HIDE DEF m
<1>3. /\ chat' \in [ChatBookings -> Seq(Cht!Message)]
      /\ chat'[b] = Append(chat[b], m)
      /\ \A c \in ChatBookings \ {b} : chat'[c] = chat[c]
  BY <1>1, <1>2, ThreadTypes
<1>4. /\ Len(chat'[b]) = Len(chat[b]) + 1
      /\ \A i \in 1 .. Len(chat[b]) : chat'[b][i] = chat[b][i]
      /\ chat'[b][Len(chat[b]) + 1] = m
  BY <1>3, ThreadTypes
<1>5. ThreadsGrow
  <2>1. ASSUME NEW c \in ChatBookings
        PROVE  /\ Len(chat[c]) <= Len(chat'[c])
               /\ \A i \in 1 .. Len(chat[c]) : chat'[c][i].by = chat[c][i].by
    <3>1. Len(chat[c]) \in Nat
      BY ThreadTypes
    <3>2. CASE c = b
      BY <1>3, <1>4, <3>1, <3>2
    <3>3. CASE c # b
      BY <1>3, <3>1, <3>3
    <3> QED
      BY <3>2, <3>3
  <2> QED
    BY <1>3, <2>1 DEF ThreadsGrow
<1>6. Cht!TypeOK'
  BY <1>1, <1>3 DEF ThreadInv, Cht!TypeOK
<1>7. \A s \in ChatRequests : BadgeOK(s)'
  BY <1>1, <1>5, BadgesStay
<1>8. ASSUME NEW c \in ChatBookings \ unseen, NEW i \in 1 .. Len(chat'[c])
      PROVE  ReadOK(c, i)'
  <2>1. CASE i \in 1 .. Len(chat[c])
    <3>1. chat'[c][i] = chat[c][i]
      BY <1>3, <1>4, <2>1
    <3> QED
      BY <1>1, <2>1, <3>1, ReadStays
  <2>2. CASE i \notin 1 .. Len(chat[c])
    <3>1. chat'[c][i] = m
      BY <1>3, <1>4, <2>2, ThreadTypes
    <3> QED
      BY <1>2, <3>1 DEF ReadOK
  <2> QED
    BY <2>1, <2>2
<1> QED
  BY <1>1, <1>6, <1>7, <1>8 DEF ThreadInv

\* What the two wrote about other bookings is shown.
LEMMA PreviousStep ==
  ASSUME ThreadInv, NEW b \in ChatBookings, NEW u \in ChatUsers,
         Cht!ListPreviousMessages(b, u)
  PROVE  ThreadInv'
<1>1. PICK B \in SUBSET ChatBookings : Cht!Show(B, u)
  BY DEF Cht!ListPreviousMessages
<1>2. /\ UNCHANGED <<chat, serving, unseen>> /\ shown \subseteq shown'
      /\ shown' = shown \cup UNION {{c} \X Others(c, u) \X {u} : c \in B}
  BY <1>1 DEF Cht!ListPreviousMessages, Cht!Show, Cht!OfOthers, Others
<1>3. \A c \in B :
        {c} \X Others(c, u) \X {u} \subseteq ChatBookings \X Nat \X ChatUsers
  BY DEF Others
<1>4. shown' \subseteq ChatBookings \X Nat \X ChatUsers
  BY <1>2, <1>3, ThreadTypes
<1>5. Cht!TypeOK'
  BY <1>2, <1>4 DEF ThreadInv, Cht!TypeOK
<1>6. ThreadsGrow
  BY <1>2, ThreadTypes DEF ThreadsGrow
<1>7. \A r \in ChatRequests : BadgeOK(r)'
  BY <1>2, <1>6, BadgesStay
<1>8. \A c \in ChatBookings \ unseen :
        \A i \in 1 .. Len(chat[c]) : ReadOK(c, i)'
  BY <1>2, ReadStays
<1> QED
  BY <1>2, <1>5, <1>7, <1>8 DEF ThreadInv

LEMMA ThreadStep == ASSUME ThreadInv, [Cht!Next]_chatVars PROVE ThreadInv'
<1>1. CASE UNCHANGED chatVars
  <2>1. UNCHANGED <<chat, serving, shown, unseen>> /\ Cht!TypeOK'
    BY <1>1 DEF chatVars, ThreadInv, Cht!TypeOK
  <2>2. ThreadsGrow
    BY <2>1, ThreadTypes DEF ThreadsGrow
  <2>3. \A r \in ChatRequests : BadgeOK(r)'
    BY <2>1, <2>2, BadgesStay
  <2>4. \A b \in ChatBookings \ unseen :
          \A i \in 1 .. Len(chat[b]) : ReadOK(b, i)'
    BY <2>1, ReadStays
  <2> QED
    BY <2>1, <2>3, <2>4 DEF ThreadInv
<1>2. CASE Cht!Next
  BY <1>2, WriteStep, PreviousStep, OpenThreadStep, ListDetailedStep, MarkStep,
     DoneStep
     DEF Cht!Next
<1> QED
  BY <1>1, <1>2

\* However messages, readers and chat lists cross: a message marked read was
\* shown to somebody it is for, and a badge fits its preview.
THEOREM ChatsStayTrue == Cht!Spec => []ChatIsConsistent
<1>1. Cht!Init => ThreadInv
  BY DEF Cht!Init, ThreadInv, Cht!TypeOK, BadgeOK, Cht!Idle
<1>2. ThreadInv /\ [Cht!Next]_chatVars => ThreadInv'
  BY ThreadStep
<1>3. ThreadInv => ChatIsConsistent
  <2> SUFFICES ASSUME ThreadInv PROVE ChatIsConsistent
    OBVIOUS
  <2>1. Cht!ReadWasShown
    <3> SUFFICES ASSUME NEW b \in ChatBookings \ unseen,
                        NEW i \in 1 .. Len(chat[b]), chat[b][i].read
                 PROVE  \E u \in ChatUsers \ {chat[b][i].by} :
                          \/ <<b, i, u>> \in shown
                          \/ \E r \in ChatRequests :
                               serving[r] = [at |-> "list", b |-> b, u |-> u]
      BY ThreadTypes DEF Cht!ReadWasShown
    <3>1. PICK u \in ChatUsers \ {chat[b][i].by} :
            <<b, i, u>> \in shown \/ \E r \in ChatRequests : Listing(r, b, u)
      BY DEF ThreadInv, ReadOK
    <3>2. ASSUME NEW r \in ChatRequests, Listing(r, b, u)
          PROVE  serving[r] = [at |-> "list", b |-> b, u |-> u]
      BY <3>2, ThreadTypes DEF Listing
    <3> QED
      BY <3>1, <3>2
  <2>2. Cht!BadgeFitsPreview
    <3>1. ASSUME NEW r \in ChatRequests, serving[r].at = "last",
                 NEW b \in ChatBookings
          PROVE  serving[r].counts[b] <=
                   Cht!Cardinality(
                     Cht!OfOthers(b, serving[r].u, Cht!LastMessages[b]))
      <4>1. PICK u \in ChatUsers : serving[r].u = u
        BY <3>1, ThreadTypes
      <4>2. serving[r].counts[b] <= Cardinality(Others(b, u))
        BY <3>1, <4>1 DEF ThreadInv, BadgeOK
      <4>3. Cht!OfOthers(b, u, Cht!LastMessages[b]) = Others(b, u)
        BY DEF Cht!OfOthers, Cht!LastMessages, Others
      <4> QED
        BY <4>1, <4>2, <4>3, SameCardinality
    <3> QED
      BY <3>1 DEF Cht!BadgeFitsPreview, Cht!At
  <2> QED
    BY <2>1, <2>2 DEF ThreadInv, ChatIsConsistent
<1> QED
  BY <1>1, <1>2, <1>3, PTL DEF Cht!Spec, Cht!chatVars, chatVars

-----------------------------------------------------------------------------
(* Notifications: the invariant.                                             *)

\* A call pushes to the token it has read, remembers whether FCM said that a
\* device took it, and only then writes its row.
SendOK(s) ==
  /\ sends[s] = Ntf!Idle \/ sends[s].at # "done" => rows[s] = None
  /\ sends[s] # Ntf!Idle /\ sends[s].at \in {"push", "clear"} =>
       sends[s].token \in Tokens
  /\ sends[s] # Ntf!Idle /\ sends[s].at = "done" =>
       /\ rows[s] # None
       /\ rows[s].user = sends[s].user
       /\ rows[s].sent_via_fcm = sends[s].ok
  /\ sends[s] # Ntf!Idle =>
       (sends[s].ok => <<s, sends[s].token>> \in delivered)

NoticeInv == Ntf!TypeOK /\ \A s \in Sends : SendOK(s)


\* Which calls are idle.
LEMMA IdleSends ==
  ASSUME NoticeInv, NEW s \in Sends
  PROVE  /\ sends[s].at = "idle" <=> sends[s] = Ntf!Idle
         /\ sends[s] # Ntf!Idle => sends[s] \in Ntf!Send
         /\ Ntf!Idle.at = "idle"
  BY DEF NoticeInv, Ntf!TypeOK, Ntf!Idle, Ntf!Send

\* The device changes tokens, which no call holds by reference.
LEMMA DeviceStep ==
  ASSUME NoticeInv,
         \/ \E u \in Recipients :
              Ntf!Logout(u) \/ \E k \in Tokens : Ntf!RegisterFCMToken(u, k)
         \/ \E k \in Tokens : Ntf!Uninstall(k)
  PROVE  NoticeInv'
<1>1. UNCHANGED <<sends, rows, delivered>>
  BY DEF Ntf!RegisterFCMToken, Ntf!Logout, Ntf!Uninstall
<1>2. Ntf!TypeOK'
  BY DEF NoticeInv, Ntf!TypeOK, Ntf!RegisterFCMToken, Ntf!Logout, Ntf!Uninstall
<1>3. \A s \in Sends : SendOK(s)'
  BY <1>1 DEF NoticeInv, SendOK
<1> QED
  BY <1>2, <1>3 DEF NoticeInv

\* Call s becomes x, which is right for it, and the others do not notice.
LEMMA SendMoves ==
  ASSUME NoticeInv, NEW s \in Sends, NEW x \in Ntf!Send,
         sends' = [sends EXCEPT ![s] = x], UNCHANGED rows,
         delivered \subseteq delivered'
  PROVE  /\ sends' \in [Sends -> Ntf!Send \cup {Ntf!Idle}]
         /\ sends'[s] = x
         /\ SendOK(s)' => \A d \in Sends : SendOK(d)'
<1>1. sends \in [Sends -> Ntf!Send \cup {Ntf!Idle}]
  BY DEF NoticeInv, Ntf!TypeOK
<1>2. /\ sends' \in [Sends -> Ntf!Send \cup {Ntf!Idle}] /\ sends'[s] = x
      /\ \A d \in Sends \ {s} : sends'[d] = sends[d]
  BY <1>1
<1>3. ASSUME NEW d \in Sends \ {s} PROVE SendOK(d)'
  <2>1. SendOK(d) /\ sends'[d] = sends[d] /\ rows'[d] = rows[d]
    BY <1>2 DEF NoticeInv
  <2> QED
    BY <2>1 DEF SendOK, Ntf!Idle
<1> QED
  BY <1>2, <1>3

LEMMA SendToUserStep ==
  ASSUME NoticeInv, NEW s \in Sends, NEW u \in Recipients, Ntf!SendToUser(s, u)
  PROVE  NoticeInv'
<1> DEFINE where == IF Pushes /\ token[u] # None THEN "push" ELSE "row"
           x == [at |-> where, user |-> u, token |-> token[u], ok |-> FALSE]
<1>1. /\ sends[s] = Ntf!Idle /\ sends' = [sends EXCEPT ![s] = x]
      /\ UNCHANGED <<token, alive, rows, delivered>>
  BY DEF Ntf!SendToUser
<1>2. token[u] \in Tokens \cup {None} /\ where \in {"push", "row"}
  BY DEF NoticeInv, Ntf!TypeOK
<1>3. where = "push" => token[u] \in Tokens
  BY <1>2
<1> HIDE DEF where
<1>4. /\ x \in Ntf!Send /\ x.at = where /\ ~x.ok /\ x.token = token[u]
      /\ x.user = u
  BY <1>2 DEF Ntf!Send
<1> HIDE DEF x
<1>5. SendOK(s)
  BY DEF NoticeInv
<1>6. /\ sends' \in [Sends -> Ntf!Send \cup {Ntf!Idle}] /\ sends'[s] = x
      /\ SendOK(s)' => \A d \in Sends : SendOK(d)'
  BY <1>1, <1>4, SendMoves
<1>7. SendOK(s)'
  BY <1>1, <1>2, <1>3, <1>4, <1>5, <1>6 DEF SendOK, Ntf!Idle
<1> QED
  BY <1>1, <1>6, <1>7 DEF NoticeInv, Ntf!TypeOK

LEMMA PushStep ==
  ASSUME NoticeInv, NEW s \in Sends, Ntf!Push(s)
  PROVE  NoticeInv'
<1> DEFINE k == sends[s].token
<1>1. /\ sends[s].at = "push" /\ UNCHANGED <<token, alive, rows>>
      /\ sends[s] \in Ntf!Send /\ sends[s] # Ntf!Idle
      /\ SendOK(s) /\ k \in Tokens
      /\ sends \in [Sends -> Ntf!Send \cup {Ntf!Idle}]
      /\ delivered \subseteq Sends \X Tokens
  BY IdleSends DEF Ntf!Push, Ntf!At, NoticeInv, SendOK, Ntf!TypeOK
<1>2. ASSUME delivered' = delivered \cup {<<s, k>>},
             sends' = [sends EXCEPT ![s].at = "row", ![s].ok = TRUE]
      PROVE  NoticeInv'
  <2> DEFINE x == [sends[s] EXCEPT !.at = "row", !.ok = TRUE]
  <2>1. /\ x \in Ntf!Send /\ x.at = "row" /\ x.ok /\ x.token = k
        /\ x.user = sends[s].user
    BY <1>1 DEF Ntf!Send
  <2>2. sends' = [sends EXCEPT ![s] = x]
    BY <1>1, <1>2
  <2> HIDE DEF x
  <2>3. /\ sends' \in [Sends -> Ntf!Send \cup {Ntf!Idle}] /\ sends'[s] = x
        /\ SendOK(s)' => \A d \in Sends : SendOK(d)'
    BY <1>1, <1>2, <2>1, <2>2, SendMoves
  <2>4. SendOK(s)'
    <3>1. /\ sends'[s].at = "row" /\ sends'[s] # Ntf!Idle /\ rows'[s] = None
          /\ sends'[s].token = k
      BY <1>1, <2>1, <2>3 DEF SendOK, Ntf!Idle
    <3>2. sends'[s].ok /\ <<s, k>> \in delivered'
      BY <1>2, <2>1, <2>3
    <3> HIDE DEF k
    <3> QED
      BY <3>1, <3>2 DEF SendOK
  <2>5. delivered' \subseteq Sends \X Tokens
    BY <1>1, <1>2
  <2> QED
    BY <1>1, <2>3, <2>4, <2>5 DEF NoticeInv, Ntf!TypeOK
<1>3. ASSUME NEW where \in {"clear", "row"}, Ntf!GoTo(s, where),
             \/ delivered' = delivered \cup {<<s, k>>}
             \/ UNCHANGED delivered
      PROVE  NoticeInv'
  <2> DEFINE x == [sends[s] EXCEPT !.at = where]
  <2>1. /\ x \in Ntf!Send /\ x.at = where /\ x.ok = sends[s].ok /\ x.token = k
        /\ x.user = sends[s].user
    BY <1>1 DEF Ntf!Send
  <2>2. sends' = [sends EXCEPT ![s] = x]
    BY <1>1, <1>3 DEF Ntf!GoTo
  <2> HIDE DEF x
  <2>3. /\ sends' \in [Sends -> Ntf!Send \cup {Ntf!Idle}] /\ sends'[s] = x
        /\ SendOK(s)' => \A d \in Sends : SendOK(d)'
    BY <1>1, <1>3, <2>1, <2>2, SendMoves
  <2>4. SendOK(s)'
    BY <1>1, <1>3, <2>1, <2>3 DEF SendOK, Ntf!Idle
  <2>5. delivered' \subseteq Sends \X Tokens
    BY <1>1, <1>3
  <2> QED
    BY <1>1, <2>3, <2>4, <2>5 DEF NoticeInv, Ntf!TypeOK
<1> QED
  BY <1>2, <1>3 DEF Ntf!Push, Ntf!Deliver

\* The token is cleared or not, and a call that is cut off goes no further.
LEMMA ClearStep ==
  ASSUME NoticeInv, NEW s \in Sends, Ntf!DbClearToken(s) \/ Ntf!Fail(s)
  PROVE  NoticeInv'
<1>1. PICK where \in {"row", "cut"} : Ntf!GoTo(s, where)
  BY DEF Ntf!DbClearToken, Ntf!Fail
<1>2. /\ sends[s].at \in {"push", "clear", "row"}
      /\ UNCHANGED <<alive, rows, delivered>>
      /\ sends[s] \in Ntf!Send /\ sends[s] # Ntf!Idle /\ SendOK(s)
      /\ sends \in [Sends -> Ntf!Send \cup {Ntf!Idle}]
  BY IdleSends
     DEF Ntf!DbClearToken, Ntf!Fail, Ntf!At, NoticeInv, Ntf!TypeOK
<1>3. token' \in [Recipients -> Tokens \cup {None}]
  BY <1>2 DEF Ntf!DbClearToken, Ntf!Fail, NoticeInv, Ntf!TypeOK, Ntf!Send
<1> DEFINE x == [sends[s] EXCEPT !.at = where]
<1>4. /\ x \in Ntf!Send /\ x.at = where /\ x.ok = sends[s].ok
      /\ x.token = sends[s].token /\ x.user = sends[s].user
  BY <1>2 DEF Ntf!Send
<1>5. sends' = [sends EXCEPT ![s] = x]
  BY <1>1, <1>2 DEF Ntf!GoTo
<1> HIDE DEF x
<1>6. /\ sends' \in [Sends -> Ntf!Send \cup {Ntf!Idle}] /\ sends'[s] = x
      /\ SendOK(s)' => \A d \in Sends : SendOK(d)'
  BY <1>2, <1>4, <1>5, SendMoves
<1>7. SendOK(s)'
  BY <1>2, <1>4, <1>6 DEF SendOK, Ntf!Idle
<1> QED
  BY <1>2, <1>3, <1>6, <1>7 DEF NoticeInv, Ntf!TypeOK

LEMMA CreateNoticeStep ==
  ASSUME NoticeInv, NEW s \in Sends, Ntf!DbCreate(s)
  PROVE  NoticeInv'
<1> DEFINE row == [user |-> sends[s].user, sent_via_fcm |-> sends[s].ok,
                   is_read |-> FALSE]
           x == [sends[s] EXCEPT !.at = "done"]
<1>1. /\ sends[s].at = "row" /\ UNCHANGED <<token, alive, delivered>>
      /\ rows' = [rows EXCEPT ![s] = row]
      /\ sends[s] \in Ntf!Send /\ sends[s] # Ntf!Idle /\ SendOK(s)
      /\ sends \in [Sends -> Ntf!Send \cup {Ntf!Idle}]
      /\ rows \in [Sends -> Ntf!Row \cup {None}]
  BY IdleSends DEF Ntf!DbCreate, Ntf!At, NoticeInv, Ntf!TypeOK
<1>2. /\ row \in Ntf!Row /\ row.user = sends[s].user
      /\ row.sent_via_fcm = sends[s].ok
  BY <1>1 DEF Ntf!Send, Ntf!Row
<1>3. row # None
  BY <1>2, NullAssumption
<1>4. /\ x \in Ntf!Send /\ x.at = "done" /\ x.ok = sends[s].ok
      /\ x.token = sends[s].token /\ x.user = sends[s].user
  BY <1>1 DEF Ntf!Send
<1>5. sends' = [sends EXCEPT ![s] = x]
  BY <1>1 DEF Ntf!DbCreate, Ntf!GoTo
<1> HIDE DEF x, row
<1>6. /\ sends' \in [Sends -> Ntf!Send \cup {Ntf!Idle}] /\ sends'[s] = x
      /\ rows' \in [Sends -> Ntf!Row \cup {None}] /\ rows'[s] = row
      /\ \A d \in Sends \ {s} : sends'[d] = sends[d] /\ rows'[d] = rows[d]
  BY <1>1, <1>2, <1>4, <1>5
<1>7. SendOK(s)'
  BY <1>1, <1>2, <1>3, <1>4, <1>6 DEF SendOK, Ntf!Idle
<1>8. ASSUME NEW d \in Sends \ {s} PROVE SendOK(d)'
  BY <1>1, <1>6 DEF NoticeInv, SendOK, Ntf!Idle
<1> QED
  BY <1>1, <1>6, <1>7, <1>8 DEF NoticeInv, Ntf!TypeOK

\* Notices are read: a row keeps its user and what became of the push.
LEMMA ReadStep ==
  ASSUME NoticeInv,
         \/ \E s \in Sends : Ntf!MarkRead(s)
         \/ \E u \in Recipients : Ntf!MarkAllRead(u)
  PROVE  NoticeInv'
<1>1. /\ UNCHANGED <<token, alive, sends, delivered>>
      /\ rows \in [Sends -> Ntf!Row \cup {None}]
  BY DEF Ntf!MarkRead, Ntf!MarkAllRead, NoticeInv, Ntf!TypeOK
<1>2. ASSUME NEW r \in Ntf!Row
      PROVE  /\ [r EXCEPT !.is_read = TRUE] \in Ntf!Row
             /\ [r EXCEPT !.is_read = TRUE].user = r.user
             /\ [r EXCEPT !.is_read = TRUE].sent_via_fcm = r.sent_via_fcm
  BY DEF Ntf!Row
<1>3. /\ rows' \in [Sends -> Ntf!Row \cup {None}]
      /\ \A d \in Sends :
           /\ rows'[d] = None <=> rows[d] = None
           /\ rows[d] # None => /\ rows'[d].user = rows[d].user
                                /\ rows'[d].sent_via_fcm = rows[d].sent_via_fcm
  <2>1. ASSUME NEW s \in Sends, Ntf!MarkRead(s)
        PROVE  /\ rows' = [rows EXCEPT ![s] = [rows[s] EXCEPT !.is_read = TRUE]]
               /\ rows[s] \in Ntf!Row
    BY <1>1, <2>1 DEF Ntf!MarkRead
  <2>2. ASSUME NEW u \in Recipients, Ntf!MarkAllRead(u)
        PROVE  rows' = [d \in Sends |->
                 IF rows[d] # None /\ rows[d].user = u
                 THEN [rows[d] EXCEPT !.is_read = TRUE] ELSE rows[d]]
    BY <2>2 DEF Ntf!MarkAllRead, Ntf!ListByUser
  <2>3. None \notin Ntf!Row
    BY NullAssumption
  <2>4. CASE \E s \in Sends : Ntf!MarkRead(s)
    <3> PICK s \in Sends : Ntf!MarkRead(s)
      BY <2>4
    <3> DEFINE row == [rows[s] EXCEPT !.is_read = TRUE]
    <3>1. /\ row \in Ntf!Row /\ row.user = rows[s].user
          /\ row.sent_via_fcm = rows[s].sent_via_fcm
          /\ rows' = [rows EXCEPT ![s] = row] /\ rows[s] \in Ntf!Row
      BY <1>2, <2>1
    <3> HIDE DEF row
    <3> QED
      BY <1>1, <2>3, <3>1
  <2>5. CASE \E u \in Recipients : Ntf!MarkAllRead(u)
    <3> PICK u \in Recipients : Ntf!MarkAllRead(u)
      BY <2>5
    <3> DEFINE row(d) == [rows[d] EXCEPT !.is_read = TRUE]
    <3>1. \A d \in Sends : rows[d] # None =>
            /\ row(d) \in Ntf!Row /\ row(d).user = rows[d].user
            /\ row(d).sent_via_fcm = rows[d].sent_via_fcm
      BY <1>1, <1>2
    <3>2. rows' = [d \in Sends |-> IF rows[d] # None /\ rows[d].user = u
                                   THEN row(d) ELSE rows[d]]
      BY <2>2
    <3> HIDE DEF row
    <3> QED
      BY <1>1, <2>3, <3>1, <3>2
  <2> QED
    BY <2>4, <2>5
<1>4. ASSUME NEW d \in Sends PROVE SendOK(d)'
  BY <1>1, <1>3 DEF NoticeInv, SendOK
<1> QED
  BY <1>1, <1>3, <1>4 DEF NoticeInv, Ntf!TypeOK

LEMMA NoticeStep == ASSUME NoticeInv, [Ntf!Next]_noticeVars PROVE NoticeInv'
<1>1. CASE Ntf!Next
  BY <1>1, DeviceStep, SendToUserStep, PushStep, ClearStep, CreateNoticeStep,
     ReadStep
     DEF Ntf!Next
<1>2. CASE UNCHANGED noticeVars
  BY <1>2 DEF noticeVars, NoticeInv, Ntf!TypeOK, SendOK
<1> QED
  BY <1>1, <1>2

\* For any number of users, devices and calls that cross: a call that was not cut
\* off has left its notice, and what the notice calls pushed reached a device.
THEOREM NoticesStayTrue == Ntf!Spec => []NoticesAreConsistent
<1>1. Ntf!Init => NoticeInv
  BY DEF Ntf!Init, NoticeInv, Ntf!TypeOK, SendOK, Ntf!Idle
<1>2. NoticeInv /\ [Ntf!Next]_noticeVars => NoticeInv'
  BY NoticeStep
<1>3. NoticeInv => NoticesAreConsistent
  <2> SUFFICES ASSUME NoticeInv PROVE NoticesAreConsistent
    OBVIOUS
  <2>1. ASSUME NEW s \in Sends
        PROVE  /\ Ntf!At(s, "done") => s \in Ntf!ListByUser(sends[s].user)
               /\ rows[s] # None /\ rows[s].sent_via_fcm =>
                    <<s, sends[s].token>> \in delivered
    <3>1. SendOK(s) /\ (sends[s].at = "done" => sends[s] # Ntf!Idle)
      BY DEF NoticeInv, Ntf!Idle
    <3> QED
      BY <3>1 DEF SendOK, Ntf!At, Ntf!ListByUser
  <2> QED
    BY <2>1 DEF NoticeInv, NoticesAreConsistent, Ntf!NoticeIsKept
<1> QED
  BY <1>1, <1>2, <1>3, PTL DEF Ntf!Spec, Ntf!noticeVars, noticeVars

-----------------------------------------------------------------------------
(* StartUp: the fixes.                                                       *)

LEMMA FixesAre ==
  /\ DOMAIN Stt!Fixes = 1 .. 16 /\ Stt!Seed = 17
  /\ \A i \in 1 .. 7 : Stt!Fixes[i] = Stt!EarlyFixes[i]
  /\ \A i \in 1 .. 9 : Stt!Fixes[i + 7] = Stt!LateFixes[i]
<1> DEFINE S == {Stt!EarlyFixes[i] : i \in 1 .. 7} \cup
                {Stt!LateFixes[i] : i \in 1 .. 9}
<1>1. Len(Stt!EarlyFixes) = 7 /\ Len(Stt!LateFixes) = 9
  BY DEF Stt!EarlyFixes, Stt!LateFixes
<1>2. /\ Stt!EarlyFixes = [i \in 1 .. 7 |-> Stt!EarlyFixes[i]]
      /\ Stt!LateFixes = [i \in 1 .. 9 |-> Stt!LateFixes[i]]
  BY DEF Stt!EarlyFixes, Stt!LateFixes
<1>3. Stt!EarlyFixes \in Seq(S)
  BY <1>2
<1>4. Stt!LateFixes \in Seq(S)
  BY <1>2
<1> HIDE DEF S
<1> DEFINE a == Stt!EarlyFixes
           b == Stt!LateFixes
<1>5. /\ a \in Seq(S) /\ b \in Seq(S) /\ Len(a) = 7 /\ Len(b) = 9
      /\ Stt!Fixes = a \o b
  BY <1>1, <1>3, <1>4 DEF Stt!Fixes
<1> HIDE DEF a, b
<1>6. /\ a \o b \in Seq(S) /\ Len(a \o b) = 16
      /\ \A i \in 1 .. 16 : (a \o b)[i] = IF i <= 7 THEN a[i] ELSE b[i - 7]
  <2>1. /\ a \o b \in Seq(S) /\ Len(a \o b) = Len(a) + Len(b)
        /\ \A i \in 1 .. Len(a) + Len(b) :
             (a \o b)[i] = IF i <= Len(a) THEN a[i] ELSE b[i - Len(a)]
    BY <1>5, ConcatProperties, Zenon
  <2>2. Len(a) + Len(b) = 16
    BY <1>5
  <2>3. Len(a \o b) = 16
    BY <2>1, <2>2
  <2>4. ASSUME NEW i \in 1 .. 16
        PROVE  (a \o b)[i] = IF i <= 7 THEN a[i] ELSE b[i - 7]
    <3>1. i \in 1 .. Len(a) + Len(b)
      BY <2>2
    <3>2. (a \o b)[i] = IF i <= Len(a) THEN a[i] ELSE b[i - Len(a)]
      BY <2>1, <3>1, Zenon
    <3> QED
      BY <1>5, <3>2
  <2> QED
    BY <2>1, <2>3, <2>4
<1>7. /\ Len(Stt!Fixes) = 16
      /\ Stt!Fixes \in Seq(S)
      /\ \A i \in 1 .. 7 : Stt!Fixes[i] = Stt!EarlyFixes[i]
      /\ \A i \in 1 .. 9 : Stt!Fixes[7 + i] = Stt!LateFixes[i]
  <2>1. /\ Len(Stt!Fixes) = 16 /\ Stt!Fixes \in Seq(S)
        /\ \A i \in 1 .. 16 : Stt!Fixes[i] = IF i <= 7 THEN a[i] ELSE b[i - 7]
    BY <1>5, <1>6
  <2>2. \A i \in 1 .. 7 : Stt!Fixes[i] = a[i]
    BY <2>1
  <2>3. ASSUME NEW i \in 1 .. 9 PROVE Stt!Fixes[7 + i] = b[i]
    <3>1. 7 + i \in 1 .. 16 /\ ~(7 + i <= 7) /\ 7 + i - 7 = i
      OBVIOUS
    <3> QED
      BY <2>1, <3>1
  <2> QED
    BY <2>1, <2>2, <2>3 DEF a, b
<1> QED
  BY <1>7, LenProperties DEF Stt!Seed

\* What a fix needs is in the base schema, or one of the fixes before adds it.
LEMMA NeedsAreMet ==
  \A i \in 1 .. 16 :
    \/ Stt!Fixes[i].needs \subseteq Stt!Base
    \/ \E j \in 1 .. 16 : /\ j < i
                          /\ Stt!Fixes[i].needs \subseteq Stt!Fixes[j].adds
<1>1. \A i \in 1 .. 7 : Stt!EarlyFixes[i].needs \subseteq Stt!Base
  <2> SUFFICES ASSUME NEW i \in 1 .. 7
               PROVE  Stt!EarlyFixes[i].needs \subseteq Stt!Base
    OBVIOUS
  <2>1. i = 1 \/ i = 2 \/ i = 3 \/ i = 4 \/ i = 5 \/ i = 6 \/ i = 7
    OBVIOUS
  <2> QED
    BY <2>1 DEF Stt!EarlyFixes, Stt!Fix, Stt!Base
<1>2. /\ Stt!LateFixes[1].adds = {"dispute_messages"}
      /\ Stt!LateFixes[2].adds = {"dispute_attachments"}
      /\ Stt!LateFixes[5].adds = {"support_messages"}
  BY DEF Stt!LateFixes, Stt!Fix
<1>3. /\ Stt!LateFixes[2].needs = {"dispute_messages"}
      /\ Stt!LateFixes[3].needs = {"dispute_attachments"}
      /\ Stt!LateFixes[4].needs = {"dispute_attachments"}
      /\ Stt!LateFixes[6].needs = {"support_messages"}
  BY DEF Stt!LateFixes, Stt!Fix
<1>4. \A i \in {1, 5, 7, 8, 9} : Stt!LateFixes[i].needs \subseteq Stt!Base
  BY DEF Stt!LateFixes, Stt!Fix, Stt!Base
<1>5. \A i \in 1 .. 9 :
        \/ Stt!LateFixes[i].needs \subseteq Stt!Base
        \/ \E j \in 1 .. 9 :
             j < i /\ Stt!LateFixes[i].needs \subseteq Stt!LateFixes[j].adds
  <2> SUFFICES ASSUME NEW i \in 1 .. 9, i \notin {1, 5, 7, 8, 9}
               PROVE  \E j \in 1 .. 9 :
                        j < i /\ Stt!LateFixes[i].needs
                                   \subseteq Stt!LateFixes[j].adds
    BY <1>4
  <2>1. i = 2 \/ i = 3 \/ i = 4 \/ i = 6
    OBVIOUS
  <2> QED
    BY <1>2, <1>3, <2>1
<1> SUFFICES ASSUME NEW i \in 1 .. 16
             PROVE  \/ Stt!Fixes[i].needs \subseteq Stt!Base
                    \/ \E j \in 1 .. 16 :
                         /\ j < i
                         /\ Stt!Fixes[i].needs \subseteq Stt!Fixes[j].adds
  OBVIOUS
<1>6. CASE i <= 7
  BY <1>1, <1>6, FixesAre
<1>7. CASE ~(i <= 7)
  <2>1. i - 7 \in 1 .. 9 /\ (i - 7) + 7 = i
    BY <1>7
  <2>2. Stt!Fixes[i] = Stt!LateFixes[i - 7]
    BY <2>1, FixesAre
  <2>3. CASE Stt!LateFixes[i - 7].needs \subseteq Stt!Base
    BY <2>2, <2>3
  <2>4. ASSUME NEW j \in 1 .. 9, j < i - 7,
               Stt!LateFixes[i - 7].needs \subseteq Stt!LateFixes[j].adds
        PROVE  \E n \in 1 .. 16 :
                 n < i /\ Stt!Fixes[i].needs \subseteq Stt!Fixes[n].adds
    <3>1. j + 7 \in 1 .. 16 /\ j + 7 < i
      BY <2>4
    <3>2. Stt!Fixes[j + 7] = Stt!LateFixes[j]
      BY FixesAre
    <3> QED
      BY <2>2, <2>4, <3>1, <3>2
  <2> QED
    BY <1>5, <2>1, <2>3, <2>4
<1> QED
  BY <1>6, <1>7

\* The columns the finance account needs come with the second fix.
LEMMA FinanceColumns == "users_auth" \in Stt!Fixes[2].adds
<1>1. Stt!EarlyFixes[2].adds = {"users_auth", "email_otp"}
  BY DEF Stt!EarlyFixes, Stt!Fix
<1> QED
  BY <1>1, FixesAre

-----------------------------------------------------------------------------
(* StartUp: the invariant.                                                   *)

\* A process whose Execs were all served has the fixes it is past in the
\* schema, whatever another process did in between.
FixesAreIn ==
  \A p \in Processes : failed[p] = 0 =>
    \A i \in 1 .. 16 : i < pc[p] => Stt!Fixes[i].adds \subseteq schema

\* Once it is through there is a finance account.
FinanceIsSeeded ==
  \A p \in Processes : failed[p] = 0 /\ pc[p] = 18 => password # "none"

StartInv ==
  Stt!TypeOK /\ Stt!Base \subseteq schema /\ FixesAreIn /\ FinanceIsSeeded

\* The schema only grows, and a process that moves on has the fix it leaves.
LEMMA StartGrows ==
  ASSUME StartInv, NEW p \in Processes, NEW i \in 1 .. 17, pc[p] = i,
         pc' = [pc EXCEPT ![p] = i + 1], UNCHANGED failed,
         schema \subseteq schema', schema' \subseteq Stt!Base \cup Stt!Added,
         password' \in {"none", "seeded", "changed"},
         password # "none" => password' # "none",
         failed[p] = 0 /\ i <= 16 => Stt!Fixes[i].adds \subseteq schema',
         failed[p] = 0 /\ i = 17 => password' # "none"
  PROVE  StartInv'
<1>1. pc \in [Processes -> 0 .. 18]
  BY FixesAre DEF StartInv, Stt!TypeOK
<1>2. /\ pc' \in [Processes -> 0 .. 18] /\ pc'[p] = i + 1
      /\ \A d \in Processes \ {p} : pc'[d] = pc[d]
  BY <1>1
<1>3. Stt!TypeOK'
  BY <1>2, FixesAre DEF StartInv, Stt!TypeOK
<1>4. FixesAreIn'
  <2> SUFFICES ASSUME NEW d \in Processes, failed[d] = 0,
                      NEW j \in 1 .. 16, j < pc'[d]
               PROVE  Stt!Fixes[j].adds \subseteq schema'
    BY DEF FixesAreIn
  <2>1. CASE d = p /\ j = i
    BY <2>1
  <2>2. CASE ~(d = p /\ j = i)
    <3>1. j < pc[d]
      BY <1>2, <2>2
    <3> QED
      BY <3>1 DEF StartInv, FixesAreIn
  <2> QED
    BY <2>1, <2>2
<1>5. FinanceIsSeeded'
  <2> SUFFICES ASSUME NEW d \in Processes, failed[d] = 0, pc'[d] = 18
               PROVE  password' # "none"
    BY DEF FinanceIsSeeded
  <2>1. CASE d = p
    BY <1>2, <2>1
  <2>2. CASE d # p
    BY <1>2, <2>2 DEF StartInv, FinanceIsSeeded
  <2> QED
    BY <2>1, <2>2
<1> QED
  BY <1>3, <1>4, <1>5 DEF StartInv

LEMMA ApplyStep ==
  ASSUME StartInv, NEW p \in Processes, Stt!Apply(p)
  PROVE  StartInv'
<1> DEFINE i == pc[p]
           fix == Stt!Fixes[i]
<1>1. /\ i \in 1 .. 16 /\ UNCHANGED <<failed, password>>
      /\ pc' = [pc EXCEPT ![p] = i + 1]
      /\ schema' = IF Stt!Applies(fix) THEN schema \cup fix.adds ELSE schema
  BY FixesAre DEF Stt!Apply, Stt!Proceed
<1>2. password \in {"none", "seeded", "changed"}
  BY DEF StartInv, Stt!TypeOK
<1>3. fix.adds \subseteq Stt!Added
  BY SMTT(30), <1>1, FixesAre DEF Stt!Added, Stt!Seed
<1>4. schema' \subseteq Stt!Base \cup Stt!Added
  BY <1>1, <1>3 DEF StartInv, Stt!TypeOK
<1>5. ASSUME failed[p] = 0 PROVE fix.adds \subseteq schema'
  <2>1. fix.needs \subseteq schema
    <3>1. CASE fix.needs \subseteq Stt!Base
      BY <3>1 DEF StartInv
    <3>2. ASSUME NEW j \in 1 .. 16, j < i,
                 fix.needs \subseteq Stt!Fixes[j].adds
          PROVE  fix.needs \subseteq schema
      BY <1>5, <3>2 DEF StartInv, FixesAreIn
    <3> QED
      BY <1>1, <3>1, <3>2, NeedsAreMet
  <2> QED
    BY <1>1, <2>1 DEF Stt!Applies
<1>6. i \in 1 .. 17 /\ pc[p] = i /\ (i <= 16 => fix = Stt!Fixes[i])
  BY <1>1
<1>7. schema \subseteq schema'
  BY <1>1
<1>8. /\ password' \in {"none", "seeded", "changed"}
      /\ password # "none" => password' # "none"
  BY <1>1, <1>2
<1>9. failed[p] = 0 /\ i <= 16 => Stt!Fixes[i].adds \subseteq schema'
  BY <1>5
<1>10. ~(failed[p] = 0 /\ i = 17)
  BY <1>1
<1> HIDE DEF fix, i
<1> QED
  BY <1>1, <1>4, <1>6, <1>7, <1>8, <1>9, <1>10, StartGrows

LEMMA SeedStep ==
  ASSUME StartInv, NEW p \in Processes, Stt!SeedFinance(p)
  PROVE  StartInv'
<1>1. /\ pc[p] = 17 /\ UNCHANGED <<failed, schema>>
      /\ pc' = [pc EXCEPT ![p] = 17 + 1]
      /\ password' = IF "users_auth" \in schema THEN "seeded" ELSE password
      /\ schema' \subseteq Stt!Base \cup Stt!Added
      /\ password \in {"none", "seeded", "changed"}
  BY FixesAre DEF Stt!SeedFinance, Stt!Proceed, StartInv, Stt!TypeOK
<1>2. failed[p] = 0 => "users_auth" \in schema
  BY <1>1, FinanceColumns DEF StartInv, FixesAreIn
<1>3. /\ 17 \in 1 .. 17 /\ ~(17 <= 16) /\ schema \subseteq schema'
      /\ password' \in {"none", "seeded", "changed"}
      /\ password # "none" => password' # "none"
      /\ failed[p] = 0 => password' # "none"
  BY <1>1, <1>2
<1> QED
  BY <1>1, <1>3, StartGrows

\* The process starts, stops, or has an Exec that is not served.
LEMMA ProcessStep ==
  ASSUME StartInv, NEW p \in Processes,
         Stt!Boot(p) \/ Stt!Stop(p) \/ Stt!ExecFails(p)
  PROVE  StartInv'
<1>1. /\ UNCHANGED <<schema, password>>
      /\ pc \in [Processes -> 0 .. 18]
      /\ failed \in [Processes -> 0 .. MaxFailures]
      /\ MaxFailures \in Nat
  BY FixesAre, PartsAssumption
     DEF Stt!Boot, Stt!Stop, Stt!ExecFails, StartInv, Stt!TypeOK,
         Stt!FailuresAssumption
<1>2. /\ pc' \in [Processes -> 0 .. 18]
      /\ failed' \in [Processes -> 0 .. MaxFailures]
      /\ failed'[p] # 0 \/ pc'[p] \in 0 .. 1
      /\ \A d \in Processes \ {p} : pc'[d] = pc[d] /\ failed'[d] = failed[d]
  <2>1. CASE Stt!Boot(p)
    BY <1>1, <2>1 DEF Stt!Boot
  <2>2. CASE Stt!Stop(p)
    BY <1>1, <2>2 DEF Stt!Stop
  <2>3. CASE Stt!ExecFails(p)
    BY <1>1, <2>3, FixesAre DEF Stt!ExecFails, Stt!Proceed
  <2> QED
    BY <2>1, <2>2, <2>3
<1>3. Stt!TypeOK'
  BY <1>1, <1>2, FixesAre DEF StartInv, Stt!TypeOK
<1>4. \A d \in Processes : failed'[d] = 0 =>
        \/ pc'[d] \in 0 .. 1
        \/ failed[d] = 0 /\ pc'[d] = pc[d]
  BY <1>2
<1>5. FixesAreIn' /\ FinanceIsSeeded'
  BY <1>1, <1>4 DEF StartInv, FixesAreIn, FinanceIsSeeded
<1> QED
  BY <1>1, <1>3, <1>5 DEF StartInv

LEMMA StartStep == ASSUME StartInv, [Stt!Next]_startVars PROVE StartInv'
<1>1. CASE Stt!ChangePassword
  BY <1>1 DEF Stt!ChangePassword, StartInv, Stt!TypeOK, FixesAreIn,
              FinanceIsSeeded
<1>2. CASE UNCHANGED startVars
  BY <1>2 DEF startVars, StartInv, Stt!TypeOK, FixesAreIn, FinanceIsSeeded
<1> QED
  BY <1>1, <1>2, ApplyStep, SeedStep, ProcessStep DEF Stt!Next

\* The early fixes and the late ones add what the repositories use.
LEMMA UsesAreAdded ==
  ASSUME Stt!Base \subseteq schema,
         \A i \in 1 .. 16 : Stt!Fixes[i].adds \subseteq schema
  PROVE  Stt!Uses \subseteq schema
<1>1. /\ {"arrival_otp"} = Stt!EarlyFixes[1].adds
      /\ {"users_auth", "email_otp"} = Stt!EarlyFixes[2].adds
      /\ {"warranty_description"} = Stt!EarlyFixes[4].adds
      /\ {"message_read_at"} = Stt!EarlyFixes[5].adds
      /\ {"technician_categories"} = Stt!EarlyFixes[7].adds
  BY DEF Stt!EarlyFixes, Stt!Fix
<1>2. /\ {"dispute_messages"} = Stt!LateFixes[1].adds
      /\ {"dispute_attachments"} = Stt!LateFixes[2].adds
      /\ {"support_messages"} = Stt!LateFixes[5].adds
      /\ {"technician_dues"} = Stt!LateFixes[7].adds
      /\ {"cash_otp"} = Stt!LateFixes[8].adds
  BY DEF Stt!LateFixes, Stt!Fix
<1>3. \A i \in 1 .. 7 : Stt!EarlyFixes[i].adds \subseteq schema
  BY FixesAre
<1>4. ASSUME NEW i \in 1 .. 9 PROVE Stt!LateFixes[i].adds \subseteq schema
  <2>1. i + 7 \in 1 .. 16 /\ Stt!Fixes[i + 7] = Stt!LateFixes[i]
    BY <1>4, FixesAre
  <2> QED
    BY <2>1
<1>5. /\ {"arrival_otp", "users_auth", "email_otp", "warranty_description",
          "message_read_at", "technician_categories"} \subseteq schema
      /\ {"dispute_messages", "dispute_attachments", "support_messages",
          "technician_dues", "cash_otp"} \subseteq schema
  <2>1. /\ {"arrival_otp"} \subseteq schema
        /\ {"users_auth", "email_otp"} \subseteq schema
        /\ {"warranty_description"} \subseteq schema
        /\ {"message_read_at"} \subseteq schema
        /\ {"technician_categories"} \subseteq schema
    BY <1>1, <1>3
  <2>2. /\ {"dispute_messages"} \subseteq schema
        /\ {"dispute_attachments"} \subseteq schema
        /\ {"support_messages"} \subseteq schema
        /\ {"technician_dues"} \subseteq schema
        /\ {"cash_otp"} \subseteq schema
    BY <1>2, <1>4
  <2> QED
    BY <2>1, <2>2
<1> QED
  BY <1>5 DEF Stt!Base, Stt!Uses, Stt!UserUses, Stt!BookingUses,
              Stt!TechnicianUses, Stt!DisputeUses, Stt!SupportUses,
              Stt!DueUses, Stt!CashUses

\* For any number of processes that boot, die and run beside each other: one
\* whose Execs were all served leaves what the repositories use, but for the
\* call log's.
THEOREM BootsHeal == Stt!Spec => []SchemaIsHealed
<1>1. Stt!Init => StartInv
  BY FixesAre, PartsAssumption
     DEF Stt!Init, StartInv, Stt!TypeOK, FixesAreIn, FinanceIsSeeded,
         Stt!FailuresAssumption
<1>2. StartInv /\ [Stt!Next]_startVars => StartInv'
  BY StartStep
<1>3. StartInv => SchemaIsHealed
  <2> SUFFICES ASSUME StartInv, NEW p \in Processes,
                      pc[p] = Stt!Seed + 1, failed[p] = 0
               PROVE  Stt!Uses \subseteq schema /\ password # "none"
    BY DEF StartInv, SchemaIsHealed, Stt!BootHeals, Stt!Healed
  <2>1. pc[p] = 18
    BY FixesAre
  <2>2. \A i \in 1 .. 16 : Stt!Fixes[i].adds \subseteq schema
    BY <2>1 DEF StartInv, FixesAreIn
  <2>3. Stt!Uses \subseteq schema
    BY <2>2, UsesAreAdded DEF StartInv
  <2> QED
    BY <2>1, <2>3 DEF StartInv, FinanceIsSeeded
<1> QED
  BY <1>1, <1>2, <1>3, PTL DEF Stt!Spec, Stt!startVars, startVars

=============================================================================
