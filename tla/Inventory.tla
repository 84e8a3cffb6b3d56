------------------------------ MODULE Inventory ------------------------------
(***************************************************************************)
(* InventoryService and InventoryRepository: spare parts, the log of their *)
(* stock movements, and purchase orders.                                   *)
(*                                                                         *)
(* Adjusting stock and receiving an order are transactions: the row that   *)
(* decides is read FOR UPDATE and stays locked until the commit, where     *)
(* everything written becomes visible.  A transaction is a slot of txs     *)
(* between its read and its commit.  So far the admin panel only adds      *)
(* parts and restocks; the other operations are the services' offer.       *)
(***************************************************************************)
EXTENDS Integers

CONSTANTS
  Parts,    \* spare parts: primary keys
  Orders,   \* purchase orders: primary keys
  Quantity, \* bound: quantities are at most this
  Txs,      \* transactions open at the same time
  Null

ASSUME QuantityAssumption == Quantity \in Nat \ {0}

ASSUME NoTransactionAssumption ==
  /\ Null \notin Txs \cup Int
  /\ Null \notin [p : Parts, quantity : 1 .. Quantity,
                  status : {"ordered", "received"}]
  /\ Parts \cap Orders = {}

VARIABLES
  stock,    \* stock_quantity of spare_parts, Null while there is no row
  opening,  \* what each part was created with
  moved,    \* sum of quantity_delta over the part's stock movements
  order,    \* rows of spare_part_orders
  restocks, \* movements written for each order
  txs,      \* open transactions
  locked    \* the transaction that holds each part and order FOR UPDATE

stockVars == <<stock, opening, moved, order, restocks, txs, locked>>

Idle == [at |-> "idle"]

Tx == [at : {"adjust"}, p : Parts, delta : -Quantity .. Quantity]
        \cup [at : {"receive"}, o : Orders]

Order == [p : Parts, quantity : 1 .. Quantity,
          status : {"ordered", "received"}]

StockTypeOK ==
  /\ stock \in [Parts -> Int \cup {Null}]
  /\ opening \in [Parts -> -Quantity .. Quantity]
  /\ moved \in [Parts -> Int]
  /\ order \in [Orders -> Order \cup {Null}]
  /\ restocks \in [Orders -> Nat]
  /\ txs \in [Txs -> Tx \cup {Idle}]
  /\ locked \in [Parts \cup Orders -> Txs \cup {Null}]

StockInit ==
  /\ stock = [p \in Parts |-> Null]
  /\ opening = [p \in Parts |-> 0]
  /\ moved = [p \in Parts |-> 0]
  /\ order = [o \in Orders |-> Null]
  /\ restocks = [o \in Orders |-> 0]
  /\ txs = [t \in Txs |-> Idle]
  /\ locked = [x \in Parts \cup Orders |-> Null]

Begin(t, tx) == txs[t] = Idle /\ txs' = [txs EXCEPT ![t] = tx]

Unlocked(t) == [x \in Parts \cup Orders |->
                  IF locked[x] = t THEN Null ELSE locked[x]]

\* The initial stock has no movement.  It is whatever number the panel's form
\* holds: neither the panel nor the table turns a negative one down.
CreateSparePart(p, n) ==
  /\ stock[p] = Null
  /\ stock' = [stock EXCEPT ![p] = n]
  /\ opening' = [opening EXCEPT ![p] = n]
  /\ UNCHANGED <<moved, order, restocks, txs, locked>>

\* Mutant of DbLockPart: without FOR UPDATE.
DbReadPart(t, p, delta) ==
  /\ stock[p] # Null
  /\ stock[p] + delta >= 0
  /\ Begin(t, [at |-> "adjust", p |-> p, delta |-> delta])
  /\ UNCHANGED <<stock, opening, moved, order, restocks, locked>>

\* AdjustStock up to its check.
DbLockPart(t, p, delta) ==
  /\ stock[p] # Null
  /\ locked[p] = Null
  /\ stock[p] + delta >= 0
  /\ Begin(t, [at |-> "adjust", p |-> p, delta |-> delta])
  /\ locked' = [locked EXCEPT ![p] = t]
  /\ UNCHANGED <<stock, opening, moved, order, restocks>>

Move(p, delta) ==
  /\ stock' = [stock EXCEPT ![p] = @ + delta]
  /\ moved' = [moved EXCEPT ![p] = @ + delta]

\* AdjustStock from its UPDATE on, which adds to whatever is stored.
DbCommitAdjust(t) ==
  /\ txs[t].at = "adjust"
  /\ Move(txs[t].p, txs[t].delta)
  /\ txs' = [txs EXCEPT ![t] = Idle]
  /\ locked' = Unlocked(t)
  /\ UNCHANGED <<opening, order, restocks>>

CreateOrder(o, p, n) ==
  /\ order[o] = Null
  /\ stock[p] # Null
  /\ order' = [order EXCEPT ![o] =
                 [p |-> p, quantity |-> n, status |-> "ordered"]]
  /\ UNCHANGED <<stock, opening, moved, restocks, txs, locked>>

\* ReceiveOrder up to its check.
DbLockOrder(t, o) ==
  /\ order[o] # Null
  /\ locked[o] = Null
  /\ order[o].status = "ordered"
  /\ Begin(t, [at |-> "receive", o |-> o])
  /\ locked' = [locked EXCEPT ![o] = t]
  /\ UNCHANGED <<stock, opening, moved, order, restocks>>

\* ReceiveOrder from its first UPDATE on; the part's row must be free as well.
DbCommitReceive(t) ==
  /\ txs[t].at = "receive"
  /\ LET o == txs[t].o IN
     /\ locked[order[o].p] = Null
     /\ Move(order[o].p, order[o].quantity)
     /\ order' = [order EXCEPT ![o].status = "received"]
     /\ restocks' = [restocks EXCEPT ![o] = @ + 1]
  /\ txs' = [txs EXCEPT ![t] = Idle]
  /\ locked' = Unlocked(t)
  /\ UNCHANGED opening

Rollback(t) ==
  /\ txs[t] # Idle
  /\ txs' = [txs EXCEPT ![t] = Idle]
  /\ locked' = Unlocked(t)
  /\ UNCHANGED <<stock, opening, moved, order, restocks>>

StockNext ==
  \/ \E p \in Parts : \E n \in -Quantity .. Quantity : CreateSparePart(p, n)
  \/ \E o \in Orders, p \in Parts, n \in 1 .. Quantity : CreateOrder(o, p, n)
  \/ \E t \in Txs :
       \/ \E p \in Parts, n \in -Quantity .. Quantity :
            n + moved[p] <= Quantity /\ DbLockPart(t, p, n)
       \/ \E o \in Orders : DbLockOrder(t, o)
       \/ DbCommitAdjust(t)
       \/ DbCommitReceive(t)
       \/ Rollback(t)

StockSpec == StockInit /\ [][StockNext]_stockVars

-----------------------------------------------------------------------------
(* What the component promises.                                              *)

\* inventory_repo.go: the stock, its log and the orders "can never drift apart".
\* AdjustStock "rejects a delta that would take stock negative", also when
\* several are made at once: only a part created with less than nothing is below
\* zero, and not further below than it was created.  The log accounts for every
\* part in stock beyond those it was created with; and an order is restocked
\* once when it is received, and not before.
StockIsLogged ==
  /\ \A p \in Parts : stock[p] # Null =>
       /\ stock[p] < 0 => stock[p] >= opening[p]
       /\ stock[p] = opening[p] + moved[p]
  /\ \A o \in Orders :
       restocks[o] = IF order[o] # Null /\ order[o].status = "received"
                     THEN 1 ELSE 0

-----------------------------------------------------------------------------
(* The inductive invariant behind it.                                        *)

\* What a transaction read stays true until it commits, since it holds the row.
TxOK(t) ==
  /\ txs[t].at = "adjust" =>
       LET p == txs[t].p IN
       locked[p] = t /\ stock[p] # Null /\ stock[p] + txs[t].delta >= 0
  /\ txs[t].at = "receive" =>
       LET o == txs[t].o IN
       locked[o] = t /\ order[o] # Null /\ order[o].status = "ordered"

\* Nothing moves, and nothing is ordered, of a part that is not there.
PartsExist ==
  /\ \A p \in Parts : stock[p] = Null => moved[p] = 0
  /\ \A o \in Orders : order[o] # Null => stock[order[o].p] # Null

\* Why StockIsLogged holds: the invariant that every step preserves.
StockInv ==
  /\ StockTypeOK
  /\ StockIsLogged
  /\ PartsExist
  /\ \A t \in Txs : TxOK(t)

=============================================================================
