-------------------------- MODULE SpotTrading_proofs --------------------------
(***************************************************************************)
(* What the matching of one asset guarantees for any number of orders,     *)
(* requests in progress, users, prices, retries and restarts.              *)
(*                                                                         *)
(* For one worker: Inv says that while a job is under way nobody else      *)
(* fills the orders it has read: their rows still have no fill, and what   *)
(* its transaction has written is what the quantities it has taken amount  *)
(* to.  AgreedInv says in addition that the rows are those it has read,    *)
(* which holds as long as users only create.  For any number of workers:   *)
(* Typed and PlaceInv are types and the one place of every job, ValueInv   *)
(* the balance of the postings.  With all of them (Base): WroteInv says    *)
(* row by row what the transaction has written, LockedInv what accounts    *)
(* for the locked columns inside and outside it, TurnInv which orders the  *)
(* book and the fills hold, UncrossedInv that no job is forgotten.         *)
(***************************************************************************)
EXTENDS SpotTrading, Sums, SequenceTheorems, FiniteSetTheorems, TLAPS

\* The backend runs as one process, so that an asset's queue has one worker.
OneWorker == \A v, w \in Workers : v = w

\* A fill as the transaction records it.
OfFill == [taker : Orders, maker : Orders, price : Nat, quantity : Int]

\* A version of the table and of the history that belongs to it.
Rows(os, ex) ==
  /\ os \in Seq(OrderRow) /\ Len(os) <= MaxOrders
  /\ ex \in [Orders -> Int]
  /\ \A o \in 1 .. Len(os) :
       /\ os[o].filled = ex[o]
       /\ 0 <= ex[o] /\ ex[o] <= os[o].quantity
       /\ os[o].status = "OPEN" => ex[o] = 0
  /\ \A o \in Orders : o > Len(os) => ex[o] = 0

RowsInv == Rows(orders, executed)

\* What an order is does not change, whatever happens to it.
SameOrders(os, old) ==
  \A o \in 1 .. Len(old) : os[o].quantity = old[o].quantity /\ os[o].owner = old[o].owner

\* Every handler that is about to store an order will find room for it.
Room == Len(orders) + Cardinality(Locking) <= MaxOrders

\* An order that has been stored.
Known(o) == o \in Orders /\ o <= Len(orders)

HandlerInv ==
  /\ handler \in [Handlers -> HandlerType]
  /\ \A h \in Handlers :
       /\ handler[h].step = "locked" => handler[h].order.filled = 0
       /\ handler[h].step \in {"stored", "reprice", "cancel"} => Known(handler[h].id)

QueueInv ==
  /\ waiting \in Seq(Orders)
  /\ \A i \in 1 .. Len(waiting) : Known(waiting[i])
  /\ delayed \subseteq Orders
  /\ \A o \in delayed : Known(o)

\* A row that was read when nothing was filled, and nothing is filled since.
Unfilled(o, row) ==
  /\ Known(o) /\ row \in OrderRow
  /\ row.filled = 0 /\ row.quantity = orders[o].quantity /\ row.owner = orders[o].owner
  /\ executed[o] = 0

\* A job that has read its book: no order is in it twice, none is the taker, and
\* no more is taken or spent than the taker has.
ReadInv(j) ==
  /\ \A m \in j.book : Unfilled(m.id, m.row) /\ m.id # j.id
  /\ \A m, n \in j.book : m.id = n.id => m = n
  /\ j.remaining \in Nat /\ j.remaining <= j.taker.quantity
  /\ j.spent \in Nat
  /\ MarketBuy(j.taker) => j.spent <= Budget(j.taker)

JobInv ==
  /\ worker \in [Workers -> JobType]
  /\ \A w \in Workers :
       /\ worker[w].phase # "idle" => Known(worker[w].id)
       /\ worker[w].phase \in {"taken", "read", "matching"} =>
            Unfilled(worker[w].id, worker[w].taker)
       /\ worker[w].phase \in {"read", "matching"} => ReadInv(worker[w])
       /\ worker[w].phase = "read" => worker[w].remaining = worker[w].taker.quantity

\* What the open transaction has written so far.
OpenTxn(w) ==
  /\ txn.owner = w
  /\ Rows(txn.orders, txn.executed)
  /\ Len(txn.orders) = Len(orders)
  /\ SameOrders(txn.orders, orders)
  /\ txn.executed[worker[w].id] = worker[w].taker.quantity - worker[w].remaining
  /\ \A m \in worker[w].book : txn.executed[m.id] = 0
  /\ txn.fills \subseteq OfFill

TxnInv ==
  \/ txn = NoTxn /\ \A w \in Workers : worker[w].phase # "matching"
  \/ \E w \in Workers : worker[w].phase = "matching" /\ OpenTxn(w)

Inv == RowsInv /\ Room /\ HandlerInv /\ QueueInv /\ JobInv /\ TxnInv

------------------------------------------------------------------------------
LEMMA Division ==
  ASSUME NEW a \in Nat, NEW p \in Nat \ {0}
  PROVE  a \div p \in Nat /\ (a \div p) * p <= a
BY Z3

LEMMA DivisionBound ==
  ASSUME NEW a \in Nat, NEW p \in Nat, NEW b \in Nat, a < b * p
  PROVE  /\ p # 0 /\ a \div p \in Nat /\ a \div p <= b /\ (a \div p) * p <= a
<1>1. p # 0
  BY Z3
<1>2. a \div p \in Nat /\ (a \div p) * p <= a
  BY <1>1, Division
<1>3. ASSUME NEW q \in Nat, q * p <= a PROVE q <= b
  <2>1. q * p < b * p
    BY <1>3
  <2>2. CASE q > b
    <3>1. PICK d \in Nat : q = b + d
      BY <2>2
    <3>2. q * p = b * p + d * p /\ d * p \in Nat /\ b * p \in Nat
      BY <3>1
    <3> QED BY <2>1, <3>2
  <2> QED BY <2>2
<1> QED BY <1>1, <1>2, <1>3

\* What the engine takes is at most what either side has left, and a MARKET BUY
\* never spends more than its budget.
LEMMA MatchableBound ==
  ASSUME NEW j, NEW m, j.taker \in OrderRow, m.row \in OrderRow,
         m.row.quantity - m.row.filled > 0, j.remaining \in Nat, j.spent \in Nat,
         MarketBuy(j.taker) => j.spent <= Budget(j.taker),
         Takes(j, m), NEW n, n = MatchableQuantity(j, m)
  PROVE  /\ n \in Nat /\ n > 0 /\ n <= j.remaining /\ n <= m.row.quantity - m.row.filled
         /\ MarketBuy(j.taker) => j.spent + n * m.row.price <= Budget(j.taker)
<1> DEFINE both == Smaller(j.remaining, m.row.quantity - m.row.filled)
           over == MarketBuy(j.taker) /\ j.spent + both * m.row.price > Budget(j.taker)
<1>1. both \in Nat /\ both <= j.remaining /\ both <= m.row.quantity - m.row.filled
  BY DEF Smaller, OrderRow
<1>2. m.row.price \in Nat /\ j.taker.quantity \in Nat /\ j.taker.price \in Nat
  BY DEF OrderRow
<1>3. Budget(j.taker) \in Nat
  BY <1>2 DEF Budget
<1>4. n = IF over THEN (Budget(j.taker) - j.spent) \div m.row.price ELSE both
  BY DEF MatchableQuantity
<1>5. n > 0
  BY DEF Takes
<1> HIDE DEF both
<1>6. CASE over
  <2>1. Budget(j.taker) - j.spent \in Nat
    BY <1>3, <1>6
  <2>2. Budget(j.taker) - j.spent < both * m.row.price
    BY <1>1, <1>2, <1>3, <1>6
  <2>3. /\ n \in Nat /\ n <= both
        /\ n * m.row.price <= Budget(j.taker) - j.spent
    <3>1. n = (Budget(j.taker) - j.spent) \div m.row.price
      BY <1>4, <1>6
    <3>2. PICK left \in Nat : left = Budget(j.taker) - j.spent
      BY <2>1
    <3>3. left < both * m.row.price
      BY <2>2, <3>2
    <3>4. left \div m.row.price \in Nat /\ left \div m.row.price <= both
          /\ (left \div m.row.price) * m.row.price <= left
      BY <1>1, <1>2, <3>3, DivisionBound
    <3> QED BY <3>1, <3>2, <3>4
  <2>4. n * m.row.price \in Nat
    BY <2>3, <1>2
  <2>5. j.spent + n * m.row.price <= Budget(j.taker)
    BY <2>3, <2>4, <1>3
  <2>6. n <= j.remaining /\ n <= m.row.quantity - m.row.filled
    BY <2>3, <1>1, <1>2 DEF OrderRow
  <2> QED BY <2>3, <2>5, <2>6, <1>5
<1>7. CASE ~over
  <2>1. n = both
    BY <1>4, <1>7
  <2>2. both * m.row.price \in Nat
    BY <1>1, <1>2
  <2> QED BY <2>1, <2>2, <1>1, <1>2, <1>3, <1>5, <1>7
<1> QED BY <1>6, <1>7

------------------------------------------------------------------------------
(***************************************************************************)
(* Steps that leave most of the state as it is                             *)
(***************************************************************************)
\* The table only grows.
Grows == Len(orders) <= Len(orders') /\ SameOrders(orders', orders)

LEMMA SameGrows == ASSUME RowsInv, UNCHANGED orders PROVE Grows
BY LenProperties DEF RowsInv, Rows, Grows, SameOrders

LEMMA KnownGrows ==
  ASSUME RowsInv, RowsInv', Grows, NEW o, Known(o)
  PROVE  Known(o)' /\ o \in 1 .. Len(orders)
<1>1. Len(orders) \in Nat /\ Len(orders') \in Nat
  BY LenProperties DEF RowsInv, Rows
<1> QED BY <1>1, TradingAssumption DEF Known, Grows, SameOrders, Orders

LEMMA QueueFrame ==
  ASSUME RowsInv, RowsInv', Grows, QueueInv, UNCHANGED <<waiting, delayed>>
  PROVE  QueueInv'
BY KnownGrows DEF QueueInv

LEMMA UnfilledFrame ==
  ASSUME RowsInv, RowsInv', Grows, UNCHANGED executed, NEW o, NEW row, Unfilled(o, row)
  PROVE  Unfilled(o, row)'
<1>1. Known(o)' /\ o \in 1 .. Len(orders)
  BY KnownGrows DEF Unfilled
<1> QED BY <1>1 DEF Unfilled, Grows, SameOrders

LEMMA ReadFrame ==
  ASSUME RowsInv, RowsInv', Grows, UNCHANGED executed, NEW j, ReadInv(j)
  PROVE  ReadInv(j)'
BY UnfilledFrame DEF ReadInv

LEMMA JobFrame ==
  ASSUME RowsInv, RowsInv', Grows, JobInv, UNCHANGED <<worker, executed>>
  PROVE  JobInv'
<1>1. worker' = worker /\ executed' = executed
  OBVIOUS
<1>2. ASSUME NEW w \in Workers
      PROVE  (/\ worker[w].phase # "idle" => Known(worker[w].id)
              /\ worker[w].phase \in {"taken", "read", "matching"} =>
                   Unfilled(worker[w].id, worker[w].taker)
              /\ worker[w].phase \in {"read", "matching"} => ReadInv(worker[w])
              /\ worker[w].phase = "read" => worker[w].remaining = worker[w].taker.quantity)'
  <2>1. worker[w].phase # "idle" => Known(worker[w].id)'
    BY KnownGrows DEF JobInv
  <2>2. worker[w].phase \in {"taken", "read", "matching"} =>
          Unfilled(worker[w].id, worker[w].taker)'
    BY <1>1, UnfilledFrame DEF JobInv
  <2>3. worker[w].phase \in {"read", "matching"} => ReadInv(worker[w])'
    BY <1>1, ReadFrame DEF JobInv
  <2> QED BY <1>1, <2>1, <2>2, <2>3 DEF JobInv
<1> QED BY <1>1, <1>2 DEF JobInv

LEMMA TxnFrame ==
  ASSUME TxnInv, UNCHANGED <<worker, txn>>, txn = NoTxn \/ UNCHANGED orders
  PROVE  TxnInv'
<1>1. CASE UNCHANGED orders
  BY <1>1 DEF TxnInv, OpenTxn, Rows, SameOrders
<1>2. CASE txn = NoTxn
  <2>1. \A w \in Workers : txn.owner # w
    BY <1>2, TradingAssumption DEF NoTxn
  <2> QED BY <1>2, <2>1 DEF TxnInv, OpenTxn
<1> QED BY <1>1, <1>2

\* A handler goes on to v.
LEMMA HandlerSet ==
  ASSUME RowsInv, RowsInv', Grows, HandlerInv, NEW h \in Handlers, NEW v \in HandlerType,
         handler' = [handler EXCEPT ![h] = v],
         v.step = "locked" => v.order.filled = 0,
         v.step \in {"stored", "reprice", "cancel"} => Known(v.id)'
  PROVE  HandlerInv'
<1>1. handler' \in [Handlers -> HandlerType]
  BY DEF HandlerInv
<1>2. ASSUME NEW g \in Handlers
      PROVE  (/\ handler[g].step = "locked" => handler[g].order.filled = 0
              /\ handler[g].step \in {"stored", "reprice", "cancel"} => Known(handler[g].id))'
  <2>1. CASE g = h
    BY <2>1 DEF HandlerInv
  <2>2. CASE g # h
    <3>1. handler'[g] = handler[g]
      BY <2>2 DEF HandlerInv
    <3> QED BY <3>1, KnownGrows DEF HandlerInv
  <2> QED BY <2>1, <2>2
<1> QED BY <1>1, <1>2 DEF HandlerInv

LEMMA HandlerFrame ==
  ASSUME RowsInv, RowsInv', Grows, HandlerInv, UNCHANGED handler
  PROVE  HandlerInv'
BY KnownGrows DEF HandlerInv

LEMMA LockingFinite == IsFiniteSet(Locking) /\ Cardinality(Locking) \in Nat
BY TradingAssumption, FS_Subset, FS_CardinalityType DEF Locking

\* Room for an order is kept by a handler that is or becomes no Locking one.
LEMMA RoomFrame ==
  ASSUME HandlerInv, NEW h \in Handlers, NEW v, handler' = [handler EXCEPT ![h] = v],
         v.step # "locked", Room, UNCHANGED orders, RowsInv
  PROVE  Room'
<1>1. Locking' \in SUBSET Locking
  BY DEF Locking, HandlerInv
<1>2. Cardinality(Locking') <= Cardinality(Locking) /\ Cardinality(Locking') \in Nat
  BY <1>1, LockingFinite, FS_Subset, FS_CardinalityType
<1>3. Len(orders) \in Nat
  BY LenProperties DEF RowsInv, Rows
<1> QED BY <1>2, <1>3, LockingFinite, TradingAssumption DEF Room

------------------------------------------------------------------------------
(***************************************************************************)
(* The steps of the request handlers                                       *)
(***************************************************************************)
LEMMA NewOrderType ==
  ASSUME NEW q \in OrderRequests
  PROVE  NewOrder(q) \in OrderRow /\ NewOrder(q).filled = 0
<1>1. q \in RequestType
  BY TradingAssumption
<1>2. q.maxTotalCost \div q.quantity \in Nat
  BY <1>1, Division DEF RequestType
<1>3. OrderPrice(q) \in Nat
  BY <1>1, <1>2 DEF OrderPrice, RequestType
<1> QED BY <1>1, <1>3 DEF NewOrder, OrderRow, RequestType, Statuses

\* A step that writes no order.
LEMMA NothingStored ==
  ASSUME Inv, UNCHANGED <<orders, executed>>
  PROVE  RowsInv /\ RowsInv' /\ Grows /\ Len(orders) \in Nat
BY SameGrows, LenProperties DEF Inv, RowsInv, Rows

LEMMA LockFundsKeepsInv ==
  ASSUME Inv, NEW h \in Handlers, NEW q \in OrderRequests, LockFunds(h, q)
  PROVE  Inv'
<1>1. UNCHANGED <<orders, executed, waiting, delayed, worker, txn>>
  BY DEF LockFunds, queue
<1>2. RowsInv /\ RowsInv' /\ Grows /\ Len(orders) \in Nat
  BY <1>1, NothingStored
<1> DEFINE v == [step |-> "locked", order |-> NewOrder(q)]
<1>3. v \in HandlerType /\ v.step = "locked" /\ v.order.filled = 0
  BY NewOrderType DEF HandlerType
<1>4. handler' = [handler EXCEPT ![h] = v]
  BY DEF LockFunds
<1>5. HandlerInv'
  BY <1>2, <1>3, <1>4, HandlerSet DEF Inv
<1>6. Room'
  <2>1. handler[h] = Idle /\ Len(orders) + Cardinality(Locking) < MaxOrders
    BY DEF LockFunds
  <2>2. Locking' = Locking \cup {h}
    BY <1>3, <1>4 DEF Locking, Inv, HandlerInv
  <2>3. h \notin Locking
    BY <2>1 DEF Locking, Idle
  <2>4. Cardinality(Locking') = Cardinality(Locking) + 1
    BY <2>2, <2>3, LockingFinite, FS_AddElement
  <2> QED BY <1>1, <1>2, <2>1, <2>4, LockingFinite, TradingAssumption DEF Room
<1> QED BY <1>1, <1>2, <1>5, <1>6, QueueFrame, JobFrame, TxnFrame DEF Inv

\* A handler step that writes no order and locks nothing.
LEMMA HandlerKeepsInv ==
  ASSUME Inv, NEW h \in Handlers, NEW v \in HandlerType,
         handler' = [handler EXCEPT ![h] = v], v.step # "locked",
         v.step \in {"stored", "reprice", "cancel"} => Known(v.id),
         UNCHANGED <<orders, executed, waiting, delayed, worker, txn>>
  PROVE  Inv'
<1>1. RowsInv /\ RowsInv' /\ Grows
  BY NothingStored
<1>2. v.step \in {"stored", "reprice", "cancel"} => Known(v.id)'
  BY DEF Known
<1>3. HandlerInv'
  BY <1>1, <1>2, HandlerSet DEF Inv
<1>4. Room'
  BY <1>1, RoomFrame DEF Inv
<1> QED BY <1>1, <1>3, <1>4, QueueFrame, JobFrame, TxnFrame DEF Inv

LEMMA IdleType == Idle \in HandlerType /\ Idle.step = "idle"
BY DEF Idle, HandlerType

LEMMA HandlerTypes ==
  \A o \in Orders :
    /\ [step |-> "stored", id |-> o] \in HandlerType
    /\ \A p \in Nat : [step |-> "reprice", id |-> o, price |-> p] \in HandlerType
    /\ \A p \in Nat, n \in Int :
         [step |-> "cancel", id |-> o, price |-> p, remaining |-> n] \in HandlerType
BY DEF HandlerType

LEMMA NoTxnOwner == ASSUME NEW w \in Workers PROVE NoTxn.owner # w
BY TradingAssumption DEF NoTxn

\* A handler step that writes orders while no transaction is open.
LEMMA WriteKeepsInv ==
  ASSUME Inv, RowsInv', Grows, HandlerInv', Room', txn = NoTxn,
         UNCHANGED <<executed, waiting, delayed, worker, txn>>
  PROVE  Inv'
BY QueueFrame, JobFrame, TxnFrame DEF Inv

LEMMA StoreOrderKeepsInv ==
  ASSUME Inv, NEW h \in Handlers, StoreOrder(h)
  PROVE  Inv'
<1> DEFINE row == handler[h].order
           v == [step |-> "stored", id |-> Len(orders) + 1]
<1>1. handler[h].step = "locked" /\ row \in OrderRow /\ row.filled = 0
  BY DEF StoreOrder, Inv, HandlerInv, HandlerType, Idle
<1>2. /\ orders' = Append(orders, row) /\ txn = NoTxn
      /\ handler' = [handler EXCEPT ![h] = v]
      /\ UNCHANGED <<executed, waiting, delayed, worker, txn>>
  BY DEF StoreOrder, queue
<1>3. /\ orders \in Seq(OrderRow) /\ Len(orders) \in Nat
      /\ handler \in [Handlers -> HandlerType]
  BY LenProperties DEF Inv, RowsInv, Rows, HandlerInv
<1>4. /\ orders' \in Seq(OrderRow) /\ Len(orders') = Len(orders) + 1
      /\ \A o \in 1 .. Len(orders) : orders'[o] = orders[o]
      /\ orders'[Len(orders) + 1] = row
  BY <1>1, <1>2, <1>3, AppendProperties
<1> HIDE DEF row
<1>5. Locking' = Locking \ {h} /\ h \in Locking
  BY <1>1, <1>2, <1>3 DEF Locking
<1>6. Cardinality(Locking') = Cardinality(Locking) - 1
  BY <1>5, LockingFinite, FS_RemoveElement
<1>7. Room'
  BY <1>3, <1>4, <1>6, LockingFinite, TradingAssumption DEF Room, Inv
<1>8. Len(orders) + 1 <= MaxOrders /\ Len(orders) + 1 \in Orders
  <2>1. Cardinality(Locking) > 0
    BY <1>5, LockingFinite, FS_EmptySet
  <2> QED BY <2>1, <1>3, LockingFinite, TradingAssumption DEF Room, Inv, Orders
<1>9. RowsInv'
  <2>1. executed[Len(orders) + 1] = 0
    BY <1>3, <1>8 DEF Inv, RowsInv, Rows
  <2>2. row.quantity \in Nat
    BY <1>1 DEF OrderRow
  <2>3. ASSUME NEW o \in 1 .. Len(orders)
        PROVE  /\ orders'[o].filled = executed[o]
               /\ 0 <= executed[o] /\ executed[o] <= orders'[o].quantity
               /\ orders'[o].status = "OPEN" => executed[o] = 0
    BY <1>4 DEF Inv, RowsInv, Rows
  <2>4. ASSUME NEW o \in 1 .. Len(orders')
        PROVE  /\ orders'[o].filled = executed[o]
               /\ 0 <= executed[o] /\ executed[o] <= orders'[o].quantity
               /\ orders'[o].status = "OPEN" => executed[o] = 0
    <3>1. CASE o \in 1 .. Len(orders)
      BY <2>3, <3>1
    <3>2. CASE o = Len(orders) + 1
      BY <3>2, <1>1, <1>4, <2>1, <2>2
    <3> QED BY <3>1, <3>2, <1>3, <1>4
  <2>5. \A o \in Orders : o > Len(orders') => executed[o] = 0
    BY <1>3, <1>4 DEF Inv, RowsInv, Rows, Orders
  <2>6. executed \in [Orders -> Int] /\ executed' = executed
    BY <1>2 DEF Inv, RowsInv, Rows
  <2> QED BY <1>4, <1>8, <2>4, <2>5, <2>6 DEF RowsInv, Rows
<1>10. Grows
  BY <1>3, <1>4 DEF Grows, SameOrders
<1>11. HandlerInv'
  <2>1. v \in HandlerType /\ v.step = "stored" /\ v.id = Len(orders) + 1
    BY <1>8, HandlerTypes
  <2> HIDE DEF v
  <2>2. v.id \in Orders /\ v.id <= Len(orders')
    BY <2>1, <1>3, <1>4, <1>8
  <2>3. handler' = [handler EXCEPT ![h] = v]
    BY <1>2 DEF v
  <2> QED BY <1>9, <1>10, <2>1, <2>2, <2>3, HandlerSet DEF Inv, Known
<1> QED BY <1>2, <1>7, <1>9, <1>10, <1>11, WriteKeepsInv

LEMMA QueueOrderKeepsInv ==
  ASSUME Inv, NEW h \in Handlers, QueueOrder(h)
  PROVE  Inv'
<1> DEFINE o == handler[h].id
<1>1. /\ waiting' = Append(waiting, o) /\ handler' = [handler EXCEPT ![h] = Idle]
      /\ UNCHANGED <<orders, executed, delayed, worker, txn>>
  BY DEF QueueOrder, store
<1>2. Known(o)
  BY DEF QueueOrder, Inv, HandlerInv
<1> HIDE DEF o
<1>3. RowsInv /\ RowsInv' /\ Grows
  BY <1>1, NothingStored
<1>4. QueueInv'
  <2>1. /\ waiting' \in Seq(Orders) /\ Len(waiting') = Len(waiting) + 1
        /\ \A i \in 1 .. Len(waiting) : waiting'[i] = waiting[i]
        /\ waiting'[Len(waiting) + 1] = o
    BY <1>1, <1>2, AppendProperties DEF Known, Inv, QueueInv
  <2>2. Len(waiting) \in Nat
    BY LenProperties DEF Inv, QueueInv
  <2>3. \A i \in 1 .. Len(waiting') : Known(waiting'[i])
    BY <1>2, <2>1, <2>2 DEF Inv, QueueInv
  <2> QED BY <1>1, <2>1, <2>3 DEF Inv, QueueInv, Known
<1>5. HandlerInv' /\ Room'
  BY <1>1, <1>3, IdleType, HandlerSet, RoomFrame DEF Inv
<1> QED BY <1>1, <1>3, <1>4, <1>5, JobFrame, TxnFrame DEF Inv

LEMMA RowWritten ==
  ASSUME RowsInv, NEW o, Known(o), NEW row \in OrderRow,
         row.filled = orders[o].filled, row.quantity = orders[o].quantity,
         row.owner = orders[o].owner, row.status = "OPEN" => orders[o].status = "OPEN",
         orders' = [orders EXCEPT ![o] = row], UNCHANGED executed
  PROVE  RowsInv' /\ Grows /\ Len(orders') = Len(orders)
<1>1. orders \in Seq(OrderRow) /\ Len(orders) \in Nat /\ o \in 1 .. Len(orders)
  BY LenProperties, TradingAssumption DEF RowsInv, Rows, Known, Orders
<1>2. /\ orders' \in Seq(OrderRow) /\ Len(orders') = Len(orders)
      /\ \A p \in 1 .. Len(orders) : orders'[p] = IF p = o THEN row ELSE orders[p]
  BY <1>1, ExceptSeq
<1> QED BY <1>1, <1>2 DEF RowsInv, Rows, Grows, SameOrders

\* The row of a known order, and the two ways a handler writes it.
LEMMA RowOf ==
  ASSUME Inv, NEW o, Known(o)
  PROVE  /\ orders[o] \in OrderRow /\ o \in DOMAIN orders
         /\ \A p \in Nat :
              LET row == [orders[o] EXCEPT !.price = p]
              IN  /\ row \in OrderRow
                  /\ row.filled = orders[o].filled /\ row.quantity = orders[o].quantity
                  /\ row.owner = orders[o].owner /\ row.status = orders[o].status
         /\ LET row == [orders[o] EXCEPT !.status = "CANCELLED"]
            IN  /\ row \in OrderRow
                /\ row.filled = orders[o].filled /\ row.quantity = orders[o].quantity
                /\ row.owner = orders[o].owner /\ row.status = "CANCELLED"
<1>1. orders \in Seq(OrderRow) /\ Len(orders) \in Nat /\ o \in 1 .. Len(orders)
  BY LenProperties, TradingAssumption DEF Inv, RowsInv, Rows, Known, Orders
<1>2. orders[o] \in OrderRow /\ o \in DOMAIN orders
  BY <1>1, ElementOfSeq, LenProperties
<1> QED BY <1>2 DEF OrderRow, Statuses

\* A handler that writes a row and is idle again.
LEMMA LastWriteKeepsInv ==
  ASSUME Inv, NEW h \in Handlers, handler' = [handler EXCEPT ![h] = Idle],
         handler[h].step # "locked", RowsInv', Grows, Len(orders') = Len(orders),
         txn = NoTxn, UNCHANGED <<executed, waiting, delayed, worker, txn>>
  PROVE  Inv'
<1>1. HandlerInv'
  BY IdleType, HandlerSet DEF Inv
<1>2. Locking' = Locking
  BY IdleType DEF Locking, Inv, HandlerInv
<1>3. Room'
  BY <1>2 DEF Inv, Room
<1> QED BY <1>1, <1>3, WriteKeepsInv

LEMMA WritePriceKeepsInv ==
  ASSUME Inv, NEW h \in Handlers, WritePrice(h)
  PROVE  Inv'
<1> DEFINE o == handler[h].id
           p == handler[h].price
<1>1. /\ Known(o) /\ p \in Nat /\ handler[h].step = "reprice"
      /\ orders' = [orders EXCEPT ![o].price = p] /\ txn = NoTxn
      /\ handler' = [handler EXCEPT ![h] = Idle]
      /\ UNCHANGED <<executed, waiting, delayed, worker, txn>>
  BY DEF WritePrice, queue, Inv, HandlerInv, HandlerType, Idle
<1> HIDE DEF o, p
<1> DEFINE row == [orders[o] EXCEPT !.price = p]
<1>2. orders' = [orders EXCEPT ![o] = row]
  BY <1>1
<1>3. /\ row \in OrderRow /\ row.filled = orders[o].filled
      /\ row.quantity = orders[o].quantity /\ row.owner = orders[o].owner
      /\ row.status = orders[o].status
  BY <1>1, RowOf
<1> HIDE DEF row
<1>4. RowsInv' /\ Grows /\ Len(orders') = Len(orders)
  BY <1>1, <1>2, <1>3, RowWritten DEF Inv
<1> QED BY <1>1, <1>4, LastWriteKeepsInv

LEMMA CancelOrderKeepsInv ==
  ASSUME Inv, NEW h \in Handlers, CancelOrder(h)
  PROVE  Inv'
<1> DEFINE o == handler[h].id
<1>1. /\ Known(o) /\ handler[h].step = "cancel"
      /\ orders' = [orders EXCEPT ![o].status = "CANCELLED"] /\ txn = NoTxn
      /\ handler' = [handler EXCEPT ![h] = Idle]
      /\ UNCHANGED <<executed, waiting, delayed, worker, txn>>
  BY DEF CancelOrder, queue, Inv, HandlerInv
<1> HIDE DEF o
<1> DEFINE row == [orders[o] EXCEPT !.status = "CANCELLED"]
<1>2. orders' = [orders EXCEPT ![o] = row]
  BY <1>1
<1>3. /\ row \in OrderRow /\ row.filled = orders[o].filled
      /\ row.quantity = orders[o].quantity /\ row.owner = orders[o].owner
      /\ row.status = "CANCELLED"
  BY <1>1, RowOf
<1> HIDE DEF row
<1>4. RowsInv' /\ Grows /\ Len(orders') = Len(orders)
  BY <1>1, <1>2, <1>3, RowWritten DEF Inv
<1> QED BY <1>1, <1>4, LastWriteKeepsInv

\* A request that is given up, or has only read.
LEMMA OtherHandlerStepsKeepInv ==
  ASSUME Inv, NEW h \in Handlers,
         \/ CreateThrows(h) \/ RequestThrows(h)
         \/ \E o \in Orders : ReadForCancel(h, o) \/ \E p \in Band : ReadForUpdate(h, o, p)
  PROVE  Inv'
<1>1. UNCHANGED <<orders, executed, waiting, delayed, worker, txn>>
  BY DEF CreateThrows, RequestThrows, ReadForCancel, ReadForUpdate, queue, store
<1>2. CASE CreateThrows(h) \/ RequestThrows(h)
  BY <1>1, <1>2, IdleType, HandlerKeepsInv DEF CreateThrows, RequestThrows
<1>3. ASSUME NEW o \in Orders, NEW p \in Band, ReadForUpdate(h, o, p) PROVE Inv'
  <2> DEFINE v == [step |-> "reprice", id |-> o, price |-> p]
  <2>1. v \in HandlerType
    BY HandlerTypes, TradingAssumption
  <2>2. Known(v.id)
    BY <1>3, LenProperties DEF ReadForUpdate, Known, Inv, RowsInv, Rows, Orders
  <2>3. handler' = [handler EXCEPT ![h] = v]
    BY <1>3 DEF ReadForUpdate
  <2> QED BY <1>1, <2>1, <2>2, <2>3, HandlerKeepsInv
<1>4. ASSUME NEW o \in Orders, ReadForCancel(h, o) PROVE Inv'
  <2> DEFINE v == [step |-> "cancel", id |-> o, price |-> orders[o].price,
                   remaining |-> orders[o].quantity - orders[o].filled]
  <2>1. Known(o)
    BY <1>4, LenProperties DEF ReadForCancel, Known, Inv, RowsInv, Rows, Orders
  <2>2. /\ orders[o].price \in Nat
        /\ orders[o].quantity - orders[o].filled \in Int
    <3>1. orders[o] \in OrderRow
      BY <2>1, RowOf
    <3> QED BY <3>1 DEF OrderRow
  <2>3. v \in HandlerType
    BY <2>2, HandlerTypes
  <2>4. handler' = [handler EXCEPT ![h] = v]
    BY <1>4 DEF ReadForCancel
  <2> QED BY <1>1, <2>1, <2>3, <2>4, HandlerKeepsInv
<1> QED BY <1>2, <1>3, <1>4

------------------------------------------------------------------------------
(***************************************************************************)
(* The steps of the worker                                                 *)
(***************************************************************************)
\* The worker goes on to job j.
LEMMA JobSet ==
  ASSUME JobInv, NEW w \in Workers, NEW j \in JobType, worker' = [worker EXCEPT ![w] = j],
         UNCHANGED <<orders, executed>>, RowsInv,
         j.phase # "idle" => Known(j.id),
         j.phase \in {"taken", "read", "matching"} => Unfilled(j.id, j.taker),
         j.phase \in {"read", "matching"} => ReadInv(j),
         j.phase = "read" => j.remaining = j.taker.quantity
  PROVE  JobInv'
<1>0. RowsInv' /\ Grows
  BY SameGrows DEF RowsInv
<1>1. worker' \in [Workers -> JobType]
  BY DEF JobInv
<1>2. ASSUME NEW v \in Workers, NEW k, k = worker'[v]
      PROVE  /\ k.phase # "idle" => Known(k.id)
             /\ k.phase \in {"taken", "read", "matching"} => Unfilled(k.id, k.taker)
             /\ k.phase \in {"read", "matching"} => ReadInv(k)
             /\ k.phase = "read" => k.remaining = k.taker.quantity
  <2>1. CASE v = w
    BY <1>2, <2>1 DEF JobInv
  <2>2. CASE v # w
    <3>1. k = worker[v]
      BY <1>2, <2>2 DEF JobInv
    <3> QED BY <3>1 DEF JobInv
  <2> QED BY <2>1, <2>2
<1>3. \A k : /\ Known(k.id) => Known(k.id)'
             /\ Unfilled(k.id, k.taker) => Unfilled(k.id, k.taker)'
             /\ ReadInv(k) => ReadInv(k)'
  BY <1>0, KnownGrows, UnfilledFrame, ReadFrame
<1> QED BY <1>1, <1>2, <1>3 DEF JobInv

\* A worker step that writes no order, and neither begins nor matches.
LEMMA OutsideTxnKeepsInv ==
  ASSUME Inv, OneWorker, NEW w \in Workers, NEW j \in JobType,
         worker' = [worker EXCEPT ![w] = j], j.phase # "matching",
         txn' = IF txn.owner = w THEN NoTxn ELSE txn,
         UNCHANGED <<orders, executed, handler>>, QueueInv',
         j.phase # "idle" => Known(j.id),
         j.phase \in {"taken", "read"} => Unfilled(j.id, j.taker),
         j.phase = "read" => ReadInv(j) /\ j.remaining = j.taker.quantity
  PROVE  Inv'
<1>1. RowsInv /\ RowsInv' /\ Grows
  BY NothingStored
<1>2. HandlerInv' /\ Room'
  BY <1>1, HandlerFrame DEF Inv, Room, Locking
<1>3. JobInv'
  BY <1>1, JobSet DEF Inv
<1>4. txn' = NoTxn
  BY DEF Inv, TxnInv, OpenTxn, OneWorker
<1>5. \A v \in Workers : worker'[v].phase # "matching"
  BY DEF OneWorker, Inv, JobInv
<1>6. TxnInv'
  BY <1>4, <1>5 DEF TxnInv
<1> QED BY <1>1, <1>2, <1>3, <1>6 DEF Inv

LEMMA NoJobType == NoJob \in JobType /\ NoJob.phase = "idle"
BY DEF NoJob, JobType

LEMMA DropKeepsInv ==
  ASSUME Inv, OneWorker, NEW w \in Workers, Drop(w), RollBack, UNCHANGED <<handler, waiting>>,
         delayed' \subseteq delayed \cup {worker[w].id}, worker[w].phase # "idle"
  PROVE  Inv'
<1>1. UNCHANGED <<orders, executed>>
  BY DEF RollBack, store
<1>2. RowsInv /\ RowsInv' /\ Grows
  BY <1>1, NothingStored
<1>3. Known(worker[w].id)
  BY DEF Inv, JobInv
<1>4. QueueInv'
  <2>1. \A o \in delayed' : Known(o)
    BY <1>3 DEF Inv, QueueInv
  <2>2. \A o : Known(o) => Known(o)' /\ o \in Orders
    BY <1>2, KnownGrows DEF Known
  <2> QED BY <2>1, <2>2 DEF Inv, QueueInv
<1> QED BY <1>1, <1>4, NoJobType, OutsideTxnKeepsInv DEF Drop

LEMMA Busy ==
  ASSUME JobInv, NEW w \in Workers
  PROVE  worker[w] # NoJob <=> worker[w].phase # "idle"
BY DEF JobInv, JobType, NoJob

LEMMA RetryKeepsInv ==
  ASSUME Inv, OneWorker, NEW w \in Workers, Retry(w), UNCHANGED <<handler, waiting>>,
         worker[w].phase # "idle"
  PROVE  Inv'
<1>1. Drop(w) /\ RollBack /\ delayed' \subseteq delayed \cup {worker[w].id}
  BY DEF Retry
<1> QED BY <1>1, DropKeepsInv

\* A job that throws, wherever it is, and one that is complete.
LEMMA JobEndKeepsInv ==
  ASSUME Inv, OneWorker, NEW w \in Workers, RecordTrades(w) \/ JobThrows(w) \/ LeftoverThrows(w)
  PROVE  Inv'
<1>1. CASE RecordTrades(w)
  <2>1. Drop(w) /\ RollBack /\ UNCHANGED <<handler, waiting, delayed>>
    BY <1>1 DEF RecordTrades, Complete, RollBack
  <2>2. worker[w].phase # "idle"
    BY <1>1 DEF RecordTrades
  <2> QED BY <2>1, <2>2, DropKeepsInv
<1>2. CASE JobThrows(w)
  BY <1>2, RetryKeepsInv, Busy DEF JobThrows, Inv
<1>3. CASE LeftoverThrows(w)
  BY <1>3, RetryKeepsInv DEF LeftoverThrows
<1> QED BY <1>1, <1>2, <1>3

LEMMA TakeJobKeepsInv ==
  ASSUME Inv, OneWorker, NEW w \in Workers, TakeJob(w)
  PROVE  Inv'
<1> DEFINE o == Head(waiting)
           j == IF orders[o].status = "OPEN"
                THEN [phase |-> "taken", id |-> o, taker |-> orders[o]] ELSE NoJob
<1>1. /\ waiting # <<>> /\ waiting' = Tail(waiting) /\ worker[w] = NoJob
      /\ worker' = [worker EXCEPT ![w] = j]
      /\ UNCHANGED <<orders, executed, handler, delayed, txn>>
  BY DEF TakeJob, store
<1>2. RowsInv /\ RowsInv' /\ Grows /\ Len(orders) \in Nat
  BY <1>1, NothingStored
<1>3. /\ waiting \in Seq(Orders) /\ Len(waiting) \in Nat
      /\ o = waiting[1] /\ 1 \in 1 .. Len(waiting)
      /\ Tail(waiting) \in Seq(Orders) /\ Len(Tail(waiting)) = Len(waiting) - 1
      /\ \A i \in 1 .. Len(Tail(waiting)) : Tail(waiting)[i] = waiting[i + 1]
  BY <1>1, HeadTailProperties, LenProperties, EmptySeq DEF Inv, QueueInv
<1>4. Known(o)
  BY <1>3 DEF Inv, QueueInv
<1>5. QueueInv'
  <2>1. \A i \in 1 .. Len(Tail(waiting)) : Known(Tail(waiting)[i])
    BY <1>3 DEF Inv, QueueInv
  <2> QED BY <1>1, <1>3, <2>1 DEF Inv, QueueInv, Known
<1>6. orders[o] \in OrderRow /\ o \in 1 .. Len(orders)
  BY <1>2, <1>4, RowOf, LenProperties DEF RowsInv, Rows
<1> HIDE DEF o
<1>7. j \in JobType /\ j.phase \in {"idle", "taken"}
  BY <1>4, <1>6, NoJobType DEF JobType, Known
<1>8. j.phase = "taken" => j.id = o /\ Unfilled(j.id, j.taker)
  <2>1. orders[o].status = "OPEN" => orders[o].filled = 0 /\ executed[o] = 0
    BY <1>2, <1>6 DEF RowsInv, Rows
  <2> QED BY <2>1, <1>4, <1>6, NoJobType DEF Unfilled
<1> HIDE DEF j
<1>9. txn' = IF txn.owner = w THEN NoTxn ELSE txn
  BY <1>1, NoJobType DEF Inv, TxnInv, OpenTxn, OneWorker
<1> QED BY <1>1, <1>4, <1>5, <1>7, <1>8, <1>9, OutsideTxnKeepsInv

\* The query returns open orders of other users, none of which has a fill.
LEMMA BookRows ==
  ASSUME Inv, NEW o, NEW taker, Unfilled(o, taker)
  PROVE  /\ Book(taker) \subseteq [id : Orders, row : OrderRow]
         /\ \A m \in Book(taker) : Unfilled(m.id, m.row) /\ m.id # o
         /\ \A m, n \in Book(taker) : m.id = n.id => m = n
<1>1. ASSUME NEW p \in Matchable(taker)
      PROVE  /\ p \in Orders /\ orders[p] \in OrderRow
             /\ Unfilled(p, orders[p]) /\ p # o
  <2>1. p \in DOMAIN orders /\ orders[p].status = "OPEN" /\ orders[p].owner # taker.owner
    BY DEF Matchable
  <2>2. Known(p) /\ p \in 1 .. Len(orders)
    BY <2>1, LenProperties, TradingAssumption DEF Inv, RowsInv, Rows, Known, Orders
  <2>3. orders[p] \in OrderRow
    BY <2>2, RowOf
  <2>4. orders[p].filled = 0 /\ executed[p] = 0
    BY <2>1, <2>2 DEF Inv, RowsInv, Rows
  <2> QED BY <2>1, <2>2, <2>3, <2>4 DEF Unfilled, Known
<1>2. \A m \in Book(taker) : m.id \in Matchable(taker) /\ m = [id |-> m.id, row |-> orders[m.id]]
  BY DEF Book
<1> QED BY <1>1, <1>2

LEMMA ReadBookKeepsInv ==
  ASSUME Inv, OneWorker, NEW w \in Workers, ReadBook(w)
  PROVE  Inv'
<1> DEFINE o == worker[w].id
           taker == worker[w].taker
           j == [phase |-> "read", id |-> o, taker |-> taker, book |-> Book(taker),
                 remaining |-> taker.quantity, spent |-> 0]
<1>1. /\ worker' = [worker EXCEPT ![w] = j] /\ worker[w].phase = "taken"
      /\ UNCHANGED <<orders, executed, handler, waiting, delayed, txn>>
  BY DEF ReadBook, store, queue
<1>2. RowsInv /\ RowsInv' /\ Grows
  BY <1>1, NothingStored
<1>3. Unfilled(o, taker)
  BY <1>1 DEF Inv, JobInv
<1> HIDE DEF o, taker
<1>4. o \in Orders /\ Known(o) /\ taker \in OrderRow
  BY <1>3 DEF Unfilled, Known
<1>5. taker.quantity \in Nat /\ taker.price \in Nat /\ Budget(taker) \in Nat
  BY <1>4 DEF OrderRow, Budget
<1> HIDE DEF j
<1>6. /\ j.phase = "read" /\ j.id = o /\ j.taker = taker /\ j.book = Book(taker)
      /\ j.remaining = taker.quantity /\ j.spent = 0
  BY DEF j
<1>7. j \in JobType
  BY <1>4, <1>5, <1>3, BookRows DEF j, JobType
<1>8. ReadInv(j)
  BY <1>3, <1>5, <1>6, BookRows DEF ReadInv
<1>9. QueueInv'
  BY <1>1, <1>2, QueueFrame DEF Inv
<1>10. txn' = IF txn.owner = w THEN NoTxn ELSE txn
  BY <1>1 DEF Inv, TxnInv, OpenTxn, OneWorker
<1> QED BY <1>1, <1>3, <1>4, <1>6, <1>7, <1>8, <1>9, <1>10, OutsideTxnKeepsInv

\* A worker step inside the transaction: orders keep the rows that were committed.
LEMMA InsideTxnKeepsInv ==
  ASSUME Inv, NEW w \in Workers, NEW j \in JobType,
         worker' = [worker EXCEPT ![w] = j], j.phase = "matching",
         UNCHANGED <<orders, executed, handler, waiting, delayed>>,
         Unfilled(j.id, j.taker), ReadInv(j), OpenTxn(w)'
  PROVE  Inv'
<1>1. RowsInv /\ RowsInv' /\ Grows
  BY NothingStored
<1>2. HandlerInv' /\ Room' /\ QueueInv'
  BY <1>1, HandlerFrame, QueueFrame DEF Inv, Room, Locking
<1>3. JobInv'
  BY <1>1, JobSet DEF Inv, Unfilled
<1>4. worker'[w].phase = "matching"
  BY DEF Inv, JobInv
<1> QED BY <1>1, <1>2, <1>3, <1>4 DEF Inv, TxnInv

LEMMA BeginKeepsInv ==
  ASSUME Inv, NEW w \in Workers, Begin(w)
  PROVE  Inv'
<1> DEFINE j == [worker[w] EXCEPT !.phase = "matching"]
<1>1. /\ worker[w].phase = "read"
      /\ UNCHANGED <<orders, executed, handler, waiting, delayed>>
      /\ txn' = [owner |-> w, orders |-> orders, wallet |-> wallet,
                 executed |-> executed, earned |-> earned, fills |-> {}]
  BY DEF Begin, store, queue
<1>2. worker' = [worker EXCEPT ![w] = j]
  BY DEF Begin
<1>3. worker[w] \in JobType /\ Unfilled(worker[w].id, worker[w].taker) /\ ReadInv(worker[w])
      /\ worker[w].remaining = worker[w].taker.quantity
  BY <1>1 DEF Inv, JobInv
<1>4. /\ j \in JobType /\ j.phase = "matching" /\ j.id = worker[w].id
      /\ j.taker = worker[w].taker /\ j.book = worker[w].book
      /\ j.remaining = worker[w].remaining /\ j.spent = worker[w].spent
  BY <1>1, <1>3 DEF JobType, NoJob
<1> HIDE DEF j
<1>5. Unfilled(j.id, j.taker) /\ ReadInv(j)
  BY <1>3, <1>4 DEF ReadInv
<1>6. worker'[w] = j
  BY <1>2 DEF Inv, JobInv
<1>7. txn'.owner = w /\ txn'.orders = orders /\ txn'.executed = executed /\ txn'.fills = {}
  BY <1>1
<1>8. OpenTxn(w)'
  <2>1. Rows(txn.orders, txn.executed)'
    BY <1>7 DEF Inv, RowsInv, Rows
  <2>2. executed[j.id] = 0 /\ j.taker.quantity - j.remaining = 0
    BY <1>3, <1>4, <1>5 DEF Unfilled, OrderRow
  <2>3. \A m \in j.book : executed[m.id] = 0
    BY <1>5 DEF ReadInv, Unfilled
  <2> QED BY <1>1, <1>6, <1>7, <2>1, <2>2, <2>3 DEF OpenTxn, SameOrders
<1> QED BY <1>1, <1>2, <1>4, <1>5, <1>8, InsideTxnKeepsInv

\* One row gets a fill, and the history the quantity of it.
FillOne(os, o, filled, row) == [os EXCEPT ![o] = Updated(@, filled, row)]
CountOne(ex, o, n) == [ex EXCEPT ![o] = @ + n]

LEMMA UpdatedRow ==
  ASSUME NEW r \in OrderRow, NEW f \in Int, NEW row
  PROVE  /\ Updated(r, f, row) \in OrderRow /\ Updated(r, f, row).filled = f
         /\ Updated(r, f, row).quantity = r.quantity /\ Updated(r, f, row).owner = r.owner
         /\ Updated(r, f, row).status # "OPEN"
<1> DEFINE s == StatusAt(f, row)
           x == [r EXCEPT !.filled = f, !.status = s]
<1>1. s \in Statuses /\ s # "OPEN"
  BY DEF StatusAt, Statuses
<1> HIDE DEF s
<1>2. /\ x \in OrderRow /\ x.filled = f /\ x.status = s
      /\ x.quantity = r.quantity /\ x.owner = r.owner
  BY <1>1 DEF OrderRow
<1> QED BY <1>1, <1>2 DEF Updated, s

\* There is room for n more in row o, whose fill is then f.
Fillable(os, ex, o, n, f) ==
  /\ Rows(os, ex) /\ o \in 1 .. Len(os) /\ n \in Nat
  /\ f = ex[o] + n /\ f <= os[o].quantity

Filled(os, ex, os1, ex1, o, f) ==
  /\ Rows(os1, ex1) /\ Len(os1) = Len(os)
  /\ SameOrders(os1, os)
  /\ \A p \in Orders : ex1[p] = IF p = o THEN f ELSE ex[p]

LEMMA RowFilled ==
  ASSUME NEW os, NEW ex, NEW o, NEW n, NEW f, NEW row, Fillable(os, ex, o, n, f)
  PROVE  Filled(os, ex, FillOne(os, o, f, row), CountOne(ex, o, n), o, f)
<1> USE DEF Fillable
<1> DEFINE os1 == FillOne(os, o, f, row)
           ex1 == CountOne(ex, o, n)
<1>1. /\ os \in Seq(OrderRow) /\ Len(os) \in Nat /\ o \in Orders
      /\ ex \in [Orders -> Int] /\ ex[o] \in Int /\ 0 <= ex[o] /\ os[o] \in OrderRow
      /\ \A p \in 1 .. Len(os) : p \in Orders
  BY LenProperties, ElementOfSeq, TradingAssumption DEF Rows, Orders
<1> DEFINE new == Updated(os[o], f, row)
<1>2. /\ new \in OrderRow /\ new.filled = f
      /\ new.quantity = os[o].quantity /\ new.owner = os[o].owner /\ new.status # "OPEN" /\ f \in Int
  BY <1>1, UpdatedRow
<1> HIDE DEF new
<1>3. os1 = [os EXCEPT ![o] = new]
  BY <1>1 DEF FillOne, new
<1>e. ex1 = [ex EXCEPT ![o] = @ + n]
  BY DEF CountOne
<1> HIDE DEF os1, ex1
<1>4. /\ os1 \in Seq(OrderRow) /\ Len(os1) = Len(os)
      /\ \A p \in 1 .. Len(os) : os1[p] = IF p = o THEN new ELSE os[p]
  BY <1>1, <1>2, <1>3, ExceptSeq
<1>5. /\ ex1 \in [Orders -> Int]
      /\ \A p \in Orders : ex1[p] = IF p = o THEN f ELSE ex[p]
  BY <1>1, <1>e
<1>6. ASSUME NEW p \in 1 .. Len(os)
      PROVE  /\ os1[p].filled = ex1[p]
             /\ 0 <= ex1[p] /\ ex1[p] <= os1[p].quantity
             /\ os1[p].status = "OPEN" => ex1[p] = 0
             /\ os1[p].quantity = os[p].quantity /\ os1[p].owner = os[p].owner
  <2>1. CASE p = o
    BY <2>1, <1>1, <1>2, <1>4, <1>5
  <2>2. CASE p # o
    BY <2>2, <1>1, <1>4, <1>5 DEF Rows
  <2> QED BY <2>1, <2>2
<1>7. \A p \in Orders : p > Len(os) => ex1[p] = 0
  BY <1>1, <1>5 DEF Rows, Orders
<1>8. Len(os) <= MaxOrders
  BY DEF Rows
<1>9. Rows(os1, ex1)
  BY <1>4, <1>5, <1>6, <1>7, <1>8 DEF Rows
<1> QED BY <1>4, <1>5, <1>6, <1>9 DEF os1, ex1, Filled, SameOrders

LEMMA FillKeepsInv ==
  ASSUME Inv, OneWorker, NEW w \in Workers, worker[w].phase = "matching",
         NEW m \in worker[w].book, Fill(w, m)
  PROVE  Inv'
<1> DEFINE j == worker[w]
           n == MatchableQuantity(worker[w], m)
           quote == n * m.row.price
           taken == j.taker.filled + (j.taker.quantity - j.remaining) + n
           given == m.row.filled + n
           fill == [taker |-> j.id, maker |-> m.id, price |-> m.row.price, quantity |-> n]
           k == [phase |-> "matching", id |-> j.id, taker |-> j.taker, book |-> j.book \ {m},
                 remaining |-> j.remaining - n,
                 spent |-> IF MarketBuy(j.taker) THEN j.spent + quote ELSE j.spent]
<1>1. /\ Takes(j, m)
      /\ worker' = [worker EXCEPT ![w] = k]
      /\ txn'.owner = w
      /\ txn'.orders = [txn.orders EXCEPT ![j.id] = Updated(@, taken, j.taker),
                                          ![m.id] = Updated(@, given, m.row)]
      /\ txn'.executed = [txn.executed EXCEPT ![j.id] = @ + n, ![m.id] = @ + n]
      /\ txn'.fills = txn.fills \cup {fill}
      /\ UNCHANGED <<orders, executed, handler, waiting, delayed>>
  BY DEF Fill, store, queue
<1>2. j \in JobType /\ Unfilled(j.id, j.taker) /\ ReadInv(j) /\ OpenTxn(w)
  BY DEF Inv, JobInv, TxnInv, OneWorker
<1>3. /\ j.book \in SUBSET [id : Orders, row : OrderRow]
      /\ j.id \in Orders /\ j.taker \in OrderRow /\ j.spent \in Nat
      /\ j.remaining \in Nat /\ j.remaining <= j.taker.quantity
      /\ MarketBuy(j.taker) => j.spent <= Budget(j.taker)
  BY <1>2 DEF JobType, NoJob, ReadInv
<1>4. Unfilled(m.id, m.row) /\ m.id # j.id
  BY <1>2 DEF ReadInv
<1>5. /\ j.taker.quantity \in Nat /\ j.taker.filled = 0 /\ Known(j.id)
      /\ j.taker.quantity = orders[j.id].quantity
      /\ m.row \in OrderRow /\ m.row.filled = 0 /\ Known(m.id) /\ m.row.price \in Nat
      /\ m.row.quantity \in Nat /\ m.row.quantity = orders[m.id].quantity
  BY <1>2, <1>3, <1>4 DEF Unfilled, OrderRow
<1>6. /\ n \in Nat /\ n > 0 /\ n <= j.remaining /\ n <= m.row.quantity
      /\ MarketBuy(j.taker) => j.spent + n * m.row.price <= Budget(j.taker)
  <2>1. m.row.quantity - m.row.filled = m.row.quantity /\ m.row.quantity > 0
    BY <1>5 DEF OrderRow
  <2> QED BY <1>1, <1>3, <1>5, <2>1, MatchableBound
<1> HIDE DEF n
<1>7. quote \in Nat
  BY <1>5, <1>6
<1> HIDE DEF quote
<1>8. /\ Rows(txn.orders, txn.executed) /\ Len(txn.orders) = Len(orders)
      /\ SameOrders(txn.orders, orders)
      /\ txn.executed[j.id] = j.taker.quantity - j.remaining
      /\ \A r \in j.book : txn.executed[r.id] = 0
      /\ txn.fills \subseteq OfFill
  BY <1>2 DEF OpenTxn
<1>9. j.id \in 1 .. Len(txn.orders) /\ m.id \in 1 .. Len(txn.orders)
  BY <1>5, <1>8, LenProperties, TradingAssumption DEF Known, Orders, Rows
<1>10. taken = txn.executed[j.id] + n /\ given = txn.executed[m.id] + n
  BY <1>5, <1>6, <1>8, <1>3
<1> HIDE DEF taken, given
<1> DEFINE os1 == FillOne(txn.orders, j.id, taken, j.taker)
           ex1 == CountOne(txn.executed, j.id, n)
           os2 == FillOne(os1, m.id, given, m.row)
           ex2 == CountOne(ex1, m.id, n)
<1>11. /\ Rows(os1, ex1) /\ Len(os1) = Len(txn.orders) /\ SameOrders(os1, txn.orders)
       /\ \A p \in Orders : ex1[p] = IF p = j.id THEN taken ELSE txn.executed[p]
  <2>1. taken <= txn.orders[j.id].quantity
    <3>1. txn.orders[j.id].quantity = j.taker.quantity
      BY <1>5, <1>8, <1>9 DEF SameOrders
    <3>2. taken = (j.taker.quantity - j.remaining) + n
      BY <1>8, <1>10
    <3> QED BY <1>3, <1>5, <1>6, <3>1, <3>2
  <2>2. Fillable(txn.orders, txn.executed, j.id, n, taken)
    BY <1>6, <1>8, <1>9, <1>10, <2>1 DEF Fillable
  <2>3. Filled(txn.orders, txn.executed, os1, ex1, j.id, taken)
    BY <2>2, RowFilled
  <2> HIDE DEF os1, ex1
  <2> QED BY <2>3 DEF Filled
<1>12. ex1[m.id] = txn.executed[m.id] /\ ex1[m.id] = 0
  BY <1>4, <1>5, <1>8, <1>11 DEF Known
<1>13. txn'.executed = ex2
  BY <1>1 DEF CountOne
<1>14. txn'.orders = os2
  BY <1>1, <1>10, <1>12 DEF FillOne
<1> HIDE DEF os1, ex1
<1>15. /\ Rows(os2, ex2) /\ Len(os2) = Len(os1) /\ SameOrders(os2, os1)
       /\ \A p \in Orders : ex2[p] = IF p = m.id THEN given ELSE ex1[p]
  <2>1. given <= os1[m.id].quantity /\ m.id \in 1 .. Len(os1) /\ given = ex1[m.id] + n
    BY <1>5, <1>6, <1>8, <1>9, <1>10, <1>11, <1>12 DEF SameOrders
  <2>2. Fillable(os1, ex1, m.id, n, given)
    BY <1>6, <1>11, <2>1 DEF Fillable
  <2>3. Filled(os1, ex1, os2, ex2, m.id, given)
    BY <2>2, RowFilled
  <2> HIDE DEF os2, ex2
  <2> QED BY <2>3 DEF Filled
<1> HIDE DEF os2, ex2, k
<1>16. /\ k.phase = "matching" /\ k.id = j.id /\ k.taker = j.taker
       /\ k.book = j.book \ {m} /\ k.remaining = j.remaining - n
       /\ k.spent = IF MarketBuy(j.taker) THEN j.spent + quote ELSE j.spent
  BY DEF k
<1>17. k \in JobType
  <2>1. k.remaining \in Int /\ k.spent \in Int
    BY <1>3, <1>6, <1>7, <1>16
  <2>2. k.book \in SUBSET [id : Orders, row : OrderRow]
    BY <1>3, <1>16
  <2>3. k = [phase |-> k.phase, id |-> k.id, taker |-> k.taker, book |-> k.book,
             remaining |-> k.remaining, spent |-> k.spent]
    BY DEF k
  <2> QED BY <1>3, <1>16, <2>1, <2>2, <2>3 DEF JobType
<1>18. Unfilled(k.id, k.taker) /\ ReadInv(k)
  <2>1. k.spent \in Nat /\ (MarketBuy(k.taker) => k.spent <= Budget(k.taker))
    BY <1>3, <1>6, <1>7, <1>16 DEF quote
  <2>2. k.remaining \in Nat /\ k.remaining <= k.taker.quantity
    BY <1>3, <1>5, <1>6, <1>16
  <2> QED BY <1>2, <1>16, <2>1, <2>2 DEF ReadInv
<1>19. OpenTxn(w)'
  <2>1. worker'[w] = k
    BY <1>1 DEF Inv, JobInv
  <2>2. ex2[k.id] = k.taker.quantity - k.remaining
    <3>1. ex2[j.id] = ex1[j.id] /\ ex1[j.id] = taken
      BY <1>3, <1>4, <1>11, <1>15
    <3>2. taken = (j.taker.quantity - j.remaining) + n
      BY <1>8, <1>10
    <3> QED BY <1>3, <1>5, <1>6, <1>16, <3>1, <3>2
  <2>3. ASSUME NEW r \in k.book PROVE ex2[r.id] = 0
    <3>1. r \in j.book /\ r # m /\ r.id \in Orders
      BY <1>3, <1>16, <2>3
    <3>2. r.id # m.id /\ r.id # j.id
      BY <1>2, <3>1 DEF ReadInv
    <3> QED BY <1>8, <1>11, <1>15, <3>1, <3>2
  <2>4. txn'.fills \subseteq OfFill
    BY <1>1, <1>3, <1>5, <1>6, <1>8 DEF OfFill, Known
  <2>5. SameOrders(os2, orders)
    BY <1>8, <1>11, <1>15 DEF SameOrders
  <2>6. Len(os2) = Len(orders)
    BY <1>8, <1>11, <1>15
  <2>7. orders' = orders
    BY <1>1
  <2>8. txn'.orders = os2 /\ txn'.executed = ex2 /\ txn'.owner = w
    BY <1>1, <1>13, <1>14
  <2>9. Rows(txn'.orders, txn'.executed) /\ Len(txn'.orders) = Len(orders')
        /\ SameOrders(txn'.orders, orders')
    BY <1>15, <2>5, <2>6, <2>7, <2>8
  <2>10. txn'.executed[worker'[w].id] = worker'[w].taker.quantity - worker'[w].remaining
    BY <2>1, <2>2, <2>8
  <2>11. \A r \in worker'[w].book : txn'.executed[r.id] = 0
    BY <2>1, <2>3, <2>8
  <2> HIDE DEF k, os2, ex2
  <2> QED BY <2>4, <2>8, <2>9, <2>10, <2>11 DEF OpenTxn, Rows, SameOrders
<1> QED BY <1>1, <1>16, <1>17, <1>18, <1>19, InsideTxnKeepsInv

\* A MARKET order's status is written last.
LEMMA RowCancelled ==
  ASSUME NEW os, NEW ex, Rows(os, ex), NEW o, o \in 1 .. Len(os),
         NEW os1, os1 = [os EXCEPT ![o].status = "CANCELLED"]
  PROVE  Rows(os1, ex) /\ Len(os1) = Len(os) /\ SameOrders(os1, os)
<1>1. os \in Seq(OrderRow) /\ Len(os) \in Nat /\ os[o] \in OrderRow
  BY LenProperties, ElementOfSeq DEF Rows
<1> DEFINE new == [os[o] EXCEPT !.status = "CANCELLED"]
<1>2. /\ new \in OrderRow /\ new.filled = os[o].filled /\ new.quantity = os[o].quantity
      /\ new.owner = os[o].owner /\ new.status = "CANCELLED"
  BY <1>1 DEF OrderRow, Statuses
<1>3. os1 = [os EXCEPT ![o] = new]
  BY <1>1
<1> HIDE DEF new
<1>4. /\ os1 \in Seq(OrderRow) /\ Len(os1) = Len(os)
      /\ \A p \in 1 .. Len(os) : os1[p] = IF p = o THEN new ELSE os[p]
  BY <1>1, <1>2, <1>3, ExceptSeq
<1> QED BY <1>1, <1>2, <1>4 DEF Rows, SameOrders

LEMMA CommitKeepsInv ==
  ASSUME Inv, OneWorker, NEW w \in Workers, Commit(w)
  PROVE  Inv'
<1> DEFINE j == worker[w]
           k == [phase |-> "committed", id |-> j.id, fills |-> txn.fills]
<1>1. /\ j.phase = "matching"
      /\ orders' = IF j.taker.type = "MARKET" /\ j.remaining > 0
                   THEN [txn.orders EXCEPT ![j.id].status = "CANCELLED"] ELSE txn.orders
      /\ executed' = txn.executed /\ txn' = NoTxn
      /\ worker' = [worker EXCEPT ![w] = k]
      /\ UNCHANGED <<handler, waiting, delayed>>
  BY DEF Commit, queue
<1>2. OpenTxn(w) /\ Known(j.id)
  BY <1>1 DEF Inv, JobInv, TxnInv, OneWorker
<1>3. /\ Rows(txn.orders, txn.executed) /\ Len(txn.orders) = Len(orders)
      /\ SameOrders(txn.orders, orders) /\ txn.fills \subseteq OfFill
      /\ j.id \in 1 .. Len(txn.orders)
  BY <1>2, LenProperties, TradingAssumption DEF OpenTxn, Rows, Known, Orders
<1>4. Rows(orders', executed') /\ Len(orders') = Len(orders) /\ SameOrders(orders', orders)
  <2>1. CASE j.taker.type = "MARKET" /\ j.remaining > 0
    <3>1. orders' = [txn.orders EXCEPT ![j.id].status = "CANCELLED"]
      BY <1>1, <2>1
    <3>2. Rows(orders', txn.executed) /\ Len(orders') = Len(txn.orders) /\ SameOrders(orders', txn.orders)
      BY <1>3, <3>1, RowCancelled
    <3>3. executed' = txn.executed
      BY <1>1
    <3> QED BY <1>3, <3>2, <3>3 DEF SameOrders
  <2>2. CASE ~(j.taker.type = "MARKET" /\ j.remaining > 0)
    <3>1. orders' = txn.orders /\ executed' = txn.executed
      BY <1>1, <2>2
    <3> QED BY <1>3, <3>1
  <2> QED BY <2>1, <2>2
<1>5. RowsInv /\ RowsInv' /\ Grows
  BY <1>4, LenProperties DEF Inv, RowsInv, Rows, Grows
<1>6. HandlerInv' /\ Room' /\ QueueInv'
  BY <1>1, <1>4, <1>5, HandlerFrame, QueueFrame DEF Inv, Room, Locking
<1>7. /\ k \in JobType /\ k.phase = "committed" /\ k.id = j.id
  BY <1>2, <1>3 DEF JobType, OfFill, Known
<1> HIDE DEF k
<1>8. worker' \in [Workers -> JobType] /\ \A v \in Workers : worker'[v] = k
  <2>1. worker \in [Workers -> JobType]
    BY DEF Inv, JobInv
  <2>2. \A v \in Workers : v = w
    BY DEF OneWorker
  <2> QED BY <1>1, <1>7, <2>1, <2>2
<1>9. k.id \in Orders /\ k.id <= Len(orders')
  BY <1>2, <1>4, <1>7 DEF Known
<1>10. JobInv'
  BY <1>7, <1>8, <1>9 DEF JobInv, Known
<1>11. TxnInv'
  BY <1>1, <1>7, <1>8 DEF TxnInv
<1> QED BY <1>5, <1>6, <1>10, <1>11 DEF Inv

LEMMA PromoteKeepsInv ==
  ASSUME Inv, NEW o \in Orders, Promote(o)
  PROVE  Inv'
<1>1. /\ waiting' = Append(waiting, o) /\ delayed' = delayed \ {o} /\ o \in delayed
      /\ UNCHANGED <<orders, executed, handler, worker, txn>>
  BY DEF Promote, store
<1>2. RowsInv /\ RowsInv' /\ Grows
  BY <1>1, NothingStored
<1>3. /\ waiting \in Seq(Orders) /\ Len(waiting) \in Nat /\ Known(o)
  BY <1>1, LenProperties DEF Inv, QueueInv
<1>4. /\ waiting' \in Seq(Orders) /\ Len(waiting') = Len(waiting) + 1
      /\ \A i \in 1 .. Len(waiting) : waiting'[i] = waiting[i]
      /\ waiting'[Len(waiting) + 1] = o
  BY <1>1, <1>3, AppendProperties
<1>5. \A i \in 1 .. Len(waiting') : Known(waiting'[i])
  BY <1>3, <1>4 DEF Inv, QueueInv
<1>6. QueueInv'
  BY <1>1, <1>4, <1>5 DEF Inv, QueueInv, Known
<1>7. HandlerInv' /\ Room' /\ JobInv' /\ TxnInv'
  BY <1>1, <1>2, HandlerFrame, JobFrame, TxnFrame DEF Inv, Room, Locking
<1> QED BY <1>2, <1>6, <1>7 DEF Inv

LEMMA RestartKeepsInv ==
  ASSUME Inv, Restart
  PROVE  Inv'
<1> DEFINE none == [w \in Workers |-> NoJob]
           idle == [h \in Handlers |-> Idle]
<1>1. /\ worker' = none /\ handler' = idle /\ txn' = NoTxn
      /\ UNCHANGED <<orders, executed, delayed>>
  BY DEF Restart, RollBack, store
<1>2. RowsInv /\ RowsInv' /\ Grows /\ Len(orders) \in Nat
  BY <1>1, NothingStored
<1>3. PICK stalled \in Orderings(ActiveJobs) : waiting' = stalled \o waiting
  BY DEF Restart
<1>4. \A o \in ActiveJobs : Known(o)
  BY Busy DEF ActiveJobs, Inv, JobInv
<1>5. IsFiniteSet(ActiveJobs) /\ Cardinality(ActiveJobs) \in Nat
  <2> DEFINE busy == {v \in Workers : worker[v] # NoJob}
             f == [v \in busy |-> worker[v].id]
  <2>1. IsFiniteSet(busy)
    BY FS_Subset, TradingAssumption
  <2>2. f \in Surjection(busy, ActiveJobs)
    BY DEF ActiveJobs, Surjection
  <2> QED BY <2>1, <2>2, FS_Surjection, FS_CardinalityType
<1>6. stalled \in Seq(ActiveJobs)
  BY <1>5 DEF Orderings
<1>7. /\ stalled \in Seq(Orders) /\ Len(stalled) \in Nat
      /\ \A i \in 1 .. Len(stalled) : Known(stalled[i])
  BY <1>4, <1>6, LenProperties, ElementOfSeq DEF Known
<1>8. /\ waiting \in Seq(Orders) /\ Len(waiting) \in Nat
      /\ \A i \in 1 .. Len(waiting) : Known(waiting[i])
  BY LenProperties DEF Inv, QueueInv
<1>9. /\ waiting' \in Seq(Orders) /\ Len(waiting') = Len(stalled) + Len(waiting)
      /\ \A i \in 1 .. Len(waiting') :
           waiting'[i] = IF i <= Len(stalled) THEN stalled[i] ELSE waiting[i - Len(stalled)]
  BY <1>3, <1>7, <1>8, ConcatProperties
<1>10. \A i \in 1 .. Len(waiting') : Known(waiting'[i])
  <2>1. ASSUME NEW i \in 1 .. Len(waiting') PROVE Known(waiting'[i])
    <3>1. CASE i <= Len(stalled)
      BY <1>7, <1>9, <3>1
    <3>2. CASE ~ i <= Len(stalled)
      <4>1. i - Len(stalled) \in 1 .. Len(waiting)
        BY <1>7, <1>8, <1>9, <3>2
      <4> QED BY <1>8, <1>9, <3>2, <4>1
    <3> QED BY <3>1, <3>2
  <2> QED BY <2>1
<1>11. QueueInv'
  BY <1>1, <1>9, <1>10 DEF Inv, QueueInv, Known
<1>12. HandlerInv'
  BY <1>1, IdleType DEF HandlerInv
<1>13. Room'
  <2>1. Locking' = {}
    BY <1>1, IdleType DEF Locking
  <2> QED BY <1>1, <1>2, <2>1, FS_EmptySet, LockingFinite, TradingAssumption DEF Inv, Room
<1>14. JobInv' /\ TxnInv'
  BY <1>1, NoJobType DEF JobInv, TxnInv
<1> QED BY <1>2, <1>11, <1>12, <1>13, <1>14 DEF Inv

------------------------------------------------------------------------------
LEMMA InitInv == Init => Inv
<1> SUFFICES ASSUME Init PROVE Inv
  OBVIOUS
<1> USE TradingAssumption DEF Init
<1>1. /\ orders = <<>> /\ orders \in Seq(OrderRow) /\ Len(orders) = 0
      /\ waiting = <<>> /\ waiting \in Seq(Orders) /\ Len(waiting) = 0
  BY EmptySeq
<1>2. RowsInv
  BY <1>1 DEF RowsInv, Rows, Orders
<1>3. HandlerInv
  BY IdleType DEF HandlerInv
<1>4. Room
  <2>1. Locking = {}
    BY IdleType DEF Locking
  <2> QED BY <1>1, <2>1, FS_EmptySet DEF Room
<1>5. QueueInv
  BY <1>1 DEF QueueInv
<1>6. JobInv /\ TxnInv
  BY NoJobType DEF JobInv, TxnInv
<1> QED BY <1>2, <1>3, <1>4, <1>5, <1>6 DEF Inv

LEMMA WorkerStepKeepsInv ==
  ASSUME Inv, OneWorker, NEW w \in Workers, WorkerStep(w) \/ JobThrows(w)
  PROVE  Inv'
<1>1. CASE MatchNext(w)
  <2>1. PICK m \in worker[w].book : Fill(w, m) \/ FillThrows(w, m)
    BY <1>1 DEF MatchNext
  <2>2. worker[w].phase = "matching"
    BY <1>1 DEF MatchNext
  <2>3. CASE Fill(w, m)
    BY <2>2, <2>3, FillKeepsInv
  <2>4. CASE FillThrows(w, m)
    BY <2>2, <2>4, RetryKeepsInv DEF FillThrows
  <2> QED BY <2>1, <2>3, <2>4
<1>2. CASE TakeJob(w)
  BY <1>2, TakeJobKeepsInv
<1>3. CASE ReadBook(w)
  BY <1>3, ReadBookKeepsInv
<1>4. CASE Begin(w)
  BY <1>4, BeginKeepsInv
<1>5. CASE Commit(w)
  BY <1>5, CommitKeepsInv
<1>6. CASE LeftoverThrows(w) \/ RecordTrades(w) \/ JobThrows(w)
  BY <1>6, JobEndKeepsInv
<1> QED BY <1>1, <1>2, <1>3, <1>4, <1>5, <1>6 DEF WorkerStep

LEMMA HandlerStepKeepsInv ==
  ASSUME Inv, NEW h \in Handlers, HandlerCall(h) \/ HandlerStep(h)
  PROVE  Inv'
<1>1. CASE \E q \in OrderRequests : LockFunds(h, q)
  BY <1>1, LockFundsKeepsInv
<1>2. CASE StoreOrder(h)
  BY <1>2, StoreOrderKeepsInv
<1>3. CASE QueueOrder(h)
  BY <1>3, QueueOrderKeepsInv
<1>4. CASE WritePrice(h)
  BY <1>4, WritePriceKeepsInv
<1>5. CASE CancelOrder(h)
  BY <1>5, CancelOrderKeepsInv
<1>6. CASE \/ CreateThrows(h) \/ RequestThrows(h)
           \/ \E o \in Orders : ReadForCancel(h, o) \/ \E p \in Band : ReadForUpdate(h, o, p)
  BY <1>6, OtherHandlerStepsKeepInv
<1> QED BY <1>1, <1>2, <1>3, <1>4, <1>5, <1>6 DEF HandlerCall, HandlerStep

LEMMA NextInv == ASSUME Inv, OneWorker, [Next]_vars PROVE Inv'
<1>1. CASE \E h \in Handlers : HandlerCall(h) \/ HandlerStep(h)
  BY <1>1, HandlerStepKeepsInv
<1>2. CASE \E w \in Workers : WorkerStep(w) \/ JobThrows(w)
  BY <1>2, WorkerStepKeepsInv
<1>3. CASE \E o \in Orders : Promote(o)
  BY <1>3, PromoteKeepsInv
<1>4. CASE Restart
  BY <1>4, RestartKeepsInv
<1>5. CASE Rest \/ UNCHANGED vars
  <2>1. UNCHANGED vars
    BY <1>5 DEF Rest
  <2> QED BY <2>1 DEF vars, store, queue, Inv, RowsInv, Room, Locking, HandlerInv, QueueInv,
                      JobInv, ReadInv, Unfilled, TxnInv, OpenTxn, Known
<1> QED BY <1>1, <1>2, <1>3, <1>4, <1>5 DEF Next

\* With one worker per asset, for any number of orders, requests in progress,
\* prices, failures and restarts: the row of an order counts the trades it is in
\* and never exceeds what was asked for.
THEOREM FilledExecuted == OneWorker => (Spec => []FilledIsExecuted)
<1> SUFFICES ASSUME OneWorker PROVE Spec => []FilledIsExecuted
  OBVIOUS
<1>1. Inv => FilledIsExecuted
  BY LenProperties DEF Inv, RowsInv, Rows, FilledIsExecuted
<1>2. Inv /\ [Next]_vars => Inv'
  BY NextInv
<1> QED BY InitInv, <1>1, <1>2, PTL DEF Spec

------------------------------------------------------------------------------
(***************************************************************************)
(* While nobody reprices or cancels, what a job has read is what the table *)
(* holds until its transaction commits.                                    *)
(***************************************************************************)
CreateOnly == Operations \subseteq {"create"}

MakerAgreed(taker, m) ==
  /\ orders[m.id] = m.row /\ m.row.status = "OPEN"
  /\ m.row.side # taker.side /\ m.row.owner # taker.owner
  /\ taker.type = "LIMIT" => IF taker.side = "BUY" THEN m.row.price <= taker.price
                                                  ELSE m.row.price >= taker.price

JobAgreed(j) ==
  /\ j.phase \in {"taken", "read", "matching"} =>
       orders[j.id] = j.taker /\ j.taker.status = "OPEN"
  /\ j.phase \in {"read", "matching"} => \A m \in j.book : MakerAgreed(j.taker, m)

FillAgreed(f) ==
  /\ orders[f.taker].status = "OPEN" /\ orders[f.maker].status = "OPEN"
  /\ orders[f.taker].side # orders[f.maker].side
  /\ orders[f.taker].owner # orders[f.maker].owner
  /\ Agrees(f.taker, f.price) /\ Agrees(f.maker, f.price)

AgreedInv ==
  /\ \A h \in Handlers : handler[h].step \notin {"reprice", "cancel"}
  /\ \A w \in Workers : JobAgreed(worker[w])
  /\ txn # NoTxn => \A f \in txn.fills : FillAgreed(f)

LEMMA InitAgreed == Init => AgreedInv
BY IdleType, NoJobType DEF Init, AgreedInv, JobAgreed

\* A step of a handler: at most a new order is stored.
LEMMA HandlerAgreed ==
  ASSUME Inv, AgreedInv, CreateOnly, NEW h \in Handlers, HandlerCall(h) \/ HandlerStep(h)
  PROVE  AgreedInv'
<1>0. /\ handler \in [Handlers -> HandlerType]
      /\ \A g \in Handlers : handler[g].step \notin {"reprice", "cancel"}
  BY DEF Inv, HandlerInv, AgreedInv
<1>1. /\ UNCHANGED <<worker, txn>>
      /\ \A g \in Handlers : handler'[g].step \notin {"reprice", "cancel"}
      /\ \/ UNCHANGED orders
         \/ txn = NoTxn /\ \E row \in OrderRow : orders' = Append(orders, row)
  <2>1. CASE \E q \in OrderRequests : LockFunds(h, q)
    <3>1. PICK q \in OrderRequests : LockFunds(h, q)
      BY <2>1
    <3>2. /\ handler' = [handler EXCEPT ![h] = [step |-> "locked", order |-> NewOrder(q)]]
          /\ UNCHANGED <<orders, worker, txn>>
      BY <3>1 DEF LockFunds
    <3> QED BY <1>0, <3>2
  <2>2. CASE StoreOrder(h)
    <3>1. handler[h].order \in OrderRow
      BY <2>2 DEF StoreOrder, Inv, HandlerInv, HandlerType, Idle
    <3>2. /\ handler' = [handler EXCEPT ![h] = [step |-> "stored", id |-> Len(orders) + 1]]
          /\ orders' = Append(orders, handler[h].order)
          /\ txn = NoTxn /\ UNCHANGED <<worker, txn>>
      BY <2>2 DEF StoreOrder
    <3> QED BY <1>0, <3>1, <3>2
  <2>3. CASE QueueOrder(h)
    BY <1>0, <2>3, IdleType DEF QueueOrder, store
  <2>4. CASE CreateThrows(h)
    BY <1>0, <2>4, IdleType DEF CreateThrows, store
  <2>5. ~WritePrice(h) /\ ~CancelOrder(h) /\ ~RequestThrows(h)
    BY DEF AgreedInv, WritePrice, CancelOrder, RequestThrows
  <2>6. \A o \in Orders : ~ReadForCancel(h, o) /\ \A p \in Band : ~ReadForUpdate(h, o, p)
    BY DEF CreateOnly, ReadForCancel, ReadForUpdate
  <2> QED BY <2>1, <2>2, <2>3, <2>4, <2>5, <2>6 DEF HandlerCall, HandlerStep
<1>2. orders \in Seq(OrderRow) /\ Len(orders) \in Nat
  BY LenProperties DEF Inv, RowsInv, Rows
<1>3. \A o \in 1 .. Len(orders) : orders'[o] = orders[o]
  BY <1>1, <1>2, AppendProperties
<1>4. \A g \in Handlers : handler'[g].step \notin {"reprice", "cancel"}
  BY <1>1
<1>5. \A o : Known(o) => orders'[o] = orders[o]
  BY <1>2, <1>3, TradingAssumption DEF Known, Orders
<1>6. ASSUME NEW w \in Workers PROVE JobAgreed(worker[w])'
  <2>1. worker' = worker
    BY <1>1
  <2>2. worker[w].phase \in {"taken", "read", "matching"} => Known(worker[w].id)
    BY DEF Inv, JobInv
  <2>3. worker[w].phase \in {"read", "matching"} => \A m \in worker[w].book : Known(m.id)
    BY DEF Inv, JobInv, ReadInv, Unfilled
  <2>4. JobAgreed(worker[w])
    BY DEF AgreedInv
  <2> QED BY <1>5, <2>1, <2>2, <2>3, <2>4 DEF JobAgreed, MakerAgreed
<1>7. (txn # NoTxn => \A f \in txn.fills : FillAgreed(f))'
  <2>1. CASE UNCHANGED orders
    BY <1>1, <2>1 DEF AgreedInv, FillAgreed, Agrees
  <2>2. CASE txn = NoTxn
    BY <1>1, <2>2
  <2> QED BY <1>1, <2>1, <2>2
<1> QED BY <1>4, <1>6, <1>7 DEF AgreedInv

\* A worker that goes on to job j while the table stays as it is.
LEMMA JobSetAgreed ==
  ASSUME Inv, AgreedInv, OneWorker, NEW w \in Workers, NEW j,
         worker' = [worker EXCEPT ![w] = j], UNCHANGED <<orders, handler>>, JobAgreed(j),
         txn' # NoTxn => \A f \in txn'.fills : FillAgreed(f)
  PROVE  AgreedInv'
<1>1. \A v \in Workers : worker'[v] = j
  BY DEF OneWorker, Inv, JobInv
<1>2. \A v \in Workers : JobAgreed(worker[v])'
  BY <1>1 DEF JobAgreed, MakerAgreed
<1>3. (txn # NoTxn => \A f \in txn.fills : FillAgreed(f))'
  BY DEF FillAgreed, Agrees
<1> QED BY <1>2, <1>3 DEF AgreedInv

LEMMA NoJobAgreed == JobAgreed(NoJob)
BY NoJobType DEF JobAgreed

LEMMA DropAgreed ==
  ASSUME Inv, AgreedInv, OneWorker, NEW w \in Workers, Drop(w), UNCHANGED <<orders, handler>>
  PROVE  AgreedInv'
<1>1. txn' # NoTxn => txn' = txn
  BY DEF Drop
<1>2. txn' # NoTxn => \A f \in txn'.fills : FillAgreed(f)
  BY <1>1 DEF AgreedInv
<1> QED BY <1>2, NoJobAgreed, JobSetAgreed DEF Drop

LEMMA FillIsAgreed ==
  ASSUME Inv, AgreedInv, OneWorker, NEW w \in Workers, worker[w].phase = "matching",
         NEW m \in worker[w].book, Fill(w, m)
  PROVE  AgreedInv'
<1> DEFINE j == worker[w]
           n == MatchableQuantity(j, m)
           fill == [taker |-> j.id, maker |-> m.id, price |-> m.row.price, quantity |-> n]
           spent == IF MarketBuy(j.taker) THEN j.spent + n * m.row.price ELSE j.spent
           k == [phase |-> "matching", id |-> j.id, taker |-> j.taker, book |-> j.book \ {m},
                 remaining |-> j.remaining - n, spent |-> spent]
<1>1. /\ worker' = [worker EXCEPT ![w] = k]
      /\ txn'.fills = txn.fills \cup {fill}
      /\ UNCHANGED <<orders, handler>>
  BY DEF Fill, store
<1> HIDE DEF n, spent
<1>2. /\ orders[j.id] = j.taker /\ j.taker.status = "OPEN"
      /\ \A r \in j.book : MakerAgreed(j.taker, r)
  BY DEF AgreedInv, JobAgreed
<1>3. JobAgreed(k)
  BY <1>2 DEF JobAgreed
<1>4. txn # NoTxn
  BY NoTxnOwner DEF Inv, TxnInv, OpenTxn, OneWorker
<1>5. j.taker.side \in {"BUY", "SELL"} /\ m.row.side \in {"BUY", "SELL"}
      /\ m.row.price \in Nat
  BY DEF Inv, JobInv, ReadInv, Unfilled, OrderRow
<1>6. FillAgreed(fill)
  <2>1. fill.taker = j.id /\ fill.maker = m.id /\ fill.price = m.row.price
    OBVIOUS
  <2> HIDE DEF fill
  <2>2. /\ orders[fill.taker] = j.taker /\ orders[fill.maker] = m.row
        /\ fill.price = m.row.price
    BY <1>2, <2>1 DEF MakerAgreed
  <2>3. MakerAgreed(j.taker, m)
    BY <1>2
  <2> QED BY <1>2, <1>5, <2>2, <2>3 DEF FillAgreed, Agrees, MakerAgreed
<1>7. \A f \in txn'.fills : FillAgreed(f)
  BY <1>1, <1>4, <1>6 DEF AgreedInv
<1> HIDE DEF k
<1> QED BY <1>1, <1>3, <1>7, JobSetAgreed

LEMMA BookAgreed ==
  ASSUME NEW taker
  PROVE  \A m \in Book(taker) : MakerAgreed(taker, m)
BY DEF Book, Matchable, MakerAgreed

LEMMA WorkerAgreed ==
  ASSUME Inv, AgreedInv, OneWorker, NEW w \in Workers, WorkerStep(w) \/ JobThrows(w)
  PROVE  AgreedInv'
<1>1. CASE TakeJob(w)
  <2> DEFINE o == Head(waiting)
             j == IF orders[o].status = "OPEN"
                  THEN [phase |-> "taken", id |-> o, taker |-> orders[o]] ELSE NoJob
  <2>1. worker' = [worker EXCEPT ![w] = j] /\ UNCHANGED <<orders, handler, txn>>
    BY <1>1 DEF TakeJob, store
  <2>2. JobAgreed(j)
    BY NoJobAgreed DEF JobAgreed
  <2> HIDE DEF j
  <2> QED BY <2>1, <2>2, JobSetAgreed DEF AgreedInv
<1>2. CASE ReadBook(w)
  <2> DEFINE taker == worker[w].taker
             j == [phase |-> "read", id |-> worker[w].id, taker |-> taker,
                   book |-> Book(taker), remaining |-> taker.quantity, spent |-> 0]
  <2>1. worker' = [worker EXCEPT ![w] = j] /\ UNCHANGED <<orders, handler, txn>>
    BY <1>2 DEF ReadBook, store
  <2>2. orders[worker[w].id] = taker /\ taker.status = "OPEN"
    BY <1>2 DEF ReadBook, AgreedInv, JobAgreed
  <2>3. JobAgreed(j)
    BY <2>2, BookAgreed DEF JobAgreed
  <2> HIDE DEF j
  <2> QED BY <2>1, <2>3, JobSetAgreed DEF AgreedInv
<1>3. CASE Begin(w)
  <2> DEFINE j == [worker[w] EXCEPT !.phase = "matching"]
  <2>1. /\ worker' = [worker EXCEPT ![w] = j] /\ UNCHANGED <<orders, handler>>
        /\ worker[w].phase = "read" /\ txn'.fills = {}
    BY <1>3 DEF Begin, store
  <2>2. worker[w] \in JobType /\ JobAgreed(worker[w])
    BY DEF Inv, JobInv, AgreedInv
  <2>3. j.id = worker[w].id /\ j.taker = worker[w].taker /\ j.book = worker[w].book
    BY <2>1, <2>2 DEF JobType, NoJob
  <2> HIDE DEF j
  <2>4. JobAgreed(j)
    BY <2>1, <2>2, <2>3 DEF JobAgreed
  <2> QED BY <2>1, <2>4, JobSetAgreed
<1>4. CASE MatchNext(w)
  <2>1. PICK m \in worker[w].book : Fill(w, m) \/ FillThrows(w, m)
    BY <1>4 DEF MatchNext
  <2>2. worker[w].phase = "matching"
    BY <1>4 DEF MatchNext
  <2>3. CASE FillThrows(w, m)
    BY <2>3, DropAgreed DEF FillThrows, Retry, RollBack, store
  <2> QED BY <2>1, <2>2, <2>3, FillIsAgreed
<1>5. CASE Commit(w)
  <2> DEFINE k == [phase |-> "committed", id |-> worker[w].id, fills |-> txn.fills]
  <2>1. worker' = [worker EXCEPT ![w] = k] /\ txn' = NoTxn /\ UNCHANGED handler
    BY <1>5 DEF Commit
  <2>2. \A v \in Workers : worker'[v].phase = "committed"
    BY <2>1 DEF OneWorker, Inv, JobInv
  <2> QED BY <2>1, <2>2 DEF AgreedInv, JobAgreed
<1>6. CASE LeftoverThrows(w) \/ JobThrows(w)
  BY <1>6, DropAgreed DEF LeftoverThrows, JobThrows, Retry, RollBack, store
<1>7. CASE RecordTrades(w)
  BY <1>7, DropAgreed DEF RecordTrades, Complete, store
<1> QED BY <1>1, <1>2, <1>3, <1>4, <1>5, <1>6, <1>7 DEF WorkerStep

LEMMA NextAgreed ==
  ASSUME Inv, AgreedInv, OneWorker, CreateOnly, [Next]_vars
  PROVE  AgreedInv'
<1>1. CASE \E h \in Handlers : HandlerCall(h) \/ HandlerStep(h)
  BY <1>1, HandlerAgreed
<1>2. CASE \E w \in Workers : WorkerStep(w) \/ JobThrows(w)
  BY <1>2, WorkerAgreed
<1>3. CASE Restart
  BY <1>3, IdleType, NoJobType DEF Restart, AgreedInv, JobAgreed
<1>4. CASE Rest \/ UNCHANGED vars \/ \E o \in Orders : Promote(o)
  <2>1. UNCHANGED <<orders, handler, worker, txn>>
    BY <1>4 DEF Rest, Promote, vars, store
  <2> QED BY <2>1 DEF AgreedInv, JobAgreed, MakerAgreed, FillAgreed, Agrees
<1> QED BY <1>1, <1>2, <1>3, <1>4 DEF Next

------------------------------------------------------------------------------
(***************************************************************************)
(* Types, for any number of workers: several backend processes may match   *)
(* the same asset.                                                         *)
(***************************************************************************)

\* A version of the table Order as long as the committed one.
Table(os) == os \in Seq(OrderRow) /\ Len(os) = Len(orders)

StoreInv ==
  /\ Table(orders) /\ Room /\ HandlerInv /\ QueueInv
  /\ \A o \in unqueued : Known(o)

LedgerType(w) == w \in Wallet /\ w.ok

\* A resting order as a job has read it, with something left to take.
RestingRow(m) == Known(m.id) /\ m.row \in OrderRow /\ m.row.quantity - m.row.filled > 0

JobTyped(j) ==
  /\ j.phase # "idle" => Known(j.id)
  /\ j.phase \in {"read", "matching"} =>
       /\ \A m \in j.book : RestingRow(m) /\ m.row.owner # j.taker.owner
       /\ j.remaining \in Nat
       /\ j.spent \in Nat /\ (MarketBuy(j.taker) => j.spent <= Budget(j.taker))

TxnTyped ==
  /\ \A w \in Workers : txn.owner = w <=> worker[w].phase = "matching"
  /\ txn # NoTxn =>
       /\ Table(txn.orders) /\ LedgerType(txn.wallet)
       /\ txn.executed \in [Orders -> Int] /\ txn.earned \in Money
       /\ txn.fills \subseteq OfFill

Typed ==
  /\ StoreInv
  /\ LedgerType(wallet)
  /\ worker \in [Workers -> JobType] /\ \A w \in Workers : JobTyped(worker[w])
  /\ TxnTyped
  /\ listening \in BOOLEAN /\ crashes \in 0 .. MaxCrashes
  /\ executed \in [Orders -> Int] /\ earned \in Money /\ orphaned \in Money

\* The handlers that have stored an order and are about to queue its job.
Queueing == {h \in Handlers : handler[h].step = "stored"}

\* The job of an order is in one place: about to be queued, in the wait list,
\* waiting for a backoff, or with a worker.
OnePlace ==
  /\ \A i, k \in 1 .. Len(waiting) : waiting[i] = waiting[k] => i = k
  /\ \A v, w \in Workers : worker[v] # NoJob /\ worker[w] # NoJob /\ worker[v].id = worker[w].id => v = w
  /\ \A g, h \in Queueing : handler[g].id = handler[h].id => g = h
  /\ \A i \in 1 .. Len(waiting) :
       /\ waiting[i] \notin delayed
       /\ \A w \in Workers : worker[w] # NoJob => worker[w].id # waiting[i]
       /\ \A h \in Queueing : handler[h].id # waiting[i]
  /\ \A w \in Workers : worker[w] # NoJob =>
       /\ worker[w].id \notin delayed
       /\ \A h \in Queueing : handler[h].id # worker[w].id
  /\ \A h \in Queueing : handler[h].id \notin delayed

\* It has attempts left.
AttemptsLeft ==
  /\ attempts \in [Orders -> 0 .. MaxAttempts]
  /\ \A i \in 1 .. Len(waiting) : attempts[waiting[i]] < MaxAttempts
  /\ \A o \in delayed : attempts[o] < MaxAttempts
  /\ \A w \in Workers : worker[w] # NoJob => attempts[worker[w].id] < MaxAttempts
  /\ \A h \in Queueing : attempts[handler[h].id] < MaxAttempts
  /\ \A o \in Orders : o > Len(orders) => attempts[o] = 0

PlaceInv == OnePlace /\ AttemptsLeft

------------------------------------------------------------------------------
LEMMA KnownStays ==
  ASSUME Table(orders), orders' \in Seq(OrderRow), Len(orders) <= Len(orders'), NEW o, Known(o)
  PROVE  Known(o)'
<1>1. Len(orders) \in Nat /\ Len(orders') \in Nat
  BY LenProperties DEF Table
<1> QED BY <1>1, TradingAssumption DEF Known, Orders

\* One handler goes on to v, no order is forgotten.
LEMMA HandlerTo ==
  ASSUME StoreInv, orders' \in Seq(OrderRow), Len(orders) <= Len(orders'),
         NEW h \in Handlers, NEW v \in HandlerType, handler' = [handler EXCEPT ![h] = v],
         v.step = "locked" => v.order.filled = 0,
         v.step \in {"stored", "reprice", "cancel"} => v.id \in Orders /\ v.id <= Len(orders')
  PROVE  HandlerInv'
<1>1. handler' \in [Handlers -> HandlerType]
  BY DEF StoreInv, HandlerInv
<1>2. \A o : Known(o) => Known(o)'
  BY KnownStays DEF StoreInv
<1>3. ASSUME NEW g \in Handlers
      PROVE  (/\ handler[g].step = "locked" => handler[g].order.filled = 0
              /\ handler[g].step \in {"stored", "reprice", "cancel"} => Known(handler[g].id))'
  <2>1. CASE g = h
    <3>1. handler'[g] = v
      BY <2>1 DEF StoreInv, HandlerInv
    <3> QED BY <3>1 DEF Known
  <2>2. CASE g # h
    <3>1. handler'[g] = handler[g]
      BY <2>2 DEF StoreInv, HandlerInv
    <3> QED BY <1>2, <3>1 DEF StoreInv, HandlerInv
  <2> QED BY <2>1, <2>2
<1> QED BY <1>1, <1>3 DEF HandlerInv

\* A handler that locks nothing keeps no room.
LEMMA RoomStays ==
  ASSUME StoreInv, Len(orders') = Len(orders), NEW h \in Handlers, NEW v,
         handler' = [handler EXCEPT ![h] = v], v.step # "locked"
  PROVE  Room'
<1>1. Locking' \in SUBSET Locking
  BY DEF Locking, StoreInv, HandlerInv
<1>2. Cardinality(Locking') <= Cardinality(Locking) /\ Cardinality(Locking') \in Nat
  BY <1>1, LockingFinite, FS_Subset, FS_CardinalityType
<1>3. Len(orders) \in Nat
  BY LenProperties DEF StoreInv, Table
<1> QED BY <1>2, <1>3, LockingFinite, TradingAssumption DEF Room, StoreInv

LEMMA HandlerMoves ==
  ASSUME StoreInv, orders' \in Seq(OrderRow), Len(orders') = Len(orders),
         NEW h \in Handlers, NEW v \in HandlerType, handler' = [handler EXCEPT ![h] = v],
         v.step # "locked", v.step \in {"stored", "reprice", "cancel"} => Known(v.id)
  PROVE  HandlerInv' /\ Room'
<1>1. Len(orders) <= Len(orders')
  <2>1. Len(orders) \in Nat
    BY LenProperties DEF StoreInv, Table
  <2> QED BY <2>1
<1>2. v.step \in {"stored", "reprice", "cancel"} => v.id \in Orders /\ v.id <= Len(orders')
  BY DEF Known
<1>3. HandlerInv'
  BY <1>1, <1>2, HandlerTo
<1> QED BY <1>3, RoomStays

\* The workers and the open transaction, while no row is added or nothing is open.
LEMMA WorkersFrame ==
  ASSUME Typed, UNCHANGED <<worker, txn>>, orders' \in Seq(OrderRow),
         Len(orders') = Len(orders) \/ (txn = NoTxn /\ Len(orders') = Len(orders) + 1)
  PROVE  /\ worker' \in [Workers -> JobType]
         /\ \A w \in Workers : JobTyped(worker[w])'
         /\ TxnTyped'
<1>1. Len(orders) \in Nat /\ Table(orders)
  BY LenProperties DEF Typed, StoreInv, Table
<1>2. \A o : Known(o) => Known(o)'
  BY <1>1, KnownStays
<1>3. worker' = worker /\ txn' = txn
  OBVIOUS
<1>4. \A w \in Workers : JobTyped(worker[w])'
  BY <1>2, <1>3 DEF Typed, JobTyped, RestingRow
<1>5. TxnTyped'
  BY <1>3 DEF Typed, TxnTyped, Table
<1> QED BY <1>3, <1>4, <1>5 DEF Typed

\* A handler step: the rest of the state is as it was.
LEMMA HandlerKeepsTyped ==
  ASSUME Typed, UNCHANGED <<waiting, delayed, worker, txn, executed, earned, crashes>>,
         HandlerInv', Room', orders' \in Seq(OrderRow),
         Len(orders') = Len(orders) \/ (txn = NoTxn /\ Len(orders') = Len(orders) + 1),
         \A o \in unqueued' : Known(o)', LedgerType(wallet'), orphaned' \in Money,
         listening' \in BOOLEAN
  PROVE  Typed'
<1>1. Len(orders) \in Nat /\ Table(orders)
  BY LenProperties DEF Typed, StoreInv, Table
<1>2. \A o : Known(o) => Known(o)'
  BY <1>1, KnownStays
<1>3. QueueInv'
  BY <1>2 DEF Typed, StoreInv, QueueInv
<1>4. StoreInv'
  BY <1>3 DEF StoreInv, Table
<1>5. /\ worker' \in [Workers -> JobType] /\ TxnTyped'
      /\ \A w \in Workers : JobTyped(worker[w])'
  BY WorkersFrame
<1> QED BY <1>4, <1>5 DEF Typed, LedgerType

------------------------------------------------------------------------------
(***************************************************************************)
(* The postings keep the type of the ledger.                               *)
(***************************************************************************)
OnAccount(p) == p.account \in Accounts /\ p.amount \in Int

LEMMA PledgeType ==
  ASSUME NEW u \in Users, NEW side, NEW n \in Int, NEW price \in Int
  PROVE  OnAccount(Pledge(u, side, n, price))
BY DEF Pledge, Accounts, OnAccount

LEMMA TransferType ==
  ASSUME NEW w, LedgerType(w), NEW p, OnAccount(p), NEW d \in {"lock", "unlock"}
  PROVE  Transfer(w, p, d).ok => LedgerType(Transfer(w, p, d))
<1> DEFINE q == [kind |-> d, amount |-> p.amount, useAvailable |-> FALSE, useLocked |-> FALSE]
<1>1. Effect(q).available \in Int /\ Effect(q).locked \in Int
  BY DEF Effect, OnAccount
<1> HIDE DEF q
<1>2. CASE w.ok /\ q.amount > 0 /\ Affords(w.available[p.account], w.locked[p.account], q)
  <2>1. Transfer(w, p, d)
          = [ok |-> TRUE,
             available |-> [w.available EXCEPT ![p.account] = @ + Effect(q).available],
             locked |-> [w.locked EXCEPT ![p.account] = @ + Effect(q).locked]]
    BY <1>2 DEF Transfer, q
  <2> QED BY <1>1, <2>1 DEF LedgerType, Wallet, OnAccount
<1>3. CASE ~(w.ok /\ q.amount > 0 /\ Affords(w.available[p.account], w.locked[p.account], q))
  <2>1. Transfer(w, p, d) = [w EXCEPT !.ok = FALSE]
    BY <1>3 DEF Transfer, q
  <2> QED BY <2>1 DEF LedgerType, Wallet
<1> QED BY <1>2, <1>3

LEMMA SettleType ==
  ASSUME NEW w, LedgerType(w), NEW b \in Users, NEW s \in Users, NEW n \in Nat, NEW price \in Nat
  PROVE  settleMatch(w, b, s, n, price).ok => LedgerType(settleMatch(w, b, s, n, price))
<1>1. <<b, "cash">> \in Accounts /\ <<b, "token">> \in Accounts
      /\ <<s, "cash">> \in Accounts /\ <<s, "token">> \in Accounts
  BY DEF Accounts
<1>2. n * price \in Nat
  OBVIOUS
<1> DEFINE q == n * price
           l == [w.locked EXCEPT ![<<b, "cash">>] = @ - q, ![<<b, "token">>] = @ + n,
                                 ![<<s, "token">>] = @ - n, ![<<s, "cash">>] = @ + q]
<1>3. settleMatch(w, b, s, n, price) \in
        {[ok |-> TRUE, available |-> w.available, locked |-> l], [w EXCEPT !.ok = FALSE]}
  BY DEF settleMatch
<1>4. w.locked \in [Accounts -> Int] /\ q \in Int
  BY <1>2 DEF LedgerType, Wallet
<1> HIDE DEF q
<1>5. l \in [Accounts -> Int]
  BY <1>1, <1>4
<1> HIDE DEF l
<1>6. CASE settleMatch(w, b, s, n, price) = [ok |-> TRUE, available |-> w.available, locked |-> l]
  <2>1. w.available \in [Accounts -> Int]
    BY DEF LedgerType, Wallet
  <2>2. [ok |-> TRUE, available |-> w.available, locked |-> l] \in Wallet
    BY <1>5, <2>1 DEF Wallet
  <2> QED BY <1>6, <2>2 DEF LedgerType
<1>7. CASE settleMatch(w, b, s, n, price) = [w EXCEPT !.ok = FALSE]
  <2>1. ~[w EXCEPT !.ok = FALSE].ok
    BY DEF LedgerType, Wallet
  <2> QED BY <1>7, <2>1
<1> QED BY <1>3, <1>6, <1>7

LEMMA UnlockType ==
  ASSUME NEW w, LedgerType(w), NEW u \in Users, NEW side, NEW n \in Int, NEW price \in Int
  PROVE  unlockOrderRemainder(w, u, side, n, price).ok =>
           LedgerType(unlockOrderRemainder(w, u, side, n, price))
BY PledgeType, TransferType DEF unlockOrderRemainder

LEMMA RefundType ==
  ASSUME NEW w, LedgerType(w), NEW u \in Users, NEW n \in Int
  PROVE  refundBuyerPriceImprovement(w, u, n).ok => LedgerType(refundBuyerPriceImprovement(w, u, n))
<1>1. OnAccount([account |-> <<u, "cash">>, amount |-> n])
  BY DEF OnAccount, Accounts
<1> QED BY <1>1, TransferType DEF refundBuyerPriceImprovement

\* A posting to a ledger that has thrown does not bring it back.
LEMMA RefundThrown ==
  ASSUME NEW w, ~w.ok, w \in Wallet, NEW u, NEW n
  PROVE  ~refundBuyerPriceImprovement(w, u, n).ok
BY DEF refundBuyerPriceImprovement, Transfer, Wallet

------------------------------------------------------------------------------
(***************************************************************************)
(* The steps of the request handlers                                       *)
(***************************************************************************)
LEMMA RowTyped ==
  ASSUME StoreInv, NEW o, Known(o)
  PROVE  o \in 1 .. Len(orders) /\ orders[o] \in OrderRow
<1>1. orders \in Seq(OrderRow) /\ Len(orders) \in Nat /\ o \in 1 .. Len(orders)
  BY LenProperties, TradingAssumption DEF StoreInv, Table, Known, Orders
<1> QED BY <1>1, ElementOfSeq

\* One row is written; the number of rows stays.
LEMMA WriteTyped ==
  ASSUME NEW os \in Seq(OrderRow), NEW o \in 1 .. Len(os), NEW row \in OrderRow
  PROVE  /\ [os EXCEPT ![o] = row] \in Seq(OrderRow)
         /\ Len([os EXCEPT ![o] = row]) = Len(os)
         /\ \A p \in 1 .. Len(os) : [os EXCEPT ![o] = row][p] = IF p = o THEN row ELSE os[p]
BY ExceptSeq, LenProperties

LEMMA LockFundsTyped ==
  ASSUME Typed, NEW h \in Handlers, NEW q \in OrderRequests, LockFunds(h, q)
  PROVE  Typed'
<1>1. /\ UNCHANGED <<orders, waiting, delayed, worker, txn, executed, earned, crashes, listening, orphaned, unqueued>>
      /\ handler[h] = Idle /\ Len(orders) + Cardinality(Locking) < MaxOrders
  BY DEF LockFunds, queue, lost
<1> DEFINE v == [step |-> "locked", order |-> NewOrder(q)]
           after == lockOrderFunds(wallet, q.owner, q.side, q.quantity, OrderPrice(q))
<1>2. handler' = [handler EXCEPT ![h] = v] /\ wallet' = after /\ after.ok
  BY DEF LockFunds
<1>3. v \in HandlerType /\ v.step = "locked" /\ v.order.filled = 0
  BY NewOrderType DEF HandlerType
<1>4. orders \in Seq(OrderRow) /\ Len(orders) \in Nat /\ StoreInv
  BY LenProperties DEF Typed, StoreInv, Table
<1> HIDE DEF v
<1>5. HandlerInv'
  <2>1. orders' \in Seq(OrderRow) /\ Len(orders) <= Len(orders')
    BY <1>1, <1>4
  <2>2. v.step \notin {"stored", "reprice", "cancel"}
    BY <1>3
  <2> QED BY <1>2, <1>3, <1>4, <2>1, <2>2, HandlerTo
<1>6. Room'
  <2>1. Locking' = Locking \cup {h}
    BY <1>2, <1>3, <1>4 DEF Locking, StoreInv, HandlerInv
  <2>2. h \notin Locking
    BY <1>1 DEF Locking, Idle
  <2>3. Cardinality(Locking') = Cardinality(Locking) + 1
    BY <2>1, <2>2, LockingFinite, FS_AddElement
  <2> QED BY <1>1, <1>4, <2>3, LockingFinite, TradingAssumption DEF Room
<1>7. LedgerType(wallet')
  <2>1. q \in RequestType /\ NewOrder(q) \in OrderRow
    BY NewOrderType, TradingAssumption
  <2>2. OrderPrice(q) \in Int /\ q.owner \in Users /\ q.quantity \in Int
    BY <2>1 DEF NewOrder, OrderRow, RequestType
  <2>3. OnAccount(Pledge(q.owner, q.side, q.quantity, OrderPrice(q)))
    BY <2>2, PledgeType
  <2>4. LedgerType(wallet)
    BY DEF Typed
  <2> QED BY <1>2, <2>3, <2>4, TransferType DEF lockOrderFunds
<1>8. \A o \in unqueued' : Known(o)'
  BY <1>1, <1>4 DEF StoreInv, Known
<1>9. orphaned' \in Money /\ listening' \in BOOLEAN
  BY <1>1 DEF Typed
<1> QED BY <1>1, <1>4, <1>5, <1>6, <1>7, <1>8, <1>9, HandlerKeepsTyped

LEMMA StoreOrderTyped ==
  ASSUME Typed, NEW h \in Handlers, StoreOrder(h)
  PROVE  Typed'
<1> DEFINE row == handler[h].order
           v == [step |-> "stored", id |-> Len(orders) + 1]
<1>1. handler[h].step = "locked" /\ row \in OrderRow
  BY DEF StoreOrder, Typed, StoreInv, HandlerInv, HandlerType, Idle
<1>2. /\ orders' = Append(orders, row) /\ txn = NoTxn /\ handler' = [handler EXCEPT ![h] = v]
      /\ UNCHANGED <<wallet, waiting, delayed, worker, txn, executed, earned, crashes, listening, orphaned, unqueued>>
  BY DEF StoreOrder, queue, lost
<1>3. orders \in Seq(OrderRow) /\ Len(orders) \in Nat /\ StoreInv
  BY LenProperties DEF Typed, StoreInv, Table
<1>4. orders' \in Seq(OrderRow) /\ Len(orders') = Len(orders) + 1
  BY <1>1, <1>2, <1>3, AppendProperties
<1> HIDE DEF row
<1>5. Locking' = Locking \ {h} /\ h \in Locking
  BY <1>1, <1>2, <1>3 DEF Locking, StoreInv, HandlerInv
<1>6. Cardinality(Locking') = Cardinality(Locking) - 1 /\ Cardinality(Locking) > 0
  BY <1>5, LockingFinite, FS_RemoveElement, FS_EmptySet
<1>7. Room'
  BY <1>3, <1>4, <1>6, LockingFinite, TradingAssumption DEF Room, StoreInv
<1>8. Len(orders) + 1 \in Orders
  BY <1>3, <1>6, LockingFinite, TradingAssumption DEF Room, StoreInv, Orders
<1>9. v \in HandlerType /\ v.step = "stored" /\ v.id = Len(orders) + 1
  BY <1>8, HandlerTypes
<1> HIDE DEF v
<1>10. v.id \in Orders /\ v.id <= Len(orders') /\ Len(orders) <= Len(orders')
  BY <1>3, <1>4, <1>8, <1>9
<1>11. HandlerInv'
  BY <1>2, <1>3, <1>4, <1>9, <1>10, HandlerTo
<1>12. \A o \in unqueued' : Known(o)'
  BY <1>2, <1>3, <1>4, KnownStays DEF StoreInv
<1>13. orphaned' \in Money /\ listening' \in BOOLEAN /\ LedgerType(wallet')
  BY <1>2 DEF Typed
<1> QED BY <1>2, <1>4, <1>7, <1>11, <1>12, <1>13, HandlerKeepsTyped

LEMMA QueueOrderTyped ==
  ASSUME Typed, NEW h \in Handlers, QueueOrder(h)
  PROVE  Typed'
<1> DEFINE o == handler[h].id
<1>1. /\ waiting' = Append(waiting, o) /\ handler' = [handler EXCEPT ![h] = Idle] /\ listening' = TRUE
      /\ UNCHANGED <<orders, wallet, delayed, worker, txn, executed, earned, crashes, orphaned, unqueued>>
  BY DEF QueueOrder, store, lost
<1>2. Known(o) /\ StoreInv
  BY DEF QueueOrder, Typed, StoreInv, HandlerInv
<1> HIDE DEF o
<1>3. HandlerInv' /\ Room'
  BY <1>1, <1>2, IdleType, HandlerMoves DEF StoreInv, Table
<1>4. QueueInv'
  <2>1. /\ waiting' \in Seq(Orders) /\ Len(waiting') = Len(waiting) + 1
        /\ \A i \in 1 .. Len(waiting) : waiting'[i] = waiting[i]
        /\ waiting'[Len(waiting) + 1] = o
    BY <1>1, <1>2, AppendProperties DEF Known, StoreInv, QueueInv
  <2>2. Len(waiting) \in Nat
    BY <1>2, LenProperties DEF StoreInv, QueueInv
  <2>3. \A i \in 1 .. Len(waiting') : Known(waiting'[i])
    BY <1>2, <2>1, <2>2 DEF StoreInv, QueueInv
  <2> QED BY <1>1, <1>2, <2>1, <2>3 DEF StoreInv, QueueInv, Known
<1>5. StoreInv'
  BY <1>1, <1>2, <1>3, <1>4 DEF StoreInv, Table, Known
<1>6. /\ worker' \in [Workers -> JobType] /\ TxnTyped'
      /\ \A w \in Workers : JobTyped(worker[w])'
  BY <1>1, <1>2, WorkersFrame DEF StoreInv, Table
<1> QED BY <1>1, <1>5, <1>6 DEF Typed, LedgerType

LEMMA PledgedAmount ==
  ASSUME NEW o \in OrderRow
  PROVE  OnAccount(Pledge(o.owner, o.side, o.quantity, o.price))
<1>1. o.owner \in Users /\ o.quantity \in Int /\ o.price \in Int
  BY DEF OrderRow
<1> QED BY <1>1, PledgeType

LEMMA CreateThrowsTyped ==
  ASSUME Typed, NEW h \in Handlers, CreateThrows(h)
  PROVE  Typed'
<1>1. /\ handler' = [handler EXCEPT ![h] = Idle] /\ handler[h].step \in {"locked", "stored"}
      /\ orphaned' = IF handler[h].step = "locked"
                     THEN [orphaned EXCEPT ![InFlight(h).account] = @ + InFlight(h).amount]
                     ELSE orphaned
      /\ unqueued' = IF handler[h].step = "stored" THEN unqueued \cup {handler[h].id} ELSE unqueued
      /\ UNCHANGED <<orders, wallet, waiting, delayed, worker, txn, executed, earned, crashes, listening>>
  BY DEF CreateThrows, store, queue
<1>2. StoreInv /\ orders \in Seq(OrderRow)
  BY DEF Typed, StoreInv, Table
<1>3. HandlerInv' /\ Room'
  BY <1>1, <1>2, IdleType, HandlerMoves
<1>4. handler[h].step = "locked" => handler[h].order \in OrderRow
  BY <1>2 DEF StoreInv, HandlerInv, HandlerType, Idle
<1>5. handler[h].step = "locked" => OnAccount(InFlight(h))
  BY <1>4, PledgedAmount DEF InFlight
<1>6. orphaned' \in Money
  BY <1>1, <1>5 DEF Typed, Money, OnAccount
<1>7. \A o \in unqueued' : Known(o)'
  BY <1>1, <1>2 DEF StoreInv, HandlerInv, Known
<1>8. LedgerType(wallet') /\ listening' \in BOOLEAN
  BY <1>1 DEF Typed
<1> QED BY <1>1, <1>2, <1>3, <1>6, <1>7, <1>8, HandlerKeepsTyped

LEMMA WritePriceTyped ==
  ASSUME Typed, NEW h \in Handlers, WritePrice(h)
  PROVE  Typed'
<1> DEFINE o == handler[h].id
           p == handler[h].price
           row == [orders[o] EXCEPT !.price = p]
<1>1. StoreInv
  BY DEF Typed
<1>2. /\ Known(o) /\ p \in Nat
      /\ orders' = [orders EXCEPT ![o] = row] /\ txn = NoTxn
      /\ handler' = [handler EXCEPT ![h] = Idle]
      /\ UNCHANGED <<wallet, waiting, delayed, worker, txn, executed, earned, crashes, listening, orphaned, unqueued>>
  BY <1>1 DEF WritePrice, queue, lost, StoreInv, HandlerInv, HandlerType, Idle
<1> HIDE DEF o, p
<1>3. row \in OrderRow /\ o \in 1 .. Len(orders)
  BY <1>1, <1>2, RowTyped DEF OrderRow
<1> HIDE DEF row
<1>4. orders' \in Seq(OrderRow) /\ Len(orders') = Len(orders)
  BY <1>1, <1>2, <1>3, WriteTyped DEF StoreInv, Table
<1>5. HandlerInv' /\ Room'
  BY <1>1, <1>2, <1>4, IdleType, HandlerMoves
<1>6. \A q \in unqueued' : Known(q)'
  BY <1>1, <1>2, <1>4 DEF StoreInv, Known
<1>7. LedgerType(wallet') /\ listening' \in BOOLEAN /\ orphaned' \in Money
  BY <1>2 DEF Typed
<1> QED BY <1>2, <1>4, <1>5, <1>6, <1>7, HandlerKeepsTyped

LEMMA CancelOrderTyped ==
  ASSUME Typed, NEW h \in Handlers, CancelOrder(h)
  PROVE  Typed'
<1> DEFINE o == handler[h].id
           row == [orders[o] EXCEPT !.status = "CANCELLED"]
<1>1. StoreInv
  BY DEF Typed
<1>2. /\ Known(o) /\ handler[h].price \in Nat /\ handler[h].remaining \in Int
      /\ orders' = [orders EXCEPT ![o] = row] /\ txn = NoTxn
      /\ handler' = [handler EXCEPT ![h] = Idle] /\ wallet' = Unlocked(h) /\ Unlocked(h).ok
      /\ UNCHANGED <<waiting, delayed, worker, txn, executed, earned, crashes, listening, orphaned, unqueued>>
  BY <1>1 DEF CancelOrder, queue, lost, StoreInv, HandlerInv, HandlerType, Idle
<1>3. orders[o] \in OrderRow /\ row \in OrderRow /\ o \in 1 .. Len(orders)
  BY <1>1, <1>2, RowTyped DEF OrderRow, Statuses
<1>4. LedgerType(wallet')
  <2>1. orders[o].owner \in Users /\ LedgerType(wallet)
    BY <1>3 DEF OrderRow, Typed
  <2> QED BY <1>2, <2>1, UnlockType DEF Unlocked
<1> HIDE DEF o, row
<1>5. orders' \in Seq(OrderRow) /\ Len(orders') = Len(orders)
  BY <1>1, <1>2, <1>3, WriteTyped DEF StoreInv, Table
<1>6. HandlerInv' /\ Room'
  BY <1>1, <1>2, <1>5, IdleType, HandlerMoves
<1>7. \A q \in unqueued' : Known(q)'
  BY <1>1, <1>2, <1>5 DEF StoreInv, Known
<1>8. listening' \in BOOLEAN /\ orphaned' \in Money
  BY <1>2 DEF Typed
<1> QED BY <1>2, <1>4, <1>5, <1>6, <1>7, <1>8, HandlerKeepsTyped

LEMMA ReadsTyped ==
  ASSUME Typed, NEW h \in Handlers,
         \/ RequestThrows(h)
         \/ \E o \in Orders : ReadForCancel(h, o) \/ \E p \in Band : ReadForUpdate(h, o, p)
  PROVE  Typed'
<1>1. UNCHANGED <<orders, wallet, waiting, delayed, worker, txn, executed, earned, crashes, listening, orphaned, unqueued>>
  BY DEF RequestThrows, ReadForCancel, ReadForUpdate, queue, store, lost
<1>2. StoreInv /\ orders \in Seq(OrderRow) /\ Len(orders) \in Nat
  BY LenProperties DEF Typed, StoreInv, Table
<1>3. SUFFICES HandlerInv' /\ Room'
  <2>1. \A q \in unqueued' : Known(q)'
    BY <1>1, <1>2 DEF StoreInv, Known
  <2>2. LedgerType(wallet') /\ listening' \in BOOLEAN /\ orphaned' \in Money
    BY <1>1 DEF Typed
  <2> QED BY <1>1, <1>2, <2>1, <2>2, HandlerKeepsTyped
<1>4. CASE RequestThrows(h)
  BY <1>1, <1>2, <1>4, IdleType, HandlerMoves DEF RequestThrows
<1>5. ASSUME NEW o \in Orders, NEW p \in Band, ReadForUpdate(h, o, p) PROVE HandlerInv' /\ Room'
  <2> DEFINE v == [step |-> "reprice", id |-> o, price |-> p]
  <2>1. v \in HandlerType /\ v.step = "reprice" /\ v.id = o
    BY HandlerTypes, TradingAssumption
  <2>2. Known(o) /\ handler' = [handler EXCEPT ![h] = v]
    BY <1>2, <1>5, LenProperties DEF ReadForUpdate, Known, Orders
  <2> HIDE DEF v
  <2> QED BY <1>1, <1>2, <2>1, <2>2, HandlerMoves
<1>6. ASSUME NEW o \in Orders, ReadForCancel(h, o) PROVE HandlerInv' /\ Room'
  <2> DEFINE v == [step |-> "cancel", id |-> o, price |-> orders[o].price,
                   remaining |-> orders[o].quantity - orders[o].filled]
  <2>1. Known(o) /\ handler' = [handler EXCEPT ![h] = v]
    BY <1>2, <1>6, LenProperties DEF ReadForCancel, Known, Orders
  <2>2. orders[o].price \in Nat /\ orders[o].quantity - orders[o].filled \in Int
    BY <1>2, <2>1, RowTyped DEF OrderRow
  <2>3. v \in HandlerType /\ v.step = "cancel" /\ v.id = o
    BY <2>2, HandlerTypes
  <2> HIDE DEF v
  <2> QED BY <1>1, <1>2, <2>1, <2>3, HandlerMoves
<1> QED BY <1>4, <1>5, <1>6

------------------------------------------------------------------------------
(***************************************************************************)
(* The steps of the workers                                                *)
(***************************************************************************)
\* A worker goes on to job j.
LEMMA WorkerKeepsTyped ==
  ASSUME Typed, NEW w \in Workers, NEW j \in JobType, JobTyped(j),
         worker' = [worker EXCEPT ![w] = j],
         UNCHANGED <<handler, unqueued, crashes, listening, orphaned>>,
         orders' \in Seq(OrderRow), Len(orders') = Len(orders), QueueInv', TxnTyped',
         LedgerType(wallet'), executed' \in [Orders -> Int], earned' \in Money
  PROVE  Typed'
<1>1. Len(orders) \in Nat /\ StoreInv
  BY LenProperties DEF Typed, StoreInv, Table
<1>2. \A o : Known(o) => Known(o)'
  BY DEF Known
<1>3. StoreInv'
  BY <1>1, <1>2 DEF StoreInv, Table, HandlerInv, Room, Locking
<1>4. worker' \in [Workers -> JobType]
  BY DEF Typed
<1>5. ASSUME NEW v \in Workers PROVE JobTyped(worker[v])'
  <2>1. worker'[v] = IF v = w THEN j ELSE worker[v]
    BY DEF Typed
  <2>2. JobTyped(worker'[v])
    BY <2>1 DEF Typed
  <2> QED BY <1>2, <2>2 DEF JobTyped, RestingRow
<1> QED BY <1>3, <1>4, <1>5 DEF Typed, LedgerType

\* A worker that neither begins nor goes on matching.
LEMMA TxnOutside ==
  ASSUME Typed, NEW w \in Workers, NEW j, j.phase # "matching", worker' = [worker EXCEPT ![w] = j],
         txn' = IF txn.owner = w THEN NoTxn ELSE txn, Len(orders') = Len(orders)
  PROVE  TxnTyped'
<1>1. \A v \in Workers : worker'[v] = IF v = w THEN j ELSE worker[v]
  BY DEF Typed
<1>2. \A v \in Workers : txn'.owner = v <=> worker'[v].phase = "matching"
  BY <1>1, NoTxnOwner DEF Typed, TxnTyped
<1>3. txn' # NoTxn => txn' = txn
  OBVIOUS
<1> QED BY <1>2, <1>3 DEF Typed, TxnTyped, Table

LEMMA DropTyped ==
  ASSUME Typed, NEW w \in Workers, Drop(w), RollBack, worker[w].phase # "idle",
         UNCHANGED <<handler, waiting, listening, crashes, lost>>,
         delayed' \subseteq delayed \cup {worker[w].id}
  PROVE  Typed'
<1>1. UNCHANGED <<orders, wallet, executed, earned, unqueued, orphaned>>
  BY DEF RollBack, store, lost
<1>2. JobTyped(NoJob)
  BY NoJobType DEF JobTyped
<1>3. TxnTyped'
  BY <1>1, NoJobType, TxnOutside DEF Drop
<1>4. Known(worker[w].id)
  BY DEF Typed, JobTyped
<1>5. QueueInv'
  BY <1>1, <1>4 DEF Typed, StoreInv, QueueInv, Known
<1>6. /\ orders' \in Seq(OrderRow) /\ LedgerType(wallet')
      /\ executed' \in [Orders -> Int] /\ earned' \in Money
  BY <1>1 DEF Typed, StoreInv, Table
<1> QED BY <1>1, <1>2, <1>3, <1>5, <1>6, NoJobType, WorkerKeepsTyped DEF Drop

LEMMA BusyTyped ==
  ASSUME Typed, NEW w \in Workers
  PROVE  worker[w] # NoJob <=> worker[w].phase # "idle"
BY DEF Typed, JobType, NoJob

LEMMA RetryTyped ==
  ASSUME Typed, NEW w \in Workers, Retry(w), worker[w].phase # "idle",
         UNCHANGED <<handler, waiting, listening, crashes, lost>>
  PROVE  Typed'
<1>1. Drop(w) /\ RollBack /\ delayed' \subseteq delayed \cup {worker[w].id}
  BY DEF Retry
<1> QED BY <1>1, DropTyped

LEMMA JobEndTyped ==
  ASSUME Typed, NEW w \in Workers, RecordTrades(w) \/ JobThrows(w) \/ LeftoverThrows(w)
  PROVE  Typed'
<1>1. CASE RecordTrades(w)
  <2>1. Drop(w) /\ RollBack /\ UNCHANGED <<handler, waiting, delayed, listening, crashes, lost>>
    BY <1>1 DEF RecordTrades, Complete, RollBack
  <2>2. worker[w].phase # "idle"
    BY <1>1 DEF RecordTrades
  <2> QED BY <2>1, <2>2, DropTyped
<1>2. CASE JobThrows(w)
  BY <1>2, RetryTyped, BusyTyped DEF JobThrows
<1>3. CASE LeftoverThrows(w)
  BY <1>3, RetryTyped DEF LeftoverThrows
<1> QED BY <1>1, <1>2, <1>3

LEMMA TakeJobTyped ==
  ASSUME Typed, NEW w \in Workers, TakeJob(w)
  PROVE  Typed'
<1> DEFINE o == Head(waiting)
           j == IF orders[o].status = "OPEN"
                THEN [phase |-> "taken", id |-> o, taker |-> orders[o]] ELSE NoJob
<1>1. /\ waiting # <<>> /\ waiting' = Tail(waiting) /\ worker[w] = NoJob
      /\ worker' = [worker EXCEPT ![w] = j]
      /\ UNCHANGED <<orders, wallet, executed, earned, handler, delayed, listening, txn, crashes, orphaned, unqueued>>
  BY DEF TakeJob, store, lost
<1>2. /\ waiting \in Seq(Orders) /\ Len(waiting) \in Nat
      /\ o = waiting[1] /\ 1 \in 1 .. Len(waiting)
      /\ Tail(waiting) \in Seq(Orders) /\ Len(Tail(waiting)) = Len(waiting) - 1
      /\ \A i \in 1 .. Len(Tail(waiting)) : Tail(waiting)[i] = waiting[i + 1]
  BY <1>1, HeadTailProperties, LenProperties, EmptySeq DEF Typed, StoreInv, QueueInv
<1>3. Known(o)
  BY <1>2 DEF Typed, StoreInv, QueueInv
<1>4. QueueInv'
  <2>1. \A i \in 1 .. Len(Tail(waiting)) : Known(Tail(waiting)[i])
    BY <1>2 DEF Typed, StoreInv, QueueInv
  <2> QED BY <1>1, <1>2, <2>1 DEF Typed, StoreInv, QueueInv, Known
<1>5. orders[o] \in OrderRow
  BY <1>3, RowTyped DEF Typed
<1>6. j \in JobType /\ j.phase \in {"idle", "taken"} /\ JobTyped(j)
  <2>1. j \in JobType /\ j.phase \in {"idle", "taken"}
    BY <1>3, <1>5, NoJobType DEF JobType, Known
  <2>2. j.phase = "taken" => j.id = o
    BY NoJobType
  <2> HIDE DEF j, o
  <2> QED BY <1>3, <2>1, <2>2 DEF JobTyped
<1> HIDE DEF o, j
<1>7. TxnTyped'
  <2>1. txn.owner # w
    BY <1>1, NoJobType DEF Typed, TxnTyped
  <2> QED BY <1>1, <1>6, <2>1, TxnOutside
<1>8. /\ orders' \in Seq(OrderRow) /\ LedgerType(wallet')
      /\ executed' \in [Orders -> Int] /\ earned' \in Money
  BY <1>1 DEF Typed, StoreInv, Table
<1> QED BY <1>1, <1>4, <1>6, <1>7, <1>8, WorkerKeepsTyped

\* The query returns stored rows of other users that are not filled completely.
LEMMA BookTyped ==
  ASSUME StoreInv, NEW taker
  PROVE  /\ Book(taker) \subseteq [id : Orders, row : OrderRow]
         /\ \A m \in Book(taker) : RestingRow(m) /\ m.row.owner # taker.owner
<1>1. ASSUME NEW p \in Matchable(taker)
      PROVE  Known(p) /\ p \in Orders /\ orders[p] \in OrderRow /\ orders[p].owner # taker.owner
  <2>1. p \in DOMAIN orders /\ orders[p].owner # taker.owner
    BY DEF Matchable
  <2>2. orders \in Seq(OrderRow) /\ Len(orders) + Cardinality(Locking) <= MaxOrders
    BY DEF StoreInv, Table, Room
  <2>3. Len(orders) \in Nat /\ p \in 1 .. Len(orders)
    BY <2>1, <2>2, LenProperties
  <2>4. Cardinality(Locking) \in Nat
    BY LockingFinite
  <2>5. p <= MaxOrders
    BY <2>2, <2>3, <2>4, TradingAssumption
  <2>6. Known(p)
    BY <2>3, <2>5, TradingAssumption DEF Known, Orders
  <2> QED BY <2>1, <2>6, RowTyped DEF Known
<1>2. \A m \in Book(taker) : /\ m.id \in Matchable(taker) /\ m = [id |-> m.id, row |-> orders[m.id]]
                             /\ m.row = orders[m.id] /\ m.row.quantity - m.row.filled > 0
  BY DEF Book
<1> QED BY <1>1, <1>2 DEF RestingRow

LEMMA ReadBookTyped ==
  ASSUME Typed, NEW w \in Workers, ReadBook(w)
  PROVE  Typed'
<1> DEFINE o == worker[w].id
           taker == worker[w].taker
           j == [phase |-> "read", id |-> o, taker |-> taker, book |-> Book(taker),
                 remaining |-> taker.quantity, spent |-> 0]
<1>1. /\ worker' = [worker EXCEPT ![w] = j] /\ worker[w].phase = "taken"
      /\ UNCHANGED <<orders, wallet, executed, earned, handler, waiting, delayed, listening, txn, crashes, orphaned, unqueued>>
  BY DEF ReadBook, store, queue, lost
<1>2. Known(o) /\ o \in Orders /\ taker \in OrderRow
  BY <1>1 DEF Typed, JobTyped, JobType, NoJob, Known
<1>3. taker.quantity \in Nat /\ taker.quantity \in Int /\ taker.price \in Nat
  BY <1>2 DEF OrderRow
<1>4. Budget(taker) \in Nat
  BY <1>3 DEF Budget
<1>5. /\ Book(taker) \subseteq [id : Orders, row : OrderRow]
      /\ \A m \in Book(taker) : RestingRow(m) /\ m.row.owner # taker.owner
  BY BookTyped DEF Typed
<1> HIDE DEF o, taker
<1>6. j \in JobType /\ j.phase = "read"
  BY <1>2, <1>3, <1>5 DEF JobType
<1>7. JobTyped(j)
  BY <1>2, <1>3, <1>4, <1>5 DEF JobTyped
<1> HIDE DEF j
<1>8. TxnTyped'
  <2>1. txn.owner # w
    BY <1>1 DEF Typed, TxnTyped
  <2> QED BY <1>1, <1>6, <2>1, TxnOutside
<1>9. /\ orders' \in Seq(OrderRow) /\ LedgerType(wallet')
      /\ executed' \in [Orders -> Int] /\ earned' \in Money /\ QueueInv'
  BY <1>1 DEF Typed, StoreInv, Table, QueueInv, Known
<1> QED BY <1>1, <1>6, <1>7, <1>8, <1>9, WorkerKeepsTyped

\* A worker that has the transaction.
LEMMA TxnInside ==
  ASSUME Typed, NEW w \in Workers, NEW j, j.phase = "matching", worker' = [worker EXCEPT ![w] = j],
         txn.owner = w \/ txn = NoTxn, txn'.owner = w,
         txn'.orders \in Seq(OrderRow), Len(txn'.orders) = Len(orders'), LedgerType(txn'.wallet),
         txn'.executed \in [Orders -> Int], txn'.earned \in Money, txn'.fills \subseteq OfFill
  PROVE  TxnTyped'
<1>1. \A v \in Workers : worker'[v] = IF v = w THEN j ELSE worker[v]
  BY DEF Typed
<1>2. \A v \in Workers : txn'.owner = v <=> worker'[v].phase = "matching"
  BY <1>1, NoTxnOwner DEF Typed, TxnTyped
<1> QED BY <1>2 DEF TxnTyped, Table, LedgerType

LEMMA BeginTyped ==
  ASSUME Typed, NEW w \in Workers, Begin(w)
  PROVE  Typed'
<1> DEFINE j == [worker[w] EXCEPT !.phase = "matching"]
<1>1. /\ worker[w].phase = "read" /\ worker' = [worker EXCEPT ![w] = j] /\ txn = NoTxn
      /\ UNCHANGED <<orders, wallet, executed, earned, handler, waiting, delayed, listening, crashes, orphaned, unqueued>>
      /\ txn' = [owner |-> w, orders |-> orders, wallet |-> wallet,
                 executed |-> executed, earned |-> earned, fills |-> {}]
  BY DEF Begin, store, queue, lost
<1>2. worker[w] \in JobType /\ JobTyped(worker[w])
  BY DEF Typed
<1>3. /\ j \in JobType /\ j.phase = "matching" /\ j.id = worker[w].id
      /\ j.taker = worker[w].taker /\ j.book = worker[w].book
      /\ j.remaining = worker[w].remaining /\ j.spent = worker[w].spent
  BY <1>1, <1>2 DEF JobType, NoJob
<1> HIDE DEF j
<1>4. JobTyped(j)
  BY <1>1, <1>2, <1>3 DEF JobTyped
<1>5. /\ orders' \in Seq(OrderRow) /\ LedgerType(wallet')
      /\ executed' \in [Orders -> Int] /\ earned' \in Money /\ QueueInv'
  BY <1>1 DEF Typed, StoreInv, Table, QueueInv, Known
<1>6. /\ txn'.owner = w /\ txn'.orders = orders' /\ txn'.wallet = wallet'
      /\ txn'.executed = executed' /\ txn'.earned = earned' /\ txn'.fills = {}
  BY <1>1
<1>7. TxnTyped'
  BY <1>1, <1>3, <1>5, <1>6, TxnInside
<1> QED BY <1>1, <1>3, <1>4, <1>5, <1>7, WorkerKeepsTyped

\* What a job in its transaction has in hand.
LEMMA MatchingTyped ==
  ASSUME Typed, NEW w \in Workers, worker[w].phase = "matching"
  PROVE  /\ worker[w] = [phase |-> "matching", id |-> worker[w].id, taker |-> worker[w].taker,
                         book |-> worker[w].book, remaining |-> worker[w].remaining,
                         spent |-> worker[w].spent]
         /\ worker[w].id \in Orders /\ Known(worker[w].id) /\ worker[w].taker \in OrderRow
         /\ worker[w].book \in SUBSET [id : Orders, row : OrderRow]
         /\ \A m \in worker[w].book : RestingRow(m) /\ m.row.owner # worker[w].taker.owner
         /\ worker[w].remaining \in Nat /\ worker[w].spent \in Nat
         /\ MarketBuy(worker[w].taker) => worker[w].spent <= Budget(worker[w].taker)
         /\ Budget(worker[w].taker) \in Nat
         /\ txn.owner = w /\ txn # NoTxn
         /\ Table(txn.orders) /\ LedgerType(txn.wallet)
         /\ txn.executed \in [Orders -> Int] /\ txn.earned \in Money /\ txn.fills \subseteq OfFill
<1>1. worker[w] \in JobType /\ JobTyped(worker[w]) /\ TxnTyped
  BY DEF Typed
<1>2. /\ worker[w] = [phase |-> "matching", id |-> worker[w].id, taker |-> worker[w].taker,
                      book |-> worker[w].book, remaining |-> worker[w].remaining,
                      spent |-> worker[w].spent]
      /\ worker[w].id \in Orders /\ worker[w].taker \in OrderRow
      /\ worker[w].book \in SUBSET [id : Orders, row : OrderRow]
  BY <1>1 DEF JobType, NoJob
<1>3. Budget(worker[w].taker) \in Nat
  BY <1>2 DEF Budget, OrderRow
<1>4. txn.owner = w /\ txn # NoTxn
  BY <1>1, NoTxnOwner DEF TxnTyped
<1> QED BY <1>1, <1>2, <1>3, <1>4 DEF JobTyped, TxnTyped

\* What one fill takes, and the money that moves with it.
LEMMA TakenTyped ==
  ASSUME Typed, NEW w \in Workers, worker[w].phase = "matching",
         NEW m \in worker[w].book, Takes(worker[w], m), NEW n, n = MatchableQuantity(worker[w], m)
  PROVE  /\ n \in Nat /\ n > 0 /\ n <= worker[w].remaining /\ n <= m.row.quantity - m.row.filled
         /\ MarketBuy(worker[w].taker) =>
              worker[w].spent + n * m.row.price <= Budget(worker[w].taker)
         /\ m.row \in OrderRow /\ m.row.price \in Nat /\ n * m.row.price \in Nat
         /\ Known(m.id) /\ m.id \in Orders
<1> DEFINE j == worker[w]
<1>1. /\ j.taker \in OrderRow /\ RestingRow(m) /\ j.remaining \in Nat /\ j.spent \in Nat
      /\ MarketBuy(j.taker) => j.spent <= Budget(j.taker)
  BY MatchingTyped
<1>2. m.row \in OrderRow /\ m.row.quantity - m.row.filled > 0 /\ m.row.price \in Nat
      /\ Known(m.id) /\ m.id \in Orders
  BY <1>1 DEF RestingRow, OrderRow, Known
<1> HIDE DEF j
<1>3. /\ n \in Nat /\ n > 0 /\ n <= j.remaining /\ n <= m.row.quantity - m.row.filled
      /\ MarketBuy(j.taker) => j.spent + n * m.row.price <= Budget(j.taker)
  BY <1>1, <1>2, MatchableBound DEF j
<1>4. n * m.row.price \in Nat
  BY <1>2, <1>3
<1> QED BY <1>2, <1>3, <1>4 DEF j

\* The job after it has taken n of m.
Took(j, m, n) ==
  [phase |-> "matching", id |-> j.id, taker |-> j.taker, book |-> j.book \ {m},
   remaining |-> j.remaining - n,
   spent |-> IF MarketBuy(j.taker) THEN j.spent + n * m.row.price ELSE j.spent]

Buyer(j, m) == IF j.taker.side = "BUY" THEN j.taker.owner ELSE m.row.owner
Seller(j, m) == IF j.taker.side = "BUY" THEN m.row.owner ELSE j.taker.owner

LEMMA TookTyped ==
  ASSUME Typed, NEW w \in Workers, worker[w].phase = "matching",
         NEW m \in worker[w].book, Takes(worker[w], m), NEW n, n = MatchableQuantity(worker[w], m)
  PROVE  Took(worker[w], m, n) \in JobType /\ JobTyped(Took(worker[w], m, n))
<1> DEFINE j == worker[w]
           k == Took(j, m, n)
<1>1. /\ j.id \in Orders /\ Known(j.id) /\ j.taker \in OrderRow
      /\ j.book \in SUBSET [id : Orders, row : OrderRow]
      /\ \A r \in j.book : RestingRow(r) /\ r.row.owner # j.taker.owner
      /\ j.remaining \in Nat /\ j.spent \in Nat
      /\ MarketBuy(j.taker) => j.spent <= Budget(j.taker)
  BY MatchingTyped
<1>2. /\ n \in Nat /\ n <= j.remaining /\ n * m.row.price \in Nat
      /\ MarketBuy(j.taker) => j.spent + n * m.row.price <= Budget(j.taker)
  BY TakenTyped
<1> DEFINE quote == n * m.row.price
           s == IF MarketBuy(j.taker) THEN j.spent + quote ELSE j.spent
<1>3. s \in Nat /\ (MarketBuy(j.taker) => s <= Budget(j.taker)) /\ j.remaining - n \in Nat
  <2> HIDE DEF quote, j
  <2> QED BY <1>1, <1>2 DEF quote
<1>4. /\ k.phase = "matching" /\ k.id = j.id /\ k.taker = j.taker /\ k.book = j.book \ {m}
      /\ k.remaining = j.remaining - n /\ k.spent = s
      /\ k = [phase |-> k.phase, id |-> k.id, taker |-> k.taker, book |-> k.book,
              remaining |-> k.remaining, spent |-> k.spent]
  BY DEF Took
<1> HIDE DEF j, k, s
<1>5. k \in JobType
  BY <1>1, <1>3, <1>4 DEF JobType
<1>6. JobTyped(k)
  BY <1>1, <1>3, <1>4 DEF JobTyped
<1> QED BY <1>5, <1>6 DEF k, j

\* A fill in the code's order: the rows, then the money.
LEMMA FillWrites ==
  ASSUME Typed, NEW w \in Workers, worker[w].phase = "matching",
         NEW m \in worker[w].book, Fill(w, m), NEW n, n = MatchableQuantity(worker[w], m)
  PROVE  /\ Takes(worker[w], m) /\ Settled(worker[w], m).ok
         /\ worker' = [worker EXCEPT ![w] = Took(worker[w], m, n)]
         /\ txn'.owner = w /\ txn'.wallet = Settled(worker[w], m)
         /\ txn'.earned = [txn.earned EXCEPT ![<<Buyer(worker[w], m), "token">>] = @ + n,
                                             ![<<Seller(worker[w], m), "cash">>] = @ + n * m.row.price]
         /\ txn'.fills = txn.fills \cup {[taker |-> worker[w].id, maker |-> m.id,
                                          price |-> m.row.price, quantity |-> n]}
         /\ UNCHANGED <<orders, wallet, executed, earned, handler, waiting, delayed, attempts,
                        listening, crashes, orphaned, unqueued>>
BY DEF Fill, store, queue, lost, Took, Buyer, Seller

LEMMA Sides ==
  ASSUME Typed, NEW w \in Workers, worker[w].phase = "matching", NEW m \in worker[w].book
  PROVE  /\ Buyer(worker[w], m) \in Users /\ Seller(worker[w], m) \in Users
         /\ Buyer(worker[w], m) # Seller(worker[w], m)
         /\ worker[w].taker.owner \in Users /\ worker[w].taker.quantity \in Nat
         /\ worker[w].taker.price \in Nat /\ worker[w].taker.filled \in Int
<1>1. /\ worker[w].taker \in OrderRow /\ RestingRow(m) /\ m.row.owner # worker[w].taker.owner
  BY MatchingTyped
<1>2. m.row.owner \in Users /\ worker[w].taker.owner \in Users
      /\ worker[w].taker.quantity \in Nat /\ worker[w].taker.price \in Nat
      /\ worker[w].taker.filled \in Int
  BY <1>1 DEF RestingRow, OrderRow
<1> QED BY <1>1, <1>2 DEF Buyer, Seller

\* The money of a fill: the trade at the maker's price, and what a LIMIT BUY had
\* set aside above it goes back.
Refunds(j, m) == j.taker.type = "LIMIT" /\ j.taker.side = "BUY" /\ m.row.price < j.taker.price

LEMMA SettledIs ==
  ASSUME NEW j, NEW m, NEW n, n = MatchableQuantity(j, m)
  PROVE  Settled(j, m) =
           IF Refunds(j, m)
           THEN refundBuyerPriceImprovement(
                  settleMatch(txn.wallet, Buyer(j, m), Seller(j, m), n, m.row.price),
                  j.taker.owner, n * (j.taker.price - m.row.price))
           ELSE settleMatch(txn.wallet, Buyer(j, m), Seller(j, m), n, m.row.price)
BY DEF Settled, Refunds, Buyer, Seller

\* A refund of a ledger that has thrown has thrown.
LEMMA PaidOk ==
  ASSUME NEW j, NEW m, NEW n, n = MatchableQuantity(j, m), Settled(j, m).ok, LedgerType(txn.wallet)
  PROVE  settleMatch(txn.wallet, Buyer(j, m), Seller(j, m), n, m.row.price).ok
<1> DEFINE paid == settleMatch(txn.wallet, Buyer(j, m), Seller(j, m), n, m.row.price)
           u == j.taker.owner
           a == n * (j.taker.price - m.row.price)
<1>1. SUFFICES ASSUME ~paid.ok PROVE FALSE
  OBVIOUS
<1>2. paid \in Wallet
  BY <1>1 DEF settleMatch, LedgerType, Wallet
<1>3. Settled(j, m) \in {paid, refundBuyerPriceImprovement(paid, u, a)}
  BY SettledIs
<1> HIDE DEF paid, u, a
<1> QED BY <1>1, <1>2, <1>3, RefundThrown

LEMMA FillTyped ==
  ASSUME Typed, NEW w \in Workers, worker[w].phase = "matching", NEW m \in worker[w].book, Fill(w, m)
  PROVE  Typed'
<1> DEFINE j == worker[w]
           n == MatchableQuantity(worker[w], m)
           k == Took(j, m, n)
           taken == j.taker.filled + (j.taker.quantity - j.remaining) + n
           given == m.row.filled + n
<1>1. /\ Takes(j, m) /\ Settled(j, m).ok
      /\ worker' = [worker EXCEPT ![w] = k]
      /\ txn'.owner = w /\ txn'.wallet = Settled(j, m)
      /\ txn'.earned = [txn.earned EXCEPT ![<<Buyer(j, m), "token">>] = @ + n,
                                          ![<<Seller(j, m), "cash">>] = @ + n * m.row.price]
      /\ txn'.fills = txn.fills \cup {[taker |-> j.id, maker |-> m.id,
                                       price |-> m.row.price, quantity |-> n]}
      /\ UNCHANGED <<orders, wallet, executed, earned, handler, waiting, delayed, attempts,
                     listening, crashes, orphaned, unqueued>>
  BY FillWrites
<1>2. /\ txn'.orders = [txn.orders EXCEPT ![j.id] = Updated(@, taken, j.taker),
                                          ![m.id] = Updated(@, given, m.row)]
      /\ txn'.executed = [txn.executed EXCEPT ![j.id] = @ + n, ![m.id] = @ + n]
  BY DEF Fill
<1>3. /\ n \in Nat /\ m.row \in OrderRow /\ m.row.price \in Nat /\ n * m.row.price \in Nat
      /\ Known(m.id) /\ m.id \in Orders
  BY <1>1, TakenTyped
<1>4. k \in JobType /\ JobTyped(k) /\ k.phase = "matching"
  BY <1>1, TookTyped DEF Took
<1>5. /\ j.id \in Orders /\ Known(j.id) /\ j.remaining \in Nat /\ Table(txn.orders)
      /\ LedgerType(txn.wallet) /\ txn.executed \in [Orders -> Int] /\ txn.earned \in Money
      /\ txn.fills \subseteq OfFill /\ txn.owner = w
  BY MatchingTyped
<1>6. /\ Buyer(j, m) \in Users /\ Seller(j, m) \in Users /\ j.taker.owner \in Users
      /\ j.taker.quantity \in Nat /\ j.taker.price \in Nat /\ j.taker.filled \in Int
  BY Sides
<1> HIDE DEF n, k
<1>7. txn'.fills \subseteq OfFill
  BY <1>1, <1>3, <1>5 DEF OfFill
<1>8. txn'.earned \in Money
  <2>1. <<Buyer(j, m), "token">> \in Accounts /\ <<Seller(j, m), "cash">> \in Accounts
    BY <1>6 DEF Accounts
  <2>2. n \in Int /\ n * m.row.price \in Int
    BY <1>3
  <2> QED BY <1>1, <1>5, <2>1, <2>2 DEF Money
<1>9. txn'.executed \in [Orders -> Int]
  BY <1>2, <1>3, <1>5
<1>10. LedgerType(txn'.wallet)
  <2> DEFINE paid == settleMatch(txn.wallet, Buyer(j, m), Seller(j, m), n, m.row.price)
             a == n * (j.taker.price - m.row.price)
  <2>1. paid.ok
    BY <1>1, <1>5, PaidOk DEF n
  <2>2. LedgerType(paid)
    BY <1>3, <1>5, <1>6, <2>1, SettleType
  <2>3. a \in Int
    <3>1. j.taker.price - m.row.price \in Int
      BY <1>3, <1>6
    <3> QED BY <1>3, <3>1
  <2>4. Settled(j, m) \in {paid, refundBuyerPriceImprovement(paid, j.taker.owner, a)}
    BY SettledIs DEF n
  <2> HIDE DEF paid, a, j
  <2> QED BY <1>1, <1>6, <2>2, <2>3, <2>4, RefundType
<1>11. txn'.orders \in Seq(OrderRow) /\ Len(txn'.orders) = Len(orders')
  <2> DEFINE os1 == [txn.orders EXCEPT ![j.id] = Updated(@, taken, j.taker)]
             os2 == [txn.orders EXCEPT ![j.id] = Updated(@, taken, j.taker),
                                       ![m.id] = Updated(@, given, m.row)]
  <2>1. /\ txn.orders \in Seq(OrderRow) /\ Len(txn.orders) \in Nat
        /\ j.id \in 1 .. Len(txn.orders) /\ m.id \in 1 .. Len(txn.orders)
    BY <1>3, <1>5, LenProperties, TradingAssumption DEF Table, Known, Orders
  <2>2. /\ txn.orders[j.id] \in OrderRow /\ txn.orders[m.id] \in OrderRow
    BY <2>1, ElementOfSeq
  <2>3. taken \in Int /\ given \in Int
    BY <1>3, <1>5, <1>6 DEF OrderRow
  <2> HIDE DEF taken, given
  <2>4. Updated(txn.orders[j.id], taken, j.taker) \in OrderRow
    BY <2>2, <2>3, UpdatedRow
  <2>5. os1 \in Seq(OrderRow) /\ Len(os1) = Len(txn.orders)
    BY <2>1, <2>4, WriteTyped
  <2>6. os1[m.id] \in OrderRow
    BY <2>1, <2>5, ElementOfSeq
  <2>7. PICK r \in OrderRow : os2 = [os1 EXCEPT ![m.id] = Updated(r, given, m.row)]
    BY <2>2, <2>6
  <2>8. Updated(r, given, m.row) \in OrderRow
    BY <2>3, UpdatedRow
  <2>9. os2 \in Seq(OrderRow) /\ Len(os2) = Len(os1)
    <3> HIDE DEF os1, os2
    <3> QED BY <2>1, <2>5, <2>7, <2>8, WriteTyped
  <2> QED BY <1>1, <1>2, <1>5, <2>5, <2>9 DEF Table
<1>12. TxnTyped'
  BY <1>1, <1>4, <1>5, <1>7, <1>8, <1>9, <1>10, <1>11, TxnInside
<1>13. /\ orders' \in Seq(OrderRow) /\ LedgerType(wallet')
       /\ executed' \in [Orders -> Int] /\ earned' \in Money /\ QueueInv'
  BY <1>1 DEF Typed, StoreInv, Table, QueueInv, Known
<1> HIDE DEF j
<1> QED BY <1>1, <1>4, <1>12, <1>13, WorkerKeepsTyped

\* What is given back at the end of a job.
LEMMA LeftoverType ==
  ASSUME Typed, NEW w \in Workers, worker[w].phase = "matching"
  PROVE  Leftover(worker[w]).ok => LedgerType(Leftover(worker[w]))
<1> DEFINE j == worker[w]
<1>1. /\ j.taker \in OrderRow /\ j.remaining \in Nat /\ j.spent \in Nat
      /\ Budget(j.taker) \in Nat /\ LedgerType(txn.wallet)
  BY MatchingTyped
<1>2. j.taker.owner \in Users /\ Budget(j.taker) - j.spent \in Int
  BY <1>1 DEF OrderRow
<1>3. Leftover(j) \in {refundBuyerPriceImprovement(txn.wallet, j.taker.owner, Budget(j.taker) - j.spent),
                       unlockOrderRemainder(txn.wallet, j.taker.owner, j.taker.side, j.remaining, 0),
                       txn.wallet}
  BY DEF Leftover
<1> HIDE DEF j
<1> QED BY <1>1, <1>2, <1>3, UnlockType, RefundType DEF j

LEMMA CommitLength ==
  ASSUME Typed, NEW w \in Workers, Commit(w)
  PROVE  orders' \in Seq(OrderRow) /\ Len(orders') = Len(orders)
<1> DEFINE j == worker[w]
           row == [txn.orders[j.id] EXCEPT !.status = "CANCELLED"]
<1>1. Known(j.id) /\ Table(txn.orders)
  BY MatchingTyped DEF Commit
<1>2. txn.orders \in Seq(OrderRow) /\ Len(txn.orders) \in Nat /\ j.id \in 1 .. Len(txn.orders)
  BY <1>1, LenProperties, TradingAssumption DEF Table, Known, Orders
<1>3. txn.orders[j.id] \in OrderRow
  BY <1>2, ElementOfSeq
<1>4. row \in OrderRow
  BY <1>3 DEF OrderRow, Statuses
<1>5. orders' \in {[txn.orders EXCEPT ![j.id] = row], txn.orders}
  BY DEF Commit
<1> HIDE DEF row
<1> QED BY <1>1, <1>2, <1>4, <1>5, WriteTyped DEF Table

LEMMA CommitTyped ==
  ASSUME Typed, NEW w \in Workers, Commit(w)
  PROVE  Typed'
<1> DEFINE j == worker[w]
           k == [phase |-> "committed", id |-> j.id, fills |-> txn.fills]
<1>1. /\ j.phase = "matching" /\ Leftover(j).ok /\ wallet' = Leftover(j)
      /\ orders' = IF j.taker.type = "MARKET" /\ j.remaining > 0
                   THEN [txn.orders EXCEPT ![j.id].status = "CANCELLED"] ELSE txn.orders
      /\ executed' = txn.executed /\ earned' = txn.earned /\ txn' = NoTxn
      /\ worker' = [worker EXCEPT ![w] = k]
      /\ UNCHANGED <<handler, waiting, delayed, listening, crashes, orphaned, unqueued>>
  BY DEF Commit, queue, lost
<1>2. /\ j.id \in Orders /\ Known(j.id) /\ Table(txn.orders) /\ LedgerType(txn.wallet)
      /\ txn.executed \in [Orders -> Int] /\ txn.earned \in Money /\ txn.fills \subseteq OfFill
      /\ txn.owner = w
  BY <1>1, MatchingTyped
<1>3. LedgerType(wallet')
  BY <1>1, LeftoverType
<1>4. orders' \in Seq(OrderRow) /\ Len(orders') = Len(orders)
  BY CommitLength
<1>5. k \in JobType /\ k.phase = "committed" /\ JobTyped(k)
  BY <1>2 DEF JobType, JobTyped, OfFill
<1> HIDE DEF k, j
<1>6. TxnTyped'
  BY <1>1, <1>2, <1>4, <1>5, TxnOutside
<1>7. QueueInv'
  BY <1>1, <1>4 DEF Typed, StoreInv, QueueInv, Known
<1> QED BY <1>1, <1>2, <1>3, <1>4, <1>5, <1>6, <1>7, WorkerKeepsTyped

LEMMA PromoteTyped ==
  ASSUME Typed, NEW o \in Orders, Promote(o)
  PROVE  Typed'
<1>1. /\ waiting' = Append(waiting, o) /\ delayed' = delayed \ {o} /\ o \in delayed
      /\ UNCHANGED <<orders, wallet, executed, earned, handler, worker, txn, crashes, listening,
                     orphaned, unqueued>>
  BY DEF Promote, store, lost
<1>2. /\ waiting \in Seq(Orders) /\ Len(waiting) \in Nat /\ Known(o)
      /\ \A i \in 1 .. Len(waiting) : Known(waiting[i])
  BY <1>1, LenProperties DEF Typed, StoreInv, QueueInv
<1>3. /\ waiting' \in Seq(Orders) /\ Len(waiting') = Len(waiting) + 1
      /\ \A i \in 1 .. Len(waiting) : waiting'[i] = waiting[i]
      /\ waiting'[Len(waiting) + 1] = o
  BY <1>1, <1>2, AppendProperties
<1>4. \A i \in 1 .. Len(waiting') : Known(waiting'[i])
  BY <1>2, <1>3
<1>5. StoreInv'
  BY <1>1, <1>3, <1>4 DEF Typed, StoreInv, Table, Room, Locking, HandlerInv, QueueInv, Known
<1>6. /\ worker' \in [Workers -> JobType] /\ TxnTyped'
      /\ \A w \in Workers : JobTyped(worker[w])'
  BY <1>1, WorkersFrame DEF Typed, StoreInv, Table
<1> QED BY <1>1, <1>5, <1>6 DEF Typed, LedgerType

\* What the requests in progress have locked on an account.
LEMMA InFlightType ==
  ASSUME Typed, NEW a
  PROVE  /\ IsFiniteSet(InFlightTo(a)) /\ InFlightTo(a) \subseteq Handlers
         /\ \A h \in InFlightTo(a) : InFlight(h).amount \in Int /\ OnAccount(InFlight(h))
         /\ InFlightOn(a) \in Int
<1>1. IsFiniteSet(InFlightTo(a)) /\ InFlightTo(a) \subseteq Handlers
  BY FS_Subset, TradingAssumption DEF InFlightTo
<1>2. ASSUME NEW h \in InFlightTo(a) PROVE InFlight(h).amount \in Int /\ OnAccount(InFlight(h))
  <2>1. handler[h] \in HandlerType /\ handler[h].step = "locked"
    BY <1>1 DEF InFlightTo, Typed, StoreInv, HandlerInv
  <2>2. handler[h].order \in OrderRow
    BY <2>1 DEF HandlerType, Idle
  <2>3. OnAccount(InFlight(h))
    BY <2>2, PledgedAmount DEF InFlight
  <2> QED BY <2>3 DEF OnAccount
<1>3. InFlightOn(a) \in Int
  BY <1>1, <1>2, SumInt DEF InFlightOn
<1> QED BY <1>1, <1>2, <1>3

LEMMA StalledJobs ==
  ASSUME Typed, NEW stalled \in Orderings(ActiveJobs)
  PROVE  /\ IsFiniteSet(ActiveJobs) /\ Cardinality(ActiveJobs) \in Nat
         /\ stalled \in Seq(Orders) /\ Len(stalled) = Cardinality(ActiveJobs)
         /\ \A i \in 1 .. Len(stalled) : stalled[i] \in ActiveJobs /\ Known(stalled[i])
         /\ \A i, k \in 1 .. Len(stalled) : stalled[i] = stalled[k] => i = k
<1>1. \A o \in ActiveJobs : Known(o)
  BY BusyTyped DEF ActiveJobs, Typed, JobTyped
<1>2. IsFiniteSet(ActiveJobs) /\ Cardinality(ActiveJobs) \in Nat
  <2> DEFINE busy == {v \in Workers : worker[v] # NoJob}
             f == [v \in busy |-> worker[v].id]
  <2>1. IsFiniteSet(busy)
    BY FS_Subset, TradingAssumption
  <2>2. f \in Surjection(busy, ActiveJobs)
    BY DEF ActiveJobs, Surjection
  <2> QED BY <2>1, <2>2, FS_Surjection, FS_CardinalityType
<1>3. /\ stalled \in [1 .. Cardinality(ActiveJobs) -> ActiveJobs]
      /\ \A i, k \in 1 .. Cardinality(ActiveJobs) : stalled[i] = stalled[k] => i = k
  BY DEF Orderings
<1>4. stalled \in Seq(ActiveJobs) /\ Len(stalled) = Cardinality(ActiveJobs)
  BY <1>2, <1>3
<1>5. stalled \in Seq(Orders) /\ \A i \in 1 .. Len(stalled) : stalled[i] \in ActiveJobs
  BY <1>1, <1>3, <1>4 DEF Known
<1> QED BY <1>1, <1>2, <1>3, <1>4, <1>5

LEMMA RestartTyped ==
  ASSUME Typed, Restart
  PROVE  Typed'
<1> DEFINE none == [w \in Workers |-> NoJob]
           idle == [h \in Handlers |-> Idle]
<1>1. /\ worker' = none /\ handler' = idle /\ txn' = NoTxn /\ listening' = FALSE
      /\ crashes < MaxCrashes /\ crashes' = crashes + 1
      /\ orphaned' = [a \in Accounts |-> orphaned[a] + InFlightOn(a)]
      /\ unqueued' = unqueued \cup {handler[h].id : h \in Queueing}
      /\ UNCHANGED <<orders, wallet, executed, earned, delayed>>
  BY DEF Restart, RollBack, store, Queueing
<1>2. PICK stalled \in Orderings(ActiveJobs) : waiting' = stalled \o waiting
  BY DEF Restart
<1>3. /\ stalled \in Seq(Orders) /\ Len(stalled) \in Nat
      /\ \A i \in 1 .. Len(stalled) : Known(stalled[i])
  BY StalledJobs
<1>4. /\ waiting \in Seq(Orders) /\ Len(waiting) \in Nat
      /\ \A i \in 1 .. Len(waiting) : Known(waiting[i])
  BY LenProperties DEF Typed, StoreInv, QueueInv
<1>5. /\ waiting' \in Seq(Orders) /\ Len(waiting') = Len(stalled) + Len(waiting)
      /\ \A i \in 1 .. Len(waiting') :
           waiting'[i] = IF i <= Len(stalled) THEN stalled[i] ELSE waiting[i - Len(stalled)]
  BY <1>2, <1>3, <1>4, ConcatProperties
<1>6. \A i \in 1 .. Len(waiting') : Known(waiting'[i])
  <2>1. ASSUME NEW i \in 1 .. Len(waiting') PROVE Known(waiting'[i])
    <3>1. CASE i <= Len(stalled)
      BY <1>3, <1>5, <3>1
    <3>2. CASE ~ i <= Len(stalled)
      <4>1. i - Len(stalled) \in 1 .. Len(waiting)
        BY <1>3, <1>4, <1>5, <3>2
      <4> QED BY <1>4, <1>5, <3>2, <4>1
    <3> QED BY <3>1, <3>2
  <2> QED BY <2>1
<1>7. QueueInv'
  BY <1>1, <1>5, <1>6 DEF Typed, StoreInv, QueueInv, Known
<1>8. HandlerInv'
  BY <1>1, IdleType DEF HandlerInv
<1>9. Room'
  <2>1. Locking' = {}
    BY <1>1, IdleType DEF Locking
  <2>2. Len(orders) \in Nat /\ Room
    BY LenProperties DEF Typed, StoreInv, Table
  <2> QED BY <1>1, <2>1, <2>2, FS_EmptySet, LockingFinite, TradingAssumption DEF Room
<1>10. \A o \in unqueued' : Known(o)'
  BY <1>1 DEF Typed, StoreInv, HandlerInv, Queueing, Known
<1>11. StoreInv'
  BY <1>1, <1>7, <1>8, <1>9, <1>10 DEF Typed, StoreInv, Table
<1>12. /\ worker' \in [Workers -> JobType] /\ TxnTyped'
       /\ \A w \in Workers : JobTyped(worker[w])'
  BY <1>1, NoJobType, NoTxnOwner DEF TxnTyped, JobTyped
<1>13. orphaned' \in Money
  BY <1>1, InFlightType DEF Typed, Money
<1>14. crashes' \in 0 .. MaxCrashes
  BY <1>1, TradingAssumption DEF Typed
<1> QED BY <1>1, <1>11, <1>12, <1>13, <1>14 DEF Typed, LedgerType

LEMMA InitTyped == Init => Typed
<1> SUFFICES ASSUME Init PROVE Typed
  OBVIOUS
<1> DEFINE none == [w \in Workers |-> NoJob]
           idle == [h \in Handlers |-> Idle]
<1>1. /\ orders = <<>> /\ wallet = OpenWallet /\ handler = idle /\ waiting = <<>> /\ delayed = {}
      /\ worker = none /\ txn = NoTxn /\ listening = FALSE /\ crashes = 0
      /\ executed = [o \in Orders |-> 0] /\ earned = Nothing /\ orphaned = Nothing /\ unqueued = {}
  BY DEF Init
<1>2. Table(orders) /\ Len(orders) = 0
  BY <1>1 DEF Table
<1>3. HandlerInv
  BY <1>1, IdleType DEF HandlerInv
<1>4. QueueInv
  BY <1>1, EmptySeq DEF QueueInv
<1>5. Room
  <2>1. Locking = {}
    BY <1>1, IdleType DEF Locking
  <2> QED BY <1>2, <2>1, FS_EmptySet, TradingAssumption DEF Room
<1>6. LedgerType(wallet)
  <2>1. OpeningAvailable \in [Accounts -> Int] /\ OpeningLocked \in [Accounts -> Int]
    BY TradingAssumption
  <2> QED BY <1>1, <2>1 DEF LedgerType, OpenWallet, Wallet
<1>7. /\ worker \in [Workers -> JobType] /\ TxnTyped
      /\ \A w \in Workers : JobTyped(worker[w])
  BY <1>1, NoJobType, NoTxnOwner DEF TxnTyped, JobTyped
<1>8. executed \in [Orders -> Int] /\ earned \in Money /\ orphaned \in Money
  BY <1>1 DEF Money, Nothing
<1>9. listening \in BOOLEAN /\ crashes \in 0 .. MaxCrashes
  <2>1. MaxCrashes \in Nat
    BY TradingAssumption
  <2>2. crashes \in 0 .. MaxCrashes
    BY <1>1, <2>1
  <2>3. listening \in BOOLEAN
    BY <1>1
  <2> QED BY <2>2, <2>3
<1> QED BY <1>1, <1>2, <1>3, <1>4, <1>5, <1>6, <1>7, <1>8, <1>9 DEF Typed, StoreInv

LEMMA WorkerTyped ==
  ASSUME Typed, NEW w \in Workers, WorkerStep(w) \/ JobThrows(w)
  PROVE  Typed'
<1>1. CASE TakeJob(w)
  BY <1>1, TakeJobTyped
<1>2. CASE ReadBook(w)
  BY <1>2, ReadBookTyped
<1>3. CASE Begin(w)
  BY <1>3, BeginTyped
<1>4. CASE MatchNext(w)
  <2>1. worker[w].phase = "matching"
    BY <1>4 DEF MatchNext
  <2>2. ASSUME NEW m \in worker[w].book, Fill(w, m) PROVE Typed'
    BY <2>1, <2>2, FillTyped
  <2>3. ASSUME NEW m \in worker[w].book, FillThrows(w, m) PROVE Typed'
    BY <2>1, <2>3, RetryTyped DEF FillThrows
  <2> QED BY <1>4, <2>2, <2>3 DEF MatchNext
<1>5. CASE Commit(w)
  BY <1>5, CommitTyped
<1>6. CASE RecordTrades(w) \/ JobThrows(w) \/ LeftoverThrows(w)
  BY <1>6, JobEndTyped
<1> QED BY <1>1, <1>2, <1>3, <1>4, <1>5, <1>6 DEF WorkerStep

LEMMA HandlerTyped ==
  ASSUME Typed, NEW h \in Handlers, HandlerCall(h) \/ HandlerStep(h)
  PROVE  Typed'
<1>1. ASSUME NEW q \in OrderRequests, LockFunds(h, q) PROVE Typed'
  BY <1>1, LockFundsTyped
<1>2. CASE StoreOrder(h)
  BY <1>2, StoreOrderTyped
<1>3. CASE QueueOrder(h)
  BY <1>3, QueueOrderTyped
<1>4. CASE CreateThrows(h)
  BY <1>4, CreateThrowsTyped
<1>5. CASE WritePrice(h)
  BY <1>5, WritePriceTyped
<1>6. CASE CancelOrder(h)
  BY <1>6, CancelOrderTyped
<1>7. CASE \/ RequestThrows(h)
           \/ \E o \in Orders : ReadForCancel(h, o) \/ \E p \in Band : ReadForUpdate(h, o, p)
  BY <1>7, ReadsTyped
<1> QED BY <1>1, <1>2, <1>3, <1>4, <1>5, <1>6, <1>7 DEF HandlerCall, HandlerStep

LEMMA NextTyped == ASSUME Typed, [Next]_vars PROVE Typed'
<1>1. ASSUME NEW h \in Handlers, HandlerCall(h) \/ HandlerStep(h) PROVE Typed'
  BY <1>1, HandlerTyped
<1>2. ASSUME NEW w \in Workers, WorkerStep(w) \/ JobThrows(w) PROVE Typed'
  BY <1>2, WorkerTyped
<1>3. ASSUME NEW o \in Orders, Promote(o) PROVE Typed'
  BY <1>3, PromoteTyped
<1>4. CASE Restart
  BY <1>4, RestartTyped
<1>5. CASE Rest \/ UNCHANGED vars
  <2>1. UNCHANGED <<orders, wallet, executed, earned, handler, waiting, delayed, listening,
                    worker, txn, crashes, orphaned, unqueued>>
    BY <1>5 DEF Rest, vars, store, queue, lost
  <2> QED BY <2>1 DEF Typed, StoreInv, Table, Room, Locking, HandlerInv, QueueInv, Known, LedgerType,
                      JobTyped, RestingRow, TxnTyped
<1> QED BY <1>1, <1>2, <1>3, <1>4, <1>5 DEF Next

LEMMA AlwaysTyped == Spec => []Typed
<1>1. Typed /\ [Next]_vars => Typed'
  BY NextTyped
<1> QED BY InitTyped, <1>1, PTL DEF Spec

------------------------------------------------------------------------------
(***************************************************************************)
(* A job is in one place                                                   *)
(***************************************************************************)
\* No job moves.
LEMMA PlacesStay ==
  ASSUME Typed, PlaceInv, UNCHANGED <<waiting, delayed, attempts>>,
         Len(orders') \in Nat, Len(orders) <= Len(orders'),
         \A w \in Workers : worker'[w] # NoJob => worker[w] # NoJob /\ worker'[w].id = worker[w].id,
         \A h \in Queueing' : h \in Queueing /\ handler'[h].id = handler[h].id
  PROVE  PlaceInv'
<1>1. \A h \in Queueing' : h \in Handlers
  BY DEF Queueing
<1>2. Len(orders) \in Nat
  BY LenProperties DEF Typed, StoreInv, Table
<1>3. OnePlace'
  BY <1>1 DEF PlaceInv, OnePlace
<1>4. \A o \in Orders : o > Len(orders') => o > Len(orders)
  BY <1>2, TradingAssumption DEF Orders
<1>5. AttemptsLeft'
  BY <1>1, <1>4 DEF PlaceInv, AttemptsLeft
<1> QED BY <1>3, <1>5 DEF PlaceInv

\* A handler goes on and queues nothing.
LEMMA HandlerPlaces ==
  ASSUME Typed, PlaceInv, UNCHANGED <<waiting, delayed, attempts, worker>>,
         Len(orders') = Len(orders), NEW h \in Handlers, NEW v, v.step # "stored",
         handler' = [handler EXCEPT ![h] = v]
  PROVE  PlaceInv'
<1>1. Len(orders) \in Nat
  BY LenProperties DEF Typed, StoreInv, Table
<1>2. \A g \in Queueing' : g \in Queueing /\ handler'[g].id = handler[g].id
  BY DEF Queueing, Typed, StoreInv, HandlerInv
<1> QED BY <1>1, <1>2, PlacesStay

\* A worker goes on with its job, or is done with it.
LEMMA WorkerPlaces ==
  ASSUME Typed, PlaceInv, UNCHANGED <<waiting, delayed, attempts, handler>>,
         Len(orders') = Len(orders), NEW w \in Workers, NEW j,
         j = NoJob \/ (j.id = worker[w].id /\ worker[w] # NoJob),
         worker' = [worker EXCEPT ![w] = j]
  PROVE  PlaceInv'
<1>1. Len(orders) \in Nat
  BY LenProperties DEF Typed, StoreInv, Table
<1>2. \A g \in Queueing' : g \in Queueing /\ handler'[g].id = handler[g].id
  BY DEF Queueing
<1>3. \A v \in Workers : worker'[v] # NoJob => worker[v] # NoJob /\ worker'[v].id = worker[v].id
  BY DEF Typed
<1> QED BY <1>1, <1>2, <1>3, PlacesStay

\* The places of a job name an order that is stored.
LEMMA PlacesKnown ==
  ASSUME Typed
  PROVE  /\ waiting \in Seq(Orders) /\ Len(waiting) \in Nat
         /\ \A i \in 1 .. Len(waiting) : Known(waiting[i])
         /\ \A o \in delayed : Known(o)
         /\ \A w \in Workers : worker[w] # NoJob => Known(worker[w].id)
         /\ \A h \in Queueing : h \in Handlers /\ Known(handler[h].id)
         /\ Len(orders) \in Nat
BY LenProperties, BusyTyped DEF Typed, StoreInv, Table, QueueInv, JobTyped, HandlerInv, Queueing

LEMMA StoreOrderPlaces ==
  ASSUME Typed, PlaceInv, NEW h \in Handlers, StoreOrder(h)
  PROVE  PlaceInv'
<1> DEFINE v == [step |-> "stored", id |-> Len(orders) + 1]
<1>1. handler[h].step = "locked" /\ handler[h].order \in OrderRow
  BY DEF StoreOrder, Typed, StoreInv, HandlerInv, HandlerType, Idle
<1>2. /\ orders' = Append(orders, handler[h].order) /\ handler' = [handler EXCEPT ![h] = v]
      /\ UNCHANGED <<waiting, delayed, attempts, worker>>
  BY DEF StoreOrder, queue
<1>3. Len(orders') = Len(orders) + 1 /\ Len(orders) \in Nat
  BY <1>1, <1>2, AppendProperties, LenProperties DEF Typed, StoreInv, Table
<1>4. Len(orders) + 1 \in Orders
  <2>1. handler'[h].step = "stored" /\ handler'[h].id = Len(orders) + 1
    BY <1>2 DEF Typed, StoreInv, HandlerInv
  <2>2. Typed'
    BY StoreOrderTyped
  <2> QED BY <2>1, <2>2 DEF Typed, StoreInv, HandlerInv, Known
<1>5. /\ h \notin Queueing /\ Queueing' = Queueing \cup {h} /\ handler'[h].id = Len(orders) + 1
      /\ \A g \in Queueing : handler'[g] = handler[g]
  BY <1>1, <1>2 DEF Queueing, Typed, StoreInv, HandlerInv
<1>6. /\ \A i \in 1 .. Len(waiting) : waiting[i] <= Len(orders)
      /\ \A o \in delayed : o <= Len(orders)
      /\ \A w \in Workers : worker[w] # NoJob => worker[w].id <= Len(orders)
      /\ \A g \in Queueing : handler[g].id <= Len(orders)
  BY PlacesKnown DEF Known
<1>7. OnePlace'
  BY <1>2, <1>3, <1>5, <1>6 DEF PlaceInv, OnePlace
<1>8. attempts[Len(orders) + 1] = 0
  BY <1>3, <1>4 DEF PlaceInv, AttemptsLeft
<1>9. AttemptsLeft'
  <2>1. \A o \in Orders : o > Len(orders') => o > Len(orders)
    BY <1>3, TradingAssumption DEF Orders
  <2>2. MaxAttempts > 0
    BY TradingAssumption
  <2> QED BY <1>2, <1>5, <1>8, <2>1, <2>2 DEF PlaceInv, AttemptsLeft
<1> QED BY <1>7, <1>9 DEF PlaceInv

\* A job joins the wait list from elsewhere.
LEMMA JoinsPlaces ==
  ASSUME Typed, PlaceInv, UNCHANGED <<orders, attempts, worker>>, NEW o \in Orders,
         waiting' = Append(waiting, o), delayed' \subseteq delayed, Queueing' \subseteq Queueing,
         \A h \in Queueing' : handler'[h] = handler[h],
         attempts[o] < MaxAttempts, o \notin delayed',
         \A i \in 1 .. Len(waiting) : waiting[i] # o,
         \A w \in Workers : worker[w] # NoJob => worker[w].id # o,
         \A h \in Queueing' : handler[h].id # o
  PROVE  PlaceInv'
<1>1. waiting \in Seq(Orders) /\ Len(waiting) \in Nat
  BY PlacesKnown
<1>2. /\ waiting' \in Seq(Orders) /\ Len(waiting') = Len(waiting) + 1
      /\ \A i \in 1 .. Len(waiting) : waiting'[i] = waiting[i]
      /\ waiting'[Len(waiting) + 1] = o
  BY <1>1, AppendProperties
<1>3. \A i \in 1 .. Len(waiting') : i \in 1 .. Len(waiting) \/ i = Len(waiting) + 1
  BY <1>1, <1>2
<1>4. OnePlace'
  <2>1. \A i, k \in 1 .. Len(waiting') : waiting'[i] = waiting'[k] => i = k
    BY <1>2, <1>3 DEF PlaceInv, OnePlace
  <2>2. \A i \in 1 .. Len(waiting') :
          /\ waiting'[i] \notin delayed'
          /\ \A w \in Workers : worker[w] # NoJob => worker[w].id # waiting'[i]
          /\ \A h \in Queueing' : handler[h].id # waiting'[i]
    BY <1>2, <1>3 DEF PlaceInv, OnePlace
  <2> QED BY <2>1, <2>2 DEF PlaceInv, OnePlace
<1>5. \A i \in 1 .. Len(waiting') : attempts[waiting'[i]] < MaxAttempts
  BY <1>2, <1>3 DEF PlaceInv, AttemptsLeft
<1>6. AttemptsLeft'
  BY <1>5 DEF PlaceInv, AttemptsLeft
<1> QED BY <1>4, <1>6 DEF PlaceInv

LEMMA QueueOrderPlaces ==
  ASSUME Typed, PlaceInv, NEW h \in Handlers, QueueOrder(h)
  PROVE  PlaceInv'
<1> DEFINE o == handler[h].id
<1>1. /\ waiting' = Append(waiting, o) /\ handler' = [handler EXCEPT ![h] = Idle]
      /\ h \in Queueing /\ UNCHANGED <<orders, delayed, attempts, worker>>
  BY DEF QueueOrder, store, Queueing
<1>2. Queueing' = Queueing \ {h} /\ \A g \in Queueing' : handler'[g] = handler[g]
  BY <1>1, IdleType DEF Queueing, Typed, StoreInv, HandlerInv
<1>3. o \in Orders
  BY <1>1, PlacesKnown DEF Known
<1>4. /\ attempts[o] < MaxAttempts /\ o \notin delayed
      /\ \A i \in 1 .. Len(waiting) : waiting[i] # o
      /\ \A w \in Workers : worker[w] # NoJob => worker[w].id # o
      /\ \A g \in Queueing' : handler[g].id # o
  BY <1>1, <1>2 DEF PlaceInv, OnePlace, AttemptsLeft
<1> HIDE DEF o
<1> QED BY <1>1, <1>2, <1>3, <1>4, JoinsPlaces

LEMMA PromotePlaces ==
  ASSUME Typed, PlaceInv, NEW o \in Orders, Promote(o)
  PROVE  PlaceInv'
<1>1. /\ waiting' = Append(waiting, o) /\ delayed' = delayed \ {o} /\ o \in delayed
      /\ UNCHANGED <<orders, attempts, worker, handler>>
  BY DEF Promote, store
<1>2. Queueing' = Queueing
  BY <1>1 DEF Queueing
<1>3. /\ attempts[o] < MaxAttempts /\ o \notin delayed'
      /\ \A i \in 1 .. Len(waiting) : waiting[i] # o
      /\ \A w \in Workers : worker[w] # NoJob => worker[w].id # o
      /\ \A g \in Queueing' : handler[g].id # o
  BY <1>1, <1>2 DEF PlaceInv, OnePlace, AttemptsLeft
<1> QED BY <1>1, <1>2, <1>3, JoinsPlaces

LEMMA TakeJobPlaces ==
  ASSUME Typed, PlaceInv, NEW w \in Workers, TakeJob(w)
  PROVE  PlaceInv'
<1> DEFINE o == Head(waiting)
           j == IF orders[o].status = "OPEN"
                THEN [phase |-> "taken", id |-> o, taker |-> orders[o]] ELSE NoJob
<1>1. /\ waiting # <<>> /\ waiting' = Tail(waiting) /\ worker[w] = NoJob
      /\ worker' = [worker EXCEPT ![w] = j]
      /\ UNCHANGED <<orders, handler, delayed, attempts>>
  BY DEF TakeJob, store
<1>2. /\ Len(waiting) \in Nat /\ o = waiting[1] /\ 1 \in 1 .. Len(waiting)
      /\ Len(waiting') = Len(waiting) - 1
      /\ \A i \in 1 .. Len(waiting') : waiting'[i] = waiting[i + 1]
  BY <1>1, PlacesKnown, HeadTailProperties, EmptySeq
<1>3. \A i \in 1 .. Len(waiting') : i + 1 \in 1 .. Len(waiting) /\ i + 1 # 1
  BY <1>2
<1>4. /\ \A i \in 1 .. Len(waiting') : waiting'[i] # o
      /\ \A i, k \in 1 .. Len(waiting') : waiting'[i] = waiting'[k] => i = k
  BY <1>2, <1>3 DEF PlaceInv, OnePlace
<1>5. j = NoJob \/ j.id = o
  OBVIOUS
<1>6. \A v \in Workers : worker'[v] = IF v = w THEN j ELSE worker[v]
  BY <1>1 DEF Typed
<1>7. Queueing' = Queueing
  BY <1>1 DEF Queueing
<1>8. /\ attempts[o] < MaxAttempts /\ o \notin delayed
      /\ \A v \in Workers : worker[v] # NoJob => worker[v].id # o
      /\ \A h \in Queueing : handler[h].id # o
  BY <1>2 DEF PlaceInv, OnePlace, AttemptsLeft
<1> HIDE DEF o, j
<1>9. OnePlace'
  <2>1. \A i \in 1 .. Len(waiting') :
          /\ waiting'[i] \notin delayed
          /\ \A v \in Workers : worker'[v] # NoJob => worker'[v].id # waiting'[i]
          /\ \A h \in Queueing : handler[h].id # waiting'[i]
    BY <1>2, <1>3, <1>4, <1>5, <1>6 DEF PlaceInv, OnePlace
  <2>2. \A v \in Workers : worker'[v] # NoJob =>
          /\ worker'[v].id \notin delayed /\ \A h \in Queueing : handler[h].id # worker'[v].id
    BY <1>5, <1>6, <1>8 DEF PlaceInv, OnePlace
  <2>3. \A u, v \in Workers : worker'[u] # NoJob /\ worker'[v] # NoJob /\ worker'[u].id = worker'[v].id => u = v
    BY <1>5, <1>6, <1>8 DEF PlaceInv, OnePlace
  <2> QED BY <1>1, <1>4, <1>7, <2>1, <2>2, <2>3 DEF PlaceInv, OnePlace
<1>10. AttemptsLeft'
  BY <1>1, <1>2, <1>3, <1>5, <1>6, <1>7, <1>8 DEF PlaceInv, AttemptsLeft
<1> QED BY <1>9, <1>10 DEF PlaceInv

LEMMA RetryPlaces ==
  ASSUME Typed, PlaceInv, NEW w \in Workers, Retry(w), worker[w] # NoJob, UNCHANGED <<handler, waiting>>
  PROVE  PlaceInv'
<1> DEFINE o == worker[w].id
<1>1. /\ worker' = [worker EXCEPT ![w] = NoJob] /\ UNCHANGED orders
      /\ attempts' = [attempts EXCEPT ![o] = @ + 1]
      /\ delayed' = IF attempts[o] + 1 < MaxAttempts THEN delayed \cup {o} ELSE delayed
  BY DEF Retry, Drop, RollBack, store
<1>2. \A v \in Workers : worker'[v] = IF v = w THEN NoJob ELSE worker[v]
  BY <1>1 DEF Typed
<1>3. Queueing' = Queueing
  BY DEF Queueing
<1>4. Known(o) /\ o \in Orders
  BY PlacesKnown DEF Known
<1>5. /\ attempts[o] < MaxAttempts /\ o \notin delayed
      /\ \A i \in 1 .. Len(waiting) : waiting[i] # o
      /\ \A v \in Workers : worker[v] # NoJob /\ v # w => worker[v].id # o
      /\ \A h \in Queueing : handler[h].id # o
  BY DEF PlaceInv, OnePlace, AttemptsLeft
<1>6. attempts' \in [Orders -> 0 .. MaxAttempts] /\ MaxAttempts \in Nat
      /\ \A p \in Orders : attempts'[p] = IF p = o THEN attempts[o] + 1 ELSE attempts[p]
  <2>1. attempts \in [Orders -> 0 .. MaxAttempts] /\ MaxAttempts \in Nat
    BY TradingAssumption DEF PlaceInv, AttemptsLeft
  <2>2. attempts[o] + 1 \in 0 .. MaxAttempts
    BY <1>4, <1>5, <2>1
  <2> HIDE DEF o
  <2> QED BY <1>1, <1>4, <2>1, <2>2
<1> HIDE DEF o
<1>7. OnePlace'
  BY <1>1, <1>2, <1>3, <1>5 DEF PlaceInv, OnePlace
<1>8. AttemptsLeft'
  <2>1. /\ \A i \in 1 .. Len(waiting) : waiting[i] \in Orders
        /\ \A p \in delayed : p \in Orders
        /\ \A v \in Workers : worker[v] # NoJob => worker[v].id \in Orders
        /\ \A h \in Queueing : handler[h].id \in Orders
    BY PlacesKnown DEF Known
  <2>2. \A p \in delayed' : attempts'[p] < MaxAttempts
    BY <1>1, <1>4, <1>5, <1>6, <2>1 DEF PlaceInv, AttemptsLeft
  <2>3. \A p \in Orders : p > Len(orders') => attempts'[p] = 0
    BY <1>1, <1>4, <1>6, PlacesKnown, TradingAssumption DEF PlaceInv, AttemptsLeft, Known, Orders
  <2> QED BY <1>1, <1>2, <1>3, <1>5, <1>6, <2>1, <2>2, <2>3 DEF PlaceInv, AttemptsLeft
<1> QED BY <1>7, <1>8 DEF PlaceInv

LEMMA RestartPlaces ==
  ASSUME Typed, PlaceInv, Restart
  PROVE  PlaceInv'
<1> DEFINE none == [w \in Workers |-> NoJob]
           idle == [h \in Handlers |-> Idle]
<1>1. worker' = none /\ handler' = idle /\ UNCHANGED <<orders, delayed, attempts>>
  BY DEF Restart, RollBack, store
<1>2. PICK stalled \in Orderings(ActiveJobs) : waiting' = stalled \o waiting
  BY DEF Restart
<1>3. /\ stalled \in Seq(Orders) /\ Len(stalled) \in Nat
      /\ \A i \in 1 .. Len(stalled) : stalled[i] \in ActiveJobs
      /\ \A i, k \in 1 .. Len(stalled) : stalled[i] = stalled[k] => i = k
  BY StalledJobs
<1>4. /\ waiting \in Seq(Orders) /\ Len(waiting) \in Nat
  BY PlacesKnown
<1>5. /\ waiting' \in Seq(Orders) /\ Len(waiting') = Len(stalled) + Len(waiting)
      /\ \A i \in 1 .. Len(waiting') :
           waiting'[i] = IF i <= Len(stalled) THEN stalled[i] ELSE waiting[i - Len(stalled)]
  BY <1>2, <1>3, <1>4, ConcatProperties
<1>6. \A w \in Workers : worker'[w] = NoJob
  BY <1>1
<1>7. Queueing' = {}
  BY <1>1, IdleType DEF Queueing
<1>8. \A o \in ActiveJobs : /\ attempts[o] < MaxAttempts /\ o \notin delayed
                            /\ \A i \in 1 .. Len(waiting) : waiting[i] # o
  BY DEF ActiveJobs, PlaceInv, OnePlace, AttemptsLeft
<1>9. \A i \in 1 .. Len(waiting') :
        \/ i \in 1 .. Len(stalled) /\ waiting'[i] = stalled[i]
        \/ /\ ~(i \in 1 .. Len(stalled)) /\ i - Len(stalled) \in 1 .. Len(waiting)
           /\ waiting'[i] = waiting[i - Len(stalled)]
  BY <1>3, <1>4, <1>5
<1>10. \A i, k \in 1 .. Len(waiting') : waiting'[i] = waiting'[k] => i = k
  <2> TAKE i, k \in 1 .. Len(waiting')
  <2> HAVE waiting'[i] = waiting'[k]
  <2>1. CASE i \in 1 .. Len(stalled) /\ k \in 1 .. Len(stalled)
    BY <2>1, <1>3, <1>9
  <2>2. CASE ~(i \in 1 .. Len(stalled)) /\ ~(k \in 1 .. Len(stalled))
    <3>1. /\ i - Len(stalled) \in 1 .. Len(waiting) /\ k - Len(stalled) \in 1 .. Len(waiting)
          /\ waiting[i - Len(stalled)] = waiting[k - Len(stalled)]
      BY <2>2, <1>9
    <3>3. i - Len(stalled) = k - Len(stalled)
      BY <3>1 DEF PlaceInv, OnePlace
    <3>2. i \in Int /\ k \in Int
      BY <1>4, <1>5
    <3> QED BY <1>3, <3>3, <3>2
  <2>3. CASE (i \in 1 .. Len(stalled)) # (k \in 1 .. Len(stalled))
    BY <2>3, <1>3, <1>8, <1>9
  <2> QED BY <2>1, <2>2, <2>3
<1>11. \A i \in 1 .. Len(waiting') : waiting'[i] \notin delayed /\ attempts[waiting'[i]] < MaxAttempts
  BY <1>3, <1>8, <1>9 DEF PlaceInv, OnePlace, AttemptsLeft
<1>12. OnePlace'
  BY <1>1, <1>6, <1>7, <1>10, <1>11 DEF OnePlace
<1>13. AttemptsLeft'
  BY <1>1, <1>6, <1>7, <1>11 DEF PlaceInv, AttemptsLeft
<1> QED BY <1>12, <1>13 DEF PlaceInv

LEMMA InitPlaces == Init => PlaceInv
<1> SUFFICES ASSUME Init PROVE PlaceInv
  OBVIOUS
<1> DEFINE none == [w \in Workers |-> NoJob]
           idle == [h \in Handlers |-> Idle]
<1>1. /\ handler = idle /\ waiting = <<>> /\ delayed = {} /\ worker = none
      /\ attempts = [o \in Orders |-> 0]
  BY DEF Init
<1>2. Queueing = {} /\ (\A w \in Workers : worker[w] = NoJob)
      /\ (\A i \in 1 .. Len(waiting) : FALSE)
  BY <1>1, IdleType DEF Queueing
<1>3. MaxAttempts \in Nat
  BY TradingAssumption
<1>4. attempts \in [Orders -> 0 .. MaxAttempts] /\ \A o \in Orders : attempts[o] = 0
  BY <1>1, <1>3
<1>5. OnePlace
  BY <1>1, <1>2 DEF OnePlace
<1>6. AttemptsLeft
  BY <1>1, <1>2, <1>4 DEF AttemptsLeft
<1> QED BY <1>5, <1>6 DEF PlaceInv

LEMMA HandlerStepPlaces ==
  ASSUME Typed, PlaceInv, NEW h \in Handlers, HandlerCall(h) \/ HandlerStep(h)
  PROVE  PlaceInv'
<1>1. CASE StoreOrder(h)
  BY <1>1, StoreOrderPlaces
<1>2. CASE QueueOrder(h)
  BY <1>2, QueueOrderPlaces
<1>3. ASSUME NEW q \in OrderRequests, LockFunds(h, q) PROVE PlaceInv'
  <2> DEFINE v == [step |-> "locked", order |-> NewOrder(q)]
  <2>1. v.step # "stored"
    OBVIOUS
  <2>2. /\ UNCHANGED <<orders, waiting, delayed, attempts, worker>>
        /\ handler' = [handler EXCEPT ![h] = v]
    BY <1>3 DEF LockFunds, queue
  <2> HIDE DEF v
  <2> QED BY <2>1, <2>2, HandlerPlaces
<1>4. CASE CreateThrows(h) \/ RequestThrows(h)
  <2>1. UNCHANGED <<orders, waiting, delayed, attempts, worker>> /\ handler' = [handler EXCEPT ![h] = Idle]
    BY <1>4 DEF CreateThrows, RequestThrows, queue, store
  <2> QED BY <2>1, IdleType, HandlerPlaces
<1>5. CASE WritePrice(h) \/ CancelOrder(h)
  <2>1. UNCHANGED <<waiting, delayed, attempts, worker>> /\ handler' = [handler EXCEPT ![h] = Idle]
    BY <1>5 DEF WritePrice, CancelOrder, queue
  <2>2. Len(orders') = Len(orders)
    <3> DEFINE o == handler[h].id
               row == IF WritePrice(h) THEN [orders[o] EXCEPT !.price = handler[h].price]
                      ELSE [orders[o] EXCEPT !.status = "CANCELLED"]
    <3>1. Known(o) /\ StoreInv
      BY <1>5 DEF WritePrice, CancelOrder, Typed, StoreInv, HandlerInv
    <3>2. orders' \in {[orders EXCEPT ![o].price = handler[h].price],
                       [orders EXCEPT ![o].status = "CANCELLED"]}
      BY <1>5 DEF WritePrice, CancelOrder
    <3>3. orders \in Seq(OrderRow)
      BY <3>1 DEF StoreInv, Table
    <3>4. DOMAIN orders' = DOMAIN orders
      BY <3>2
    <3>5. Typed' /\ orders' \in Seq(OrderRow)
      BY <1>5, WritePriceTyped, CancelOrderTyped DEF Typed, StoreInv, Table
    <3> QED BY <3>3, <3>4, <3>5, LenProperties
  <2> QED BY <2>1, <2>2, IdleType, HandlerPlaces
<1>6. ASSUME NEW o \in Orders, ReadForCancel(h, o) PROVE PlaceInv'
  <2> DEFINE v == [step |-> "cancel", id |-> o, price |-> orders[o].price,
                   remaining |-> orders[o].quantity - orders[o].filled]
  <2>1. v.step # "stored"
    OBVIOUS
  <2>2. /\ UNCHANGED <<orders, waiting, delayed, attempts, worker>>
        /\ handler' = [handler EXCEPT ![h] = v]
    BY <1>6 DEF ReadForCancel, queue, store
  <2> HIDE DEF v
  <2> QED BY <2>1, <2>2, HandlerPlaces
<1>7. ASSUME NEW o \in Orders, NEW p \in Band, ReadForUpdate(h, o, p) PROVE PlaceInv'
  <2> DEFINE v == [step |-> "reprice", id |-> o, price |-> p]
  <2>1. v.step # "stored"
    OBVIOUS
  <2>2. /\ UNCHANGED <<orders, waiting, delayed, attempts, worker>>
        /\ handler' = [handler EXCEPT ![h] = v]
    BY <1>7 DEF ReadForUpdate, queue, store
  <2> HIDE DEF v
  <2> QED BY <2>1, <2>2, HandlerPlaces
<1> QED BY <1>1, <1>2, <1>3, <1>4, <1>5, <1>6, <1>7 DEF HandlerCall, HandlerStep

LEMMA WorkerStepPlaces ==
  ASSUME Typed, PlaceInv, NEW w \in Workers, WorkerStep(w) \/ JobThrows(w)
  PROVE  PlaceInv'
<1> DEFINE j == worker[w]
<1>1. CASE TakeJob(w)
  BY <1>1, TakeJobPlaces
<1>2. CASE \E m \in j.book : j.phase = "matching" /\ FillThrows(w, m)
  BY <1>2, BusyTyped, RetryPlaces DEF FillThrows
<1>3. CASE LeftoverThrows(w) \/ JobThrows(w)
  BY <1>3, BusyTyped, RetryPlaces DEF LeftoverThrows, JobThrows
<1>4. CASE RecordTrades(w)
  <2>1. UNCHANGED <<orders, waiting, delayed, attempts, handler>> /\ worker' = [worker EXCEPT ![w] = NoJob]
    BY <1>4 DEF RecordTrades, Complete, Drop, store
  <2> QED BY <2>1, WorkerPlaces
<1>5. CASE ReadBook(w)
  <2> DEFINE k == [phase |-> "read", id |-> j.id, taker |-> j.taker, book |-> Book(j.taker),
                   remaining |-> j.taker.quantity, spent |-> 0]
  <2>1. /\ UNCHANGED <<orders, waiting, delayed, attempts, handler>>
        /\ worker' = [worker EXCEPT ![w] = k] /\ k.id = j.id /\ j.phase # "idle"
    BY <1>5 DEF ReadBook, store, queue
  <2> HIDE DEF k
  <2> QED BY <2>1, BusyTyped, WorkerPlaces
<1>6. CASE Begin(w)
  <2> DEFINE k == [j EXCEPT !.phase = "matching"]
  <2>1. /\ UNCHANGED <<orders, waiting, delayed, attempts, handler>>
        /\ worker' = [worker EXCEPT ![w] = k] /\ j.phase = "read"
    BY <1>6 DEF Begin, store, queue
  <2>2. j \in JobType
    BY DEF Typed
  <2>3. k.id = j.id
    BY <2>1, <2>2 DEF JobType, NoJob
  <2> HIDE DEF k
  <2> QED BY <2>1, <2>3, BusyTyped, WorkerPlaces
<1>7. ASSUME NEW m \in j.book, j.phase = "matching", Fill(w, m) PROVE PlaceInv'
  <2> DEFINE n == MatchableQuantity(j, m)
             k == Took(j, m, n)
  <2>1. /\ UNCHANGED <<orders, waiting, delayed, attempts, handler>>
        /\ worker' = [worker EXCEPT ![w] = k]
    BY <1>7 DEF Fill, store, queue, Took
  <2>2. k.id = j.id
    BY DEF Took
  <2> HIDE DEF k
  <2> QED BY <1>7, <2>1, <2>2, BusyTyped, WorkerPlaces
<1>8. CASE Commit(w)
  <2> DEFINE k == [phase |-> "committed", id |-> j.id, fills |-> txn.fills]
  <2>1. /\ UNCHANGED <<waiting, delayed, attempts, handler>> /\ j.phase = "matching"
        /\ worker' = [worker EXCEPT ![w] = k] /\ k.id = j.id
    BY <1>8 DEF Commit, queue
  <2>2. Len(orders') = Len(orders)
    BY <1>8, CommitLength
  <2> HIDE DEF k
  <2> QED BY <2>1, <2>2, BusyTyped, WorkerPlaces
<1> QED BY <1>1, <1>2, <1>3, <1>4, <1>5, <1>6, <1>7, <1>8 DEF WorkerStep, MatchNext

LEMMA NextPlaces == ASSUME Typed, PlaceInv, [Next]_vars PROVE PlaceInv'
<1>1. ASSUME NEW h \in Handlers, HandlerCall(h) \/ HandlerStep(h) PROVE PlaceInv'
  BY <1>1, HandlerStepPlaces
<1>2. ASSUME NEW w \in Workers, WorkerStep(w) \/ JobThrows(w) PROVE PlaceInv'
  BY <1>2, WorkerStepPlaces
<1>3. ASSUME NEW o \in Orders, Promote(o) PROVE PlaceInv'
  BY <1>3, PromotePlaces
<1>4. CASE Restart
  BY <1>4, RestartPlaces
<1>5. CASE Rest \/ UNCHANGED vars
  <2>1. UNCHANGED <<orders, waiting, delayed, attempts, handler, worker>>
    BY <1>5 DEF Rest, vars, store, queue
  <2> QED BY <2>1 DEF PlaceInv, OnePlace, AttemptsLeft, Queueing
<1> QED BY <1>1, <1>2, <1>3, <1>4, <1>5 DEF Next

LEMMA AlwaysPlaced == Spec => []PlaceInv
<1>1. Typed /\ PlaceInv /\ [Next]_vars => PlaceInv'
  BY NextPlaces
<1> QED BY InitPlaces, AlwaysTyped, <1>1, PTL DEF Spec

LEMMA TypedIsOK == ASSUME Typed, PlaceInv PROVE TypeOK
<1>1. /\ orders \in Seq(OrderRow) /\ Len(orders) \in Nat /\ DOMAIN orders = 1 .. Len(orders)
  BY LenProperties DEF Typed, StoreInv, Table
<1>2. Len(orders) <= MaxOrders
  <2>1. Cardinality(Locking) \in Nat
    BY LockingFinite
  <2>2. MaxOrders \in Nat
    BY TradingAssumption
  <2>3. Len(orders) + Cardinality(Locking) <= MaxOrders
    BY DEF Typed, StoreInv, Room
  <2> QED BY <1>1, <2>1, <2>2, <2>3
<1>3. \A o : Known(o) => o \in DOMAIN orders
  BY <1>1, TradingAssumption DEF Known, Orders
<1>4. \A h \in Handlers : handler[h] \in HandlerType
  BY DEF Typed, StoreInv, HandlerInv
<1>5. DOMAIN waiting = 1 .. Len(waiting)
  BY LenProperties DEF Typed, StoreInv, QueueInv
<1>6. /\ \A i \in DOMAIN waiting : waiting[i] \in DOMAIN orders
      /\ delayed \subseteq DOMAIN orders /\ unqueued \subseteq DOMAIN orders
  BY <1>3, <1>5 DEF Typed, StoreInv, QueueInv
<1>7. \A w \in Workers : /\ worker[w] \in JobType
                         /\ worker[w] # NoJob => worker[w].id \in DOMAIN orders
                         /\ txn.owner = w <=> worker[w].phase = "matching"
  BY <1>3, BusyTyped DEF Typed, JobTyped, TxnTyped
<1>8. attempts \in [Orders -> 0 .. MaxAttempts]
  BY DEF PlaceInv, AttemptsLeft
<1> QED BY <1>1, <1>2, <1>4, <1>6, <1>7, <1>8 DEF TypeOK, Typed, LedgerType

\* For any number of matching workers, whatever fails and restarts, what each
\* variable holds is what its table, queue or call can hold, every job is that of
\* a stored order with attempts left, and only a worker that is matching has the
\* transaction.
THEOREM TradingTypes == Spec => []TypeOK
BY AlwaysTyped, AlwaysPlaced, TypedIsOK, PTL

------------------------------------------------------------------------------
(***************************************************************************)
(* Money is neither made nor lost                                          *)
(***************************************************************************)
\* What each user has of one kind, both columns together.
Holding(w, what) == [u \in Users |-> w.available[<<u, what>>] + w.locked[<<u, what>>]]
Held(w, what) == SumFunctionOnSet(Holding(w, what), Users)

Kinds == {"cash", "token"}

Conserved(w) == \A what \in Kinds : Held(w, what) = Held(OpenWallet, what)

ValueInv == Conserved(wallet) /\ (txn # NoTxn => Conserved(txn.wallet))

LEMMA HoldingType ==
  ASSUME NEW w, LedgerType(w), NEW what \in Kinds
  PROVE  /\ \A u \in Users : Holding(w, what)[u] \in Int
         /\ \A u \in Users : w.available[<<u, what>>] \in Int /\ w.locked[<<u, what>>] \in Int
         /\ IsFiniteSet(Users)
<1>1. \A u \in Users : <<u, what>> \in Accounts
  BY DEF Accounts, Kinds
<1>2. \A u \in Users : w.available[<<u, what>>] \in Int /\ w.locked[<<u, what>>] \in Int
  BY <1>1 DEF LedgerType, Wallet
<1>3. \A u \in Users : Holding(w, what)[u] \in Int
  BY <1>2 DEF Holding
<1> QED BY <1>2, <1>3, TradingAssumption

LEMMA HeldIsTotal ==
  ASSUME NEW w, LedgerType(w), NEW what \in Kinds
  PROVE  Held(w, what) = Total(w.available, what) + Total(w.locked, what)
<1> DEFINE a == [u \in Users |-> w.available[<<u, what>>]]
           l == [u \in Users |-> w.locked[<<u, what>>]]
           h == Holding(w, what)
<1>1. \A u \in Users : a[u] \in Int /\ l[u] \in Int /\ h[u] = a[u] + l[u]
  BY HoldingType DEF Holding
<1>2. IsFiniteSet(Users)
  BY TradingAssumption
<1> HIDE DEF a, l, h
<1>3. SumFunctionOnSet(h, Users) = SumFunctionOnSet(a, Users) + SumFunctionOnSet(l, Users)
  BY <1>1, <1>2, SumPlus
<1> QED BY <1>3 DEF Held, Total, a, l, h

\* A posting that leaves every holding as it was.
LEMMA SameHeld ==
  ASSUME NEW v, NEW w, LedgerType(v), LedgerType(w),
         \A a \in Accounts : v.available[a] + v.locked[a] = w.available[a] + w.locked[a]
  PROVE  \A what \in Kinds : Held(v, what) = Held(w, what)
<1> TAKE what \in Kinds
<1>1. \A u \in Users : <<u, what>> \in Accounts
  BY DEF Accounts, Kinds
<1>2. \A u \in Users : Holding(v, what)[u] = Holding(w, what)[u]
  BY <1>1 DEF Holding
<1>3. IsFiniteSet(Users)
  BY TradingAssumption
<1> QED BY <1>2, <1>3, SumSame DEF Held

LEMMA TransferHeld ==
  ASSUME NEW w, LedgerType(w), NEW p, OnAccount(p), NEW d \in {"lock", "unlock"},
         Transfer(w, p, d).ok
  PROVE  \A what \in Kinds : Held(Transfer(w, p, d), what) = Held(w, what)
<1> DEFINE q == [kind |-> d, amount |-> p.amount, useAvailable |-> FALSE, useLocked |-> FALSE]
           x == Effect(q).available
           y == Effect(q).locked
           a == p.account
<1>1. x \in Int /\ y \in Int /\ x + y = 0 /\ a \in Accounts
  BY DEF Effect, OnAccount
<1>2. w.ok /\ q.amount > 0 /\ Affords(w.available[a], w.locked[a], q)
  <2>1. CASE ~(w.ok /\ q.amount > 0 /\ Affords(w.available[a], w.locked[a], q))
    <3>1. Transfer(w, p, d) = [w EXCEPT !.ok = FALSE]
      BY <2>1 DEF Transfer
    <3> QED BY <3>1 DEF LedgerType, Wallet
  <2> QED BY <2>1
<1>3. Transfer(w, p, d)
        = [ok |-> TRUE, available |-> [w.available EXCEPT ![a] = @ + x],
           locked |-> [w.locked EXCEPT ![a] = @ + y]]
  BY <1>2 DEF Transfer
<1> DEFINE v == Transfer(w, p, d)
<1>4. LedgerType(v)
  BY TransferType
<1>5. w.available \in [Accounts -> Int] /\ w.locked \in [Accounts -> Int]
  BY DEF LedgerType, Wallet
<1> HIDE DEF x, y, a, q
<1>6. \A b \in Accounts : v.available[b] + v.locked[b] = w.available[b] + w.locked[b]
  <2> TAKE b \in Accounts
  <2>1. v.available = [w.available EXCEPT ![a] = @ + x] /\ v.locked = [w.locked EXCEPT ![a] = @ + y]
    BY <1>3
  <2>2. v.available[b] = (IF b = a THEN w.available[b] + x ELSE w.available[b])
        /\ v.locked[b] = (IF b = a THEN w.locked[b] + y ELSE w.locked[b])
    BY <1>1, <1>5, <2>1
  <2>3. w.available[b] \in Int /\ w.locked[b] \in Int
    BY <1>5
  <2> QED BY <1>1, <2>2, <2>3
<1> HIDE DEF v
<1>7. \A what \in Kinds : Held(v, what) = Held(w, what)
  BY <1>4, <1>6, SameHeld
<1> QED BY <1>7 DEF v

\* The four postings of a trade balance.
LEMMA SettleHeld ==
  ASSUME NEW w, LedgerType(w), NEW b \in Users, NEW s \in Users, b # s,
         NEW n \in Nat, NEW price \in Nat, settleMatch(w, b, s, n, price).ok
  PROVE  \A what \in Kinds : Held(settleMatch(w, b, s, n, price), what) = Held(w, what)
<1> DEFINE v == settleMatch(w, b, s, n, price)
           q == n * price
<1>1. LedgerType(v) /\ q \in Int /\ n \in Int
  BY SettleType
<1>2. v = [ok |-> TRUE, available |-> w.available,
           locked |-> [w.locked EXCEPT ![<<b, "cash">>] = @ - q, ![<<b, "token">>] = @ + n,
                                       ![<<s, "token">>] = @ - n, ![<<s, "cash">>] = @ + q]]
  <2>1. CASE v = [w EXCEPT !.ok = FALSE]
    BY <2>1 DEF LedgerType, Wallet
  <2>2. CASE v # [w EXCEPT !.ok = FALSE]
    BY <2>2 DEF settleMatch
  <2> QED BY <2>1, <2>2
<1>3. /\ <<b, "cash">> \in Accounts /\ <<b, "token">> \in Accounts
      /\ <<s, "cash">> \in Accounts /\ <<s, "token">> \in Accounts
  BY DEF Accounts
<1>4. w.locked \in [Accounts -> Int]
  BY DEF LedgerType, Wallet
<1> HIDE DEF v, q
<1>5. /\ v.available = w.available
      /\ v.locked[<<b, "cash">>] = w.locked[<<b, "cash">>] - q
      /\ v.locked[<<b, "token">>] = w.locked[<<b, "token">>] + n
      /\ v.locked[<<s, "token">>] = w.locked[<<s, "token">>] - n
      /\ v.locked[<<s, "cash">>] = w.locked[<<s, "cash">>] + q
      /\ \A u \in Users \ {b, s} : \A what \in Kinds : v.locked[<<u, what>>] = w.locked[<<u, what>>]
  <2>1. v.available = w.available
        /\ v.locked = [w.locked EXCEPT ![<<b, "cash">>] = @ - q, ![<<b, "token">>] = @ + n,
                                       ![<<s, "token">>] = @ - n, ![<<s, "cash">>] = @ + q]
    BY <1>2
  <2>2. \A u \in Users : \A what \in Kinds : <<u, what>> \in Accounts
    BY DEF Accounts, Kinds
  <2> QED BY <1>3, <1>4, <2>1, <2>2
<1>6. IsFiniteSet(Users)
  BY TradingAssumption
<1>7. ASSUME NEW what \in Kinds
      PROVE  \A u \in Users : /\ Holding(v, what)[u] \in Int /\ Holding(w, what)[u] \in Int
                              /\ w.available[<<u, what>>] \in Int /\ w.locked[<<u, what>>] \in Int
  BY <1>1, <1>7, HoldingType
<1>8. /\ \A z \in Users \ {b, s} : Holding(v, "cash")[z] = Holding(w, "cash")[z]
      /\ \A z \in Users \ {s, b} : Holding(v, "token")[z] = Holding(w, "token")[z]
  BY <1>5 DEF Holding, Kinds
<1>9. /\ Holding(v, "cash")[b] = Holding(w, "cash")[b] - q
      /\ Holding(v, "cash")[s] = Holding(w, "cash")[s] + q
  <2>1. /\ w.available[<<b, "cash">>] \in Int /\ w.locked[<<b, "cash">>] \in Int
        /\ w.available[<<s, "cash">>] \in Int /\ w.locked[<<s, "cash">>] \in Int
    BY <1>7 DEF Kinds
  <2> QED BY <1>1, <1>5, <2>1 DEF Holding
<1>10. /\ Holding(v, "token")[s] = Holding(w, "token")[s] - n
       /\ Holding(v, "token")[b] = Holding(w, "token")[b] + n
  <2>1. /\ w.available[<<b, "token">>] \in Int /\ w.locked[<<b, "token">>] \in Int
        /\ w.available[<<s, "token">>] \in Int /\ w.locked[<<s, "token">>] \in Int
    BY <1>7 DEF Kinds
  <2> QED BY <1>1, <1>5, <2>1 DEF Holding
<1>11. Held(v, "cash") = Held(w, "cash")
  <2> DEFINE f == Holding(v, "cash")
             g == Holding(w, "cash")
  <2>1. \A u \in Users : f[u] \in Int /\ g[u] \in Int
    BY <1>7 DEF Kinds
  <2> HIDE DEF f, g
  <2> QED BY <1>1, <1>6, <1>8, <1>9, <2>1, SumMoved DEF Held, f, g
<1>12. Held(v, "token") = Held(w, "token")
  <2> DEFINE f == Holding(v, "token")
             g == Holding(w, "token")
  <2>1. \A u \in Users : f[u] \in Int /\ g[u] \in Int
    BY <1>7 DEF Kinds
  <2> HIDE DEF f, g
  <2> QED BY <1>1, <1>6, <1>8, <1>10, <2>1, SumMoved DEF Held, f, g
<1> QED BY <1>11, <1>12 DEF Kinds, v

LEMMA RefundHeld ==
  ASSUME NEW w, LedgerType(w), NEW u \in Users, NEW n \in Int,
         refundBuyerPriceImprovement(w, u, n).ok
  PROVE  \A what \in Kinds : Held(refundBuyerPriceImprovement(w, u, n), what) = Held(w, what)
<1>1. OnAccount([account |-> <<u, "cash">>, amount |-> n])
  BY DEF OnAccount, Accounts
<1> QED BY <1>1, TransferHeld DEF refundBuyerPriceImprovement

LEMMA UnlockHeld ==
  ASSUME NEW w, LedgerType(w), NEW u \in Users, NEW side, NEW n \in Int, NEW price \in Int,
         unlockOrderRemainder(w, u, side, n, price).ok
  PROVE  \A what \in Kinds : Held(unlockOrderRemainder(w, u, side, n, price), what) = Held(w, what)
BY PledgeType, TransferHeld DEF unlockOrderRemainder

\* The money of one fill.
LEMMA FillHeld ==
  ASSUME Typed, NEW w \in Workers, worker[w].phase = "matching", NEW m \in worker[w].book, Fill(w, m)
  PROVE  \A what \in Kinds : Held(txn'.wallet, what) = Held(txn.wallet, what)
<1> DEFINE j == worker[w]
           n == MatchableQuantity(worker[w], m)
           b == Buyer(worker[w], m)
           s == Seller(worker[w], m)
           paid == settleMatch(txn.wallet, b, s, n, m.row.price)
           a == n * (j.taker.price - m.row.price)
<1>1. /\ b \in Users /\ s \in Users /\ b # s
      /\ j.taker.owner \in Users /\ j.taker.price \in Nat
  BY Sides
<1>2. Takes(j, m) /\ Settled(j, m).ok /\ txn'.wallet = Settled(j, m)
  BY DEF Fill
<1>3. n \in Nat /\ m.row.price \in Nat
  BY <1>2, TakenTyped
<1>4. LedgerType(txn.wallet)
  BY MatchingTyped
<1>5. paid.ok
  BY <1>2, <1>4, PaidOk
<1>6. LedgerType(paid) /\ a \in Int
  <2>1. j.taker.price - m.row.price \in Int
    BY <1>1, <1>3
  <2>2. LedgerType(paid)
    BY <1>1, <1>3, <1>4, <1>5, SettleType
  <2> HIDE DEF n, j, paid
  <2> QED BY <1>3, <2>1, <2>2
<1>7. Settled(j, m) \in {paid, refundBuyerPriceImprovement(paid, j.taker.owner, a)}
  BY SettledIs
<1>8. \A what \in Kinds : Held(paid, what) = Held(txn.wallet, what)
  BY <1>1, <1>3, <1>4, <1>5, SettleHeld
<1> HIDE DEF paid, a, n, b, s
<1> QED BY <1>1, <1>2, <1>6, <1>7, <1>8, RefundHeld

LEMMA LeftoverHeld ==
  ASSUME Typed, NEW w \in Workers, worker[w].phase = "matching", Leftover(worker[w]).ok
  PROVE  \A what \in Kinds : Held(Leftover(worker[w]), what) = Held(txn.wallet, what)
<1> DEFINE j == worker[w]
<1>1. /\ j.taker \in OrderRow /\ j.remaining \in Nat /\ j.spent \in Nat
      /\ Budget(j.taker) \in Nat /\ LedgerType(txn.wallet)
  BY MatchingTyped
<1>2. j.taker.owner \in Users /\ Budget(j.taker) - j.spent \in Int
  BY <1>1 DEF OrderRow
<1>3. Leftover(j) \in {refundBuyerPriceImprovement(txn.wallet, j.taker.owner, Budget(j.taker) - j.spent),
                       unlockOrderRemainder(txn.wallet, j.taker.owner, j.taker.side, j.remaining, 0),
                       txn.wallet}
  BY DEF Leftover
<1> HIDE DEF j
<1> QED BY <1>1, <1>2, <1>3, UnlockHeld, RefundHeld DEF j

\* A step that writes no wallet and opens no transaction.
LEMMA ValueStays ==
  ASSUME ValueInv, wallet' = wallet, txn' \in {txn, NoTxn}
  PROVE  ValueInv'
BY DEF ValueInv, Conserved

LEMMA NextValue == ASSUME Typed, ValueInv, [Next]_vars PROVE ValueInv'
<1>1. ASSUME NEW h \in Handlers, NEW q \in OrderRequests, LockFunds(h, q) PROVE ValueInv'
  <2> DEFINE p == Pledge(q.owner, q.side, q.quantity, OrderPrice(q))
  <2>1. wallet' = Transfer(wallet, p, "lock") /\ wallet'.ok /\ txn' = txn /\ txn = NoTxn
    BY <1>1 DEF LockFunds, lockOrderFunds
  <2>2. OnAccount(p) /\ LedgerType(wallet)
    <3>1. q \in RequestType /\ NewOrder(q) \in OrderRow
      BY NewOrderType, TradingAssumption
    <3>2. OrderPrice(q) \in Int /\ q.owner \in Users /\ q.quantity \in Int
      BY <3>1 DEF NewOrder, OrderRow, RequestType
    <3> QED BY <3>2, PledgeType DEF Typed
  <2> HIDE DEF p
  <2>3. \A what \in Kinds : Held(wallet', what) = Held(wallet, what)
    BY <2>1, <2>2, TransferHeld
  <2> QED BY <2>1, <2>3 DEF ValueInv, Conserved
<1>2. ASSUME NEW h \in Handlers, CancelOrder(h) PROVE ValueInv'
  <2> DEFINE o == handler[h].id
  <2>1. /\ wallet' = unlockOrderRemainder(wallet, orders[o].owner, orders[o].side,
                                          handler[h].remaining, handler[h].price)
        /\ wallet'.ok /\ txn' = txn /\ txn = NoTxn
    BY <1>2 DEF CancelOrder, Unlocked
  <2>2. Known(o) /\ handler[h].price \in Nat /\ handler[h].remaining \in Int
    BY <1>2 DEF CancelOrder, Typed, StoreInv, HandlerInv, HandlerType, Idle
  <2>3. orders[o].owner \in Users /\ LedgerType(wallet)
    BY <2>2, RowTyped DEF OrderRow, Typed
  <2>4. \A what \in Kinds : Held(wallet', what) = Held(wallet, what)
    BY <2>1, <2>2, <2>3, UnlockHeld
  <2> QED BY <2>1, <2>4 DEF ValueInv, Conserved
<1>3. ASSUME NEW h \in Handlers, HandlerCall(h) \/ HandlerStep(h) PROVE ValueInv'
  <2>1. CASE \/ StoreOrder(h) \/ QueueOrder(h) \/ CreateThrows(h) \/ WritePrice(h) \/ RequestThrows(h)
             \/ \E o \in Orders : ReadForCancel(h, o) \/ \E p \in Band : ReadForUpdate(h, o, p)
    BY <2>1, ValueStays DEF StoreOrder, QueueOrder, CreateThrows, WritePrice, RequestThrows,
                            ReadForCancel, ReadForUpdate, store
  <2> QED BY <1>1, <1>2, <1>3, <2>1 DEF HandlerCall, HandlerStep
<1>4. ASSUME NEW w \in Workers, WorkerStep(w) \/ JobThrows(w) PROVE ValueInv'
  <2>1. CASE TakeJob(w) \/ ReadBook(w) \/ RecordTrades(w) \/ JobThrows(w) \/ LeftoverThrows(w)
    BY <2>1, ValueStays DEF TakeJob, ReadBook, RecordTrades, JobThrows, LeftoverThrows, Retry, Drop,
                            Complete, RollBack, store
  <2>2. CASE Begin(w)
    <3>1. wallet' = wallet /\ txn'.wallet = wallet
      BY <2>2 DEF Begin, store
    <3> QED BY <3>1 DEF ValueInv, Conserved
  <2>3. ASSUME NEW m \in worker[w].book, worker[w].phase = "matching", Fill(w, m) PROVE ValueInv'
    <3>1. \A what \in Kinds : Held(txn'.wallet, what) = Held(txn.wallet, what)
      BY <2>3, FillHeld
    <3>2. wallet' = wallet /\ txn # NoTxn
      BY <2>3, MatchingTyped DEF Fill, store
    <3> QED BY <3>1, <3>2 DEF ValueInv, Conserved
  <2>4. ASSUME NEW m \in worker[w].book, FillThrows(w, m) PROVE ValueInv'
    BY <2>4, ValueStays DEF FillThrows, Retry, Drop, RollBack, store
  <2>5. CASE Commit(w)
    <3>1. wallet' = Leftover(worker[w]) /\ txn' = NoTxn /\ worker[w].phase = "matching" /\ Leftover(worker[w]).ok
      BY <2>5 DEF Commit
    <3>2. \A what \in Kinds : Held(wallet', what) = Held(txn.wallet, what)
      BY <3>1, LeftoverHeld
    <3>3. txn # NoTxn
      BY <3>1, MatchingTyped
    <3> QED BY <3>1, <3>2, <3>3 DEF ValueInv, Conserved
  <2> QED BY <1>4, <2>1, <2>2, <2>3, <2>4, <2>5 DEF WorkerStep, MatchNext
<1>5. CASE \/ Restart \/ Rest \/ UNCHANGED vars \/ \E o \in Orders : Promote(o)
  BY <1>5, ValueStays DEF Restart, RollBack, Rest, Promote, vars, store
<1> QED BY <1>3, <1>4, <1>5 DEF Next

LEMMA ValueIsConserved == ASSUME Typed, ValueInv PROVE ValueConserved
<1>1. LedgerType(wallet) /\ LedgerType(OpenWallet)
  <2>1. OpeningAvailable \in [Accounts -> Int] /\ OpeningLocked \in [Accounts -> Int]
    BY TradingAssumption
  <2> QED BY <2>1 DEF Typed, LedgerType, OpenWallet, Wallet
<1>2. ASSUME NEW what \in Kinds
      PROVE  Total(wallet.available, what) + Total(wallet.locked, what)
               = Total(OpeningAvailable, what) + Total(OpeningLocked, what)
  <2>1. Held(wallet, what) = Total(wallet.available, what) + Total(wallet.locked, what)
    BY <1>1, HeldIsTotal
  <2>2. Held(OpenWallet, what) = Total(OpenWallet.available, what) + Total(OpenWallet.locked, what)
    BY <1>1, HeldIsTotal
  <2>3. OpenWallet.available = OpeningAvailable /\ OpenWallet.locked = OpeningLocked
    BY DEF OpenWallet
  <2> QED BY <2>1, <2>2, <2>3 DEF ValueInv, Conserved
<1> QED BY <1>2 DEF ValueConserved, Kinds

\* For any number of matching workers, requests, retries and restarts: trading
\* makes and loses no money.
THEOREM TradingConservesValue == Spec => []ValueConserved
<1>1. Init => ValueInv
  BY DEF Init, ValueInv, Conserved
<1>2. Typed /\ ValueInv /\ [Next]_vars => ValueInv'
  BY NextValue
<1>3. Typed /\ ValueInv => ValueConserved
  BY ValueIsConserved
<1> QED BY AlwaysTyped, <1>1, <1>2, <1>3, PTL DEF Spec

------------------------------------------------------------------------------
(***************************************************************************)
(* What the open transaction has written, row by row, while one worker     *)
(* matches and users only create orders.                                   *)
(***************************************************************************)
\* The terms of an order, which matching never changes.
SameTerms(r, s) ==
  /\ r.owner = s.owner /\ r.side = s.side /\ r.type = s.type
  /\ r.price = s.price /\ r.quantity = s.quantity

\* The taker's row once the job has taken what it has.
TakerRow(j) ==
  IF j.remaining = j.taker.quantity THEN j.taker
  ELSE Updated(j.taker, j.taker.quantity - j.remaining, j.taker)

Maker(o) == \E f \in txn.fills : f.maker = o

\* What a maker's row becomes when n of it is taken.
MakerRow(r, n) == Updated(r, n, r)

WroteBy(j) ==
  /\ txn.orders[j.id] = TakerRow(j)
  /\ \A o \in 1 .. Len(orders) :
       /\ SameTerms(txn.orders[o], orders[o])
       /\ o # j.id => \/ txn.orders[o] = orders[o]
                      \/ Maker(o) /\ txn.orders[o].status # "OPEN"
  /\ \A f \in txn.fills : /\ f.taker = j.id /\ f.maker # j.id
                          /\ \A m \in j.book : m.id # f.maker
  /\ txn.fills # {} => j.remaining < j.taker.quantity

WroteInv == \A w \in Workers : worker[w].phase = "matching" => WroteBy(worker[w])

\* All that is known of the state of one worker and of users who only create.
Base == OneWorker /\ CreateOnly /\ Typed /\ PlaceInv /\ Inv /\ AgreedInv

LEMMA UpdatedTerms ==
  ASSUME NEW r \in OrderRow, NEW f \in Int, NEW s \in OrderRow
  PROVE  /\ Updated(r, f, s) \in OrderRow /\ SameTerms(Updated(r, f, s), r)
         /\ Updated(r, f, s).filled = f /\ Updated(r, f, s).key = r.key
         /\ Updated(r, f, s).status = StatusAt(f, s)
         /\ StatusAt(f, s) \in {"FILLED", "PARTIALLY_FILLED"}
<1> DEFINE t == StatusAt(f, s)
           x == [r EXCEPT !.filled = f, !.status = t]
<1>1. t \in Statuses /\ t \in {"FILLED", "PARTIALLY_FILLED"}
  BY DEF StatusAt, Statuses
<1> HIDE DEF t
<1>2. /\ x \in OrderRow /\ x.filled = f /\ x.status = t /\ x.key = r.key
      /\ x.quantity = r.quantity /\ x.owner = r.owner /\ x.side = r.side
      /\ x.type = r.type /\ x.price = r.price
  BY <1>1 DEF OrderRow
<1> QED BY <1>1, <1>2 DEF Updated, t, SameTerms

\* Two updates of one row.
LEMMA UpdatedTwice ==
  ASSUME NEW r \in OrderRow, NEW f \in Int, NEW g \in Int, NEW s \in OrderRow
  PROVE  Updated(Updated(r, f, s), g, s) = Updated(r, g, s)
<1>1. StatusAt(f, s) \in Statuses /\ StatusAt(g, s) \in Statuses
  BY DEF StatusAt, Statuses
<1> DEFINE a == StatusAt(f, s)
           b == StatusAt(g, s)
<1>2. a \in Statuses /\ b \in Statuses
  BY <1>1
<1> HIDE DEF a, b
<1>3. [[r EXCEPT !.filled = f, !.status = a] EXCEPT !.filled = g, !.status = b]
        = [r EXCEPT !.filled = g, !.status = b]
  BY <1>2 DEF OrderRow
<1> QED BY <1>3 DEF Updated, a, b

\* The job in its transaction and the orders it has read.
LEMMA JobFacts ==
  ASSUME Base, NEW w \in Workers, worker[w].phase = "matching"
  PROVE  /\ \A v \in Workers : v = w
         /\ txn # NoTxn /\ txn.owner = w
         /\ orders[worker[w].id] = worker[w].taker /\ worker[w].taker \in OrderRow
         /\ worker[w].taker.filled = 0 /\ worker[w].taker.status = "OPEN"
         /\ worker[w].id \in 1 .. Len(orders) /\ worker[w].id \in Orders
         /\ worker[w].remaining \in Nat /\ worker[w].remaining <= worker[w].taker.quantity
         /\ worker[w].spent \in Nat
         /\ MarketBuy(worker[w].taker) => worker[w].spent <= Budget(worker[w].taker)
         /\ Budget(worker[w].taker) \in Nat
         /\ txn.orders \in Seq(OrderRow) /\ Len(txn.orders) = Len(orders) /\ Len(orders) \in Nat
         /\ orders \in Seq(OrderRow)
<1>1. OneWorker /\ Typed /\ Inv /\ AgreedInv
  BY DEF Base
<1>2. \A v \in Workers : v = w
  BY <1>1 DEF OneWorker
<1>3. /\ orders[worker[w].id] = worker[w].taker /\ worker[w].taker.status = "OPEN"
      /\ Unfilled(worker[w].id, worker[w].taker) /\ ReadInv(worker[w])
  BY <1>1 DEF AgreedInv, JobAgreed, Inv, JobInv
<1>4. /\ Known(worker[w].id) /\ worker[w].taker \in OrderRow /\ worker[w].taker.filled = 0
      /\ worker[w].remaining \in Nat /\ worker[w].remaining <= worker[w].taker.quantity
      /\ worker[w].spent \in Nat
      /\ MarketBuy(worker[w].taker) => worker[w].spent <= Budget(worker[w].taker)
  BY <1>3 DEF Unfilled, ReadInv
<1>5. txn # NoTxn /\ txn.owner = w /\ Table(txn.orders) /\ Budget(worker[w].taker) \in Nat
  BY <1>1, MatchingTyped
<1>6. StoreInv
  BY <1>1 DEF Typed
<1>7. worker[w].id \in 1 .. Len(orders)
  BY <1>4, <1>6, RowTyped
<1>8. Len(orders) \in Nat /\ orders \in Seq(OrderRow)
  BY <1>6, LenProperties DEF StoreInv, Table
<1> QED BY <1>2, <1>3, <1>4, <1>5, <1>7, <1>8 DEF Table, Known

LEMMA MakerFacts ==
  ASSUME Base, NEW w \in Workers, worker[w].phase = "matching", NEW m \in worker[w].book
  PROVE  /\ m.id # worker[w].id /\ m.id \in 1 .. Len(orders) /\ m.id \in Orders
         /\ orders[m.id] = m.row /\ m.row \in OrderRow /\ m.row.filled = 0 /\ m.row.status = "OPEN"
         /\ m.row.quantity \in Nat /\ m.row.quantity > 0 /\ m.row.price \in Nat
         /\ m.row.owner # worker[w].taker.owner /\ m.row.side # worker[w].taker.side
         /\ \A n \in worker[w].book : m.id = n.id => m = n
<1>1. Typed /\ Inv /\ AgreedInv
  BY DEF Base
<1>2. /\ Unfilled(m.id, m.row) /\ m.id # worker[w].id
      /\ \A n \in worker[w].book : m.id = n.id => m = n
  BY <1>1 DEF Inv, JobInv, ReadInv
<1>3. MakerAgreed(worker[w].taker, m)
  BY <1>1 DEF AgreedInv, JobAgreed
<1>4. m.row \in OrderRow /\ m.row.filled = 0 /\ Known(m.id)
  BY <1>2 DEF Unfilled
<1>5. m.row.quantity \in Nat /\ m.row.quantity > 0 /\ m.row.price \in Nat
  BY <1>4 DEF OrderRow
<1>6. m.id \in 1 .. Len(orders)
  BY <1>1, <1>4, RowTyped DEF Typed
<1> QED BY <1>2, <1>3, <1>4, <1>5, <1>6 DEF MakerAgreed, Known

\* The rows and the job after a fill.
LEMMA FillFacts ==
  ASSUME Base, WroteInv, NEW w \in Workers, worker[w].phase = "matching",
         NEW m \in worker[w].book, Fill(w, m), NEW n, n = MatchableQuantity(worker[w], m)
  PROVE  /\ n \in Nat /\ n > 0 /\ n <= worker[w].remaining /\ n <= m.row.quantity
         /\ MarketBuy(worker[w].taker) => worker[w].spent + n * m.row.price <= Budget(worker[w].taker)
         /\ worker'[w] = Took(worker[w], m, n)
         /\ txn.orders[m.id] = m.row
         /\ Len(txn'.orders) = Len(orders) /\ txn'.orders \in Seq(OrderRow)
         /\ \A o \in 1 .. Len(orders) :
              txn'.orders[o] = IF o = m.id THEN MakerRow(m.row, n)
                               ELSE IF o = worker[w].id THEN TakerRow(Took(worker[w], m, n))
                               ELSE txn.orders[o]
<1> DEFINE j == worker[w]
           k == Took(j, m, n)
           taken == j.taker.filled + (j.taker.quantity - j.remaining) + n
           given == m.row.filled + n
<1>1. /\ txn'.orders = [txn.orders EXCEPT ![j.id] = Updated(@, taken, j.taker),
                                          ![m.id] = Updated(@, given, m.row)]
      /\ worker' = [worker EXCEPT ![w] = k] /\ Takes(j, m)
  BY DEF Fill, Took
<1>2. /\ m.id # j.id /\ m.id \in 1 .. Len(orders) /\ orders[m.id] = m.row /\ m.row \in OrderRow
      /\ m.row.filled = 0 /\ m.row.quantity \in Nat
  BY MakerFacts
<1>3. /\ j.taker \in OrderRow /\ j.taker.filled = 0 /\ j.id \in 1 .. Len(orders)
      /\ j.remaining \in Nat /\ j.remaining <= j.taker.quantity
      /\ txn.orders \in Seq(OrderRow) /\ Len(txn.orders) = Len(orders) /\ Len(orders) \in Nat
  BY JobFacts
<1>4. /\ n \in Nat /\ n > 0 /\ n <= j.remaining /\ n <= m.row.quantity - m.row.filled
      /\ MarketBuy(j.taker) => j.spent + n * m.row.price <= Budget(j.taker)
  BY <1>1, TakenTyped DEF Base
<1>5. j.taker.quantity \in Nat
  BY <1>3 DEF OrderRow
<1>6. worker'[w] = k /\ k.taker = j.taker /\ k.remaining = j.remaining - n
  BY <1>1 DEF Base, Typed, Took
<1>7. /\ txn.orders[j.id] = TakerRow(j) /\ txn.orders[m.id] = m.row
  BY <1>2 DEF WroteInv, WroteBy, Maker
<1>8. taken = j.taker.quantity - k.remaining /\ given = n /\ k.remaining # j.taker.quantity
      /\ taken \in Int
  <2>1. PICK all \in Nat, left \in Nat : all = j.taker.quantity /\ left = j.remaining
    BY <1>3, <1>5
  <2>2. n \in Nat /\ n > 0 /\ left <= all /\ k.remaining = left - n
    BY <1>3, <1>4, <1>6, <2>1
  <2>3. taken = 0 + (all - left) + n
    BY <1>3, <2>1
  <2>4. taken = all - k.remaining /\ k.remaining # all /\ taken \in Int
    BY <2>2, <2>3
  <2>5. given = n
    BY <1>2, <2>2
  <2> QED BY <2>1, <2>4, <2>5
<1> HIDE DEF taken, given
<1>9. Updated(TakerRow(j), taken, j.taker) = TakerRow(k)
  <2>1. j.taker.quantity - j.remaining \in Int
    BY <1>3, <1>5
  <2>2. TakerRow(k) = Updated(j.taker, taken, j.taker)
    BY <1>6, <1>8 DEF TakerRow
  <2>3. CASE j.remaining = j.taker.quantity
    BY <2>2, <2>3 DEF TakerRow
  <2>4. CASE j.remaining # j.taker.quantity
    BY <1>3, <1>8, <2>1, <2>2, <2>4, UpdatedTwice DEF TakerRow
  <2> QED BY <2>3, <2>4
<1> DEFINE a == TakerRow(k)
           b == MakerRow(m.row, n)
<1>10. txn'.orders = [txn.orders EXCEPT ![j.id] = a, ![m.id] = b]
  BY <1>1, <1>2, <1>7, <1>8, <1>9 DEF MakerRow
<1>11. DOMAIN txn.orders = 1 .. Len(orders)
  BY <1>3, LenProperties
<1>12. \A o \in 1 .. Len(orders) :
         txn'.orders[o] = IF o = m.id THEN b ELSE IF o = j.id THEN a ELSE txn.orders[o]
  <2> HIDE DEF a, b, j
  <2> QED BY <1>2, <1>10, <1>11
<1>13. Len(txn'.orders) = Len(orders) /\ txn'.orders \in Seq(OrderRow)
  <2>1. Typed'
    BY FillTyped DEF Base
  <2>2. txn'.owner = w
    BY DEF Fill
  <2>3. txn' # NoTxn
    BY <2>2, NoTxnOwner
  <2>4. orders' = orders
    BY DEF Fill, store
  <2> QED BY <2>1, <2>3, <2>4 DEF Typed, TxnTyped, Table
<1>14. n <= m.row.quantity
  BY <1>2, <1>4
<1> QED BY <1>4, <1>6, <1>7, <1>12, <1>13, <1>14

\* A handler's step while the transaction is open.
LEMMA HandlerWaits ==
  ASSUME txn # NoTxn, NEW h \in Handlers, HandlerCall(h) \/ HandlerStep(h)
  PROVE  UNCHANGED <<orders, wallet, executed, earned, worker, txn, waiting, delayed, attempts>> \/ QueueOrder(h)
BY DEF HandlerCall, HandlerStep, LockFunds, StoreOrder, CreateThrows, WritePrice,
       CancelOrder, RequestThrows, ReadForCancel, ReadForUpdate, store, queue

\* Nobody else writes while the transaction is open.
LEMMA OpenStays ==
  ASSUME Base, [Next]_vars, NEW w \in Workers, worker'[w].phase = "matching"
  PROVE  \/ worker[w].phase = "matching" /\ UNCHANGED <<orders, wallet, earned, worker, txn>>
         \/ Begin(w)
         \/ worker[w].phase = "matching" /\ \E m \in worker[w].book : Fill(w, m)
<1>1. worker \in [Workers -> JobType] /\ \A v \in Workers : v = w
  BY DEF Base, Typed, OneWorker
<1>2. NoJob.phase # "matching"
  BY NoJobType
<1>3. worker[w].phase = "matching" => txn # NoTxn
  BY MatchingTyped DEF Base
<1>4. ASSUME NEW h \in Handlers, HandlerCall(h) \/ HandlerStep(h)
      PROVE  worker[w].phase = "matching" /\ UNCHANGED <<orders, wallet, earned, worker, txn>>
  <2>1. worker' = worker
    BY <1>4 DEF HandlerCall, HandlerStep, LockFunds, StoreOrder, QueueOrder, CreateThrows, WritePrice,
                CancelOrder, RequestThrows, ReadForCancel, ReadForUpdate
  <2> QED BY <1>3, <1>4, <2>1, HandlerWaits DEF QueueOrder, store
<1>5. ASSUME NEW v \in Workers, WorkerStep(v) \/ JobThrows(v)
      PROVE  Begin(w) \/ (worker[w].phase = "matching" /\ \E m \in worker[w].book : Fill(w, m))
  <2>1. v = w
    BY <1>1
  <2>2. CASE TakeJob(w)
    BY <1>1, <1>2, <2>2 DEF TakeJob
  <2>3. CASE ReadBook(w)
    BY <1>1, <2>3 DEF ReadBook
  <2>4. CASE \/ RecordTrades(w) \/ JobThrows(w) \/ LeftoverThrows(w)
             \/ \E m \in worker[w].book : FillThrows(w, m)
    <3>1. worker' = [worker EXCEPT ![w] = NoJob]
      BY <2>4 DEF RecordTrades, JobThrows, LeftoverThrows, FillThrows, Retry, Drop, Complete
    <3> QED BY <1>1, <1>2, <3>1
  <2>5. CASE Commit(w)
    BY <1>1, <2>5 DEF Commit
  <2> QED BY <1>5, <2>1, <2>2, <2>3, <2>4, <2>5 DEF WorkerStep, MatchNext
<1>6. ~Restart
  BY <1>2 DEF Restart
<1>7. CASE Rest \/ UNCHANGED vars \/ \E o \in Orders : Promote(o)
  BY <1>7 DEF Rest, Promote, vars, store
<1> QED BY <1>4, <1>5, <1>6, <1>7 DEF Next

LEMMA BeginWrites ==
  ASSUME Base, NEW w \in Workers, Begin(w)
  PROVE  /\ worker'[w] = [worker[w] EXCEPT !.phase = "matching"] /\ worker[w] \in JobType
         /\ worker[w].phase = "read" /\ txn = NoTxn
         /\ worker'[w].id = worker[w].id /\ worker'[w].taker = worker[w].taker
         /\ worker'[w].book = worker[w].book /\ worker'[w].remaining = worker[w].remaining
         /\ worker'[w].spent = worker[w].spent
         /\ worker[w].remaining = worker[w].taker.quantity
         /\ orders[worker[w].id] = worker[w].taker
         /\ txn'.orders = orders /\ txn'.wallet = wallet /\ txn'.earned = earned /\ txn'.fills = {}
         /\ UNCHANGED <<orders, wallet, executed, earned, handler, waiting, delayed, orphaned, unqueued>>
<1>1. /\ worker' = [worker EXCEPT ![w] = [worker[w] EXCEPT !.phase = "matching"]]
      /\ worker[w].phase = "read" /\ txn = NoTxn
      /\ txn'.orders = orders /\ txn'.wallet = wallet /\ txn'.earned = earned /\ txn'.fills = {}
      /\ UNCHANGED <<orders, wallet, executed, earned, handler, waiting, delayed, orphaned, unqueued>>
  BY DEF Begin, store, queue, lost
<1>2. worker \in [Workers -> JobType] /\ worker[w] \in JobType
  BY DEF Base, Typed
<1>3. worker[w].remaining = worker[w].taker.quantity /\ orders[worker[w].id] = worker[w].taker
  BY <1>1 DEF Base, Inv, JobInv, AgreedInv, JobAgreed
<1>4. worker'[w] = [worker[w] EXCEPT !.phase = "matching"]
  BY <1>1, <1>2
<1>5. /\ worker'[w].id = worker[w].id /\ worker'[w].taker = worker[w].taker
      /\ worker'[w].book = worker[w].book /\ worker'[w].remaining = worker[w].remaining
      /\ worker'[w].spent = worker[w].spent
  BY <1>1, <1>2, <1>4 DEF JobType, NoJob
<1> QED BY <1>1, <1>2, <1>3, <1>4, <1>5

LEMMA NextWrote == ASSUME Base, WroteInv, [Next]_vars PROVE WroteInv'
<1> SUFFICES ASSUME NEW w \in Workers, worker'[w].phase = "matching" PROVE WroteBy(worker[w])'
  BY DEF WroteInv
<1>1. CASE worker[w].phase = "matching" /\ UNCHANGED <<orders, wallet, earned, worker, txn>>
  BY <1>1 DEF WroteInv, WroteBy, Maker
<1>2. CASE Begin(w)
  <2>1. /\ worker'[w].id = worker[w].id /\ worker'[w].taker = worker[w].taker
        /\ worker'[w].remaining = worker[w].taker.quantity
        /\ orders[worker[w].id] = worker[w].taker
        /\ txn'.orders = orders /\ txn'.fills = {} /\ orders' = orders
    BY <1>2, BeginWrites
  <2>2. TakerRow(worker'[w]) = worker[w].taker
    BY <2>1 DEF TakerRow
  <2> QED BY <2>1, <2>2 DEF WroteBy, SameTerms
<1>3. ASSUME NEW m \in worker[w].book, worker[w].phase = "matching", Fill(w, m)
      PROVE  WroteBy(worker[w])'
  <2> DEFINE j == worker[w]
             n == MatchableQuantity(j, m)
             k == Took(j, m, n)
             f == [taker |-> j.id, maker |-> m.id, price |-> m.row.price, quantity |-> n]
  <2>1. /\ n \in Nat /\ n > 0 /\ n <= j.remaining /\ worker'[w] = k
        /\ Len(txn'.orders) = Len(orders)
        /\ \A o \in 1 .. Len(orders) :
             txn'.orders[o] = IF o = m.id THEN MakerRow(m.row, n)
                              ELSE IF o = j.id THEN TakerRow(k) ELSE txn.orders[o]
    BY <1>3, FillFacts
  <2>2. /\ k.id = j.id /\ k.book = j.book \ {m} /\ k.taker = j.taker /\ k.remaining = j.remaining - n
    BY DEF Took
  <2>3. txn'.fills = txn.fills \cup {f} /\ orders' = orders
    BY <1>3 DEF Fill, store
  <2>4. /\ orders[j.id] = j.taker /\ j.taker \in OrderRow /\ j.id \in 1 .. Len(orders)
        /\ j.remaining \in Nat /\ j.remaining <= j.taker.quantity
    BY <1>3, JobFacts
  <2>5. /\ m.id # j.id /\ orders[m.id] = m.row /\ m.row \in OrderRow
        /\ \A r \in j.book : r.id # j.id /\ (m.id = r.id => m = r)
    BY <1>3, MakerFacts
  <2>6. WroteBy(j)
    BY <1>3 DEF WroteInv
  <2>7. f.taker = j.id /\ f.maker = m.id
    OBVIOUS
  <2>8. j.taker.quantity \in Nat
    BY <2>4 DEF OrderRow
  <2> HIDE DEF f, k, n, j
  <2>9. k.remaining < k.taker.quantity
    BY <2>1, <2>2, <2>4, <2>8
  <2>10. SameTerms(MakerRow(m.row, n), m.row) /\ MakerRow(m.row, n).status # "OPEN"
    BY <2>1, <2>5, UpdatedTerms DEF MakerRow
  <2>11. SameTerms(TakerRow(k), j.taker)
    <3>1. j.taker.quantity - k.remaining \in Int
      BY <2>1, <2>2, <2>4, <2>8
    <3> QED BY <2>2, <2>4, <3>1, UpdatedTerms DEF TakerRow, SameTerms
  <2>12. txn'.orders[k.id] = TakerRow(k)
    BY <2>1, <2>2, <2>4, <2>5
  <2>13. ASSUME NEW o \in 1 .. Len(orders)
         PROVE  /\ SameTerms(txn'.orders[o], orders[o])
                /\ o # k.id => \/ txn'.orders[o] = orders[o]
                               \/ (\E g \in txn'.fills : g.maker = o) /\ txn'.orders[o].status # "OPEN"
    <3>1. CASE o = m.id
      BY <2>1, <2>3, <2>5, <2>7, <2>10, <3>1
    <3>2. CASE o # m.id /\ o = j.id
      BY <2>1, <2>2, <2>4, <2>11, <3>2
    <3>3. CASE o # m.id /\ o # j.id
      BY <2>1, <2>2, <2>3, <2>6, <3>3 DEF WroteBy, Maker
    <3> QED BY <3>1, <3>2, <3>3
  <2>14. \A g \in txn'.fills : /\ g.taker = k.id /\ g.maker # k.id
                               /\ \A r \in k.book : r.id # g.maker
    BY <2>2, <2>3, <2>5, <2>6, <2>7 DEF WroteBy
  <2> QED BY <2>1, <2>3, <2>9, <2>12, <2>13, <2>14 DEF WroteBy, Maker
<1> QED BY <1>1, <1>2, <1>3, OpenStays

------------------------------------------------------------------------------
(***************************************************************************)
(* What is locked is accounted for                                         *)
(***************************************************************************)
LiveRow(r) == r.status \in {"OPEN", "PARTIALLY_FILLED"}
PledgeOfRow(r) == Pledge(r.owner, r.side, r.quantity - r.filled, r.price)

\* What one row pledges from an account, and what all rows of a table do.
RowPledge(r, a) == IF LiveRow(r) /\ PledgeOfRow(r).account = a THEN PledgeOfRow(r).amount ELSE 0

PledgersIn(os, a) == {o \in DOMAIN os : LiveRow(os[o]) /\ PledgeOfRow(os[o]).account = a}
PledgedIn(os, a) ==
  SumFunctionOnSet([o \in PledgersIn(os, a) |-> PledgeOfRow(os[o]).amount], PledgersIn(os, a))

\* What a request in progress has locked on an account.
SetAside(v, a) ==
  IF v.step = "locked" /\ Pledge(v.order.owner, v.order.side, v.order.quantity, v.order.price).account = a
  THEN Pledge(v.order.owner, v.order.side, v.order.quantity, v.order.price).amount ELSE 0

\* What no order accounts for.
Aside(a) == OpeningLocked[a] + InFlightOn(a) + orphaned[a]

\* A MARKET BUY that has paid less than its average keeps the difference locked
\* until its job ends.
Slack(j, a) ==
  IF MarketBuy(j.taker) /\ a = <<j.taker.owner, "cash">>
  THEN (Budget(j.taker) - j.spent) - j.remaining * j.taker.price ELSE 0

LockedInv ==
  /\ \A h \in Handlers : handler[h].step = "locked" => handler[h].order.status = "OPEN"
  /\ \A w \in Workers : worker[w].phase = "read" => worker[w].spent = 0
  /\ \A a \in Accounts : wallet.locked[a] = Aside(a) + PledgedIn(orders, a) + earned[a]
  /\ \A w \in Workers : worker[w].phase = "matching" =>
       \A a \in Accounts : txn.wallet.locked[a]
         = Aside(a) + PledgedIn(txn.orders, a) + txn.earned[a] + Slack(worker[w], a)

Only(a, b, n) == IF a = b THEN n ELSE 0

LEMMA Distribute ==
  ASSUME NEW a \in Int, NEW b \in Int, NEW c \in Int
  PROVE  (a - b) * c = a * c - b * c /\ a * (b - c) = a * b - a * c
         /\ a * b = b * a /\ a * b \in Int /\ a * c \in Int /\ b * c \in Int
BY Z3

LEMMA RowPledgeType ==
  ASSUME NEW r \in OrderRow, NEW a
  PROVE  RowPledge(r, a) \in Int /\ PledgeOfRow(r).amount \in Int
<1>1. r.owner \in Users /\ r.quantity - r.filled \in Int /\ r.price \in Int
  BY DEF OrderRow
<1>2. OnAccount(PledgeOfRow(r))
  BY <1>1, PledgeType DEF PledgeOfRow
<1> QED BY <1>2 DEF RowPledge, OnAccount

LEMMA PledgedType ==
  ASSUME NEW os \in Seq(OrderRow), NEW a
  PROVE  /\ IsFiniteSet(PledgersIn(os, a))
         /\ \A o \in PledgersIn(os, a) : PledgeOfRow(os[o]).amount \in Int
         /\ PledgedIn(os, a) \in Int
<1>1. Len(os) \in Nat /\ DOMAIN os = 1 .. Len(os)
  BY LenProperties
<1>2. IsFiniteSet(PledgersIn(os, a))
  <2>1. IsFiniteSet(1 .. Len(os))
    BY <1>1, FS_Interval
  <2>2. PledgersIn(os, a) \in SUBSET (1 .. Len(os))
    BY <1>1 DEF PledgersIn
  <2> QED BY <2>1, <2>2, FS_Subset
<1>3. ASSUME NEW o \in PledgersIn(os, a) PROVE PledgeOfRow(os[o]).amount \in Int
  <2>1. o \in 1 .. Len(os)
    BY <1>1 DEF PledgersIn
  <2>2. os[o] \in OrderRow
    BY <2>1, ElementOfSeq
  <2> QED BY <2>2, RowPledgeType
<1>4. PledgedIn(os, a) \in Int
  BY <1>2, <1>3, SumInt DEF PledgedIn
<1> QED BY <1>2, <1>3, <1>4

\* One row is written or added.
LEMMA PledgedChange ==
  ASSUME NEW os \in Seq(OrderRow), NEW ns \in Seq(OrderRow), NEW o, NEW a,
         DOMAIN ns \ {o} = DOMAIN os \ {o}, \A p \in DOMAIN os \ {o} : ns[p] = os[p],
         o \in DOMAIN ns
  PROVE  PledgedIn(ns, a)
           = PledgedIn(os, a) + RowPledge(ns[o], a) - (IF o \in DOMAIN os THEN RowPledge(os[o], a) ELSE 0)
<1> DEFINE S == PledgersIn(os, a)
           T == PledgersIn(ns, a)
           w == [p \in S |-> PledgeOfRow(os[p]).amount]
           v == [p \in T |-> PledgeOfRow(ns[p]).amount]
<1>1. IsFiniteSet(S) /\ (\A p \in S : w[p] \in Int) /\ (\A p \in T : v[p] \in Int)
  BY PledgedType
<1>2. S \ {o} = T \ {o}
  BY DEF PledgersIn
<1>3. \A p \in S \ {o} : v[p] = w[p]
  BY <1>2 DEF PledgersIn
<1>4. SumFunctionOnSet(v, T) = SumFunctionOnSet(w, S) + (IF o \in T THEN v[o] ELSE 0)
                                                      - (IF o \in S THEN w[o] ELSE 0)
  <2> HIDE DEF S, T, v, w
  <2> QED BY <1>1, <1>2, <1>3, SumOneDiffers
<1>5. (IF o \in T THEN v[o] ELSE 0) = RowPledge(ns[o], a)
  BY DEF PledgersIn, RowPledge
<1>6. (IF o \in S THEN w[o] ELSE 0) = IF o \in DOMAIN os THEN RowPledge(os[o], a) ELSE 0
  BY DEF PledgersIn, RowPledge
<1>7. PledgedIn(ns, a) = SumFunctionOnSet(v, T) /\ PledgedIn(os, a) = SumFunctionOnSet(w, S)
  BY DEF PledgedIn
<1> HIDE DEF S, T, v, w
<1> QED BY <1>4, <1>5, <1>6, <1>7

LEMMA SetAsideType ==
  ASSUME NEW v \in HandlerType, NEW a
  PROVE  SetAside(v, a) \in Int
<1>1. v.step = "locked" => v.order \in OrderRow
  BY DEF HandlerType, Idle
<1> QED BY <1>1, PledgedAmount DEF SetAside, OnAccount

\* One handler goes on to v.
LEMMA InFlightMoves ==
  ASSUME Typed, NEW h \in Handlers, NEW v \in HandlerType, handler' = [handler EXCEPT ![h] = v], NEW a
  PROVE  /\ InFlightOn(a) \in Int /\ InFlightOn(a)' \in Int
         /\ SetAside(v, a) \in Int /\ SetAside(handler[h], a) \in Int
         /\ InFlightOn(a)' = InFlightOn(a) + SetAside(v, a) - SetAside(handler[h], a)
<1>1. handler'[h] = v /\ \A g \in Handlers \ {h} : handler'[g] = handler[g]
  BY DEF Typed, StoreInv, HandlerInv
<1> DEFINE S == InFlightTo(a)
           T == InFlightTo(a)'
           f == [g \in S |-> InFlight(g).amount]
           e == [g \in T |-> InFlight(g)'.amount]
<1>2. IsFiniteSet(S) /\ (\A g \in S : f[g] \in Int) /\ InFlightOn(a) \in Int
  BY InFlightType
<1>3. handler[h] \in HandlerType
  BY DEF Typed, StoreInv, HandlerInv
<1>6. h \in T => e[h] = SetAside(v, a)
  <2>1. InFlight(h)' = Pledge(v.order.owner, v.order.side, v.order.quantity, v.order.price)
    BY <1>1 DEF InFlight
  <2>2. h \in T => v.step = "locked" /\ InFlight(h)'.account = a
    BY <1>1 DEF InFlightTo
  <2>3. h \in T => e[h] = InFlight(h)'.amount
    OBVIOUS
  <2> QED BY <2>1, <2>2, <2>3 DEF SetAside
<1>4. S \ {h} = T \ {h} /\ \A g \in S \ {h} : e[g] = f[g]
  <2>1. ASSUME NEW g \in Handlers \ {h}
        PROVE  (g \in S <=> g \in T) /\ InFlight(g)' = InFlight(g)
    BY <1>1, <2>1 DEF InFlightTo, InFlight
  <2>2. S \subseteq Handlers /\ T \subseteq Handlers
    BY DEF InFlightTo
  <2>3. S \ {h} = T \ {h}
    BY <2>1, <2>2
  <2>4. ASSUME NEW g \in S \ {h} PROVE e[g] = f[g]
    BY <2>1, <2>2, <2>3, <2>4
  <2> QED BY <2>3, <2>4
<1>5. \A g \in T : e[g] \in Int
  <2>1. SetAside(v, a) \in Int
    BY SetAsideType
  <2> HIDE DEF S, T, e, f
  <2>2. ASSUME NEW g \in T PROVE e[g] \in Int
    <3>1. CASE g = h
      BY <1>6, <2>1, <3>1
    <3>2. CASE g # h
      <4>1. g \in S \ {h}
        BY <1>4, <3>2
      <4> QED BY <1>2, <1>4, <4>1
    <3> QED BY <3>1, <3>2
  <2> QED BY <2>2
<1>7. SumFunctionOnSet(e, T) = SumFunctionOnSet(f, S) + (IF h \in T THEN e[h] ELSE 0)
                                                      - (IF h \in S THEN f[h] ELSE 0)
  <2> HIDE DEF S, T, e, f
  <2> QED BY <1>2, <1>4, <1>5, SumOneDiffers
<1>8. (IF h \in T THEN e[h] ELSE 0) = SetAside(v, a)
  <2>1. CASE h \in T
    BY <1>6, <2>1
  <2>2. CASE h \notin T
    BY <1>1, <2>2 DEF InFlightTo, InFlight, SetAside
  <2> QED BY <2>1, <2>2
<1>9. (IF h \in S THEN f[h] ELSE 0) = SetAside(handler[h], a)
  BY DEF InFlightTo, InFlight, SetAside
<1>10. InFlightOn(a)' = SumFunctionOnSet(e, T) /\ InFlightOn(a) = SumFunctionOnSet(f, S)
  BY DEF InFlightOn
<1>11. SetAside(v, a) \in Int /\ SetAside(handler[h], a) \in Int
  BY <1>3, SetAsideType
<1> HIDE DEF S, T, e, f
<1>12. InFlightOn(a)' = InFlightOn(a) + SetAside(v, a) - SetAside(handler[h], a)
  BY <1>7, <1>8, <1>9, <1>10
<1>13. InFlightOn(a)' \in Int
  BY <1>2, <1>11, <1>12
<1> QED BY <1>2, <1>11, <1>12, <1>13

------------------------------------------------------------------------------
\* What the postings do to the locked column of an account.
LEMMA TransferLocked ==
  ASSUME NEW w, LedgerType(w), NEW p, OnAccount(p), NEW d \in {"lock", "unlock"},
         Transfer(w, p, d).ok, NEW a \in Accounts
  PROVE  Transfer(w, p, d).locked[a]
           = IF d = "lock" THEN w.locked[a] + Only(a, p.account, p.amount)
                           ELSE w.locked[a] - Only(a, p.account, p.amount)
<1> DEFINE q == [kind |-> d, amount |-> p.amount, useAvailable |-> FALSE, useLocked |-> FALSE]
           y == Effect(q).locked
           b == p.account
<1>1. y = (IF d = "lock" THEN p.amount ELSE -p.amount) /\ b \in Accounts /\ p.amount \in Int
  BY DEF Effect, OnAccount
<1>2. w.ok /\ q.amount > 0 /\ Affords(w.available[b], w.locked[b], q)
  <2>1. CASE ~(w.ok /\ q.amount > 0 /\ Affords(w.available[b], w.locked[b], q))
    <3>1. Transfer(w, p, d) = [w EXCEPT !.ok = FALSE]
      BY <2>1 DEF Transfer
    <3> QED BY <3>1 DEF LedgerType, Wallet
  <2> QED BY <2>1
<1>3. Transfer(w, p, d).locked = [w.locked EXCEPT ![b] = @ + y]
  BY <1>2 DEF Transfer
<1>4. w.locked \in [Accounts -> Int]
  BY DEF LedgerType, Wallet
<1> HIDE DEF y, b
<1>5. Transfer(w, p, d).locked[a] = IF a = b THEN w.locked[a] + y ELSE w.locked[a]
  BY <1>1, <1>3, <1>4
<1>6. w.locked[a] \in Int
  BY <1>4
<1> QED BY <1>1, <1>5, <1>6 DEF Only, b

LEMMA SettleLocked ==
  ASSUME NEW w, LedgerType(w), NEW b \in Users, NEW s \in Users, b # s,
         NEW n \in Nat, NEW price \in Nat, settleMatch(w, b, s, n, price).ok, NEW a \in Accounts
  PROVE  settleMatch(w, b, s, n, price).locked[a]
           = w.locked[a] - Only(a, <<b, "cash">>, n * price) + Only(a, <<b, "token">>, n)
                         - Only(a, <<s, "token">>, n) + Only(a, <<s, "cash">>, n * price)
<1> DEFINE v == settleMatch(w, b, s, n, price)
           q == n * price
<1>1. q \in Int /\ n \in Int
  OBVIOUS
<1>2. v.locked = [w.locked EXCEPT ![<<b, "cash">>] = @ - q, ![<<b, "token">>] = @ + n,
                                  ![<<s, "token">>] = @ - n, ![<<s, "cash">>] = @ + q]
  <2>1. CASE v = [w EXCEPT !.ok = FALSE]
    BY <2>1 DEF LedgerType, Wallet
  <2>2. CASE v # [w EXCEPT !.ok = FALSE]
    BY <2>2 DEF settleMatch
  <2> QED BY <2>1, <2>2
<1>3. w.locked \in [Accounts -> Int] /\ w.locked[a] \in Int
  BY DEF LedgerType, Wallet
<1> HIDE DEF v, q
<1>4. v.locked[a] = IF a = <<b, "cash">> THEN w.locked[a] - q
                    ELSE IF a = <<b, "token">> THEN w.locked[a] + n
                    ELSE IF a = <<s, "token">> THEN w.locked[a] - n
                    ELSE IF a = <<s, "cash">> THEN w.locked[a] + q ELSE w.locked[a]
  BY <1>2, <1>3
<1> QED BY <1>1, <1>3, <1>4 DEF Only, v, q

LEMMA RefundLocked ==
  ASSUME NEW w, LedgerType(w), NEW u \in Users, NEW n \in Nat,
         refundBuyerPriceImprovement(w, u, n).ok, NEW a \in Accounts
  PROVE  refundBuyerPriceImprovement(w, u, n).locked[a] = w.locked[a] - Only(a, <<u, "cash">>, n)
<1> DEFINE p == [account |-> <<u, "cash">>, amount |-> n]
<1>1. OnAccount(p)
  BY DEF OnAccount, Accounts
<1>2. w.locked[a] \in Int
  BY DEF LedgerType, Wallet
<1>3. CASE n <= 0
  BY <1>2, <1>3 DEF refundBuyerPriceImprovement, Only
<1>4. CASE ~(n <= 0)
  <2>1. refundBuyerPriceImprovement(w, u, n) = Transfer(w, p, "unlock")
    BY <1>4 DEF refundBuyerPriceImprovement
  <2>2. Transfer(w, p, "unlock").locked[a] = w.locked[a] - Only(a, p.account, p.amount)
    BY <1>1, <2>1, TransferLocked
  <2> QED BY <2>1, <2>2
<1> QED BY <1>3, <1>4

LEMMA UnlockLocked ==
  ASSUME NEW w, LedgerType(w), NEW u \in Users, NEW side, NEW n \in Nat, n > 0, NEW price \in Nat,
         unlockOrderRemainder(w, u, side, n, price).ok, NEW a \in Accounts
  PROVE  unlockOrderRemainder(w, u, side, n, price).locked[a]
           = w.locked[a] - Only(a, Pledge(u, side, n, price).account, Pledge(u, side, n, price).amount)
<1> DEFINE p == Pledge(u, side, n, price)
<1>1. OnAccount(p)
  BY PledgeType
<1>2. unlockOrderRemainder(w, u, side, n, price) = Transfer(w, p, "unlock")
  BY DEF unlockOrderRemainder
<1>3. Transfer(w, p, "unlock").locked[a] = w.locked[a] - Only(a, p.account, p.amount)
  BY <1>1, <1>2, TransferLocked
<1> QED BY <1>2, <1>3

\* What a row pledges when f of it is filled.
LEMMA PartPledge ==
  ASSUME NEW r \in OrderRow, NEW f \in Int, f <= r.quantity, NEW a
  PROVE  RowPledge(Updated(r, f, r), a)
           = Only(a, Pledge(r.owner, r.side, 1, 1).account,
                  IF r.side = "BUY" THEN (r.quantity - f) * r.price ELSE r.quantity - f)
<1> DEFINE v == Updated(r, f, r)
<1>1. /\ v.owner = r.owner /\ v.side = r.side /\ v.price = r.price /\ v.quantity = r.quantity
      /\ v.filled = f /\ v.status = StatusAt(f, r)
  BY UpdatedTerms DEF SameTerms
<1>2. r.quantity \in Nat /\ r.price \in Nat
  BY DEF OrderRow
<1>3. LiveRow(v) <=> f # r.quantity
  BY <1>1 DEF LiveRow, StatusAt
<1>4. PledgeOfRow(v) = Pledge(r.owner, r.side, r.quantity - f, r.price)
  BY <1>1 DEF PledgeOfRow
<1> HIDE DEF v
<1>5. CASE f = r.quantity
  <2>1. r.quantity - f = 0 /\ (r.quantity - f) * r.price = 0
    BY <1>2, <1>5
  <2> QED BY <1>3, <1>5, <2>1 DEF RowPledge, Only, v
<1>6. CASE f # r.quantity
  BY <1>3, <1>4, <1>6 DEF RowPledge, Only, Pledge, v
<1> QED BY <1>5, <1>6

LEMMA OpenPledge ==
  ASSUME NEW r \in OrderRow, r.status = "OPEN", r.filled = 0, NEW a
  PROVE  RowPledge(r, a) = Only(a, Pledge(r.owner, r.side, 1, 1).account,
                                IF r.side = "BUY" THEN r.quantity * r.price ELSE r.quantity)
<1>1. r.quantity - r.filled = r.quantity
  BY DEF OrderRow
<1> QED BY <1>1 DEF RowPledge, LiveRow, PledgeOfRow, Pledge, Only

\* What the taker's row pledges.
LEMMA TakerPledge ==
  ASSUME NEW j, j.taker \in OrderRow, j.taker.status = "OPEN", j.taker.filled = 0,
         j.remaining \in Nat, j.remaining <= j.taker.quantity, NEW a
  PROVE  RowPledge(TakerRow(j), a)
           = Only(a, Pledge(j.taker.owner, j.taker.side, 1, 1).account,
                  IF j.taker.side = "BUY" THEN j.remaining * j.taker.price ELSE j.remaining)
<1>1. j.taker.quantity \in Nat
  BY DEF OrderRow
<1> DEFINE f == j.taker.quantity - j.remaining
<1>2. f \in Int /\ f <= j.taker.quantity /\ j.taker.quantity - f = j.remaining
  BY <1>1
<1>3. CASE j.remaining = j.taker.quantity
  BY <1>3, OpenPledge DEF TakerRow
<1>4. CASE j.remaining # j.taker.quantity
  <2>1. TakerRow(j) = Updated(j.taker, f, j.taker)
    BY <1>4 DEF TakerRow
  <2> HIDE DEF f
  <2> QED BY <1>2, <2>1, PartPledge
<1> QED BY <1>3, <1>4

------------------------------------------------------------------------------
LEMMA RowTerms ==
  ASSUME NEW r \in OrderRow
  PROVE  /\ r.price \in Nat /\ r.quantity \in Nat /\ r.quantity > 0 /\ r.filled \in Int
         /\ r.owner \in Users /\ r.side \in {"BUY", "SELL"} /\ r.type \in {"LIMIT", "MARKET"}
BY DEF OrderRow

LEMMA OnlyType ==
  ASSUME NEW a, NEW b, NEW n \in Int
  PROVE  Only(a, b, n) \in Int
BY DEF Only

LEMMA OnlyDiffers ==
  ASSUME NEW a, NEW b, NEW x \in Int, NEW y \in Int, NEW d \in Int, x = y - d
  PROVE  Only(a, b, x) = Only(a, b, y) - Only(a, b, d)
BY DEF Only

\* What a fill takes out of the pledge of the maker, and of the taker.
LEMMA MakerPledgeFalls ==
  ASSUME NEW r \in OrderRow, r.status = "OPEN", r.filled = 0, NEW n \in Nat, n <= r.quantity, NEW a
  PROVE  RowPledge(MakerRow(r, n), a)
           = RowPledge(r, a) - Only(a, Pledge(r.owner, r.side, 1, 1).account,
                                    IF r.side = "BUY" THEN n * r.price ELSE n)
<1> DEFINE b == Pledge(r.owner, r.side, 1, 1).account
           x == IF r.side = "BUY" THEN (r.quantity - n) * r.price ELSE r.quantity - n
           y == IF r.side = "BUY" THEN r.quantity * r.price ELSE r.quantity
           d == IF r.side = "BUY" THEN n * r.price ELSE n
<1>1. r.quantity \in Int /\ r.price \in Int /\ n \in Int
  BY DEF OrderRow
<1>2. (r.quantity - n) * r.price = r.quantity * r.price - n * r.price
      /\ r.quantity * r.price \in Int /\ n * r.price \in Int
  BY <1>1, Distribute
<1>3. x \in Int /\ y \in Int /\ d \in Int /\ x = y - d
  BY <1>1, <1>2
<1>4. RowPledge(MakerRow(r, n), a) = Only(a, b, x)
  BY <1>1, PartPledge DEF MakerRow
<1>5. RowPledge(r, a) = Only(a, b, y)
  BY OpenPledge
<1> HIDE DEF b, x, y, d
<1>6. RowPledge(MakerRow(r, n), a) = RowPledge(r, a) - Only(a, b, d)
  BY <1>3, <1>4, <1>5, OnlyDiffers
<1> QED BY <1>6 DEF b, d

LEMMA TakerPledgeFalls ==
  ASSUME NEW j, NEW m, NEW n \in Nat, j.taker \in OrderRow, j.taker.status = "OPEN", j.taker.filled = 0,
         j.remaining \in Nat, j.remaining <= j.taker.quantity, n <= j.remaining, NEW a
  PROVE  RowPledge(TakerRow(Took(j, m, n)), a)
           = RowPledge(TakerRow(j), a)
               - Only(a, Pledge(j.taker.owner, j.taker.side, 1, 1).account,
                      IF j.taker.side = "BUY" THEN n * j.taker.price ELSE n)
<1> DEFINE t == j.taker
           k == Took(j, m, n)
           b == Pledge(t.owner, t.side, 1, 1).account
           x == IF t.side = "BUY" THEN k.remaining * t.price ELSE k.remaining
           y == IF t.side = "BUY" THEN j.remaining * t.price ELSE j.remaining
           d == IF t.side = "BUY" THEN n * t.price ELSE n
<1>1. k.remaining = j.remaining - n /\ k.taker = t
  BY DEF Took
<1>2. t.quantity \in Int /\ t.price \in Int /\ n \in Int /\ j.remaining \in Int /\ k.remaining \in Nat
  BY <1>1 DEF OrderRow
<1>3. k.remaining * t.price = j.remaining * t.price - n * t.price
      /\ j.remaining * t.price \in Int /\ n * t.price \in Int
  BY <1>1, <1>2, Distribute
<1>4. x \in Int /\ y \in Int /\ d \in Int /\ x = y - d
  BY <1>1, <1>2, <1>3
<1>5. RowPledge(TakerRow(j), a) = Only(a, b, y)
  BY TakerPledge
<1> HIDE DEF k
<1>6. RowPledge(TakerRow(k), a) = Only(a, b, x)
  <2>1. k.remaining <= k.taker.quantity
    BY <1>1, <1>2
  <2> QED BY <1>1, <1>2, <2>1, TakerPledge
<1> HIDE DEF b, x, y, d
<1>7. RowPledge(TakerRow(k), a) = RowPledge(TakerRow(j), a) - Only(a, b, d)
  BY <1>4, <1>5, <1>6, OnlyDiffers
<1> QED BY <1>7 DEF b, d, k

\* The taker's price for the buyer of a fill.
BuyPrice(j, m) == IF j.taker.side = "BUY" THEN j.taker.price ELSE m.row.price

LEMMA FillPledged ==
  ASSUME Base, WroteInv, NEW w \in Workers, worker[w].phase = "matching",
         NEW m \in worker[w].book, Fill(w, m), NEW n, n = MatchableQuantity(worker[w], m), NEW a
  PROVE  PledgedIn(txn'.orders, a)
           = PledgedIn(txn.orders, a) - Only(a, <<Buyer(worker[w], m), "cash">>, n * BuyPrice(worker[w], m))
                                      - Only(a, <<Seller(worker[w], m), "token">>, n)
<1> DEFINE j == worker[w]
           k == Took(j, m, n)
           mid == [txn.orders EXCEPT ![m.id] = MakerRow(m.row, n)]
           os == txn.orders
           ns == txn'.orders
           x == Only(a, Pledge(m.row.owner, m.row.side, 1, 1).account,
                     IF m.row.side = "BUY" THEN n * m.row.price ELSE n)
           y == Only(a, Pledge(j.taker.owner, j.taker.side, 1, 1).account,
                     IF j.taker.side = "BUY" THEN n * j.taker.price ELSE n)
<1>1. /\ n \in Nat /\ n > 0 /\ n <= j.remaining /\ n <= m.row.quantity
      /\ txn.orders[m.id] = m.row /\ Len(ns) = Len(orders) /\ ns \in Seq(OrderRow)
      /\ \A o \in 1 .. Len(orders) :
           ns[o] = IF o = m.id THEN MakerRow(m.row, n)
                   ELSE IF o = j.id THEN TakerRow(k) ELSE txn.orders[o]
  BY FillFacts
<1>2. /\ m.id # j.id /\ m.id \in 1 .. Len(orders) /\ m.row \in OrderRow
      /\ m.row.filled = 0 /\ m.row.status = "OPEN" /\ m.row.side # j.taker.side
  BY MakerFacts
<1>3. /\ j.taker \in OrderRow /\ j.taker.filled = 0 /\ j.taker.status = "OPEN"
      /\ j.id \in 1 .. Len(orders) /\ j.remaining \in Nat /\ j.remaining <= j.taker.quantity
      /\ os \in Seq(OrderRow) /\ Len(os) = Len(orders) /\ Len(orders) \in Nat
  BY JobFacts
<1>4. os[j.id] = TakerRow(j)
  BY DEF WroteInv, WroteBy
<1>5. MakerRow(m.row, n) \in OrderRow
  BY <1>1, <1>2, UpdatedTerms DEF MakerRow
<1>6. /\ mid \in Seq(OrderRow) /\ Len(mid) = Len(orders)
      /\ \A p \in 1 .. Len(orders) : mid[p] = IF p = m.id THEN MakerRow(m.row, n) ELSE os[p]
  <2> DEFINE z == MakerRow(m.row, n)
  <2> HIDE DEF z, os
  <2> QED BY <1>2, <1>3, <1>5, WriteTyped DEF z, os
<1>7. DOMAIN os = 1 .. Len(orders) /\ DOMAIN mid = 1 .. Len(orders) /\ DOMAIN ns = 1 .. Len(orders)
  BY <1>1, <1>3, <1>6, LenProperties
<1>8. RowPledge(MakerRow(m.row, n), a) = RowPledge(m.row, a) - x
  BY <1>1, <1>2, MakerPledgeFalls
<1>9. RowPledge(TakerRow(k), a) = RowPledge(TakerRow(j), a) - y
  BY <1>1, <1>3, TakerPledgeFalls
<1>10. x \in Int /\ y \in Int
  <2>1. n \in Int /\ m.row.price \in Int /\ j.taker.price \in Int
    BY <1>1, <1>2, <1>3, RowTerms
  <2>2. n * m.row.price \in Int /\ n * j.taker.price \in Int
    BY <2>1, Distribute
  <2> QED BY <2>1, <2>2, OnlyType
<1>16. x + y = Only(a, <<Buyer(j, m), "cash">>, n * BuyPrice(j, m)) + Only(a, <<Seller(j, m), "token">>, n)
  <2>1. m.row.side \in {"BUY", "SELL"} /\ j.taker.side \in {"BUY", "SELL"}
    BY <1>2, <1>3 DEF OrderRow
  <2>2. CASE j.taker.side = "BUY"
    <3>1. m.row.side = "SELL"
      BY <1>2, <2>1, <2>2
    <3>2. x = Only(a, <<Seller(j, m), "token">>, n)
      BY <2>2, <3>1 DEF Pledge, Seller
    <3>3. y = Only(a, <<Buyer(j, m), "cash">>, n * BuyPrice(j, m))
      BY <2>2 DEF Pledge, Buyer, BuyPrice
    <3> HIDE DEF x, y
    <3> QED BY <1>10, <3>2, <3>3
  <2>3. CASE j.taker.side # "BUY"
    <3>1. m.row.side = "BUY"
      BY <1>2, <2>1, <2>3
    <3>2. y = Only(a, <<Seller(j, m), "token">>, n)
      BY <2>3 DEF Pledge, Seller
    <3>3. x = Only(a, <<Buyer(j, m), "cash">>, n * BuyPrice(j, m))
      BY <2>3, <3>1 DEF Pledge, Buyer, BuyPrice
    <3> HIDE DEF x, y
    <3> QED BY <1>10, <3>2, <3>3
  <2> QED BY <2>2, <2>3
<1>17. Only(a, <<Buyer(j, m), "cash">>, n * BuyPrice(j, m)) \in Int
       /\ Only(a, <<Seller(j, m), "token">>, n) \in Int
  <2>1. BuyPrice(j, m) \in Int /\ n \in Int
    BY <1>1, <1>2, <1>3, RowTerms DEF BuyPrice
  <2>2. n * BuyPrice(j, m) \in Int
    BY <2>1, Distribute
  <2> QED BY <2>1, <2>2, OnlyType
<1> HIDE DEF x, y, mid, os, ns, k
<1>11. PledgedIn(mid, a) = PledgedIn(os, a) + RowPledge(mid[m.id], a) - RowPledge(os[m.id], a)
  <2>1. DOMAIN mid \ {m.id} = DOMAIN os \ {m.id} /\ m.id \in DOMAIN mid /\ m.id \in DOMAIN os
        /\ \A p \in DOMAIN os \ {m.id} : mid[p] = os[p]
    BY <1>2, <1>6, <1>7
  <2> QED BY <1>3, <1>6, <2>1, PledgedChange
<1>12. PledgedIn(ns, a) = PledgedIn(mid, a) + RowPledge(ns[j.id], a) - RowPledge(mid[j.id], a)
  <2>1. DOMAIN ns \ {j.id} = DOMAIN mid \ {j.id} /\ j.id \in DOMAIN ns /\ j.id \in DOMAIN mid
        /\ \A p \in DOMAIN mid \ {j.id} : ns[p] = mid[p]
    BY <1>1, <1>2, <1>3, <1>6, <1>7 DEF os
  <2> QED BY <1>1, <1>6, <2>1, PledgedChange
<1>13. mid[m.id] = MakerRow(m.row, n) /\ os[m.id] = m.row /\ ns[j.id] = TakerRow(k) /\ mid[j.id] = TakerRow(j)
  BY <1>1, <1>2, <1>3, <1>4, <1>6 DEF os
<1>14. PledgedIn(os, a) \in Int /\ RowPledge(m.row, a) \in Int /\ RowPledge(TakerRow(j), a) \in Int
  <2>1. os[j.id] \in OrderRow
    BY <1>3, ElementOfSeq
  <2>2. TakerRow(j) \in OrderRow
    BY <1>4, <2>1 DEF os
  <2> QED BY <1>2, <1>3, <2>2, PledgedType, RowPledgeType
<1>15. PledgedIn(ns, a) = PledgedIn(os, a) - x - y
  BY <1>8, <1>9, <1>10, <1>11, <1>12, <1>13, <1>14
<1>18. PledgedIn(ns, a) = PledgedIn(os, a) - (x + y)
  BY <1>10, <1>14, <1>15
<1> QED BY <1>14, <1>16, <1>17, <1>18 DEF os, ns

\* What the buyer's cash loses over what the trade itself takes.
Refunded(j, m, n) == IF Refunds(j, m) THEN n * (j.taker.price - m.row.price) ELSE 0

LEMMA FillLocked ==
  ASSUME Base, NEW w \in Workers, worker[w].phase = "matching", NEW m \in worker[w].book, Fill(w, m),
         NEW n, n = MatchableQuantity(worker[w], m), NEW a \in Accounts
  PROVE  LET b == Buyer(worker[w], m)
             s == Seller(worker[w], m)
         IN  /\ txn'.wallet.locked[a]
                  = txn.wallet.locked[a] - Only(a, <<b, "cash">>, n * m.row.price) + Only(a, <<b, "token">>, n)
                      - Only(a, <<s, "token">>, n) + Only(a, <<s, "cash">>, n * m.row.price)
                      - Only(a, <<b, "cash">>, Refunded(worker[w], m, n))
             /\ txn'.earned[a] = txn.earned[a] + Only(a, <<b, "token">>, n) + Only(a, <<s, "cash">>, n * m.row.price)
             /\ txn.wallet.locked[a] \in Int /\ txn.earned[a] \in Int
             /\ n \in Nat /\ n * m.row.price \in Int /\ Refunded(worker[w], m, n) \in Int
<1> DEFINE j == worker[w]
           b == Buyer(j, m)
           s == Seller(j, m)
           p == m.row.price
           q == n * p
           r == n * (j.taker.price - p)
           paid == settleMatch(txn.wallet, b, s, n, p)
<1>1. /\ b \in Users /\ s \in Users /\ b # s /\ j.taker.owner \in Users /\ j.taker.price \in Nat
  BY Sides DEF Base
<1>2. Takes(j, m) /\ Settled(j, m).ok /\ txn'.wallet = Settled(j, m)
      /\ txn'.earned = [txn.earned EXCEPT ![<<b, "token">>] = @ + n, ![<<s, "cash">>] = @ + q]
  BY FillWrites DEF Base
<1>3. n \in Nat /\ p \in Nat
  BY <1>2, TakenTyped DEF Base
<1>4. LedgerType(txn.wallet) /\ txn # NoTxn
  BY MatchingTyped DEF Base
<1>5. paid.ok
  BY <1>2, <1>4, PaidOk
<1>6. LedgerType(paid)
  BY <1>1, <1>3, <1>4, <1>5, SettleType
<1>7. q \in Int /\ (p < j.taker.price => r \in Nat)
  <2>1. p < j.taker.price => j.taker.price - p \in Nat
    BY <1>1, <1>3
  <2> HIDE DEF p
  <2> QED BY <1>3, <2>1
<1>8. paid.locked[a] = txn.wallet.locked[a] - Only(a, <<b, "cash">>, q) + Only(a, <<b, "token">>, n)
                                            - Only(a, <<s, "token">>, n) + Only(a, <<s, "cash">>, q)
  BY <1>1, <1>3, <1>4, <1>5, SettleLocked
<1>9. Settled(j, m) = IF Refunds(j, m) THEN refundBuyerPriceImprovement(paid, j.taker.owner, r) ELSE paid
  BY SettledIs
<1>10. Refunds(j, m) => b = j.taker.owner /\ p < j.taker.price
  BY DEF Refunds, Buyer
<1>11. txn.earned \in [Accounts -> Int]
  BY <1>4 DEF Base, Typed, TxnTyped, Money
<1>12. Refunded(j, m, n) = IF Refunds(j, m) THEN r ELSE 0
  BY DEF Refunded
<1>19. txn.wallet.locked[a] \in Int /\ txn.earned[a] \in Int /\ paid.locked[a] \in Int
  BY <1>4, <1>6, <1>11 DEF LedgerType, Wallet
<1> HIDE DEF paid, r, q, p, b, s
<1>13. Settled(j, m).locked[a] = paid.locked[a] - Only(a, <<b, "cash">>, Refunded(j, m, n))
  <2>1. CASE Refunds(j, m)
    <3>1. refundBuyerPriceImprovement(paid, j.taker.owner, r).ok
      BY <1>2, <1>9, <2>1
    <3>2. refundBuyerPriceImprovement(paid, j.taker.owner, r).locked[a]
            = paid.locked[a] - Only(a, <<j.taker.owner, "cash">>, r)
      BY <1>1, <1>6, <1>7, <1>10, <2>1, <3>1, RefundLocked
    <3> QED BY <1>9, <1>10, <1>12, <2>1, <3>2
  <2>2. CASE ~Refunds(j, m)
    <3>1. Only(a, <<b, "cash">>, Refunded(j, m, n)) = 0
      BY <1>12, <2>2 DEF Only
    <3> QED BY <1>9, <1>19, <2>2, <3>1
  <2> QED BY <2>1, <2>2
<1>14. txn'.earned[a] = txn.earned[a] + Only(a, <<b, "token">>, n) + Only(a, <<s, "cash">>, q)
  <2>1. txn'.earned[a] = IF a = <<s, "cash">> THEN txn.earned[a] + q
                         ELSE IF a = <<b, "token">> THEN txn.earned[a] + n ELSE txn.earned[a]
    BY <1>2, <1>11
  <2> QED BY <1>3, <1>7, <1>19, <2>1 DEF Only
<1>15. Refunded(j, m, n) \in Int
  BY <1>7, <1>10, <1>12
<1>16. txn'.wallet.locked[a] = Settled(j, m).locked[a]
  BY <1>2
<1>17. txn'.wallet.locked[a]
         = txn.wallet.locked[a] - Only(a, <<b, "cash">>, q) + Only(a, <<b, "token">>, n)
             - Only(a, <<s, "token">>, n) + Only(a, <<s, "cash">>, q)
             - Only(a, <<b, "cash">>, Refunded(j, m, n))
  <2>1. \A c, x : x \in Int => Only(a, c, x) \in Int
    BY OnlyType
  <2>2. n \in Int /\ q \in Int
    BY <1>3, <1>7
  <2> QED BY <1>8, <1>13, <1>15, <1>16, <1>19, <2>1, <2>2
<1>18. n \in Nat /\ q \in Int /\ txn.wallet.locked[a] \in Int /\ txn.earned[a] \in Int
  BY <1>3, <1>7, <1>19
<1> HIDE DEF j
<1> QED BY <1>14, <1>15, <1>17, <1>18 DEF b, s, q, p, j

\* The buyer pays the maker's price and gets back the rest of what its own price
\* had locked, now or, for a MARKET BUY, when the job ends.
LEMMA FillPays ==
  ASSUME Base, NEW w \in Workers, worker[w].phase = "matching", NEW m \in worker[w].book, Fill(w, m),
         NEW n, n = MatchableQuantity(worker[w], m), NEW a
  PROVE  LET x == Only(a, <<Buyer(worker[w], m), "cash">>, n * m.row.price)
             r == Only(a, <<Buyer(worker[w], m), "cash">>, Refunded(worker[w], m, n))
             y == Only(a, <<Buyer(worker[w], m), "cash">>, n * BuyPrice(worker[w], m))
         IN  /\ x \in Int /\ r \in Int /\ y \in Int
             /\ Slack(worker[w], a) \in Int
             /\ Slack(Took(worker[w], m, n), a) = Slack(worker[w], a) - (x + r) + y
<1> DEFINE j == worker[w]
           t == j.taker
           k == Took(j, m, n)
           b == <<Buyer(j, m), "cash">>
           p == m.row.price
<1>1. /\ t \in OrderRow /\ j.remaining \in Nat /\ j.spent \in Nat /\ Budget(t) \in Nat
  BY JobFacts
<1>2. t.price \in Nat /\ t.quantity \in Nat /\ t.side \in {"BUY", "SELL"} /\ t.type \in {"LIMIT", "MARKET"}
  BY <1>1, RowTerms
<1>3. Takes(j, m)
  BY FillWrites DEF Base
<1>4. n \in Nat /\ p \in Nat
  BY <1>3, TakenTyped DEF Base
<1>5. MakerAgreed(t, m)
  BY DEF Base, AgreedInv, JobAgreed
<1>6. /\ n * p \in Int /\ n * t.price \in Int /\ n * (t.price - p) = n * t.price - n * p
      /\ (j.remaining - n) * t.price = j.remaining * t.price - n * t.price
      /\ j.remaining * t.price \in Int
  <2> HIDE DEF p
  <2> QED BY <1>1, <1>2, <1>4, Distribute
<1>7. k.taker = t /\ k.remaining = j.remaining - n /\ k.spent = IF MarketBuy(t) THEN j.spent + n * p ELSE j.spent
  BY DEF Took
<1> DEFINE P == n * p
           T == n * t.price
           R == Refunded(j, m, n)
           Y == n * BuyPrice(j, m)
<1>8. CASE t.side # "BUY"
  <2>1. R = 0 /\ Y = P /\ Slack(j, a) = 0 /\ Slack(k, a) = 0
    BY <1>7, <1>8 DEF Refunded, Refunds, BuyPrice, Slack, MarketBuy
  <2> HIDE DEF P, T, R, Y, k, j
  <2> QED BY <1>6, <2>1 DEF Only, P, j, k, R, Y
<1>9. CASE t.side = "BUY" /\ t.type = "LIMIT"
  <2>1. Y = T /\ Slack(j, a) = 0 /\ Slack(k, a) = 0
    BY <1>7, <1>9 DEF BuyPrice, Slack, MarketBuy
  <2>2. R = T - P
    <3>1. CASE p < t.price
      BY <1>6, <1>9, <3>1 DEF Refunded, Refunds
    <3>2. CASE ~(p < t.price)
      <4>1. p = t.price
        BY <1>2, <1>4, <1>5, <1>9, <3>2 DEF MakerAgreed
      <4>2. R = 0 /\ T = P
        BY <3>2, <4>1 DEF Refunded, Refunds
      <4> HIDE DEF P, T, R
      <4> QED BY <1>6, <4>2 DEF P, T
    <3> QED BY <3>1, <3>2
  <2>3. P \in Int /\ T \in Int
    BY <1>6
  <2> HIDE DEF P, T, R, Y, k, j
  <2> QED BY <2>1, <2>2, <2>3 DEF Only, P, j, k, R, Y
<1>10. CASE t.side = "BUY" /\ t.type = "MARKET"
  <2>1. Y = T /\ R = 0 /\ MarketBuy(t) /\ b = <<t.owner, "cash">>
    BY <1>7, <1>10 DEF BuyPrice, Refunded, Refunds, MarketBuy, Buyer
  <2>2. Slack(j, a) = Only(a, b, (Budget(t) - j.spent) - j.remaining * t.price)
    BY <2>1 DEF Slack, Only
  <2>3. Slack(k, a) = Only(a, b, (Budget(t) - (j.spent + P)) - (j.remaining * t.price - T))
    <3> HIDE DEF k
    <3> QED BY <1>6, <1>7, <2>1 DEF Slack, Only
  <2>4. P \in Int /\ T \in Int
    BY <1>6
  <2> DEFINE g == j.remaining * t.price
             u == Budget(t)
             s == j.spent
  <2>5. g \in Int /\ u \in Int /\ s \in Int
    BY <1>1, <1>6
  <2>6. Slack(j, a) = Only(a, b, (u - s) - g) /\ Slack(k, a) = Only(a, b, (u - (s + P)) - (g - T))
    BY <2>2, <2>3
  <2> HIDE DEF P, T, R, Y, k, j, g, u, s, b
  <2> QED BY <2>1, <2>4, <2>5, <2>6 DEF Only, P, j, k, R, Y, b
<1> QED BY <1>2, <1>8, <1>9, <1>10
------------------------------------------------------------------------------
LEMMA AsideType ==
  ASSUME Typed, NEW a \in Accounts
  PROVE  /\ OpeningLocked[a] \in Int /\ InFlightOn(a) \in Int /\ orphaned[a] \in Int /\ Aside(a) \in Int
         /\ wallet.locked[a] \in Int /\ earned[a] \in Int /\ PledgedIn(orders, a) \in Int
<1>1. OpeningLocked[a] \in Int /\ orphaned[a] \in Int /\ earned[a] \in Int
  BY TradingAssumption DEF Typed, Money
<1>2. InFlightOn(a) \in Int
  BY InFlightType
<1>3. wallet.locked[a] \in Int
  BY DEF Typed, LedgerType, Wallet
<1>4. PledgedIn(orders, a) \in Int
  BY PledgedType DEF Typed, StoreInv, Table
<1> QED BY <1>1, <1>2, <1>3, <1>4 DEF Aside

\* A handler that is left with nothing set aside.
LEMMA NothingAside ==
  ASSUME NEW v, v.step # "locked", NEW a
  PROVE  SetAside(v, a) = 0
BY DEF SetAside

LEMMA HandlerWaitsAside ==
  ASSUME Typed, NEW h \in Handlers, NEW v \in HandlerType, handler' = [handler EXCEPT ![h] = v],
         v.step # "locked", UNCHANGED orphaned, handler[h].step # "locked", NEW a \in Accounts
  PROVE  Aside(a)' = Aside(a)
<1>1. SetAside(v, a) = 0 /\ SetAside(handler[h], a) = 0
  BY NothingAside
<1>2. InFlightOn(a) \in Int /\ InFlightOn(a)' = InFlightOn(a) + SetAside(v, a) - SetAside(handler[h], a)
  BY InFlightMoves
<1>3. InFlightOn(a)' = InFlightOn(a)
  BY <1>1, <1>2
<1> QED BY <1>3 DEF Aside

LEMMA ThrowsAside ==
  ASSUME Typed, NEW h \in Handlers, CreateThrows(h), NEW a \in Accounts
  PROVE  Aside(a)' = Aside(a)
<1>1. /\ handler' = [handler EXCEPT ![h] = Idle]
      /\ orphaned' = IF handler[h].step = "locked"
                     THEN [orphaned EXCEPT ![InFlight(h).account] = @ + InFlight(h).amount]
                     ELSE orphaned
  BY DEF CreateThrows
<1>2. Idle \in HandlerType /\ Idle.step # "locked"
  BY IdleType
<1>3. CASE handler[h].step # "locked"
  BY <1>1, <1>2, <1>3, HandlerWaitsAside
<1>4. CASE handler[h].step = "locked"
  <2>1. /\ InFlightOn(a) \in Int /\ SetAside(handler[h], a) \in Int
        /\ InFlightOn(a)' = InFlightOn(a) + SetAside(Idle, a) - SetAside(handler[h], a)
    BY <1>1, <1>2, InFlightMoves
  <2>2. SetAside(Idle, a) = 0
    BY <1>2, NothingAside
  <2>3. orphaned' = [orphaned EXCEPT ![InFlight(h).account] = @ + InFlight(h).amount]
    BY <1>1, <1>4
  <2>4. SetAside(handler[h], a) = IF InFlight(h).account = a THEN InFlight(h).amount ELSE 0
    BY <1>4 DEF SetAside, InFlight
  <2>5. orphaned \in [Accounts -> Int] /\ OpeningLocked[a] \in Int /\ orphaned[a] \in Int
    BY AsideType DEF Typed, Money
  <2>6. orphaned'[a] = orphaned[a] + SetAside(handler[h], a)
    <3> DEFINE p == InFlight(h)
    <3>1. orphaned'[a] = IF a = p.account THEN orphaned[a] + p.amount ELSE orphaned[a]
      BY <2>3, <2>5
    <3> HIDE DEF p
    <3> QED BY <2>4, <2>5, <3>1 DEF p
  <2>7. InFlightOn(a)' + orphaned'[a] = InFlightOn(a) + orphaned[a] /\ InFlightOn(a)' \in Int
    BY <2>1, <2>2, <2>5, <2>6
  <2> QED BY <2>1, <2>5, <2>6, <2>7 DEF Aside
<1> QED BY <1>3, <1>4

LEMMA RestartAside ==
  ASSUME Typed, Restart, NEW a \in Accounts
  PROVE  Aside(a)' = Aside(a)
<1>1. handler' = [g \in Handlers |-> Idle] /\ orphaned' = [b \in Accounts |-> orphaned[b] + InFlightOn(b)]
  BY DEF Restart
<1>2. InFlightTo(a)' = {}
  BY <1>1, IdleType DEF InFlightTo
<1>3. InFlightOn(a)' = 0
  BY <1>2, SumEmpty DEF InFlightOn
<1>4. orphaned'[a] = orphaned[a] + InFlightOn(a)
  BY <1>1
<1> QED BY <1>3, <1>4, AsideType DEF Aside

\* The two equations, for the committed tables and for those of a transaction.
Accounted(a) == wallet.locked[a] = Aside(a) + PledgedIn(orders, a) + earned[a]
AccountedInTxn(j, a) ==
  txn.wallet.locked[a] = Aside(a) + PledgedIn(txn.orders, a) + txn.earned[a] + Slack(j, a)

LEMMA LockFundsLocked ==
  ASSUME Base, LockedInv, NEW h \in Handlers, NEW q \in OrderRequests, LockFunds(h, q), NEW a \in Accounts
  PROVE  Accounted(a)'
<1> DEFINE p == Pledge(q.owner, q.side, q.quantity, OrderPrice(q))
           v == [step |-> "locked", order |-> NewOrder(q)]
<1>1. /\ wallet' = Transfer(wallet, p, "lock") /\ Transfer(wallet, p, "lock").ok
      /\ handler' = [handler EXCEPT ![h] = v] /\ handler[h] = Idle
      /\ UNCHANGED <<orders, earned, orphaned>>
  BY DEF LockFunds, lockOrderFunds, lost
<1>2. q \in RequestType /\ NewOrder(q) \in OrderRow
  BY NewOrderType, TradingAssumption
<1>3. OnAccount(p)
  <2>1. OrderPrice(q) \in Int /\ q.owner \in Users /\ q.quantity \in Int
    BY <1>2 DEF NewOrder, OrderRow, RequestType
  <2> QED BY <2>1, PledgeType
<1>4. LedgerType(wallet) /\ Typed
  BY DEF Base, Typed
<1>5. v \in HandlerType
  BY <1>2 DEF HandlerType
<1>6. SetAside(v, a) = Only(a, p.account, p.amount)
  BY DEF SetAside, NewOrder, Only
<1>7. SetAside(handler[h], a) = 0
  BY <1>1, IdleType, NothingAside
<1> HIDE DEF p, v
<1>8. wallet'.locked[a] = wallet.locked[a] + Only(a, p.account, p.amount)
  BY <1>1, <1>3, <1>4, TransferLocked
<1>9. InFlightOn(a)' = InFlightOn(a) + SetAside(v, a) - SetAside(handler[h], a) /\ SetAside(v, a) \in Int
  BY <1>1, <1>4, <1>5, InFlightMoves
<1>10. Accounted(a)
  BY DEF LockedInv, Accounted
<1>11. /\ OpeningLocked[a] \in Int /\ InFlightOn(a) \in Int /\ orphaned[a] \in Int
       /\ wallet.locked[a] \in Int /\ earned[a] \in Int /\ PledgedIn(orders, a) \in Int
  BY <1>4, AsideType
<1>12. PledgedIn(orders, a)' = PledgedIn(orders, a) /\ earned'[a] = earned[a] /\ orphaned'[a] = orphaned[a]
  BY <1>1
<1> DEFINE x == Only(a, p.account, p.amount)
<1>13. InFlightOn(a)' = InFlightOn(a) + x /\ x \in Int
  BY <1>6, <1>7, <1>9, <1>11
<1>14. wallet'.locked[a] = wallet.locked[a] + x
  BY <1>8
<1> HIDE DEF x
<1> QED BY <1>10, <1>11, <1>12, <1>13, <1>14 DEF Accounted, Aside

LEMMA StoreOrderLocked ==
  ASSUME Base, LockedInv, NEW h \in Handlers, StoreOrder(h), NEW a \in Accounts
  PROVE  Accounted(a)'
<1> DEFINE r == handler[h].order
           v == [step |-> "stored", id |-> Len(orders) + 1]
           n == Len(orders) + 1
<1>1. /\ orders' = Append(orders, r) /\ handler' = [handler EXCEPT ![h] = v] /\ handler[h].step = "locked"
      /\ UNCHANGED <<wallet, earned, orphaned>>
  BY DEF StoreOrder, lost
<1>2. Typed /\ orders \in Seq(OrderRow) /\ Len(orders) \in Nat
  BY LenProperties DEF Base, Typed, StoreInv, Table
<1>3. r \in OrderRow /\ r.filled = 0 /\ r.status = "OPEN"
  BY <1>1, <1>2 DEF Typed, StoreInv, HandlerInv, HandlerType, Idle, LockedInv
<1>4. v \in HandlerType
  <2>1. Typed'
    BY <1>2, StoreOrderTyped
  <2>2. handler'[h] = v
    BY <1>1, <1>2 DEF Typed, StoreInv, HandlerInv
  <2> QED BY <2>1, <2>2 DEF Typed, StoreInv, HandlerInv
<1>5. SetAside(v, a) = 0
  BY NothingAside
<1>6. SetAside(handler[h], a) = RowPledge(r, a)
  <2>1. r.quantity - r.filled = r.quantity
    BY <1>3, RowTerms
  <2> QED BY <1>1, <1>3, <2>1 DEF SetAside, RowPledge, LiveRow, PledgeOfRow
<1> HIDE DEF v, r
<1>7. InFlightOn(a)' = InFlightOn(a) + SetAside(v, a) - SetAside(handler[h], a)
  BY <1>1, <1>2, <1>4, InFlightMoves
<1>8. orders' \in Seq(OrderRow) /\ Len(orders') = n /\ orders'[n] = r
      /\ \A o \in 1 .. Len(orders) : orders'[o] = orders[o]
  BY <1>1, <1>2, <1>3, AppendProperties
<1>9. DOMAIN orders = 1 .. Len(orders) /\ DOMAIN orders' = 1 .. n
  BY <1>2, <1>8, LenProperties
<1>10. PledgedIn(orders, a)' = PledgedIn(orders, a) + RowPledge(r, a) - 0
  <2>1. /\ n \notin DOMAIN orders /\ n \in DOMAIN orders' /\ DOMAIN orders' \ {n} = DOMAIN orders \ {n}
        /\ \A o \in DOMAIN orders \ {n} : orders'[o] = orders[o]
    BY <1>2, <1>8, <1>9
  <2> HIDE DEF n
  <2> DEFINE ns == orders'
  <2>2. /\ ns \in Seq(OrderRow) /\ n \in DOMAIN ns /\ DOMAIN ns \ {n} = DOMAIN orders \ {n}
        /\ ns[n] = r /\ \A o \in DOMAIN orders \ {n} : ns[o] = orders[o]
    BY <1>8, <2>1
  <2>3. PledgedIn(orders, a)' = PledgedIn(ns, a)
    BY DEF PledgedIn, PledgersIn
  <2> HIDE DEF ns
  <2>4. PledgedIn(ns, a) = PledgedIn(orders, a) + RowPledge(ns[n], a)
                             - (IF n \in DOMAIN orders THEN RowPledge(orders[n], a) ELSE 0)
    BY <1>2, <2>2, PledgedChange
  <2> QED BY <2>1, <2>2, <2>3, <2>4
<1>11. /\ OpeningLocked[a] \in Int /\ InFlightOn(a) \in Int /\ orphaned[a] \in Int
       /\ wallet.locked[a] \in Int /\ earned[a] \in Int /\ PledgedIn(orders, a) \in Int
  BY <1>2, AsideType
<1>12. RowPledge(r, a) \in Int
  BY <1>3, RowPledgeType
<1>13. wallet'.locked[a] = wallet.locked[a] /\ earned'[a] = earned[a] /\ orphaned'[a] = orphaned[a]
  BY <1>1
<1>14. Accounted(a)
  BY DEF LockedInv, Accounted
<1>15. InFlightOn(a)' = InFlightOn(a) - RowPledge(r, a)
  BY <1>5, <1>6, <1>7, <1>11, <1>12
<1> QED BY <1>10, <1>11, <1>12, <1>13, <1>14, <1>15 DEF Accounted, Aside

\* Every other step leaves what no order accounts for as it was.
LEMMA AsideStays ==
  ASSUME Base, [Next]_vars, NEW a \in Accounts,
         \A h \in Handlers : ~StoreOrder(h) /\ \A q \in OrderRequests : ~LockFunds(h, q)
  PROVE  Aside(a)' = Aside(a)
<1>1. Typed /\ CreateOnly /\ \A h \in Handlers : handler[h].step \notin {"reprice", "cancel"}
  BY DEF Base, AgreedInv
<1>2. ASSUME NEW h \in Handlers, HandlerCall(h) \/ HandlerStep(h) PROVE Aside(a)' = Aside(a)
  <2>1. CASE QueueOrder(h)
    BY <1>1, <2>1, IdleType, HandlerWaitsAside DEF QueueOrder, lost
  <2>2. CASE CreateThrows(h)
    BY <1>1, <2>2, ThrowsAside
  <2> QED BY <1>1, <1>2, <2>1, <2>2 DEF HandlerCall, HandlerStep, CreateOnly, WritePrice, CancelOrder,
                                        RequestThrows, ReadForCancel, ReadForUpdate
<1>3. CASE Restart
  BY <1>1, <1>3, RestartAside
<1>4. CASE UNCHANGED <<handler, orphaned>>
  <2>1. InFlightTo(a)' = InFlightTo(a) /\ \A h \in InFlightTo(a) : InFlight(h)' = InFlight(h)
    BY <1>4 DEF InFlightTo, InFlight
  <2> QED BY <1>4, <2>1 DEF Aside, InFlightOn
<1>5. ASSUME NEW w \in Workers, WorkerStep(w) \/ JobThrows(w) PROVE UNCHANGED <<handler, orphaned>>
  BY <1>5 DEF WorkerStep, TakeJob, ReadBook, Begin, MatchNext, Fill, FillThrows, Commit, LeftoverThrows,
              RecordTrades, JobThrows, lost
<1>6. CASE Rest \/ UNCHANGED vars \/ \E o \in Orders : Promote(o)
  BY <1>4, <1>6 DEF Rest, Promote, vars, lost
<1> QED BY <1>2, <1>3, <1>4, <1>5, <1>6 DEF Next

\* The row of a MARKET order that is not filled completely is cancelled.
LEMMA CommitPledged ==
  ASSUME Base, WroteInv, NEW w \in Workers, Commit(w), NEW a
  PROVE  PledgedIn(orders', a)
           = PledgedIn(txn.orders, a)
               - (IF worker[w].taker.type = "MARKET" /\ worker[w].remaining > 0
                  THEN RowPledge(TakerRow(worker[w]), a) ELSE 0)
<1> DEFINE j == worker[w]
           row == [txn.orders[j.id] EXCEPT !.status = "CANCELLED"]
           os == txn.orders
           ns == orders'
<1>1. /\ j.phase = "matching"
      /\ ns = IF j.taker.type = "MARKET" /\ j.remaining > 0 THEN [os EXCEPT ![j.id] = row] ELSE os
  BY DEF Commit
<1>2. /\ os \in Seq(OrderRow) /\ Len(os) = Len(orders) /\ j.id \in 1 .. Len(os) /\ Len(os) \in Nat
  BY <1>1, JobFacts
<1>3. os[j.id] = TakerRow(j)
  BY <1>1 DEF WroteInv, WroteBy
<1>4. os[j.id] \in OrderRow
  BY <1>2, ElementOfSeq
<1>5. row \in OrderRow /\ row.status = "CANCELLED"
  BY <1>4 DEF OrderRow, Statuses
<1>6. RowPledge(row, a) = 0
  BY <1>5 DEF RowPledge, LiveRow
<1>7. PledgedIn(os, a) \in Int
  BY <1>2, PledgedType
<1> HIDE DEF os, ns, row
<1>8. CASE j.taker.type = "MARKET" /\ j.remaining > 0
  <2>1. ns = [os EXCEPT ![j.id] = row]
    BY <1>1, <1>8
  <2>2. /\ ns \in Seq(OrderRow) /\ Len(ns) = Len(os) /\ ns[j.id] = row
        /\ \A p \in 1 .. Len(os) : ns[p] = IF p = j.id THEN row ELSE os[p]
    BY <1>2, <1>5, <2>1, WriteTyped
  <2>3. DOMAIN os = 1 .. Len(os) /\ DOMAIN ns = 1 .. Len(os)
    BY <1>2, <2>2, LenProperties
  <2>4. PledgedIn(ns, a) = PledgedIn(os, a) + RowPledge(ns[j.id], a)
                             - (IF j.id \in DOMAIN os THEN RowPledge(os[j.id], a) ELSE 0)
    <3>1. DOMAIN ns \ {j.id} = DOMAIN os \ {j.id} /\ j.id \in DOMAIN ns
          /\ \A p \in DOMAIN os \ {j.id} : ns[p] = os[p]
      BY <1>2, <2>2, <2>3
    <3> QED BY <1>2, <2>2, <3>1, PledgedChange
  <2>5. RowPledge(TakerRow(j), a) \in Int
    BY <1>3, <1>4, RowPledgeType
  <2>6. PledgedIn(ns, a) = PledgedIn(os, a) + 0 - RowPledge(TakerRow(j), a)
    BY <1>2, <1>3, <1>6, <2>2, <2>3, <2>4
  <2>7. PledgedIn(ns, a) = PledgedIn(os, a) - RowPledge(TakerRow(j), a)
    BY <1>7, <2>5, <2>6
  <2> QED BY <1>8, <2>7 DEF ns, os
<1>9. CASE ~(j.taker.type = "MARKET" /\ j.remaining > 0)
  <2>1. ns = os
    BY <1>1, <1>9
  <2>2. PledgedIn(ns, a) = PledgedIn(os, a) - 0
    BY <1>7, <2>1
  <2> QED BY <1>9, <2>2 DEF ns, os
<1> QED BY <1>8, <1>9

\* What it has left is given back.
LEMMA CommitLocked ==
  ASSUME Base, WroteInv, LockedInv, NEW w \in Workers, Commit(w), NEW a \in Accounts,
         Aside(a)' = Aside(a)
  PROVE  Accounted(a)'
<1> DEFINE j == worker[w]
           t == j.taker
           b == <<t.owner, "cash">>
           c == <<t.owner, "token">>
           g == j.remaining * t.price
           u == Budget(t) - j.spent
           L == txn.wallet.locked[a]
           left == IF t.type = "MARKET" /\ j.remaining > 0 THEN RowPledge(TakerRow(j), a) ELSE 0
<1>1. /\ j.phase = "matching" /\ Leftover(j).ok /\ wallet' = Leftover(j) /\ earned' = txn.earned
  BY DEF Commit
<1>2. /\ t \in OrderRow /\ t.filled = 0 /\ t.status = "OPEN" /\ j.remaining \in Nat
      /\ j.remaining <= t.quantity /\ j.spent \in Nat /\ Budget(t) \in Nat
      /\ (MarketBuy(t) => j.spent <= Budget(t)) /\ txn # NoTxn /\ txn.orders \in Seq(OrderRow)
  BY <1>1, JobFacts
<1>3. LedgerType(txn.wallet) /\ Typed /\ txn.earned \in [Accounts -> Int]
  BY <1>1, <1>2, MatchingTyped DEF Base, Typed, TxnTyped, Money
<1>4. /\ t.owner \in Users /\ t.side \in {"BUY", "SELL"} /\ t.type \in {"LIMIT", "MARKET"} /\ t.price \in Nat
  BY <1>2, RowTerms
<1>5. AccountedInTxn(j, a)
  BY <1>1 DEF LockedInv, AccountedInTxn
<1>6. PledgedIn(orders', a) = PledgedIn(txn.orders, a) - left
  BY CommitPledged
<1>7. /\ PledgedIn(txn.orders, a) \in Int /\ L \in Int /\ txn.earned[a] \in Int /\ Aside(a) \in Int
  BY <1>2, <1>3, PledgedType, AsideType DEF LedgerType, Wallet
<1>8. g \in Int /\ u \in Int /\ (MarketBuy(t) => u \in Nat)
  <2> HIDE DEF j, t
  <2> QED BY <1>2, <1>4, Distribute DEF t
<1>9. RowPledge(TakerRow(j), a)
        = Only(a, Pledge(t.owner, t.side, 1, 1).account, IF t.side = "BUY" THEN g ELSE j.remaining)
  BY <1>2, TakerPledge
<1>10. wallet'.locked[a] = (L - left) - Slack(j, a) /\ left \in Int /\ Slack(j, a) \in Int
  <2>1. CASE t.type # "MARKET"
    <3>1. left = 0 /\ Slack(j, a) = 0 /\ Leftover(j) = txn.wallet
      BY <2>1 DEF Slack, MarketBuy, Leftover
    <3>2. wallet'.locked[a] = L
      BY <1>1, <3>1
    <3> HIDE DEF left, L, j
    <3> QED BY <1>7, <3>1, <3>2 DEF j
  <2>2. CASE t.type = "MARKET" /\ t.side = "BUY"
    <3>1. MarketBuy(t) /\ Leftover(j) = refundBuyerPriceImprovement(txn.wallet, t.owner, u)
      BY <2>2 DEF MarketBuy, Leftover
    <3>2. wallet'.locked[a] = L - Only(a, b, u)
      BY <1>1, <1>3, <1>4, <1>8, <3>1, RefundLocked
    <3>3. Slack(j, a) = Only(a, b, u - g)
      BY <3>1 DEF Slack, Only
    <3>4. left = Only(a, b, g)
      <4>1. CASE j.remaining > 0
        BY <1>9, <2>2, <4>1 DEF Pledge
      <4>2. CASE ~(j.remaining > 0)
        <5>1. j.remaining = 0 /\ g = 0 /\ left = 0
          BY <1>2, <1>4, <4>2
        <5> QED BY <5>1 DEF Only
      <4> QED BY <4>1, <4>2
    <3> HIDE DEF L, left, j, g, u, b
    <3> QED BY <1>7, <1>8, <3>2, <3>3, <3>4 DEF Only, j
  <2>3. CASE t.type = "MARKET" /\ t.side # "BUY"
    <3>1. Slack(j, a) = 0 /\ Leftover(j) = IF j.remaining > 0
                             THEN unlockOrderRemainder(txn.wallet, t.owner, t.side, j.remaining, 0)
                             ELSE txn.wallet
      BY <2>3 DEF MarketBuy, Leftover, Slack
    <3>2. CASE j.remaining > 0
      <4>1. unlockOrderRemainder(txn.wallet, t.owner, t.side, j.remaining, 0).ok /\ 0 \in Nat
        BY <1>1, <3>1, <3>2
      <4>2. unlockOrderRemainder(txn.wallet, t.owner, t.side, j.remaining, 0).locked[a]
              = L - Only(a, Pledge(t.owner, t.side, j.remaining, 0).account,
                         Pledge(t.owner, t.side, j.remaining, 0).amount)
        BY <1>2, <1>3, <1>4, <3>2, <4>1, UnlockLocked
      <4>3. wallet'.locked[a] = L - Only(a, c, j.remaining)
        BY <1>1, <2>3, <3>1, <3>2, <4>2 DEF Pledge
      <4>4. left = Only(a, c, j.remaining)
        BY <1>9, <2>3, <3>2 DEF Pledge
      <4>5. Only(a, c, j.remaining) \in Int
        BY <1>2, OnlyType
      <4> HIDE DEF L, left, j, c
      <4> QED BY <1>7, <3>1, <4>3, <4>4, <4>5 DEF j
    <3>3. CASE ~(j.remaining > 0)
      <4>1. left = 0 /\ wallet'.locked[a] = L
        BY <1>1, <3>1, <3>3
      <4> HIDE DEF L, left, j
      <4> QED BY <1>7, <3>1, <4>1 DEF j
    <3> QED BY <3>2, <3>3
  <2> QED BY <1>4, <2>1, <2>2, <2>3
<1> DEFINE P == PledgedIn(txn.orders, a)
           S == Slack(j, a)
           e == txn.earned[a]
<1>11. L = Aside(a) + P + e + S
  BY <1>5 DEF AccountedInTxn
<1>12. PledgedIn(orders, a)' = P - left /\ earned'[a] = e
  <2>1. PledgedIn(orders, a)' = PledgedIn(orders', a)
    BY DEF PledgedIn, PledgersIn
  <2> QED BY <1>1, <1>6, <2>1
<1>13. P \in Int /\ e \in Int /\ L \in Int /\ Aside(a) \in Int
  BY <1>7
<1>14. wallet'.locked[a] = (L - left) - S /\ left \in Int /\ S \in Int
  BY <1>10
<1> HIDE DEF P, S, e, L, left, j
<1>15. wallet'.locked[a] = Aside(a) + (P - left) + e
  BY <1>11, <1>13, <1>14
<1> QED BY <1>12, <1>15 DEF Accounted

\* The open transaction.
LEMMA OpenLocked ==
  ASSUME Base, WroteInv, LockedInv, [Next]_vars, NEW w \in Workers, worker'[w].phase = "matching",
         NEW a \in Accounts
  PROVE  AccountedInTxn(worker[w], a)'
<1> DEFINE j == worker[w]
<1>0. Typed
  BY DEF Base
<1>1. CASE worker[w].phase = "matching" /\ UNCHANGED <<orders, wallet, earned, worker, txn>>
  <2>1. txn # NoTxn
    BY <1>1, JobFacts
  <2>2. Aside(a)' = Aside(a)
    BY <2>1, AsideStays DEF StoreOrder, LockFunds
  <2>3. AccountedInTxn(j, a)
    BY <1>1 DEF LockedInv, AccountedInTxn
  <2>4. PledgedIn(txn.orders, a)' = PledgedIn(txn.orders, a) /\ Slack(j, a)' = Slack(j, a)
    BY <1>1 DEF PledgedIn, PledgersIn, Slack
  <2> QED BY <1>1, <2>2, <2>3, <2>4 DEF AccountedInTxn
<1>2. CASE Begin(w)
  <2>1. /\ worker[w] \in JobType /\ worker[w].phase = "read"
        /\ worker'[w].taker = j.taker /\ worker'[w].remaining = j.taker.quantity
        /\ worker'[w].spent = j.spent /\ txn'.orders = orders /\ txn'.wallet = wallet
        /\ txn'.earned = earned /\ UNCHANGED <<orders, handler, orphaned>>
    BY <1>2, BeginWrites
  <2>2. j.spent = 0 /\ Accounted(a)
    BY <2>1 DEF LockedInv, Accounted
  <2>3. Aside(a)' = Aside(a)
    <3>1. InFlightTo(a)' = InFlightTo(a) /\ \A h \in InFlightTo(a) : InFlight(h)' = InFlight(h)
      BY <2>1 DEF InFlightTo, InFlight
    <3> QED BY <2>1, <3>1 DEF Aside, InFlightOn
  <2>4. PledgedIn(txn.orders, a)' = PledgedIn(orders, a)
    <3>1. PledgedIn(txn.orders, a)' = PledgedIn(txn'.orders, a)
      BY DEF PledgedIn, PledgersIn
    <3> QED BY <2>1, <3>1
  <2>5. Slack(worker[w], a)' = 0
    <3>1. j.taker \in OrderRow
      BY <2>1 DEF JobType, NoJob
    <3>2. Budget(j.taker) = j.taker.quantity * j.taker.price /\ Budget(j.taker) \in Int
      <4>1. j.taker.quantity \in Int /\ j.taker.price \in Int
        BY <3>1, RowTerms
      <4> QED BY <4>1 DEF Budget
    <3>3. Slack(worker'[w], a) = IF MarketBuy(j.taker) /\ a = <<j.taker.owner, "cash">>
                                 THEN (Budget(j.taker) - 0) - Budget(j.taker) ELSE 0
      BY <2>1, <2>2, <3>2 DEF Slack
    <3>4. Slack(worker'[w], a) = 0
      BY <3>2, <3>3
    <3>5. Slack(worker[w], a)' = Slack(worker'[w], a)
      BY DEF Slack
    <3> QED BY <3>4, <3>5
  <2>6. /\ Aside(a) \in Int /\ earned[a] \in Int /\ PledgedIn(orders, a) \in Int
    BY <1>0, AsideType
  <2>7. txn'.wallet.locked[a] = Aside(a)' + PledgedIn(txn.orders, a)' + txn'.earned[a]
    BY <2>1, <2>2, <2>3, <2>4 DEF Accounted
  <2>8. txn'.wallet.locked[a] = Aside(a)' + PledgedIn(txn.orders, a)' + txn'.earned[a] + 0
    BY <2>1, <2>3, <2>4, <2>6, <2>7
  <2> QED BY <2>5, <2>8 DEF AccountedInTxn
<1>3. ASSUME NEW m \in worker[w].book, worker[w].phase = "matching", Fill(w, m)
      PROVE  AccountedInTxn(worker[w], a)'
  <2> DEFINE n == MatchableQuantity(j, m)
             k == Took(j, m, n)
             b == Buyer(j, m)
             s == Seller(j, m)
             q == n * m.row.price
             x == Only(a, <<b, "cash">>, q)
             r == Only(a, <<b, "cash">>, Refunded(j, m, n))
             y == Only(a, <<b, "cash">>, n * BuyPrice(j, m))
             bt == Only(a, <<b, "token">>, n)
             st == Only(a, <<s, "token">>, n)
             sc == Only(a, <<s, "cash">>, q)
             L == txn.wallet.locked[a]
             E == txn.earned[a]
             P == PledgedIn(txn.orders, a)
             S == Slack(j, a)
  <2>1. /\ txn'.wallet.locked[a] = L - x + bt - st + sc - r
        /\ txn'.earned[a] = E + bt + sc
        /\ L \in Int /\ E \in Int /\ n \in Nat /\ q \in Int
    BY <1>3, FillLocked
  <2>2. PledgedIn(txn'.orders, a) = P - y - st
    BY <1>3, FillPledged
  <2>3. x \in Int /\ r \in Int /\ y \in Int /\ S \in Int /\ Slack(k, a) = S - (x + r) + y
    BY <1>3, FillPays
  <2>4. bt \in Int /\ st \in Int /\ sc \in Int
    <3> HIDE DEF q, n
    <3> QED BY <2>1, OnlyType
  <2>5. worker'[w] = k /\ txn.orders \in Seq(OrderRow)
    BY <1>3, FillFacts, JobFacts
  <2>6. P \in Int /\ Aside(a) \in Int
    BY <1>0, <2>5, PledgedType, AsideType
  <2>7. Aside(a)' = Aside(a)
    <3>1. UNCHANGED <<handler, orphaned>>
      BY <1>3 DEF Fill, lost
    <3>2. InFlightTo(a)' = InFlightTo(a) /\ \A h \in InFlightTo(a) : InFlight(h)' = InFlight(h)
      BY <3>1 DEF InFlightTo, InFlight
    <3> QED BY <3>1, <3>2 DEF Aside, InFlightOn
  <2>8. L = Aside(a) + P + E + S
    BY <1>3 DEF LockedInv
  <2>9. PledgedIn(txn.orders, a)' = P - y - st /\ Slack(worker[w], a)' = S - (x + r) + y
    <3>1. PledgedIn(txn.orders, a)' = PledgedIn(txn'.orders, a) /\ Slack(worker[w], a)' = Slack(worker'[w], a)
      BY DEF PledgedIn, PledgersIn, Slack
    <3> HIDE DEF P, y, st, S, x, r, k
    <3> QED BY <2>2, <2>3, <2>5, <3>1
  <2> HIDE DEF P, y, st, S, x, r, k, bt, sc, L, E, b, s, q, n
  <2>10. txn'.wallet.locked[a] = Aside(a) + (P - y - st) + (E + bt + sc) + (S - (x + r) + y)
    BY <2>1, <2>3, <2>4, <2>6, <2>8
  <2> QED BY <2>1, <2>7, <2>9, <2>10 DEF AccountedInTxn
<1> QED BY <1>1, <1>2, <1>3, OpenStays

\* A step that writes neither the committed tables nor what they do not account for.
LEMMA AccountedStays ==
  ASSUME UNCHANGED <<orders, wallet, earned>>, NEW a \in Accounts, Aside(a)' = Aside(a), Accounted(a)
  PROVE  Accounted(a)'
BY DEF Accounted, PledgedIn, PledgersIn

LEMMA NextAccounted ==
  ASSUME Base, WroteInv, LockedInv, [Next]_vars, NEW a \in Accounts
  PROVE  Accounted(a)'
<1>1. Typed /\ CreateOnly /\ \A h \in Handlers : handler[h].step \notin {"reprice", "cancel"}
  BY DEF Base, AgreedInv
<1>2. ASSUME NEW h \in Handlers, StoreOrder(h) \/ \E q \in OrderRequests : LockFunds(h, q)
      PROVE  Accounted(a)'
  BY <1>2, StoreOrderLocked, LockFundsLocked
<1>3. CASE \A h \in Handlers : ~StoreOrder(h) /\ \A q \in OrderRequests : ~LockFunds(h, q)
  <2>1. Aside(a)' = Aside(a) /\ Accounted(a)
    BY <1>3, AsideStays DEF LockedInv, Accounted
  <2>2. ASSUME NEW w \in Workers, Commit(w) PROVE Accounted(a)'
    BY <2>1, <2>2, CommitLocked
  <2>3. CASE UNCHANGED <<orders, wallet, earned>>
    BY <2>1, <2>3, AccountedStays
  <2>4. ASSUME NEW h \in Handlers, HandlerCall(h) \/ HandlerStep(h) PROVE UNCHANGED <<orders, wallet, earned>>
    BY <1>1, <1>3, <2>4 DEF HandlerCall, HandlerStep, CreateOnly, QueueOrder, CreateThrows, WritePrice,
                            CancelOrder, RequestThrows, ReadForCancel, ReadForUpdate, store
  <2>5. ASSUME NEW w \in Workers, WorkerStep(w) \/ JobThrows(w), ~Commit(w)
        PROVE  UNCHANGED <<orders, wallet, earned>>
    BY <2>5 DEF WorkerStep, TakeJob, ReadBook, Begin, MatchNext, Fill, FillThrows, LeftoverThrows,
                RecordTrades, JobThrows, Retry, RollBack, store
  <2>6. CASE Restart \/ Rest \/ UNCHANGED vars \/ \E o \in Orders : Promote(o)
    BY <2>3, <2>6 DEF Restart, RollBack, Rest, Promote, vars, store
  <2> QED BY <2>2, <2>3, <2>4, <2>5, <2>6 DEF Next
<1> QED BY <1>2, <1>3

\* What a request carries is a new order, and a job that has read its book has
\* spent nothing.
LEMMA NewlyRead ==
  ASSUME Base, LockedInv, [Next]_vars
  PROVE  /\ \A h \in Handlers : handler'[h].step = "locked" => handler'[h].order.status = "OPEN"
         /\ \A w \in Workers : worker'[w].phase = "read" => worker'[w].spent = 0
<1>1. /\ handler \in [Handlers -> HandlerType] /\ worker \in [Workers -> JobType] /\ Typed
      /\ \A h \in Handlers : handler[h].step = "locked" => handler[h].order.status = "OPEN"
      /\ \A w \in Workers : worker[w].phase = "read" => worker[w].spent = 0
  BY DEF Base, Typed, StoreInv, HandlerInv, LockedInv
<1> DEFINE H == \A h \in Handlers : handler'[h].step = "locked" => handler'[h].order.status = "OPEN"
           W == \A w \in Workers : worker'[w].phase = "read" => worker'[w].spent = 0
<1>2. Idle.step # "locked" /\ NoJob.phase # "read"
  BY IdleType, NoJobType
<1>3. ASSUME NEW h \in Handlers, NEW v, handler' = [handler EXCEPT ![h] = v], v.step # "locked"
      PROVE  H
  BY <1>1, <1>3
<1>4. ASSUME NEW w \in Workers, NEW j, worker' = [worker EXCEPT ![w] = j], j.phase = "read" => j.spent = 0
      PROVE  W
  BY <1>1, <1>4
<1>5. worker' = worker => W
  BY <1>1
<1>6. handler' = handler => H
  BY <1>1
<1> HIDE DEF H, W
<1>7. ASSUME NEW h \in Handlers, HandlerCall(h) \/ HandlerStep(h) PROVE H /\ W
  <2>1. worker' = worker
    BY <1>7 DEF HandlerCall, HandlerStep, LockFunds, StoreOrder, QueueOrder, CreateThrows, WritePrice,
                CancelOrder, RequestThrows, ReadForCancel, ReadForUpdate
  <2>2. ASSUME NEW q \in OrderRequests, LockFunds(h, q) PROVE H
    <3> DEFINE v == [step |-> "locked", order |-> NewOrder(q)]
    <3>1. handler' = [handler EXCEPT ![h] = v]
      BY <2>2 DEF LockFunds
    <3>2. v.order.status = "OPEN"
      BY DEF NewOrder
    <3> HIDE DEF v
    <3> QED BY <1>1, <3>1, <3>2 DEF H
  <2>3. ASSUME StoreOrder(h) PROVE H
    <3> DEFINE v == [step |-> "stored", id |-> Len(orders) + 1]
    <3>1. handler' = [handler EXCEPT ![h] = v] /\ v.step # "locked"
      BY <2>3 DEF StoreOrder
    <3> HIDE DEF v
    <3> QED BY <1>3, <3>1
  <2>4. ASSUME QueueOrder(h) \/ CreateThrows(h) \/ WritePrice(h) \/ CancelOrder(h) \/ RequestThrows(h)
        PROVE  H
    <3>1. handler' = [handler EXCEPT ![h] = Idle]
      BY <2>4 DEF QueueOrder, CreateThrows, WritePrice, CancelOrder, RequestThrows
    <3> QED BY <1>2, <1>3, <3>1
  <2>5. ASSUME NEW o, ReadForCancel(h, o) PROVE H
    <3> DEFINE v == [step |-> "cancel", id |-> o, price |-> orders[o].price,
                     remaining |-> orders[o].quantity - orders[o].filled]
    <3>1. handler' = [handler EXCEPT ![h] = v] /\ v.step # "locked"
      BY <2>5 DEF ReadForCancel
    <3> HIDE DEF v
    <3> QED BY <1>3, <3>1
  <2>6. ASSUME NEW o, NEW p, ReadForUpdate(h, o, p) PROVE H
    <3> DEFINE v == [step |-> "reprice", id |-> o, price |-> p]
    <3>1. handler' = [handler EXCEPT ![h] = v] /\ v.step # "locked"
      BY <2>6 DEF ReadForUpdate
    <3> HIDE DEF v
    <3> QED BY <1>3, <3>1
  <2> QED BY <1>5, <1>7, <2>1, <2>2, <2>3, <2>4, <2>5, <2>6 DEF HandlerCall, HandlerStep
<1>8. ASSUME NEW w \in Workers, WorkerStep(w) \/ JobThrows(w) PROVE H /\ W
  <2>1. handler' = handler
    BY <1>8 DEF WorkerStep, TakeJob, ReadBook, Begin, MatchNext, Fill, FillThrows, Commit, LeftoverThrows,
                RecordTrades, JobThrows
  <2>2. ASSUME ReadBook(w) PROVE W
    <3> DEFINE j == [phase |-> "read", id |-> worker[w].id, taker |-> worker[w].taker,
                     book |-> Book(worker[w].taker), remaining |-> worker[w].taker.quantity, spent |-> 0]
    <3>1. worker' = [worker EXCEPT ![w] = j] /\ j.spent = 0
      BY <2>2 DEF ReadBook
    <3> HIDE DEF j
    <3> QED BY <1>4, <3>1
  <2>3. ASSUME ~ReadBook(w) PROVE W
    <3>1. \A v \in Workers : worker'[v].phase = "read" => worker'[v] = worker[v]
      <4>1. CASE TakeJob(w)
        BY <1>1, <1>2, <4>1 DEF TakeJob
      <4>2. CASE Begin(w)
        BY <1>1, <4>2, BeginWrites DEF Begin
      <4>3. CASE RecordTrades(w) \/ JobThrows(w) \/ LeftoverThrows(w) \/ \E m \in worker[w].book : FillThrows(w, m)
        <5>1. worker' = [worker EXCEPT ![w] = NoJob]
          BY <4>3 DEF RecordTrades, JobThrows, LeftoverThrows, FillThrows, Retry, Drop, Complete
        <5> QED BY <1>1, <1>2, <5>1
      <4>4. CASE Commit(w)
        BY <1>1, <4>4 DEF Commit
      <4>5. ASSUME NEW m \in worker[w].book, Fill(w, m)
            PROVE  \A v \in Workers : worker'[v].phase = "read" => worker'[v] = worker[v]
        BY <1>1, <4>5 DEF Fill
      <4> QED BY <1>8, <2>3, <4>1, <4>2, <4>3, <4>4, <4>5 DEF WorkerStep, MatchNext
    <3> QED BY <1>1, <3>1 DEF W
  <2> QED BY <1>6, <2>1, <2>2, <2>3
<1>9. ASSUME Restart PROVE H /\ W
  BY <1>2, <1>9 DEF Restart, H, W
<1>10. ASSUME Rest \/ UNCHANGED vars \/ \E o \in Orders : Promote(o) PROVE H /\ W
  <2>1. handler' = handler /\ worker' = worker
    BY <1>10 DEF Rest, Promote, vars
  <2> QED BY <1>5, <1>6, <2>1
<1>11. H /\ W
  BY <1>7, <1>8, <1>9, <1>10 DEF Next
<1> QED BY <1>11 DEF H, W

LEMMA NextLocked == ASSUME Base, WroteInv, LockedInv, [Next]_vars PROVE LockedInv'
<1>1. \A a \in Accounts : Accounted(a)'
  BY NextAccounted
<1>2. \A w \in Workers : worker'[w].phase = "matching" => \A a \in Accounts : AccountedInTxn(worker[w], a)'
  BY OpenLocked
<1>3. /\ \A h \in Handlers : handler'[h].step = "locked" => handler'[h].order.status = "OPEN"
      /\ \A w \in Workers : worker'[w].phase = "read" => worker'[w].spent = 0
  BY NewlyRead
<1> QED BY <1>1, <1>2, <1>3 DEF LockedInv, Accounted, AccountedInTxn

LEMMA InitLocked == Init => LockedInv /\ WroteInv
<1> SUFFICES ASSUME Init PROVE LockedInv /\ WroteInv
  OBVIOUS
<1>1. /\ orders = <<>> /\ wallet = OpenWallet /\ handler = [h \in Handlers |-> Idle]
      /\ worker = [w \in Workers |-> NoJob] /\ earned = Nothing /\ orphaned = Nothing
  BY DEF Init
<1>2. \A w \in Workers : worker[w].phase = "idle"
  BY <1>1, NoJobType
<1>3. \A h \in Handlers : handler[h].step = "idle"
  BY <1>1, IdleType
<1>4. ASSUME NEW a \in Accounts PROVE wallet.locked[a] = Aside(a) + PledgedIn(orders, a) + earned[a]
  <2>1. InFlightTo(a) = {} /\ PledgersIn(orders, a) = {}
    BY <1>1, <1>3 DEF InFlightTo, PledgersIn
  <2>2. InFlightOn(a) = 0 /\ PledgedIn(orders, a) = 0
    BY <2>1, SumEmpty DEF InFlightOn, PledgedIn
  <2>3. earned[a] = 0 /\ orphaned[a] = 0 /\ wallet.locked[a] = OpeningLocked[a]
    BY <1>1 DEF Nothing, OpenWallet
  <2>4. OpeningLocked[a] \in Int
    BY TradingAssumption
  <2> QED BY <2>2, <2>3, <2>4 DEF Aside
<1> QED BY <1>2, <1>3, <1>4 DEF LockedInv, WroteInv

LEMMA AccountedFor == ASSUME Typed, LockedInv PROVE LockedIsAccountedFor
<1> SUFFICES ASSUME NEW a \in Accounts
             PROVE  wallet.locked[a] = OpeningLocked[a] + Pledged(a) + InFlightOn(a) + orphaned[a] + earned[a]
  BY DEF LockedIsAccountedFor
<1>1. wallet.locked[a] = Aside(a) + PledgedIn(orders, a) + earned[a]
  BY DEF LockedInv
<1>2. PledgedTo(a) = PledgersIn(orders, a) /\ \A o : PledgeOf(o) = PledgeOfRow(orders[o])
  BY DEF PledgedTo, PledgersIn, Live, LiveRow, PledgeOf, PledgeOfRow, Remaining
<1>3. Pledged(a) = PledgedIn(orders, a)
  BY <1>2 DEF Pledged, PledgedIn
<1> QED BY <1>1, <1>3, AsideType DEF Aside

\* What is known while users only create orders and one worker matches.
LEMMA AlwaysBase == OneWorker /\ CreateOnly => (Spec => []Base)
<1> SUFFICES ASSUME OneWorker, CreateOnly PROVE Spec => []Base
  OBVIOUS
<1>1. Init => Inv /\ AgreedInv
  BY InitInv, InitAgreed
<1>2. Inv /\ AgreedInv /\ [Next]_vars => Inv' /\ AgreedInv'
  BY NextInv, NextAgreed
<1>3. Typed /\ PlaceInv /\ Inv /\ AgreedInv => Base
  BY DEF Base
<1> QED BY <1>1, <1>2, <1>3, AlwaysTyped, AlwaysPlaced, PTL DEF Spec

LEMMA AlwaysWrote == OneWorker /\ CreateOnly => (Spec => []WroteInv)
<1> SUFFICES ASSUME OneWorker, CreateOnly PROVE Spec => []WroteInv
  OBVIOUS
<1>1. Init => WroteInv
  BY InitLocked
<1>2. Base /\ WroteInv /\ [Next]_vars => WroteInv'
  BY NextWrote
<1>3. Spec => []Base
  BY AlwaysBase
<1> QED BY <1>1, <1>2, <1>3, PTL DEF Spec

\* While users only create orders and one worker matches: what an account has
\* locked is what its live orders pledge, what requests have set aside, and what
\* trades have paid in, to the last unit and after every committed step.
THEOREM LockedAccountedFor == OneWorker /\ CreateOnly => (Spec => []LockedIsAccountedFor)
<1> SUFFICES ASSUME OneWorker, CreateOnly PROVE Spec => []LockedIsAccountedFor
  OBVIOUS
<1>1. Init => LockedInv
  BY InitLocked
<1>2. Base /\ WroteInv /\ LockedInv /\ [Next]_vars => LockedInv'
  BY NextLocked
<1>3. Base /\ LockedInv => LockedIsAccountedFor
  BY AccountedFor DEF Base
<1>4. Spec => []Base
  BY AlwaysBase
<1>5. Spec => []WroteInv
  BY AlwaysWrote
<1> QED BY <1>1, <1>2, <1>3, <1>4, <1>5, PTL DEF Spec

------------------------------------------------------------------------------
(***************************************************************************)
(* The best order first                                                    *)
(***************************************************************************)
\* An order whose turn comes before or with the job's: open when it was read.
Turn(j, o) == o < j.id /\ orders[o].status = "OPEN" /\ Crosses(j.id, o)

InBook(j, o) == \E m \in j.book : m.id = o

\* A committed row in the form the book has it.
Resting(o) == [id |-> o, row |-> orders[o]]

\* The job can take nothing more that is as expensive as the order o.
Closed(j, o) ==
  j.remaining = 0 \/ (MarketBuy(j.taker) /\ Budget(j.taker) - j.spent < orders[o].price)

\* The orders that the job has taken come before those it has not, and only the
\* last of them is not taken completely.
InTurn(j) ==
  /\ \A f \in txn.fills : f.maker \in 1 .. Len(orders)
  /\ \A f \in txn.fills, m \in j.book : Precedes(j.taker, Resting(f.maker), m)
  /\ \A g \in txn.fills :
       \/ Exhausted(g.maker)
       \/ /\ Closed(j, g.maker)
          /\ \A f \in txn.fills : f.maker = g.maker \/ Precedes(j.taker, Resting(f.maker), Resting(g.maker))

TurnInv ==
  \A w \in Workers :
    /\ worker[w].phase \in {"read", "matching"} =>
         \A o \in 1 .. Len(orders) :
           Turn(worker[w], o) => \/ InBook(worker[w], o)
                                 \/ worker[w].phase = "matching" /\ Maker(o)
    /\ worker[w].phase = "matching" => InTurn(worker[w])

(***************************************************************************)
(* The book stays uncrossed                                                *)
(***************************************************************************)
\* The job of an order is still to come to a result.
Pending(p) ==
  \/ \E i \in 1 .. Len(waiting) : waiting[i] = p
  \/ p \in delayed
  \/ \E h \in Queueing : handler[h].id = p
  \/ \E w \in Workers : worker[w].phase \in {"taken", "read", "matching"} /\ worker[w].id = p

\* Two open LIMIT orders that cross, the second one newer.
Crossed(o, p) ==
  /\ o < p /\ orders[o].status = "OPEN" /\ orders[p].status = "OPEN"
  /\ orders[o].type = "LIMIT" /\ orders[p].type = "LIMIT" /\ Crosses(p, o)

GivenUp(p) == p \in unqueued \/ attempts[p] = MaxAttempts

UncrossedInv ==
  \A o, p \in 1 .. Len(orders) : Crossed(o, p) => GivenUp(p) \/ Pending(p)

------------------------------------------------------------------------------
\* Only the commit of a job changes a row.
LEMMA RowsStay ==
  ASSUME Base, [Next]_vars, \A w \in Workers : ~Commit(w)
  PROVE  /\ Len(orders) \in Nat /\ Len(orders') \in Nat /\ Len(orders) <= Len(orders')
         /\ \A o \in 1 .. Len(orders) : orders'[o] = orders[o]
         /\ orders' = orders \/ \E h \in Handlers : StoreOrder(h)
<1>1. Typed /\ CreateOnly /\ \A h \in Handlers : handler[h].step \notin {"reprice", "cancel"}
  BY DEF Base, AgreedInv
<1>2. orders \in Seq(OrderRow) /\ Len(orders) \in Nat /\ handler \in [Handlers -> HandlerType]
  BY <1>1, LenProperties DEF Typed, StoreInv, Table, HandlerInv
<1>3. orders' = orders \/ \E h \in Handlers : StoreOrder(h)
  <2>1. ASSUME NEW h \in Handlers, HandlerCall(h) \/ HandlerStep(h), ~StoreOrder(h) PROVE orders' = orders
    BY <1>1, <2>1 DEF HandlerCall, HandlerStep, CreateOnly, LockFunds, QueueOrder, CreateThrows, WritePrice,
                      CancelOrder, RequestThrows, ReadForCancel, ReadForUpdate, store
  <2>2. ASSUME NEW w \in Workers, WorkerStep(w) \/ JobThrows(w) PROVE orders' = orders
    BY <2>2 DEF WorkerStep, TakeJob, ReadBook, Begin, MatchNext, Fill, FillThrows, LeftoverThrows,
                RecordTrades, JobThrows, Retry, RollBack, store
  <2>3. CASE Restart \/ Rest \/ UNCHANGED vars \/ \E o \in Orders : Promote(o)
    BY <2>3 DEF Restart, RollBack, Rest, Promote, vars, store
  <2> QED BY <2>1, <2>2, <2>3 DEF Next
<1>4. ASSUME NEW h \in Handlers, StoreOrder(h)
      PROVE  Len(orders') = Len(orders) + 1 /\ \A o \in 1 .. Len(orders) : orders'[o] = orders[o]
  <2>1. handler[h].order \in OrderRow /\ orders' = Append(orders, handler[h].order)
    BY <1>2, <1>4 DEF StoreOrder, HandlerType, Idle
  <2> QED BY <1>2, <2>1, AppendProperties
<1> QED BY <1>2, <1>3, <1>4

LEMMA ReadStays ==
  ASSUME Base, [Next]_vars, NEW w \in Workers, worker'[w].phase = "read"
  PROVE  \/ worker[w].phase = "read" /\ worker'[w] = worker[w] /\ \A v \in Workers : ~Commit(v)
         \/ ReadBook(w)
<1>1. worker \in [Workers -> JobType] /\ \A v \in Workers : v = w
  BY DEF Base, Typed, OneWorker
<1>2. NoJob.phase # "read"
  BY NoJobType
<1>3. ~Commit(w)
  BY <1>1 DEF Commit
<1>4. CASE \E v \in Workers : WorkerStep(v) \/ JobThrows(v)
  <2>1. WorkerStep(w) \/ JobThrows(w)
    BY <1>1, <1>4
  <2>2. CASE TakeJob(w)
    BY <1>1, <1>2, <2>2 DEF TakeJob
  <2>3. CASE Begin(w)
    BY <1>1, <2>3, BeginWrites DEF Begin
  <2>4. CASE RecordTrades(w) \/ JobThrows(w) \/ LeftoverThrows(w) \/ \E m \in worker[w].book : FillThrows(w, m)
    <3>1. worker' = [worker EXCEPT ![w] = NoJob]
      BY <2>4 DEF RecordTrades, JobThrows, LeftoverThrows, FillThrows, Retry, Drop, Complete
    <3> QED BY <1>1, <1>2, <3>1
  <2>5. ASSUME NEW m \in worker[w].book, Fill(w, m) PROVE FALSE
    BY <1>1, <2>5 DEF Fill
  <2> QED BY <1>3, <2>1, <2>2, <2>3, <2>4, <2>5 DEF WorkerStep, MatchNext
<1>5. CASE Restart
  BY <1>2, <1>5 DEF Restart
<1>6. CASE UNCHANGED worker
  BY <1>1, <1>3, <1>6
<1>7. ASSUME NEW h \in Handlers, HandlerCall(h) \/ HandlerStep(h) PROVE UNCHANGED worker
  BY <1>7 DEF HandlerCall, HandlerStep, LockFunds, StoreOrder, QueueOrder, CreateThrows, WritePrice,
              CancelOrder, RequestThrows, ReadForCancel, ReadForUpdate
<1>8. CASE Rest \/ UNCHANGED vars \/ \E o \in Orders : Promote(o)
  BY <1>6, <1>8 DEF Rest, Promote, vars
<1> QED BY <1>4, <1>5, <1>6, <1>7, <1>8 DEF Next

\* A job reads every order whose turn it is.
LEMMA BookHoldsTurns ==
  ASSUME Base, NEW w \in Workers, ReadBook(w), NEW o \in 1 .. Len(orders), Turn(worker[w], o)
  PROVE  \E m \in Book(worker[w].taker) : m.id = o
<1> DEFINE t == worker[w].taker
<1>1. Typed /\ orders \in Seq(OrderRow) /\ Len(orders) \in Nat /\ o \in DOMAIN orders
  BY LenProperties DEF Base, Typed, StoreInv, Table
<1>2. orders[worker[w].id] = t
  BY DEF Base, AgreedInv, JobAgreed, ReadBook
<1>3. orders[o] \in OrderRow /\ orders[o].status = "OPEN"
  BY <1>1, ElementOfSeq DEF Turn
<1>4. orders[o].filled = 0
  BY <1>1, <1>3 DEF Base, Inv, RowsInv, Rows
<1>5. orders[o].quantity - orders[o].filled > 0
  BY <1>3, <1>4, RowTerms
<1>6. o \in Matchable(t)
  BY <1>1, <1>2, <1>3 DEF Turn, Crosses, Agrees, Matchable
<1>7. [id |-> o, row |-> orders[o]] \in Book(t)
  BY <1>5, <1>6 DEF Book
<1> QED BY <1>7

LEMMA NextTurns ==
  ASSUME Base, WroteInv, TurnInv, [Next]_vars, NEW w \in Workers,
         worker'[w].phase \in {"read", "matching"}, NEW o \in 1 .. Len(orders'), Turn(worker[w], o)'
  PROVE  \/ InBook(worker[w], o)'
         \/ worker'[w].phase = "matching" /\ Maker(o)'
<1>1. worker \in [Workers -> JobType] /\ \A v \in Workers : worker[v].phase # "idle" => Known(worker[v].id)
  BY DEF Base, Typed, JobTyped
<1>2. o \in Nat /\ o > 0
  <2>1. Len(orders') \in Nat
    <3>1. Typed'
      BY NextTyped DEF Base
    <3> QED BY <3>1, LenProperties DEF Typed, StoreInv, Table
  <2> QED BY <2>1
<1>3. CASE ReadBook(w)
  <2> DEFINE j == worker[w]
             k == [phase |-> "read", id |-> j.id, taker |-> j.taker,
                   book |-> Book(j.taker), remaining |-> j.taker.quantity, spent |-> 0]
  <2>1. worker' = [worker EXCEPT ![w] = k] /\ orders' = orders /\ j.phase = "taken"
    BY <1>3 DEF ReadBook, store
  <2>2. worker'[w] = k
    BY <1>1, <2>1
  <2>3. k.id = j.id /\ k.book = Book(j.taker)
    OBVIOUS
  <2> HIDE DEF k
  <2>4. Turn(j, o)
    BY <2>1, <2>2, <2>3 DEF Turn, Crosses, Agrees
  <2>5. \E m \in Book(j.taker) : m.id = o
    BY <1>3, <2>1, <2>4, BookHoldsTurns
  <2> QED BY <2>2, <2>3, <2>5 DEF InBook
<1>4. CASE worker[w].phase = "read" /\ worker'[w] = worker[w] /\ \A v \in Workers : ~Commit(v)
  <2>1. \A p \in 1 .. Len(orders) : orders'[p] = orders[p]
    BY <1>4, RowsStay
  <2>2. worker'[w].id = worker[w].id /\ Known(worker[w].id)
    BY <1>1, <1>4
  <2>3. o \in 1 .. Len(orders) /\ Turn(worker[w], o)
    <3>1. StoreInv /\ Len(orders) \in Nat
      BY LenProperties DEF Base, Typed, StoreInv, Table
    <3>2. worker[w].id \in 1 .. Len(orders)
      BY <2>2, <3>1, RowTyped
    <3>3. o < worker[w].id
      BY <2>2 DEF Turn
    <3>4. o \in 1 .. Len(orders)
      BY <1>2, <3>1, <3>2, <3>3
    <3> QED BY <2>1, <2>2, <3>2, <3>4 DEF Turn, Crosses, Agrees
  <2>4. InBook(worker[w], o)
    BY <1>4, <2>3 DEF TurnInv
  <2> QED BY <1>4, <2>4 DEF InBook
<1>5. CASE worker[w].phase = "matching" /\ UNCHANGED <<orders, wallet, earned, worker, txn>>
  <2>1. Turn(worker[w], o)
    BY <1>5 DEF Turn, Crosses, Agrees
  <2>2. InBook(worker[w], o) \/ Maker(o)
    BY <1>5, <2>1 DEF TurnInv
  <2> QED BY <1>5, <2>2 DEF InBook, Maker
<1>6. CASE Begin(w)
  <2>1. /\ worker[w].phase = "read" /\ worker'[w].id = worker[w].id /\ worker'[w].book = worker[w].book
        /\ orders' = orders
    BY <1>6, BeginWrites
  <2>2. Turn(worker[w], o)
    BY <2>1 DEF Turn, Crosses, Agrees
  <2>3. InBook(worker[w], o)
    BY <2>1, <2>2 DEF TurnInv
  <2> QED BY <2>1, <2>3 DEF InBook
<1>7. ASSUME NEW m \in worker[w].book, worker[w].phase = "matching", Fill(w, m)
      PROVE  worker'[w].phase = "matching" /\ (InBook(worker[w], o)' \/ Maker(o)')
  <2> DEFINE j == worker[w]
             n == MatchableQuantity(j, m)
             k == Took(j, m, n)
             f == [taker |-> j.id, maker |-> m.id, price |-> m.row.price, quantity |-> n]
  <2>1. orders' = orders /\ txn'.fills = txn.fills \cup {f}
    BY <1>7 DEF Fill, store
  <2>0. worker'[w] = k
    BY <1>7, FillFacts
  <2>2. k.id = j.id /\ k.book = j.book \ {m} /\ k.phase = "matching"
    BY DEF Took
  <2>3. f.maker = m.id
    OBVIOUS
  <2> HIDE DEF f, k, n
  <2>4. Turn(j, o)
    BY <2>0, <2>1, <2>2 DEF Turn, Crosses, Agrees
  <2>5. InBook(j, o) \/ Maker(o)
    BY <1>7, <2>1, <2>4 DEF TurnInv
  <2> QED BY <2>0, <2>1, <2>2, <2>3, <2>5 DEF InBook, Maker
<1>8. CASE worker'[w].phase = "read"
  BY <1>3, <1>4, <1>8, ReadStays
<1>9. CASE worker'[w].phase = "matching"
  BY <1>5, <1>6, <1>7, <1>9, OpenStays
<1> QED BY <1>8, <1>9

LEMMA AtLeastOnce == ASSUME NEW n \in Nat, n > 0, NEW p \in Nat PROVE n * p >= p
OBVIOUS

LEMMA LessThanOne == ASSUME NEW a \in Nat, NEW p \in Nat, p > 0 PROVE a - (a \div p) * p < p
OBVIOUS

\* A job that is closed to a price takes nothing at it or above.
LEMMA ClosedTakesNothing ==
  ASSUME Base, NEW w \in Workers, worker[w].phase = "matching", NEW m \in worker[w].book,
         Takes(worker[w], m), NEW o, Closed(worker[w], o), orders[o].price \in Nat,
         MarketBuy(worker[w].taker) => orders[o].price <= m.row.price
  PROVE  FALSE
<1> DEFINE j == worker[w]
           n == MatchableQuantity(j, m)
<1>1. Typed
  BY DEF Base
<1>2. /\ n \in Nat /\ n > 0 /\ m.row.price \in Nat /\ n * m.row.price \in Nat
      /\ MarketBuy(j.taker) => j.spent + n * m.row.price <= Budget(j.taker)
  BY <1>1, TakenTyped
<1>3. j.spent \in Nat /\ Budget(j.taker) \in Nat /\ j.remaining > 0
  BY JobFacts DEF Takes
<1> HIDE DEF n, j
<1>4. n * m.row.price >= m.row.price
  BY <1>2, AtLeastOnce
<1>5. MarketBuy(j.taker) /\ Budget(j.taker) - j.spent < orders[o].price
  BY <1>3 DEF Closed, j
<1> QED BY <1>2, <1>3, <1>4, <1>5 DEF j

\* A fill takes all of the maker or closes the job to its price.
LEMMA FillExhaustsOrCloses ==
  ASSUME Base, WroteInv, NEW w \in Workers, worker[w].phase = "matching", NEW m \in worker[w].book,
         Fill(w, m), NEW n, n = MatchableQuantity(worker[w], m), NEW k, k = Took(worker[w], m, n)
  PROVE  \/ n = m.row.quantity
         \/ k.remaining = 0
         \/ MarketBuy(k.taker) /\ Budget(k.taker) - k.spent < m.row.price
<1> DEFINE j == worker[w]
           both == Smaller(j.remaining, m.row.quantity - m.row.filled)
           left == Budget(j.taker) - j.spent
<1>1. /\ k.remaining = j.remaining - n /\ k.taker = j.taker
      /\ MarketBuy(j.taker) => k.spent = j.spent + n * m.row.price
  BY DEF Took
<1>2. /\ m.row.filled = 0 /\ m.row.quantity \in Nat /\ m.row.price \in Nat
      /\ j.remaining \in Nat /\ j.spent \in Nat /\ Budget(j.taker) \in Nat
      /\ MarketBuy(j.taker) => j.spent <= Budget(j.taker)
  BY JobFacts, MakerFacts
<1>3. n \in Nat
  BY FillFacts
<1> HIDE DEF j
<1>4. both \in Nat /\ (both = j.remaining \/ both = m.row.quantity)
  BY <1>2 DEF Smaller
<1>5. n = IF MarketBuy(j.taker) /\ j.spent + both * m.row.price > Budget(j.taker)
          THEN left \div m.row.price ELSE both
  BY DEF MatchableQuantity, j
<1>6. CASE ~(MarketBuy(j.taker) /\ j.spent + both * m.row.price > Budget(j.taker))
  BY <1>1, <1>2, <1>4, <1>5, <1>6
<1>7. CASE MarketBuy(j.taker) /\ j.spent + both * m.row.price > Budget(j.taker)
  <2> HIDE DEF both
  <2>1. m.row.price > 0
    BY <1>2, <1>4, <1>7
  <2>2. left \in Nat /\ n = left \div m.row.price
    BY <1>2, <1>5, <1>7
  <2>3. left - n * m.row.price < m.row.price
    BY <1>2, <2>1, <2>2, LessThanOne
  <2>4. n * m.row.price \in Nat
    BY <1>2, <1>3
  <2>5. Budget(k.taker) - k.spent = left - n * m.row.price
    BY <1>1, <1>2, <1>7, <2>4
  <2> QED BY <1>1, <1>7, <2>3, <2>5
<1> QED BY <1>6, <1>7

LEMMA FillInTurn ==
  ASSUME Base, WroteInv, TurnInv, NEW w \in Workers, worker[w].phase = "matching",
         NEW m \in worker[w].book, Fill(w, m)
  PROVE  InTurn(worker[w])'
<1> DEFINE j == worker[w]
           n == MatchableQuantity(j, m)
           k == Took(j, m, n)
           f == [taker |-> j.id, maker |-> m.id, price |-> m.row.price, quantity |-> n]
<1>1. orders' = orders /\ txn'.fills = txn.fills \cup {f} /\ Takes(j, m)
  BY DEF Fill, store
<1>2. /\ worker'[w] = k /\ n \in Nat
      /\ \A o \in 1 .. Len(orders) :
           txn'.orders[o] = IF o = m.id THEN MakerRow(m.row, n)
                            ELSE IF o = j.id THEN TakerRow(k) ELSE txn.orders[o]
  BY FillFacts
<1>3. k.id = j.id /\ k.book = j.book \ {m} /\ k.taker = j.taker
  BY DEF Took
<1>4. f.maker = m.id
  OBVIOUS
<1>5. m.id \in 1 .. Len(orders) /\ orders[m.id] = m.row /\ m.row \in OrderRow /\ m.row.price \in Nat
  BY MakerFacts
<1>6. Resting(m.id) = m
  <2>1. m \in [id : Orders, row : OrderRow]
    BY MatchingTyped DEF Base
  <2> QED BY <1>5, <2>1 DEF Resting
<1>7. InTurn(j) /\ WroteBy(j)
  BY DEF TurnInv, WroteInv
<1>8. \A x \in j.book \ {m} : Precedes(j.taker, m, x)
  BY <1>1 DEF Takes, First
<1>9. n = m.row.quantity \/ k.remaining = 0
        \/ (MarketBuy(k.taker) /\ Budget(k.taker) - k.spent < m.row.price)
  BY FillExhaustsOrCloses
<1>10. ASSUME NEW g \in txn.fills PROVE Exhausted(g.maker)
  <2>1. g.maker \in 1 .. Len(orders) /\ Precedes(j.taker, Resting(g.maker), m)
    BY <1>7 DEF InTurn
  <2>2. orders[g.maker].price \in Nat
    <3>1. orders[g.maker] \in OrderRow
      BY <2>1, JobFacts, ElementOfSeq, LenProperties
    <3> QED BY <3>1 DEF OrderRow
  <2>3. MarketBuy(j.taker) => orders[g.maker].price <= m.row.price
    BY <1>5, <2>1, <2>2 DEF Precedes, Resting, MarketBuy
  <2>4. ~Closed(j, g.maker)
    BY <1>1, <2>2, <2>3, ClosedTakesNothing
  <2> QED BY <1>7, <2>4 DEF InTurn
<1> HIDE DEF f, k, n, j
<1>11. ASSUME NEW g \in txn.fills PROVE txn'.orders[g.maker].filled = orders[g.maker].quantity
  <2>1. g.maker # m.id /\ g.maker # j.id /\ g.maker \in 1 .. Len(orders)
    BY <1>7 DEF WroteBy, InTurn, j
  <2> QED BY <1>2, <1>10, <2>1 DEF Exhausted
<1>12. txn'.orders[m.id].filled = n
  <2>1. n \in Int
    BY <1>2
  <2>2. MakerRow(m.row, n).filled = n
    BY <1>5, <2>1, UpdatedTerms DEF MakerRow
  <2> QED BY <1>2, <1>5, <2>2
<1>13. ASSUME NEW g \in txn.fills PROVE Precedes(j.taker, Resting(g.maker), m)
  BY <1>7 DEF InTurn, j
<1>14. ASSUME NEW g \in txn'.fills PROVE g.maker \in 1 .. Len(orders')
  BY <1>1, <1>4, <1>5, <1>7, <1>14 DEF InTurn
<1>15. ASSUME NEW g \in txn'.fills, NEW x \in k.book
       PROVE  Precedes(k.taker, Resting(g.maker), x)
  <2>1. x \in j.book \ {m}
    BY <1>3
  <2>2. CASE g = f
    BY <1>3, <1>4, <1>6, <1>8, <2>1, <2>2
  <2>3. CASE g \in txn.fills
    BY <1>3, <1>7, <2>1, <2>3 DEF InTurn
  <2> QED BY <1>1, <2>2, <2>3
<1>16. ASSUME NEW g \in txn'.fills
       PROVE  \/ txn'.orders[g.maker].filled = orders'[g.maker].quantity
              \/ /\ Closed(k, g.maker)
                 /\ \A h \in txn'.fills : h.maker = g.maker
                                          \/ Precedes(k.taker, Resting(h.maker), Resting(g.maker))
  <2>1. CASE g \in txn.fills
    BY <1>1, <1>11, <2>1
  <2>2. CASE g = f /\ n = m.row.quantity
    BY <1>1, <1>4, <1>5, <1>12, <2>2
  <2>3. ASSUME g = f, n # m.row.quantity
        PROVE  /\ Closed(k, g.maker)
               /\ \A h \in txn'.fills : h.maker = g.maker
                                        \/ Precedes(k.taker, Resting(h.maker), Resting(g.maker))
    <3>1. Closed(k, m.id)
      BY <1>5, <1>9, <2>3 DEF Closed
    <3>2. ASSUME NEW h \in txn'.fills
          PROVE  h.maker = m.id \/ Precedes(k.taker, Resting(h.maker), Resting(m.id))
      BY <1>1, <1>3, <1>4, <1>6, <1>13, <3>2
    <3> QED BY <1>4, <2>3, <3>1, <3>2
  <2> QED BY <1>1, <2>1, <2>2, <2>3
<1> QED BY <1>1, <1>2, <1>14, <1>15, <1>16 DEF InTurn, Resting, Closed, Exhausted

LEMMA NextTurn == ASSUME Base, WroteInv, TurnInv, [Next]_vars PROVE TurnInv'
<1>1. ASSUME NEW w \in Workers, worker'[w].phase \in {"read", "matching"},
             NEW o \in 1 .. Len(orders'), Turn(worker[w], o)'
      PROVE  InBook(worker[w], o)' \/ (worker'[w].phase = "matching" /\ Maker(o)')
  BY <1>1, NextTurns
<1>2. ASSUME NEW w \in Workers, worker'[w].phase = "matching" PROVE InTurn(worker[w])'
  <2>1. CASE worker[w].phase = "matching" /\ UNCHANGED <<orders, wallet, earned, worker, txn>>
    BY <2>1 DEF TurnInv, InTurn, Resting, Closed, Exhausted
  <2>2. CASE Begin(w)
    BY <2>2, BeginWrites DEF InTurn
  <2>3. CASE worker[w].phase = "matching" /\ \E m \in worker[w].book : Fill(w, m)
    BY <2>3, FillInTurn
  <2> QED BY <1>2, <2>1, <2>2, <2>3, OpenStays
<1> QED BY <1>1, <1>2 DEF TurnInv

LEMMA BestFirst == ASSUME Base, WroteInv, TurnInv PROVE BestOrderFirst
<1> SUFFICES ASSUME txn # NoTxn, NEW f \in txn.fills, NEW o \in AheadOf(f.taker, f.maker),
                    orders[o].status = "OPEN"
             PROVE  Exhausted(o)
  BY DEF BestOrderFirst
<1>1. PICK w \in Workers : worker[w].phase = "matching"
  BY DEF Base, Inv, TxnInv
<1> DEFINE j == worker[w]
<1>2. WroteBy(j) /\ InTurn(j) /\ f.taker = j.id
  BY <1>1 DEF WroteInv, TurnInv, WroteBy
<1>3. /\ orders \in Seq(OrderRow) /\ Len(orders) \in Nat /\ orders[j.id] = j.taker
      /\ \A p \in 1 .. Len(orders) : orders[p] \in OrderRow
  BY <1>1, JobFacts, ElementOfSeq, LenProperties
<1>4. /\ o \in 1 .. Len(orders) /\ o < j.id /\ Crosses(j.id, o)
      /\ Precedes(j.taker, Resting(o), Resting(f.maker))
  <2>1. o \in 1 .. Len(orders) /\ o < j.id /\ Crosses(j.id, o)
    BY <1>2, <1>3, LenProperties DEF AheadOf
  <2> QED BY <1>2, <1>3, <2>1 DEF AheadOf, Precedes, Resting
<1>5. Turn(j, o)
  BY <1>4 DEF Turn
<1>6. f.maker \in 1 .. Len(orders)
  BY <1>2 DEF InTurn
<1>7. /\ orders[o].price \in Nat /\ orders[f.maker].price \in Nat /\ o \in Nat /\ f.maker \in Nat
  <2>1. orders[o] \in OrderRow /\ orders[f.maker] \in OrderRow
    BY <1>3, <1>4, <1>6
  <2>2. orders[o].price \in Nat /\ orders[f.maker].price \in Nat
    BY <2>1 DEF OrderRow
  <2> QED BY <1>3, <1>4, <1>6, <2>2
<1>8. ~Precedes(j.taker, Resting(f.maker), Resting(o)) /\ f.maker # o
  BY <1>4, <1>7 DEF Precedes, Resting
<1>9. ~InBook(j, o)
  <2> SUFFICES ASSUME NEW m \in j.book, m.id = o PROVE FALSE
    BY DEF InBook
  <2>1. Precedes(j.taker, Resting(f.maker), m)
    BY <1>2 DEF InTurn
  <2>2. orders[o] = m.row
    BY <1>1, MakerFacts
  <2> QED BY <1>8, <2>1, <2>2 DEF Precedes, Resting
<1>10. Maker(o)
  BY <1>1, <1>4, <1>5, <1>9 DEF TurnInv
<1>11. PICK g \in txn.fills : g.maker = o
  BY <1>10 DEF Maker
<1> QED BY <1>2, <1>8, <1>11 DEF InTurn

LEMMA InitTurn == Init => TurnInv /\ UncrossedInv
<1> SUFFICES ASSUME Init PROVE TurnInv /\ UncrossedInv
  OBVIOUS
<1>1. orders = <<>> /\ worker = [w \in Workers |-> NoJob]
  BY DEF Init
<1>2. \A w \in Workers : worker[w].phase = "idle"
  BY <1>1, NoJobType
<1>3. 1 .. Len(orders) = {}
  BY <1>1
<1> QED BY <1>2, <1>3 DEF TurnInv, UncrossedInv

\* An order trades only after all that come before it: while users only create
\* orders and one worker matches, a fill of matchOrder's transaction leaves no
\* open order of a better price, or of the same price and older, that is not
\* filled completely.
THEOREM TradesInTurn == OneWorker /\ CreateOnly => (Spec => []BestOrderFirst)
<1> SUFFICES ASSUME OneWorker, CreateOnly PROVE Spec => []BestOrderFirst
  OBVIOUS
<1>1. Init => TurnInv
  BY InitTurn
<1>2. Base /\ WroteInv /\ TurnInv /\ [Next]_vars => TurnInv'
  BY NextTurn
<1>3. Base /\ WroteInv /\ TurnInv => BestOrderFirst
  BY BestFirst
<1>4. Spec => []Base
  BY AlwaysBase
<1>5. Spec => []WroteInv
  BY AlwaysWrote
<1> QED BY <1>1, <1>2, <1>3, <1>4, <1>5, PTL DEF Spec

------------------------------------------------------------------------------
(***************************************************************************)
(* An order's job is not forgotten                                         *)
(***************************************************************************)
Followed(p) == GivenUp(p) \/ Pending(p)

\* Whatever was in the wait list, waiting for a backoff or given up still is.
LEMMA FollowedStays ==
  ASSUME NEW p, Followed(p), unqueued \subseteq unqueued',
         attempts[p] = MaxAttempts => attempts'[p] = MaxAttempts,
         \A i \in 1 .. Len(waiting) : waiting[i] = p => Followed(p)',
         p \in delayed => Followed(p)',
         \A h \in Queueing : handler[h].id = p => Followed(p)',
         \A w \in Workers : worker[w].phase \in {"taken", "read", "matching"} /\ worker[w].id = p => Followed(p)'
  PROVE  Followed(p)'
BY DEF Followed, GivenUp, Pending

LEMMA HandlerFollows ==
  ASSUME Base, NEW h \in Handlers, HandlerCall(h) \/ HandlerStep(h), NEW p, Followed(p)
  PROVE  Followed(p)'
<1>1. /\ handler \in [Handlers -> HandlerType] /\ waiting \in Seq(Orders) /\ Len(waiting) \in Nat
      /\ handler[h].step \notin {"reprice", "cancel"} /\ CreateOnly
      /\ \A g \in Queueing : g \in Handlers /\ Known(handler[g].id)
  BY PlacesKnown DEF Base, Typed, StoreInv, HandlerInv, AgreedInv
<1>2. CASE QueueOrder(h)
  <2>1. /\ waiting' = Append(waiting, handler[h].id) /\ handler' = [handler EXCEPT ![h] = Idle]
        /\ h \in Queueing /\ UNCHANGED <<delayed, attempts, worker, unqueued>>
    BY <1>2 DEF QueueOrder, Queueing, lost
  <2>2. handler[h].id \in Orders
    BY <1>1, <2>1 DEF Known
  <2>3. /\ Len(waiting') = Len(waiting) + 1 /\ waiting'[Len(waiting) + 1] = handler[h].id
        /\ \A i \in 1 .. Len(waiting) : waiting'[i] = waiting[i]
    BY <1>1, <2>1, <2>2, AppendProperties
  <2>4. \A i \in 1 .. Len(waiting) : i \in 1 .. Len(waiting')
    BY <1>1, <2>3
  <2>5. Len(waiting) + 1 \in 1 .. Len(waiting')
    BY <1>1, <2>3
  <2>6. \A g \in Queueing : g # h => g \in Queueing' /\ handler'[g] = handler[g]
    BY <2>1 DEF Queueing
  <2> QED BY <2>1, <2>3, <2>4, <2>5, <2>6 DEF Followed, GivenUp, Pending
<1>3. CASE CreateThrows(h)
  <2>1. /\ handler' = [handler EXCEPT ![h] = Idle]
        /\ handler[h].step = "stored" => handler[h].id \in unqueued'
        /\ unqueued \subseteq unqueued' /\ UNCHANGED <<waiting, delayed, attempts, worker>>
    BY <1>3 DEF CreateThrows, queue
  <2>2. \A g \in Queueing : g # h => g \in Queueing' /\ handler'[g] = handler[g]
    BY <2>1 DEF Queueing
  <2>3. h \in Queueing => handler[h].id \in unqueued'
    BY <2>1 DEF Queueing
  <2> QED BY <2>1, <2>2, <2>3 DEF Followed, GivenUp, Pending
<1>4. ASSUME NEW v, handler' = [handler EXCEPT ![h] = v], handler[h].step # "stored",
             UNCHANGED <<waiting, delayed, attempts, worker, unqueued>>
      PROVE  Followed(p)'
  <2>1. \A g \in Queueing : g \in Queueing' /\ handler'[g] = handler[g]
    BY <1>1, <1>4 DEF Queueing
  <2> QED BY <1>4, <2>1 DEF Followed, GivenUp, Pending
<1>5. CASE StoreOrder(h)
  <2> DEFINE v == [step |-> "stored", id |-> Len(orders) + 1]
  <2>1. /\ handler' = [handler EXCEPT ![h] = v] /\ handler[h].step # "stored"
        /\ UNCHANGED <<waiting, delayed, attempts, worker, unqueued>>
    BY <1>5 DEF StoreOrder, queue, lost
  <2> HIDE DEF v
  <2> QED BY <1>4, <2>1
<1>6. ASSUME NEW q \in OrderRequests, LockFunds(h, q) PROVE Followed(p)'
  <2> DEFINE v == [step |-> "locked", order |-> NewOrder(q)]
  <2>1. /\ handler' = [handler EXCEPT ![h] = v] /\ handler[h].step # "stored"
        /\ UNCHANGED <<waiting, delayed, attempts, worker, unqueued>>
    BY <1>6, IdleType DEF LockFunds, queue, lost
  <2> HIDE DEF v
  <2> QED BY <1>4, <2>1
<1>7. ~RequestThrows(h) /\ ~WritePrice(h) /\ ~CancelOrder(h)
  BY <1>1 DEF RequestThrows, WritePrice, CancelOrder
<1>8. \A o \in Orders : ~ReadForCancel(h, o) /\ \A q \in Band : ~ReadForUpdate(h, o, q)
  BY <1>1 DEF CreateOnly, ReadForCancel, ReadForUpdate
<1> QED BY <1>2, <1>3, <1>5, <1>6, <1>7, <1>8 DEF HandlerCall, HandlerStep

LEMMA RetryFollows ==
  ASSUME Base, NEW w \in Workers, Retry(w), worker[w] # NoJob, UNCHANGED <<handler, waiting, unqueued>>,
         NEW p \in Orders, Followed(p)
  PROVE  Followed(p)'
<1> DEFINE o == worker[w].id
<1>1. /\ worker' = [worker EXCEPT ![w] = NoJob]
      /\ attempts' = [attempts EXCEPT ![o] = @ + 1]
      /\ delayed' = IF attempts[o] + 1 < MaxAttempts THEN delayed \cup {o} ELSE delayed
  BY DEF Retry, Drop
<1>2. \A v \in Workers : v = w
  BY DEF Base, OneWorker
<1>3. attempts \in [Orders -> 0 .. MaxAttempts] /\ MaxAttempts \in Nat /\ attempts[o] < MaxAttempts
  BY TradingAssumption DEF Base, PlaceInv, AttemptsLeft
<1>4. Known(o) /\ o \in Orders
  BY PlacesKnown DEF Base, Known
<1>5. Queueing' = Queueing
  BY DEF Queueing
<1> HIDE DEF o
<1>6. attempts'[o] = attempts[o] + 1 /\ \A q \in Orders : q # o => attempts'[q] = attempts[q]
  BY <1>1, <1>3, <1>4
<1>7. ASSUME p = o PROVE Followed(p)'
  <2>1. CASE attempts[o] + 1 < MaxAttempts
    BY <1>1, <1>7, <2>1 DEF Followed, Pending
  <2>2. CASE ~(attempts[o] + 1 < MaxAttempts)
    <3>1. attempts[o] \in Nat
      BY <1>3, <1>4
    <3>2. attempts'[o] = MaxAttempts
      BY <1>3, <1>6, <2>2, <3>1
    <3> QED BY <1>7, <3>2 DEF Followed, GivenUp
  <2> QED BY <2>1, <2>2
<1>8. ASSUME p # o PROVE Followed(p)'
  BY <1>1, <1>2, <1>5, <1>6, <1>8 DEF Followed, GivenUp, Pending, o
<1> QED BY <1>7, <1>8

LEMMA RestartFollows ==
  ASSUME Base, Restart, NEW p, Followed(p)
  PROVE  Followed(p)'
<1>1. /\ unqueued' = unqueued \cup {handler[h].id : h \in Queueing}
      /\ UNCHANGED <<delayed, attempts>>
  BY DEF Restart, Queueing
<1>2. PICK stalled \in Orderings(ActiveJobs) : waiting' = stalled \o waiting
  BY DEF Restart
<1> DEFINE n == Cardinality(ActiveJobs)
<1>3. /\ IsFiniteSet(ActiveJobs) /\ n \in Nat /\ stalled \in Seq(Orders) /\ Len(stalled) = n
  BY StalledJobs DEF Base
<1>4. waiting \in Seq(Orders) /\ Len(waiting) \in Nat
  BY PlacesKnown DEF Base
<1>5. /\ Len(waiting') = Len(stalled) + Len(waiting)
      /\ \A i \in 1 .. Len(waiting') :
           waiting'[i] = IF i <= Len(stalled) THEN stalled[i] ELSE waiting[i - Len(stalled)]
  BY <1>2, <1>3, <1>4, ConcatProperties
<1>6. ASSUME NEW o \in ActiveJobs PROVE \E i \in 1 .. n : stalled[i] = o
  <2>1. stalled \in Injection(1 .. n, ActiveJobs)
    BY DEF Orderings, Injection, IsInjective
  <2>2. Cardinality(1 .. n) = n
    BY <1>3, FS_Interval
  <2>3. stalled \in Surjection(1 .. n, ActiveJobs)
    BY <1>3, <2>1, <2>2, FS_Injection
  <2> QED BY <2>3 DEF Surjection
<1>7. \A o \in ActiveJobs : \E i \in 1 .. Len(waiting') : waiting'[i] = o
  <2> TAKE o \in ActiveJobs
  <2>1. PICK i \in 1 .. n : stalled[i] = o
    BY <1>6
  <2> HIDE DEF n
  <2>2. i \in 1 .. Len(waiting') /\ i <= Len(stalled)
    BY <1>3, <1>4, <1>5
  <2> QED BY <1>5, <2>1, <2>2
<1>8. \A k \in 1 .. Len(waiting) : \E i \in 1 .. Len(waiting') : waiting'[i] = waiting[k]
  <2> TAKE k \in 1 .. Len(waiting)
  <2>0. Len(stalled) \in Nat
    BY <1>3
  <2>1. k + Len(stalled) \in 1 .. Len(waiting') /\ ~(k + Len(stalled) <= Len(stalled))
        /\ (k + Len(stalled)) - Len(stalled) = k
    BY <2>0, <1>4, <1>5
  <2> QED BY <1>5, <2>1
<1>9. \A w \in Workers : worker[w].phase \in {"taken", "read", "matching"} => worker[w].id \in ActiveJobs
  BY NoJobType DEF ActiveJobs
<1> QED BY <1>1, <1>7, <1>8, <1>9 DEF Followed, GivenUp, Pending

\* The wait list loses its head to a worker, if the order is open.
LEMMA TakeJobFollows ==
  ASSUME Base, NEW w \in Workers, TakeJob(w), NEW p, orders[p].status = "OPEN", Followed(p)
  PROVE  Followed(p)'
<1> DEFINE o == Head(waiting)
           j == IF orders[o].status = "OPEN"
                THEN [phase |-> "taken", id |-> o, taker |-> orders[o]] ELSE NoJob
<1>1. /\ waiting # <<>> /\ waiting' = Tail(waiting) /\ worker[w] = NoJob
      /\ worker' = [worker EXCEPT ![w] = j]
      /\ UNCHANGED <<handler, delayed, attempts, unqueued>>
  BY DEF TakeJob, lost
<1>2. Typed /\ \A v \in Workers : v = w
  BY DEF Base, OneWorker
<1>3. /\ Len(waiting) \in Nat /\ o = waiting[1] /\ 1 \in 1 .. Len(waiting)
      /\ Len(waiting') = Len(waiting) - 1
      /\ \A i \in 1 .. Len(waiting') : waiting'[i] = waiting[i + 1]
  BY <1>1, <1>2, PlacesKnown, HeadTailProperties, EmptySeq
<1>4. worker'[w] = j /\ Queueing' = Queueing
  BY <1>1 DEF Base, Typed, Queueing
<1>5. orders[o].status = "OPEN" => j.phase = "taken" /\ j.id = o
  OBVIOUS
<1> HIDE DEF o, j
<1>6. ASSUME NEW i \in 1 .. Len(waiting), waiting[i] = p PROVE Followed(p)'
  <2>1. CASE i = 1
    <3>1. p = o
      BY <1>3, <1>6, <2>1
    <3> QED BY <1>4, <1>5, <3>1 DEF Followed, Pending
  <2>2. CASE i # 1
    <3>1. i - 1 \in 1 .. Len(waiting') /\ (i - 1) + 1 = i
      BY <1>3, <2>2
    <3>2. waiting'[i - 1] = p
      BY <1>3, <1>6, <3>1
    <3> QED BY <3>1, <3>2 DEF Followed, Pending
  <2> QED BY <2>1, <2>2
<1>7. \A v \in Workers : worker[v].phase \notin {"taken", "read", "matching"}
  BY <1>1, <1>2, NoJobType
<1> QED BY <1>1, <1>4, <1>6, <1>7 DEF Followed, GivenUp, Pending

LEMMA WorkerFollows ==
  ASSUME Base, NEW w \in Workers, WorkerStep(w) \/ JobThrows(w), ~Commit(w),
         NEW p \in Orders, orders[p].status = "OPEN", Followed(p)
  PROVE  Followed(p)'
<1>1. Typed /\ worker \in [Workers -> JobType] /\ \A v \in Workers : v = w
  BY DEF Base, Typed, OneWorker
<1>2. CASE TakeJob(w)
  BY <1>2, TakeJobFollows
<1>3. CASE LeftoverThrows(w) \/ JobThrows(w) \/ \E m \in worker[w].book : MatchNext(w) /\ FillThrows(w, m)
  BY <1>1, <1>3, BusyTyped, RetryFollows DEF LeftoverThrows, JobThrows, FillThrows, MatchNext, lost
<1>4. ASSUME UNCHANGED <<waiting, delayed, attempts, handler, unqueued>>, worker'[w].id = worker[w].id,
             worker'[w].phase \in {"taken", "read", "matching"}
      PROVE  Followed(p)'
  <2>1. Queueing' = Queueing
    BY <1>4 DEF Queueing
  <2> QED BY <1>1, <1>4, <2>1 DEF Followed, GivenUp, Pending
<1>5. CASE RecordTrades(w)
  <2>1. worker[w].phase = "committed" /\ UNCHANGED <<waiting, delayed, attempts, handler, unqueued>>
    BY <1>5 DEF RecordTrades, Complete, lost
  <2>2. Queueing' = Queueing
    BY <2>1 DEF Queueing
  <2> QED BY <1>1, <2>1, <2>2 DEF Followed, GivenUp, Pending
<1>6. CASE ReadBook(w)
  <2> DEFINE k == [phase |-> "read", id |-> worker[w].id, taker |-> worker[w].taker, book |-> Book(worker[w].taker),
                   remaining |-> worker[w].taker.quantity, spent |-> 0]
  <2>1. UNCHANGED <<waiting, delayed, attempts, handler, unqueued>> /\ worker'[w] = k
    BY <1>1, <1>6 DEF ReadBook, queue, lost
  <2>2. k.id = worker[w].id /\ k.phase = "read"
    OBVIOUS
  <2> HIDE DEF k
  <2> QED BY <1>4, <2>1, <2>2
<1>7. CASE Begin(w)
  <2>1. worker'[w].id = worker[w].id /\ UNCHANGED <<waiting, delayed, handler, unqueued>>
    BY <1>7, BeginWrites
  <2>2. UNCHANGED attempts /\ worker'[w].phase = "matching"
    <3>1. worker'[w] = [worker[w] EXCEPT !.phase = "matching"] /\ worker[w] \in JobType /\ worker[w].phase = "read"
      BY <1>7, BeginWrites
    <3>2. worker'[w].phase = "matching"
      BY <3>1 DEF JobType, NoJob
    <3> QED BY <1>7, <3>2 DEF Begin, queue
  <2> QED BY <1>4, <2>1, <2>2
<1>8. ASSUME NEW m \in worker[w].book, Fill(w, m), worker[w].phase = "matching" PROVE Followed(p)'
  <2> DEFINE k == Took(worker[w], m, MatchableQuantity(worker[w], m))
  <2>1. worker' = [worker EXCEPT ![w] = k] /\ UNCHANGED <<waiting, delayed, attempts, handler, unqueued>>
    BY <1>8 DEF Fill, store, queue, lost, Took
  <2>2. k.id = worker[w].id /\ k.phase = "matching"
    BY DEF Took
  <2> HIDE DEF k
  <2> QED BY <1>1, <1>4, <2>1, <2>2
<1> QED BY <1>2, <1>3, <1>5, <1>6, <1>7, <1>8 DEF WorkerStep, MatchNext

LEMMA PromoteFollows ==
  ASSUME Base, NEW o \in Orders, Promote(o), NEW p, Followed(p)
  PROVE  Followed(p)'
<1>1. /\ waiting' = Append(waiting, o) /\ delayed' = delayed \ {o}
      /\ UNCHANGED <<attempts, worker, handler, unqueued>>
  BY DEF Promote, lost
<1>2. waiting \in Seq(Orders) /\ Len(waiting) \in Nat
  BY PlacesKnown DEF Base
<1>3. /\ Len(waiting') = Len(waiting) + 1 /\ waiting'[Len(waiting) + 1] = o
      /\ \A i \in 1 .. Len(waiting) : waiting'[i] = waiting[i]
  BY <1>1, <1>2, AppendProperties
<1>4. /\ \A i \in 1 .. Len(waiting) : i \in 1 .. Len(waiting')
      /\ Len(waiting) + 1 \in 1 .. Len(waiting')
  BY <1>2, <1>3
<1>5. Queueing' = Queueing
  BY <1>1 DEF Queueing
<1> QED BY <1>1, <1>3, <1>4, <1>5 DEF Followed, GivenUp, Pending

------------------------------------------------------------------------------
(***************************************************************************)
(* The book has a best order                                               *)
(***************************************************************************)
InAnyBook(m) == m \in [id : Orders, row : OrderRow]

LEMMA PrecedesOrders ==
  ASSUME NEW t, NEW l, NEW m, NEW n, InAnyBook(l), InAnyBook(m), InAnyBook(n)
  PROVE  /\ ~Precedes(t, m, m)
         /\ Precedes(t, l, m) /\ Precedes(t, m, n) => Precedes(t, l, n)
         /\ m.id # n.id => Precedes(t, m, n) \/ Precedes(t, n, m)
<1>1. /\ l.id \in Nat /\ m.id \in Nat /\ n.id \in Nat
      /\ l.row \in OrderRow /\ m.row \in OrderRow /\ n.row \in OrderRow
  BY TradingAssumption DEF InAnyBook, Orders
<1>2. l.row.price \in Nat /\ m.row.price \in Nat /\ n.row.price \in Nat
  BY <1>1, RowTerms
<1> QED BY <1>1, <1>2 DEF Precedes

LEMMA BookHasFirst ==
  ASSUME Base, NEW w \in Workers, worker[w].phase = "matching", worker[w].book # {}
  PROVE  \E m \in worker[w].book : First(worker[w], m)
<1> DEFINE b == worker[w].book
           t == worker[w].taker
           Before(m) == {n \in b : Precedes(t, n, m)}
           T == {Cardinality(Before(m)) : m \in b}
<1>1. \A m \in b : InAnyBook(m)
  BY MatchingTyped DEF Base, InAnyBook
<1>2. \A m, n \in b : m.id = n.id => m = n
  BY MakerFacts
<1>3. IsFiniteSet(b)
  <2> DEFINE f == [m \in b |-> m.id]
  <2>1. f \in Injection(b, Orders)
    BY <1>1, <1>2 DEF Injection, IsInjective, InAnyBook
  <2>2. IsFiniteSet(Orders)
    BY FS_Interval, TradingAssumption DEF Orders
  <2> HIDE DEF f, b
  <2> QED BY <2>1, <2>2, FS_Injection
<1>4. b # {}
  OBVIOUS
<1> HIDE DEF b, t
<1>5. \A m \in b : IsFiniteSet(Before(m)) /\ Cardinality(Before(m)) \in Nat
  BY <1>3, FS_Subset, FS_CardinalityType
<1>6. T \subseteq Nat /\ T # {}
  BY <1>4, <1>5
<1>7. PICK m \in b : \A n \in b : Cardinality(Before(m)) <= Cardinality(Before(n))
  <2>1. \E x \in T : \A y \in T : x <= y
    BY <1>6, LeastNatural
  <2> QED BY <2>1
<1>8. ASSUME NEW n \in b, Precedes(t, n, m) PROVE FALSE
  <2>1. Before(n) \subseteq Before(m) /\ n \in Before(m) /\ n \notin Before(n)
    BY <1>1, <1>8, PrecedesOrders
  <2> HIDE DEF Before
  <2>2. Cardinality(Before(n)) <= Cardinality(Before(m)) /\ Cardinality(Before(n)) # Cardinality(Before(m))
    BY <1>5, <2>1, FS_Subset
  <2> QED BY <1>5, <1>7, <2>2
<1>9. \A n \in b \ {m} : Precedes(t, m, n)
  BY <1>1, <1>2, <1>8, PrecedesOrders
<1> QED BY <1>7, <1>9 DEF First, b, t

\* A LIMIT order with an order to take takes of it.
LEMMA LimitTakes ==
  ASSUME Base, NEW w \in Workers, worker[w].phase = "matching", worker[w].book # {},
         worker[w].taker.type = "LIMIT", worker[w].remaining > 0
  PROVE  TakesMore(worker[w])
<1>1. PICK m \in worker[w].book : First(worker[w], m)
  BY BookHasFirst
<1>2. m.row.filled = 0 /\ m.row.quantity \in Nat /\ m.row.quantity > 0 /\ worker[w].remaining \in Nat
  BY MakerFacts, JobFacts
<1>3. ~MarketBuy(worker[w].taker)
  BY DEF MarketBuy
<1>4. MatchableQuantity(worker[w], m) > 0
  BY <1>2, <1>3 DEF MatchableQuantity, Smaller
<1> QED BY <1>1, <1>4 DEF TakesMore, Takes

------------------------------------------------------------------------------
\* A job that commits and leaves its LIMIT order open has taken nothing, and
\* leaves no order it crosses; what the others were to each other they still are.
LEMMA CommitUncrosses ==
  ASSUME Base, WroteInv, TurnInv, UncrossedInv, NEW w \in Workers, Commit(w),
         NEW o \in 1 .. Len(orders'), NEW p \in 1 .. Len(orders'), Crossed(o, p)'
  PROVE  Followed(p)'
<1> DEFINE j == worker[w]
           row == [txn.orders[j.id] EXCEPT !.status = "CANCELLED"]
<1>1. /\ j.phase = "matching" /\ ~TakesMore(j)
      /\ orders' = IF j.taker.type = "MARKET" /\ j.remaining > 0
                   THEN [txn.orders EXCEPT ![j.id] = row] ELSE txn.orders
      /\ worker' = [worker EXCEPT ![w] = [phase |-> "committed", id |-> j.id, fills |-> txn.fills]]
      /\ UNCHANGED <<handler, waiting, delayed, attempts, unqueued>>
  BY DEF Commit, queue, lost
<1>2. /\ \A v \in Workers : v = w
      /\ orders[j.id] = j.taker /\ j.taker \in OrderRow /\ j.id \in 1 .. Len(orders)
      /\ j.taker.status = "OPEN" /\ j.remaining \in Nat /\ j.remaining <= j.taker.quantity
      /\ txn.orders \in Seq(OrderRow) /\ Len(txn.orders) = Len(orders) /\ Len(orders) \in Nat
  BY <1>1, JobFacts
<1>3. WroteBy(j)
  BY <1>1 DEF WroteInv
<1>4. txn.orders[j.id] \in OrderRow /\ j.id \in 1 .. Len(txn.orders)
  BY <1>2, ElementOfSeq
<1>5. row \in OrderRow /\ row.status = "CANCELLED" /\ SameTerms(row, txn.orders[j.id])
  BY <1>4 DEF OrderRow, Statuses, SameTerms
<1>6. Len(orders') = Len(orders)
  BY CommitLength DEF Base
<1>7. /\ \A q \in 1 .. Len(orders) : SameTerms(orders'[q], orders[q])
      /\ \A q \in 1 .. Len(orders) : q # j.id => orders'[q] = txn.orders[q]
  <2> HIDE DEF row, j
  <2>1. CASE orders' = txn.orders
    BY <2>1, <1>3 DEF WroteBy
  <2>2. CASE orders' = [txn.orders EXCEPT ![j.id] = row]
    <3>1. \A q \in 1 .. Len(txn.orders) : orders'[q] = IF q = j.id THEN row ELSE txn.orders[q]
      BY <1>2, <1>4, <1>5, <2>2, WriteTyped
    <3>2. ASSUME NEW q \in 1 .. Len(orders)
          PROVE  SameTerms(orders'[q], orders[q]) /\ (q # j.id => orders'[q] = txn.orders[q])
      <4>1. SameTerms(txn.orders[q], orders[q]) /\ q \in 1 .. Len(txn.orders)
        BY <1>2, <1>3 DEF WroteBy
      <4>2. CASE q # j.id
        BY <3>1, <4>1, <4>2
      <4>3. CASE q = j.id
        BY <1>5, <3>1, <4>1, <4>3 DEF SameTerms
      <4> QED BY <4>2, <4>3
    <3> QED BY <3>2
  <2> QED BY <1>1, <2>1, <2>2
<1>8. /\ o \in 1 .. Len(orders) /\ p \in 1 .. Len(orders) /\ o < p
      /\ orders'[o].status = "OPEN" /\ orders'[p].status = "OPEN"
      /\ orders'[o].type = "LIMIT" /\ orders'[p].type = "LIMIT"
  BY <1>6 DEF Crossed
<1>9. orders[o].type = "LIMIT" /\ orders[p].type = "LIMIT" /\ Crosses(p, o)
  BY <1>7, <1>8 DEF Crossed, Crosses, Agrees, SameTerms
<1>10. ASSUME NEW q \in 1 .. Len(orders), orders'[q].status = "OPEN" PROVE orders[q].status = "OPEN"
  BY <1>2, <1>3, <1>7, <1>10 DEF WroteBy
<1>11. CASE p # j.id
  <2>1. Crossed(o, p)
    BY <1>8, <1>9, <1>10 DEF Crossed
  <2>2. Followed(p)
    BY <1>8, <2>1 DEF UncrossedInv, Followed
  <2>3. Queueing' = Queueing
    BY <1>1 DEF Queueing
  <2> QED BY <1>1, <1>2, <1>11, <2>2, <2>3 DEF Followed, GivenUp, Pending
<1>12. ASSUME p = j.id PROVE FALSE
  <2>1. j.taker.type = "LIMIT" /\ txn.orders[j.id] = TakerRow(j)
    BY <1>2, <1>3, <1>9, <1>12 DEF WroteBy
  <2>2. TakerRow(j).status = "OPEN"
    BY <1>1, <1>8, <1>12, <2>1
  <2>3. j.taker.quantity \in Nat /\ j.taker.quantity > 0
    BY <1>2, RowTerms
  <2>4. j.remaining = j.taker.quantity
    <3> SUFFICES ASSUME j.remaining # j.taker.quantity PROVE FALSE
      OBVIOUS
    <3>1. j.taker.quantity - j.remaining \in Int
      BY <1>2, <2>3
    <3>2. TakerRow(j).status \in {"FILLED", "PARTIALLY_FILLED"}
      BY <1>2, <3>1, UpdatedTerms DEF TakerRow
    <3> QED BY <2>2, <3>2
  <2>5. txn.fills = {}
    BY <1>3, <2>3, <2>4 DEF WroteBy
  <2>6. Turn(j, o)
    BY <1>8, <1>9, <1>10, <1>12 DEF Turn
  <2>7. InBook(j, o)
    BY <1>1, <1>8, <2>5, <2>6 DEF TurnInv, Maker
  <2>8. TakesMore(j)
    BY <1>1, <2>1, <2>3, <2>4, <2>7, LimitTakes DEF InBook
  <2> QED BY <1>1, <2>8
<1> QED BY <1>11, <1>12

\* Two orders cross as they did before, unless the second one was just stored.
LEMMA CrossedStays ==
  ASSUME Base, [Next]_vars, \A w \in Workers : ~Commit(w),
         NEW o \in 1 .. Len(orders'), NEW p \in 1 .. Len(orders'), Crossed(o, p)'
  PROVE  \/ o \in 1 .. Len(orders) /\ p \in 1 .. Len(orders) /\ Crossed(o, p)
         \/ \E h \in Queueing' : handler'[h].id = p
<1>1. /\ Len(orders) \in Nat /\ Len(orders') \in Nat /\ Len(orders) <= Len(orders')
      /\ \A q \in 1 .. Len(orders) : orders'[q] = orders[q]
      /\ orders' = orders \/ \E h \in Handlers : StoreOrder(h)
  BY RowsStay
<1>2. o < p
  BY DEF Crossed
<1>3. CASE p \in 1 .. Len(orders)
  <2>1. o \in 1 .. Len(orders)
    BY <1>1, <1>2, <1>3
  <2> QED BY <1>1, <1>3, <2>1 DEF Crossed, Crosses, Agrees
<1>4. CASE p \notin 1 .. Len(orders)
  <2>1. PICK h \in Handlers : StoreOrder(h)
    BY <1>1, <1>4
  <2>2. handler \in [Handlers -> HandlerType] /\ orders \in Seq(OrderRow)
    BY DEF Base, Typed, StoreInv, HandlerInv, Table
  <2>3. handler'[h].step = "stored" /\ handler'[h].id = Len(orders) + 1
    BY <2>1, <2>2 DEF StoreOrder
  <2>4. Len(orders') = Len(orders) + 1
    <3>1. handler[h].order \in OrderRow /\ orders' = Append(orders, handler[h].order)
      BY <2>1, <2>2 DEF StoreOrder, HandlerType, Idle
    <3> QED BY <2>2, <3>1, AppendProperties
  <2>5. p = Len(orders) + 1
    BY <1>1, <1>4, <2>4
  <2> QED BY <2>3, <2>5 DEF Queueing
<1> QED BY <1>3, <1>4

LEMMA NextUncrossed == ASSUME Base, WroteInv, TurnInv, UncrossedInv, [Next]_vars PROVE UncrossedInv'
<1> SUFFICES ASSUME NEW o \in 1 .. Len(orders'), NEW p \in 1 .. Len(orders'), Crossed(o, p)'
             PROVE  Followed(p)'
  BY DEF UncrossedInv, Followed
<1>1. CASE \E w \in Workers : Commit(w)
  BY <1>1, CommitUncrosses
<1>2. CASE \E h \in Queueing' : handler'[h].id = p
  BY <1>2 DEF Followed, Pending
<1>3. ASSUME \A w \in Workers : ~Commit(w),
             o \in 1 .. Len(orders), p \in 1 .. Len(orders), Crossed(o, p)
      PROVE  Followed(p)'
  <2>1. Followed(p) /\ orders[p].status = "OPEN"
    BY <1>3 DEF UncrossedInv, Followed, Crossed
  <2>2. p \in Orders
    BY <1>3, LenProperties, TradingAssumption DEF Base, Typed, StoreInv, Room, Table, Inv, RowsInv, Rows, Orders
  <2>3. CASE \E h \in Handlers : HandlerCall(h) \/ HandlerStep(h)
    BY <2>1, <2>3, HandlerFollows
  <2>4. CASE \E w \in Workers : WorkerStep(w) \/ JobThrows(w)
    BY <1>3, <2>1, <2>2, <2>4, WorkerFollows
  <2>5. CASE \E q \in Orders : Promote(q)
    BY <2>1, <2>5, PromoteFollows
  <2>6. CASE Restart
    BY <2>1, <2>6, RestartFollows
  <2>7. CASE Rest \/ UNCHANGED vars
    <3>1. UNCHANGED <<waiting, delayed, attempts, handler, worker, unqueued>>
      BY <2>7 DEF Rest, vars, queue, lost
    <3> QED BY <2>1, <3>1 DEF Followed, GivenUp, Pending, Queueing
  <2> QED BY <2>3, <2>4, <2>5, <2>6, <2>7 DEF Next
<1> QED BY <1>1, <1>2, <1>3, CrossedStays

LEMMA NoneCrossed == ASSUME Base, UncrossedInv PROVE BookUncrossed
<1> SUFFICES ASSUME Still, NothingQueued, NEW o \in DOMAIN orders, NEW p \in DOMAIN orders, Crossed(o, p)
             PROVE  GivenUp(p)
  BY DEF BookUncrossed, Crossed, GivenUp
<1>1. GivenUp(p) \/ Pending(p)
  <2>1. DOMAIN orders = 1 .. Len(orders)
    BY LenProperties DEF Base, Typed, StoreInv, Table
  <2> QED BY <2>1 DEF UncrossedInv
<1>2. ~Pending(p)
  <2>1. waiting = <<>> /\ delayed = {} /\ Len(<<>>) = 0
    BY DEF NothingQueued
  <2>2. Queueing = {} /\ \A w \in Workers : worker[w].phase = "idle"
    BY IdleType, NoJobType DEF Still, Queueing
  <2> QED BY <2>1, <2>2 DEF Pending
<1> QED BY <1>1, <1>2

\* No match is forgotten: while users only create orders and one worker matches,
\* an idle market holds two open LIMIT orders that cross only if the job of the
\* later one was never queued or has used up its attempts.
THEOREM BookIsUncrossed == OneWorker /\ CreateOnly => (Spec => []BookUncrossed)
<1> SUFFICES ASSUME OneWorker, CreateOnly PROVE Spec => []BookUncrossed
  OBVIOUS
<1>1. Init => TurnInv /\ UncrossedInv
  BY InitTurn
<1>2. Base /\ WroteInv /\ TurnInv /\ UncrossedInv /\ [Next]_vars => TurnInv' /\ UncrossedInv'
  BY NextTurn, NextUncrossed
<1>3. Base /\ UncrossedInv => BookUncrossed
  BY NoneCrossed
<1>4. Spec => []Base
  BY AlwaysBase
<1>5. Spec => []WroteInv
  BY AlwaysWrote
<1> QED BY <1>1, <1>2, <1>3, <1>4, <1>5, PTL DEF Spec
===============================================================================
