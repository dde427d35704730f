----------------------------- MODULE SpotTrading -----------------------------
(***************************************************************************)
(* Spot trading in one asset: OrdersService (createOrder, updateOrder,     *)
(* cancelOrder), the queue "matching-<assetId>" of BullMQ and the matching *)
(* engine OrderMatchingService, which move money through TradingLedger.    *)
(*                                                                         *)
(* A request handler and a matching job are asynchronous functions: every  *)
(* await between two database accesses is a point where the others run.    *)
(* Here a handler is what it carries across that point (the order row it   *)
(* has read, the funds it has locked) and each of its database accesses is *)
(* an action.  While the transaction of a matching job is open (txn) its   *)
(* writes are seen by nobody and the other writers wait for it: those that *)
(* touch none of its rows do not wait in the database, but they commute    *)
(* with it.  Orders are numbered as they are created, so that the number   *)
(* stands for createdAt.                                                   *)
(***************************************************************************)
EXTENDS TradingLedger, Sequences, FiniteSets, Functions

CONSTANTS
  MaxOrders,      \* bound: orders that are stored
  Handlers,       \* HTTP requests in progress at a time
  Workers,        \* one BullMQ worker, concurrency 1, per backend process
  OrderRequests,  \* the bodies createOrder may get
  Band,           \* the prices inside the circuit breaker band
  Operations,     \* which of "create", "update", "cancel" the clients use
  MaxAttempts,    \* attempts: 3 of the job options
  MaxCrashes,     \* bound: restarts of the backend
  NoKey, None,
  OpeningAvailable, OpeningLocked

Orders == 1 .. MaxOrders
Statuses == {"OPEN", "PARTIALLY_FILLED", "FILLED", "CANCELLED"}

\* price is absent from a MARKET request, maxTotalCost from all but MARKET BUY.
RequestType ==
  [owner : Users, side : {"BUY", "SELL"}, type : {"LIMIT", "MARKET"},
   price : Nat, maxTotalCost : Nat, quantity : Nat \ {0}, key : STRING \cup {NoKey}]

OrderRow ==
  [owner : Users, side : {"BUY", "SELL"}, type : {"LIMIT", "MARKET"},
   price : Nat, quantity : Nat \ {0}, filled : Int, status : Statuses,
   key : STRING \cup {NoKey}]

ASSUME TradingAssumption ==
  /\ MaxOrders \in Nat /\ MaxAttempts \in Nat \ {0} /\ MaxCrashes \in Nat
  /\ OrderRequests \subseteq RequestType
  /\ \A q \in OrderRequests :
       q.type = "MARKET" /\ q.side = "BUY" => q.maxTotalCost % q.quantity = 0
  /\ Band \subseteq Nat
  /\ Operations \subseteq {"create", "update", "cancel"}
  /\ OpeningAvailable \in [Accounts -> Nat] /\ OpeningLocked \in [Accounts -> Nat]
  /\ IsFiniteSet(Users) /\ IsFiniteSet(Handlers) /\ IsFiniteSet(Workers)
  /\ None \notin Workers

VARIABLES
  orders,     \* table Order: a sequence of rows
  wallet,     \* table Balance, see TradingLedger
  handler,    \* what each request in progress carries
  waiting,    \* the queue's wait list
  delayed,    \* jobs waiting for the backoff of a retry
  attempts,   \* attemptsMade of each order's job
  worker,     \* what each worker's job carries
  listening,  \* the process has created its queue and worker for the asset
  txn,        \* the open transaction of a matching job
  crashes,
  executed,   \* history: quantity of each order that committed trades carry
  earned,     \* history: what settleMatch has credited to each account
  orphaned,   \* history: funds locked by a createOrder that stored no order
  unqueued    \* history: orders stored by a createOrder that queued no job

store == <<orders, wallet, executed, earned>>
queue == <<waiting, delayed, attempts, listening>>
lost == <<orphaned, unqueued>>
vars == <<store, handler, queue, worker, txn, crashes, lost>>

Idle == [step |-> "idle"]
NoTxn == [owner |-> None]
NoJob == [phase |-> "idle"]

OpenWallet == [ok |-> TRUE, available |-> OpeningAvailable, locked |-> OpeningLocked]
Nothing == [a \in Accounts |-> 0]

Init ==
  /\ orders = <<>>
  /\ wallet = OpenWallet
  /\ handler = [h \in Handlers |-> Idle]
  /\ waiting = <<>>
  /\ delayed = {}
  /\ attempts = [o \in Orders |-> 0]
  /\ worker = [w \in Workers |-> NoJob]
  /\ listening = FALSE
  /\ txn = NoTxn
  /\ crashes = 0
  /\ executed = [o \in Orders |-> 0]
  /\ earned = Nothing
  /\ orphaned = Nothing
  /\ unqueued = {}

------------------------------------------------------------------------------
(***************************************************************************)
(* OrdersService.createOrder                                               *)
(***************************************************************************)
KeyUsed(key) == key # NoKey /\ \E o \in DOMAIN orders : orders[o].key = key

\* The price under which an order is stored and its funds are locked.
OrderPrice(q) ==
  CASE q.type = "LIMIT"                    -> q.price
    [] q.type = "MARKET" /\ q.side = "BUY"  -> q.maxTotalCost \div q.quantity
    [] q.type = "MARKET" /\ q.side = "SELL" -> 0

InBand(q) == q.type = "LIMIT" => q.price \in Band

NewOrder(q) ==
  [owner |-> q.owner, side |-> q.side, type |-> q.type, price |-> OrderPrice(q),
   quantity |-> q.quantity, filled |-> 0, status |-> "OPEN", key |-> q.key]

\* Handlers that are about to store an order.
Locking == {h \in Handlers : handler[h].step = "locked"}

(***************************************************************************)
(* The key is looked up and the funds are locked, in a transaction of its  *)
(* own.  A request that is refused before changes nothing and is no step.  *)
(***************************************************************************)
LockFunds(h, q) ==
  /\ "create" \in Operations
  /\ handler[h] = Idle
  /\ Len(orders) + Cardinality(Locking) < MaxOrders
  /\ ~KeyUsed(q.key) /\ InBand(q)
  /\ txn = NoTxn
  /\ LET after == lockOrderFunds(wallet, q.owner, q.side, q.quantity, OrderPrice(q))
     IN after.ok /\ wallet' = after
  /\ handler' = [handler EXCEPT ![h] = [step |-> "locked", order |-> NewOrder(q)]]
  /\ UNCHANGED <<orders, executed, earned, queue, worker, txn, crashes, lost>>

StoreOrder(h) ==
  /\ handler[h].step = "locked"
  /\ ~KeyUsed(handler[h].order.key)
  /\ txn = NoTxn
  /\ orders' = Append(orders, handler[h].order)
  /\ handler' = [handler EXCEPT ![h] = [step |-> "stored", id |-> Len(orders) + 1]]
  /\ UNCHANGED <<wallet, executed, earned, queue, worker, txn, crashes, lost>>

QueueOrder(h) ==
  /\ handler[h].step = "stored"
  /\ waiting' = Append(waiting, handler[h].id)
  /\ listening' = TRUE
  /\ handler' = [handler EXCEPT ![h] = Idle]
  /\ UNCHANGED <<store, delayed, attempts, worker, txn, crashes, lost>>

\* The funds a handler has locked for an order it has not stored yet.
InFlight(h) ==
  LET o == handler[h].order IN Pledge(o.owner, o.side, o.quantity, o.price)

\* The unique key, the database or Redis refuses: the locked funds stay locked.
CreateThrows(h) ==
  /\ handler[h].step \in {"locked", "stored"}
  /\ handler' = [handler EXCEPT ![h] = Idle]
  /\ orphaned' = IF handler[h].step = "locked"
                 THEN [orphaned EXCEPT ![InFlight(h).account] = @ + InFlight(h).amount]
                 ELSE orphaned
  /\ unqueued' = IF handler[h].step = "stored" THEN unqueued \cup {handler[h].id} ELSE unqueued
  /\ UNCHANGED <<store, queue, worker, txn, crashes>>

------------------------------------------------------------------------------
(***************************************************************************)
(* OrdersService.updateOrder: the row is read and checked, then only its   *)
(* price is written; the funds are left as they are.                       *)
(***************************************************************************)
ReadForUpdate(h, o, p) ==
  /\ "update" \in Operations
  /\ handler[h] = Idle
  /\ o \in DOMAIN orders
  /\ orders[o].status = "OPEN" /\ orders[o].type = "LIMIT"
  /\ p > 0 /\ p # orders[o].price
  /\ handler' = [handler EXCEPT ![h] = [step |-> "reprice", id |-> o, price |-> p]]
  /\ UNCHANGED <<store, queue, worker, txn, crashes, lost>>

WritePrice(h) ==
  /\ handler[h].step = "reprice"
  /\ txn = NoTxn
  /\ orders' = [orders EXCEPT ![handler[h].id].price = handler[h].price]
  /\ handler' = [handler EXCEPT ![h] = Idle]
  /\ UNCHANGED <<wallet, executed, earned, queue, worker, txn, crashes, lost>>

(***************************************************************************)
(* OrdersService.cancelOrder: status, remaining quantity and price are     *)
(* read before the transaction that cancels the order and unlocks.         *)
(***************************************************************************)
ReadForCancel(h, o) ==
  /\ "cancel" \in Operations
  /\ handler[h] = Idle
  /\ o \in DOMAIN orders
  /\ orders[o].status \in {"OPEN", "PARTIALLY_FILLED"}
  /\ handler' = [handler EXCEPT ![h] =
       [step |-> "cancel", id |-> o, price |-> orders[o].price,
        remaining |-> orders[o].quantity - orders[o].filled]]
  /\ UNCHANGED <<store, queue, worker, txn, crashes, lost>>

Unlocked(h) ==
  LET o == orders[handler[h].id]
  IN  unlockOrderRemainder(wallet, o.owner, o.side, handler[h].remaining, handler[h].price)

CancelOrder(h) ==
  /\ handler[h].step = "cancel"
  /\ txn = NoTxn
  /\ Unlocked(h).ok
  /\ wallet' = Unlocked(h)
  /\ orders' = [orders EXCEPT ![handler[h].id].status = "CANCELLED"]
  /\ handler' = [handler EXCEPT ![h] = Idle]
  /\ UNCHANGED <<executed, earned, queue, worker, txn, crashes, lost>>

\* The unlock throws, the transaction fails to serialize, the connection is lost.
RequestThrows(h) ==
  /\ handler[h].step \in {"cancel", "reprice"}
  /\ handler' = [handler EXCEPT ![h] = Idle]
  /\ UNCHANGED <<store, queue, worker, txn, crashes, lost>>

------------------------------------------------------------------------------
(***************************************************************************)
(* OrderMatchingService.matchOrder, run by a worker for each job           *)
(***************************************************************************)
Smaller(a, b) == IF a < b THEN a ELSE b

MatchableStrictly(taker) ==
  {o \in DOMAIN orders :
     /\ orders[o].side # taker.side
     /\ orders[o].status = "OPEN"
     /\ taker.type = "LIMIT" => IF taker.side = "BUY" THEN orders[o].price < taker.price
                                                      ELSE orders[o].price > taker.price
     /\ orders[o].owner # taker.owner}

\* Orders the taker's query returns.
Matchable(taker) ==
  {o \in DOMAIN orders :
     /\ orders[o].side # taker.side
     /\ orders[o].status = "OPEN"
     /\ taker.type = "LIMIT" => IF taker.side = "BUY" THEN orders[o].price <= taker.price
                                                      ELSE orders[o].price >= taker.price
     /\ orders[o].owner # taker.owner}

PrecedesByAge(taker, m, n) == m.id < n.id

\* Best price first, then the older order.
Precedes(taker, m, n) ==
  \/ m.row.price = n.row.price /\ m.id < n.id
  \/ IF taker.side = "BUY" THEN m.row.price < n.row.price ELSE m.row.price > n.row.price

\* The result of the query, rows as they are when it is read; a filled one is
\* skipped.
Book(taker) ==
  {[id |-> o, row |-> orders[o]] :
     o \in {p \in Matchable(taker) : orders[p].quantity - orders[p].filled > 0}}

\* The resting order the loop comes to next.
First(j, m) == m \in j.book /\ \A n \in j.book \ {m} : Precedes(j.taker, m, n)

MarketBuy(taker) == taker.type = "MARKET" /\ taker.side = "BUY"
Budget(taker) == taker.quantity * taker.price

\* How much the job takes of it; 0 ends the loop.
MatchableQuantity(j, m) ==
  LET both == Smaller(j.remaining, m.row.quantity - m.row.filled)
  IN  IF MarketBuy(j.taker) /\ j.spent + both * m.row.price > Budget(j.taker)
      THEN (Budget(j.taker) - j.spent) \div m.row.price
      ELSE both

Takes(j, m) == j.remaining > 0 /\ First(j, m) /\ MatchableQuantity(j, m) > 0

TakesMore(j) == \E m \in j.book : Takes(j, m)

Drop(w) ==
  /\ worker' = [worker EXCEPT ![w] = NoJob]
  /\ txn' = IF txn.owner = w THEN NoTxn ELSE txn

\* The job is done (removeOnComplete).
Complete(w) == Drop(w) /\ UNCHANGED <<delayed, attempts>>

\* PostgreSQL forgets what an open transaction wrote.
WritesStay ==
  /\ orders' = IF txn = NoTxn THEN orders ELSE txn.orders
  /\ wallet' = IF txn = NoTxn THEN wallet ELSE txn.wallet
  /\ UNCHANGED <<executed, earned>>
RollBack == UNCHANGED store

RetryForever(w) ==
  /\ Drop(w) /\ RollBack
  /\ delayed' = delayed \cup {worker[w].id}
  /\ UNCHANGED attempts

RetryInTransaction(w) ==
  /\ worker' = [worker EXCEPT ![w] = NoJob]
  /\ RollBack
  /\ UNCHANGED <<txn, delayed, attempts>>

\* matchOrder throws: the transaction is rolled back, BullMQ tries again after a
\* backoff, until the attempts are used up.
Retry(w) ==
  LET o == worker[w].id
  IN  /\ Drop(w) /\ RollBack
      /\ attempts' = [attempts EXCEPT ![o] = @ + 1]
      /\ delayed' = IF attempts[o] + 1 < MaxAttempts THEN delayed \cup {o} ELSE delayed

TakeJob(w) ==
  /\ listening
  /\ worker[w] = NoJob
  /\ waiting # <<>>
  /\ waiting' = Tail(waiting)
  /\ LET taker == orders[Head(waiting)]
     IN  worker' = [worker EXCEPT ![w] =
           IF taker.status = "OPEN"
           THEN [phase |-> "taken", id |-> Head(waiting), taker |-> taker]
           ELSE NoJob]
  /\ UNCHANGED <<store, handler, delayed, attempts, listening, txn, crashes, lost>>

ReadBook(w) ==
  /\ worker[w].phase = "taken"
  /\ worker' = [worker EXCEPT ![w] =
       [phase |-> "read", id |-> worker[w].id, taker |-> worker[w].taker,
        book |-> Book(worker[w].taker), remaining |-> worker[w].taker.quantity, spent |-> 0]]
  /\ UNCHANGED <<store, handler, queue, txn, crashes, lost>>

Begin(w) ==
  /\ worker[w].phase = "read"
  /\ txn = NoTxn
  /\ txn' = [owner |-> w, orders |-> orders, wallet |-> wallet,
             executed |-> executed, earned |-> earned, fills |-> {}]
  /\ worker' = [worker EXCEPT ![w].phase = "matching"]
  /\ UNCHANGED <<store, handler, queue, crashes, lost>>

StatusAt(filled, row) == IF filled = row.quantity THEN "FILLED" ELSE "PARTIALLY_FILLED"

Updated(now, filled, row) == [now EXCEPT !.filled = filled, !.status = StatusAt(filled, row)]

SettledWithoutRefund(j, m) ==
  LET buyer  == IF j.taker.side = "BUY" THEN j.taker ELSE m.row
      seller == IF j.taker.side = "BUY" THEN m.row ELSE j.taker
  IN  settleMatch(txn.wallet, buyer.owner, seller.owner, MatchableQuantity(j, m), m.row.price)

\* The wallet once the money of the fill has moved.
Settled(j, m) ==
  LET taker  == j.taker
      buyer  == IF taker.side = "BUY" THEN taker ELSE m.row
      seller == IF taker.side = "BUY" THEN m.row ELSE taker
      n      == MatchableQuantity(j, m)
      paid   == settleMatch(txn.wallet, buyer.owner, seller.owner, n, m.row.price)
  IN  IF taker.type = "LIMIT" /\ taker.side = "BUY" /\ m.row.price < taker.price
      THEN refundBuyerPriceImprovement(paid, taker.owner, n * (taker.price - m.row.price))
      ELSE paid

(***************************************************************************)
(* One txOperation: both order rows get the fill and status computed from  *)
(* the rows as they were read, then the money moves.                       *)
(***************************************************************************)
Fill(w, m) ==
  LET j      == worker[w]
      n      == MatchableQuantity(j, m)
      quote  == n * m.row.price
      taken  == j.taker.filled + (j.taker.quantity - j.remaining) + n
      given  == m.row.filled + n
      buyer  == IF j.taker.side = "BUY" THEN j.taker.owner ELSE m.row.owner
      seller == IF j.taker.side = "BUY" THEN m.row.owner ELSE j.taker.owner
  IN  /\ Takes(j, m)
      /\ Settled(j, m).ok
      /\ txn' = [owner |-> w,
           orders |-> [txn.orders EXCEPT ![j.id] = Updated(@, taken, j.taker),
                                         ![m.id] = Updated(@, given, m.row)],
           wallet |-> Settled(j, m),
           executed |-> [txn.executed EXCEPT ![j.id] = @ + n, ![m.id] = @ + n],
           earned |-> [txn.earned EXCEPT ![<<buyer, "token">>] = @ + n,
                                         ![<<seller, "cash">>] = @ + quote],
           fills |-> txn.fills \cup {[taker |-> j.id, maker |-> m.id, price |-> m.row.price,
                                      quantity |-> n]}]
      /\ worker' = [worker EXCEPT ![w] =
           [phase |-> "matching", id |-> j.id, taker |-> j.taker, book |-> j.book \ {m},
            remaining |-> j.remaining - n,
            spent |-> IF MarketBuy(j.taker) THEN j.spent + quote ELSE j.spent]]
      /\ UNCHANGED <<store, handler, queue, crashes, lost>>

\* A posting throws; so does settleMatch for a resting MARKET SELL, whose price is 0.
FillThrows(w, m) ==
  /\ Takes(worker[w], m)
  /\ ~Settled(worker[w], m).ok
  /\ Retry(w)
  /\ UNCHANGED <<handler, waiting, listening, crashes, lost>>

MatchNext(w) ==
  /\ worker[w].phase = "matching"
  /\ \E m \in worker[w].book : Fill(w, m) \/ FillThrows(w, m)

(***************************************************************************)
(* What is left of a MARKET order is cancelled and its funds are unlocked. *)
(***************************************************************************)
Leftover(j) ==
  LET t == j.taker
  IN  IF MarketBuy(t) THEN refundBuyerPriceImprovement(txn.wallet, t.owner, Budget(t) - j.spent)
      ELSE IF t.type = "MARKET" /\ j.remaining > 0
      THEN unlockOrderRemainder(txn.wallet, t.owner, t.side, j.remaining, 0)
      ELSE txn.wallet

Commit(w) ==
  LET j == worker[w]
  IN  /\ j.phase = "matching" /\ ~TakesMore(j)
      /\ Leftover(j).ok
      /\ wallet' = Leftover(j)
      /\ orders' = IF j.taker.type = "MARKET" /\ j.remaining > 0
                   THEN [txn.orders EXCEPT ![j.id].status = "CANCELLED"] ELSE txn.orders
      /\ executed' = txn.executed
      /\ earned' = txn.earned
      /\ txn' = NoTxn
      /\ worker' = [worker EXCEPT ![w] = [phase |-> "committed", id |-> j.id, fills |-> txn.fills]]
      /\ UNCHANGED <<handler, queue, crashes, lost>>

LeftoverThrows(w) ==
  /\ worker[w].phase = "matching" /\ ~TakesMore(worker[w])
  /\ ~Leftover(worker[w]).ok
  /\ Retry(w)
  /\ UNCHANGED <<handler, waiting, listening, crashes, lost>>

\* recordTrade for each of them, then the job is complete.
RecordTrades(w) ==
  /\ worker[w].phase = "committed"
  /\ Complete(w)
  /\ UNCHANGED <<store, handler, waiting, listening, crashes, lost>>

\* The database, Redis or recordTrade fails.
JobThrows(w) ==
  /\ worker[w] # NoJob
  /\ Retry(w)
  /\ UNCHANGED <<handler, waiting, listening, crashes, lost>>

\* The backoff is over.
Promote(o) ==
  /\ o \in delayed
  /\ listening
  /\ delayed' = delayed \ {o}
  /\ waiting' = Append(waiting, o)
  /\ UNCHANGED <<store, handler, attempts, listening, worker, txn, crashes, lost>>

(***************************************************************************)
(* The backend restarts.  Handlers and open transactions are gone, jobs    *)
(* that were active stall and go back to the wait list.  Workers are only  *)
(* created again by the next queueOrder for the asset.                     *)
(***************************************************************************)
Orderings(S) ==
  {f \in [1 .. Cardinality(S) -> S] : \A i, k \in 1 .. Cardinality(S) : f[i] = f[k] => i = k}

ActiveJobs == {worker[w].id : w \in {v \in Workers : worker[v] # NoJob}}

InFlightTo(a) == {h \in Handlers : handler[h].step = "locked" /\ InFlight(h).account = a}
InFlightOn(a) == SumFunctionOnSet([h \in InFlightTo(a) |-> InFlight(h).amount], InFlightTo(a))

Restart ==
  /\ crashes < MaxCrashes
  /\ crashes' = crashes + 1
  /\ orphaned' = [a \in Accounts |-> orphaned[a] + InFlightOn(a)]
  /\ unqueued' = unqueued \cup {handler[h].id : h \in {g \in Handlers : handler[g].step = "stored"}}
  /\ handler' = [h \in Handlers |-> Idle]
  /\ worker' = [w \in Workers |-> NoJob]
  /\ txn' = NoTxn
  /\ \E stalled \in Orderings(ActiveJobs) : waiting' = stalled \o waiting
  /\ listening' = FALSE
  /\ RollBack
  /\ UNCHANGED <<delayed, attempts>>

------------------------------------------------------------------------------
HandlerStep(h) ==
  \/ StoreOrder(h) \/ QueueOrder(h) \/ CreateThrows(h)
  \/ WritePrice(h) \/ CancelOrder(h) \/ RequestThrows(h)

HandlerCall(h) ==
  \/ \E q \in OrderRequests : LockFunds(h, q)
  \/ \E o \in Orders : ReadForCancel(h, o) \/ \E p \in Band : ReadForUpdate(h, o, p)

WorkerStep(w) ==
  \/ TakeJob(w) \/ ReadBook(w) \/ Begin(w)
  \/ MatchNext(w)
  \/ Commit(w) \/ LeftoverThrows(w)
  \/ RecordTrades(w)

\* Nothing is in progress.
Still == (\A h \in Handlers : handler[h] = Idle) /\ (\A w \in Workers : worker[w] = NoJob)

NothingQueued == waiting = <<>> /\ delayed = {}

\* The system is idle; jobs may be left that no worker listens for.
Rest == Still /\ (NothingQueued \/ ~listening) /\ UNCHANGED vars

Next ==
  \/ \E h \in Handlers : HandlerCall(h) \/ HandlerStep(h)
  \/ \E w \in Workers : WorkerStep(w) \/ JobThrows(w)
  \/ \E o \in Orders : Promote(o)
  \/ Restart
  \/ Rest

Spec == Init /\ [][Next]_vars

(***************************************************************************)
(* A worker keeps running its job, BullMQ promotes delayed jobs.  Clients, *)
(* failures and restarts owe nobody anything.                              *)
(***************************************************************************)
Fairness ==
  /\ \A w \in Workers : WF_vars(WorkerStep(w))
  /\ WF_vars(\E o \in Orders : Promote(o))
FairSpec == Spec /\ Fairness

------------------------------------------------------------------------------
(***************************************************************************)
(* Properties                                                              *)
(***************************************************************************)
Money == [Accounts -> Int]

JobType ==
  {NoJob}
  \cup [phase : {"taken"}, id : Orders, taker : OrderRow]
  \cup [phase : {"read", "matching"}, id : Orders, taker : OrderRow,
        book : SUBSET [id : Orders, row : OrderRow], remaining : Int, spent : Int]
  \cup [phase : {"committed"}, id : Orders,
        fills : SUBSET [taker : Orders, maker : Orders, price : Nat, quantity : Int]]

HandlerType ==
  {Idle}
  \cup [step : {"locked"}, order : OrderRow]
  \cup [step : {"stored"}, id : Orders]
  \cup [step : {"reprice"}, id : Orders, price : Nat]
  \cup [step : {"cancel"}, id : Orders, price : Nat, remaining : Int]

\* Every variable holds what its table, queue or call can hold; a job number is
\* always that of an order that was stored, and a transaction that of a worker
\* which is matching.
TypeOK ==
  /\ orders \in Seq(OrderRow) /\ Len(orders) <= MaxOrders
  /\ wallet \in Wallet /\ wallet.ok
  /\ \A h \in Handlers : handler[h] \in HandlerType
  /\ \A i \in DOMAIN waiting : waiting[i] \in DOMAIN orders
  /\ delayed \subseteq DOMAIN orders /\ unqueued \subseteq DOMAIN orders
  /\ attempts \in [Orders -> 0 .. MaxAttempts]
  /\ \A w \in Workers : /\ worker[w] \in JobType
                         /\ worker[w] # NoJob => worker[w].id \in DOMAIN orders
                         /\ txn.owner = w <=> worker[w].phase = "matching"
  /\ listening \in BOOLEAN /\ crashes \in 0 .. MaxCrashes
  /\ executed \in [Orders -> Int] /\ earned \in Money /\ orphaned \in Money

Total(column, what) == SumFunctionOnSet([u \in Users |-> column[<<u, what>>]], Users)

\* Trading moves money between users and between the two columns of a user and
\* never makes or loses any, whatever is matched, cancelled, repriced, rolled
\* back or retried: the postings of settleMatch balance, and a transaction that
\* throws after some of them leaves no trace.
ValueConserved ==
  \A what \in {"cash", "token"} :
    Total(wallet.available, what) + Total(wallet.locked, what)
      = Total(OpeningAvailable, what) + Total(OpeningLocked, what)

Live(o) == orders[o].status \in {"OPEN", "PARTIALLY_FILLED"}

Remaining(o) == orders[o].quantity - orders[o].filled

PledgeOf(o) ==
  Pledge(orders[o].owner, orders[o].side, Remaining(o), orders[o].price)

PledgedTo(a) == {o \in DOMAIN orders : Live(o) /\ PledgeOf(o).account = a}
Pledged(a) == SumFunctionOnSet([o \in PledgedTo(a) |-> PledgeOf(o).amount], PledgedTo(a))

\* What an account has locked is exactly what its live orders still pledge, what
\* a createOrder has locked and not stored yet (or never will), and what trades
\* have paid in: placing an order locks, a fill takes out the pledge of the
\* filled part and no more (at the maker's price plus the refund of the price
\* improvement), a MARKET order gives back what it did not spend.
LockedIsAccountedFor ==
  \A a \in Accounts :
    wallet.locked[a] = OpeningLocked[a] + Pledged(a) + InFlightOn(a) + orphaned[a] + earned[a]

\* "cancellation unlocks the remaining locked amount only": once no order of the
\* market is live and no request is half way, nothing of what the orders locked
\* is left locked and nothing that was locked for another purpose is unlocked.
CancellationUnlocksTheRemainder ==
  (\A o \in DOMAIN orders : ~Live(o)) =>
    \A a \in Accounts :
      wallet.locked[a] = OpeningLocked[a] + InFlightOn(a) + orphaned[a] + earned[a]

\* The row of an order counts the trades it is in, and they are never more than
\* was asked for: the engine writes the fill it computed from the row it read,
\* so the row must not have changed since.
FilledIsExecuted ==
  \A o \in DOMAIN orders :
    orders[o].filled = executed[o] /\ executed[o] <= orders[o].quantity

Agrees(o, price) ==
  orders[o].type = "LIMIT" =>
    IF orders[o].side = "BUY" THEN price <= orders[o].price ELSE price >= orders[o].price

\* "Order cannot be cancelled" once it is filled: whatever a request has read
\* before, an order that was executed completely does not change its status.
FilledStaysFilled ==
  [][\A o \in DOMAIN orders : orders[o].status = "FILLED" => orders'[o].status = "FILLED"]_vars

Crosses(o, p) ==
  /\ orders[o].side # orders[p].side /\ orders[o].owner # orders[p].owner
  /\ \/ orders[o].type = "MARKET" \/ Agrees(o, orders[p].price)

\* Resting orders with a better price for taker than maker's, or the same price
\* and an earlier creation, that were stored before taker.
AheadOf(taker, maker) ==
  LET better(p, q) == IF orders[taker].side = "BUY" THEN p < q ELSE p > q
  IN  {o \in DOMAIN orders :
         /\ o < taker /\ Crosses(taker, o)
         /\ \/ better(orders[o].price, orders[maker].price)
            \/ orders[o].price = orders[maker].price /\ o < maker}

Exhausted(o) == txn.orders[o].filled = orders[o].quantity

\* FIFO at the best price: an order trades only when every open order with a
\* better price, or the same price and an earlier creation, has been filled
\* completely, by this transaction or before.
BestOrderFirst ==
  txn # NoTxn =>
    \A f \in txn.fills : \A o \in AheadOf(f.taker, f.maker) :
      orders[o].status = "OPEN" => Exhausted(o)

\* The same for every order that waits for the rest of its quantity.
LiveOrderFirst ==
  txn # NoTxn =>
    \A f \in txn.fills : \A o \in AheadOf(f.taker, f.maker) :
      Live(o) => Exhausted(o)

\* No match is forgotten: when nothing is queued or in progress, two open LIMIT
\* orders that cross are left in the book only when the job of the later one
\* was never queued or has used up its attempts.
BookUncrossed ==
  (Still /\ NothingQueued) =>
    \A o, p \in DOMAIN orders :
      /\ o < p /\ orders[o].status = "OPEN" /\ orders[p].status = "OPEN"
      /\ orders[o].type = "LIMIT" /\ orders[p].type = "LIMIT" /\ Crosses(p, o)
      => p \in unqueued \/ attempts[p] = MaxAttempts

InProgress(o) ==
  \/ \E i \in DOMAIN waiting : waiting[i] = o
  \/ o \in delayed
  \/ \E w \in Workers : worker[w] # NoJob /\ worker[w].id = o

\* Every order that was queued is decided: its job completes or uses up its
\* attempts, however many orders are queued with it and fail and are retried.
EveryJobEnds == \A o \in Orders : InProgress(o) ~> ~InProgress(o) \/ ~listening
==============================================================================
