----------------------------- MODULE Transactions -----------------------------
(***************************************************************************)
(* The table Transaction and the cash of its users, with the operations    *)
(* that need one database transaction: demo deposits, transfers, status    *)
(* changes by an administrator, and the sweep of all wallets.  Withdrawals *)
(* and Deposits add what involves the chain, Payments puts them together.  *)
(* Rows are numbered as they are created.                                  *)
(***************************************************************************)
EXTENDS BalanceEffects, Sequences, FiniteSets

CONSTANTS
  Payers,         \* users, numbered as their Balance rows are
  MaxTxs,         \* bound: rows of Transaction
  Clients,        \* HTTP requests in progress at a time
  AdminStatuses,  \* what the administrators set transactions to
  SweepBatch,     \* SWEEP_BATCH_SIZE
  CashOperations, \* which of "demo", "transfer", "sweep" are used
  CreditKeys,     \* idempotency keys of deposits and transfers, 0 for none
  OpeningCash,    \* available and locked of each user's row
  OpeningRows,    \* users that have a cash row
  MaxFailures     \* bound: failures of the database, Redis, the RPC node, restarts

TxIds == 1 .. MaxTxs
TxTypes == {"DEPOSIT", "WITHDRAW", "TRANSFER"}
TxStatuses == {"PENDING", "PROCESSING", "COMPLETED", "FAILED", "CANCELLED"}

ASSUME PaymentAssumption ==
  /\ Payers \subseteq Nat /\ IsFiniteSet(Payers) /\ IsFiniteSet(Clients)
  /\ MaxTxs \in Nat /\ SweepBatch \in Nat \ {0} /\ MaxFailures \in Nat
  /\ AdminStatuses \subseteq TxStatuses
  /\ CreditKeys \subseteq Nat
  /\ OpeningCash \in [Payers -> [available : Nat, locked : Nat]]
  /\ OpeningRows \subseteq Payers

VARIABLES
  txs,        \* table Transaction: a sequence of rows
  cash,       \* the two columns of each user's cash row
  cashRows,   \* users that have one
  request,    \* what each request in progress carries
  failures,
  released,   \* history: how often the amount of a row has left the locked column
  credited,   \* history: how often a completed deposit has been credited
  contested,  \* history: how often TransactionsCron completed a row that was decided
              \* since it read it
  overruled   \* history: how often an administrator wrote over a decided row

cashTable == <<cash, cashRows>>
txHistory == <<released, credited, contested, overruled>>
ledgerVars == <<txs, cashTable, request, failures, txHistory>>

NoRequest == [step |-> "idle"]

TxRow(type, user, amount, status, hash, key) ==
  [type |-> type, user |-> user, amount |-> amount, status |-> status, hash |-> hash,
   key |-> key, confirmations |-> 0, stuck |-> FALSE, speedUps |-> 0]

LedgerInit ==
  /\ txs = <<>>
  /\ cash = OpeningCash /\ cashRows = OpeningRows
  /\ request = [c \in Clients |-> NoRequest]
  /\ failures = 0
  /\ released = [t \in TxIds |-> 0] /\ credited = [t \in TxIds |-> 0]
  /\ contested = [t \in TxIds |-> 0] /\ overruled = [t \in TxIds |-> 0]

IsTx(t) == t \in DOMAIN txs
Room(n) == Len(txs) + n <= MaxTxs
TxKeyUsed(key) == key # 0 /\ \E t \in DOMAIN txs : txs[t].key = key

Fail == failures < MaxFailures /\ failures' = failures + 1

(***************************************************************************)
(* PaymentLedgerService: postings of BalancesService on a user's cash.     *)
(***************************************************************************)
CashPosting(kind, amount, useLocked) ==
  [kind |-> kind, amount |-> amount, useAvailable |-> ~useLocked, useLocked |-> useLocked]

CashAffords(u, q) == q.amount > 0 /\ Affords(cash[u].available, cash[u].locked, q)

CashAfter(row, q) ==
  [available |-> row.available + Effect(q).available, locked |-> row.locked + Effect(q).locked]

LockFundsOf(amount) == CashPosting("lock", amount, FALSE)

\* Mutant: a completed withdrawal is debited from what is available.
StatusPostingAvailable(status, amount) ==
  CASE status = "COMPLETED"               -> CashPosting("debit", amount, FALSE)
    [] status \in {"FAILED", "CANCELLED"} -> CashPosting("unlock", amount, FALSE)
    [] OTHER                              -> CashPosting("none", amount, FALSE)

\* applyWithdrawalStatus: which posting a new status asks for.
StatusPosting(status, amount) ==
  CASE status = "COMPLETED"             -> CashPosting("debit", amount, TRUE)
    [] status \in {"FAILED", "CANCELLED"} -> CashPosting("unlock", amount, FALSE)
    [] OTHER                            -> CashPosting("none", amount, FALSE)

MovesMoney(status) == status \in {"COMPLETED", "FAILED", "CANCELLED"}
Decided(t) == MovesMoney(txs[t].status)

------------------------------------------------------------------------------
(***************************************************************************)
(* PaymentService.depositDemo and processTransfer: the row and the money   *)
(* in one transaction.  A key that is used in between makes the insert     *)
(* throw, so that looking it up first and inserting later is one step.     *)
(***************************************************************************)
DepositDemo(u, amount, key) ==
  /\ "demo" \in CashOperations
  /\ amount > 0 /\ ~TxKeyUsed(key) /\ Room(1)
  /\ txs' = Append(txs, TxRow("DEPOSIT", u, amount, "COMPLETED", 0, key))
  /\ cash' = [cash EXCEPT ![u] = CashAfter(@, CashPosting("credit", amount, FALSE))]
  /\ cashRows' = cashRows \cup {u}
  /\ UNCHANGED <<request, failures, txHistory>>

Transferred(u, v, amount) ==
  [cash EXCEPT ![u] = CashAfter(@, CashPosting("debit", amount, FALSE)),
               ![v] = CashAfter(@, CashPosting("credit", amount, FALSE))]

ProcessTransfer(u, v, amount, key) ==
  /\ "transfer" \in CashOperations
  /\ u # v /\ u \in cashRows
  /\ ~TxKeyUsed(key) /\ Room(2)
  /\ CashAffords(u, CashPosting("debit", amount, FALSE))
  /\ txs' = txs \o <<TxRow("TRANSFER", u, amount, "COMPLETED", 0, key),
                     TxRow("TRANSFER", v, amount, "COMPLETED", 0, 0)>>
  /\ cash' = Transferred(u, v, amount)
  /\ cashRows' = cashRows \cup {v}
  /\ UNCHANGED <<request, failures, txHistory>>

(***************************************************************************)
(* PaymentService.adminUpdateWithdrawStatus: the row is read, whatever its *)
(* type and status; a transaction writes the status and moves the money.   *)
(* The idempotency key of the request is read by nobody.                   *)
(***************************************************************************)
AdminReads(c, t, status) ==
  /\ status \in AdminStatuses
  /\ request[c] = NoRequest /\ IsTx(t)
  /\ request' = [request EXCEPT ![c] = [step |-> "admin", id |-> t, status |-> status]]
  /\ UNCHANGED <<txs, cashTable, failures, txHistory>>

AdminPosts(c) ==
  LET t   == request[c].id
      row == txs[t]
      q   == StatusPosting(request[c].status, row.amount)
  IN  /\ request[c].step = "admin"
      /\ txs' = [txs EXCEPT ![t].status = request[c].status]
      /\ IF MovesMoney(request[c].status)
         THEN /\ row.user \in cashRows /\ CashAffords(row.user, q)
              /\ cash' = [cash EXCEPT ![row.user] = CashAfter(@, q)]
              /\ released' = [released EXCEPT ![t] = @ + 1]
         ELSE UNCHANGED <<cash, released>>
      /\ overruled' = IF Decided(t) THEN [overruled EXCEPT ![t] = @ + 1] ELSE overruled
      /\ request' = [request EXCEPT ![c] = NoRequest]
      /\ UNCHANGED <<cashRows, failures, credited, contested>>

\* A column is too small, or the database fails: nothing is written.
AdminThrows(c) ==
  /\ request[c].step = "admin"
  /\ request' = [request EXCEPT ![c] = NoRequest]
  /\ UNCHANGED <<txs, cashTable, failures, txHistory>>

(***************************************************************************)
(* PaymentService.adminSweepFunds: a batch of rows is read, then one       *)
(* transaction empties each and records what was read.                     *)
(***************************************************************************)
Batch(after) ==
  LET funded == {u \in cashRows : u > after /\ cash[u].available > 0}
  IN  {u \in funded : Cardinality({v \in funded : v < u}) < SweepBatch}

\* From where the next batch is read.
SweepCursor(c) == IF request[c].step = "swept" THEN request[c].cursor ELSE 0

SweepReads(c) ==
  /\ "sweep" \in CashOperations
  /\ request[c].step \in {"idle", "swept"}
  /\ Batch(SweepCursor(c)) # {} /\ Room(Cardinality(Batch(SweepCursor(c))))
  /\ request' = [request EXCEPT ![c] =
       [step |-> "sweep",
        read |-> [u \in Batch(SweepCursor(c)) |-> cash[u].available]]]
  /\ UNCHANGED <<txs, cashTable, failures, txHistory>>

\* The rows of a batch in the order of their ids: one sequence.
InOrder(S) == {s \in [1 .. Cardinality(S) -> S] :
                \A i, k \in 1 .. Cardinality(S) : i < k => s[i] < s[k]}

SweepWrites(c) ==
  LET read == request[c].read
  IN  /\ request[c].step = "sweep"
      /\ Room(Cardinality(DOMAIN read))
      /\ cash' = [u \in Payers |-> IF u \in DOMAIN read THEN [cash[u] EXCEPT !.available = 0]
                                                        ELSE cash[u]]
      /\ \E users \in InOrder(DOMAIN read) :
           /\ txs' = txs \o [i \in DOMAIN users |->
                               TxRow("TRANSFER", users[i], read[users[i]], "COMPLETED", 0, 0)]
           /\ request' = [request EXCEPT ![c] = [step |-> "swept", cursor |-> users[Len(users)]]]
      /\ UNCHANGED <<cashRows, failures, txHistory>>

\* Nothing is left to read, or the database fails in the middle.
SweepEnds(c) ==
  /\ request[c].step \in {"sweep", "swept"}
  /\ request' = [request EXCEPT ![c] = NoRequest]
  /\ UNCHANGED <<txs, cashTable, failures, txHistory>>
==============================================================================
