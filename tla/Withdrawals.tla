------------------------------ MODULE Withdrawals ------------------------------
(***************************************************************************)
(* A withdrawal from the request to the chain: PaymentService.             *)
(* processWithdrawal locks the amount, stores the row, queues a job; the   *)
(* processor of the queue "transaction-processing" (concurrency 1, no      *)
(* attempts option, so that a job that throws is not tried again) sends    *)
(* the payout and stores its hash; GasSpikeService may replace it.         *)
(*                                                                         *)
(* chain holds what the treasury has broadcast and what was sent to it, in *)
(* the order it was first seen; a hash is a place in chain, 0 is null.     *)
(* Two transactions of the treasury with one nonce exclude each other.     *)
(***************************************************************************)
EXTENDS Transactions

CONSTANTS
  WithdrawRequests,  \* user, amount and idempotency key of processWithdrawal
  Interventions,     \* which of "speedUp", "refund" are called
  MaxSpeedUps,       \* MAX_SPEED_UP_ATTEMPTS
  MaxChain           \* bound: transactions on chain

ASSUME WithdrawalAssumption ==
  WithdrawRequests \subseteq [user : Payers, amount : Nat, key : Nat]

VARIABLES
  linked,     \* how each user's walletAddress is written, NoWallet if null
  chain, height,
  jobs,       \* the wait list of the queue
  processor,  \* what the worker's job carries
  stuckScan,  \* the rows a run of checkStuckTransactions has read and not updated yet
  sent,       \* history: payouts broadcast for a row by the processor
  broken,     \* history: of these, how many were never written to the row
  sped,       \* history: payouts broadcast for a row by a speed-up
  orphanedCash \* history: funds locked for a withdrawal whose row was never stored

payoutVars == <<jobs, processor, sent, broken, orphanedCash>>
chainVars == <<chain, height>>
gasVars == <<stuckScan, sped>>
withdrawalVars == <<linked, chainVars, payoutVars, gasVars>>

NoWallet == "none"
NoPayout == [step |-> "idle"]

WithdrawalInit ==
  /\ chain = <<>> /\ height = 0
  /\ jobs = <<>> /\ processor = NoPayout
  /\ stuckScan = {}
  /\ sent = [t \in TxIds |-> 0] /\ broken = [t \in TxIds |-> 0] /\ sped = [t \in TxIds |-> 0]
  /\ orphanedCash = [u \in Payers |-> 0]

------------------------------------------------------------------------------
(***************************************************************************)
(* The chain                                                               *)
(***************************************************************************)
OfTreasury(x) == x.kind \in {"payout", "cancel"}
Outgoing == {i \in DOMAIN chain : OfTreasury(chain[i])}
Used(n) == \E i \in Outgoing : chain[i].nonce = n /\ chain[i].fate \in {"mined", "reverted"}

\* The next nonce of the treasury, not counting and counting what is pending.
LatestNonce == CHOOSE n \in 1 .. MaxChain + 1 : ~Used(n) /\ \A m \in 1 .. n - 1 : Used(m)
PendingNonce == CHOOSE n \in 1 .. MaxChain + 1 :
  /\ \A i \in Outgoing : chain[i].nonce # n
  /\ \A m \in 1 .. n - 1 : \E i \in Outgoing : chain[i].nonce = m

Outgo(kind, t, nonce) ==
  [kind |-> kind, tx |-> t, nonce |-> nonce, fate |-> "pending", block |-> 0, logs |-> <<>>]

OnChain(x) == Len(chain) < MaxChain /\ chain' = Append(chain, x) /\ UNCHANGED height

\* A block with a pending transaction of the treasury, whose rivals are dropped;
\* a token transfer may revert.
Mine(i, fate) ==
  /\ i \in Outgoing /\ chain[i].fate = "pending" /\ chain[i].nonce = LatestNonce
  /\ fate \in {"mined", "reverted"}
  /\ height' = height + 1
  /\ chain' = [k \in DOMAIN chain |->
       CASE k = i -> [chain[i] EXCEPT !.fate = fate, !.block = height + 1]
         [] k # i /\ k \in Outgoing /\ chain[k].nonce = chain[i].nonce
              -> [chain[k] EXCEPT !.fate = "dropped"]
         [] OTHER -> chain[k]]
  /\ UNCHANGED <<ledgerVars, linked, payoutVars, gasVars>>

\* getTransactionConfirmations: the receipt's depth, whatever its status.
Confirmations(hash) ==
  IF chain[hash].fate \in {"mined", "reverted"} THEN height - chain[hash].block + 1 ELSE 0

------------------------------------------------------------------------------
(***************************************************************************)
(* PaymentService.createWallet and processWithdrawal                       *)
(***************************************************************************)
CreateWallet(u, form) ==
  /\ linked[u] = NoWallet /\ form \in {"checksum", "lower"}
  /\ linked' = [linked EXCEPT ![u] = form]
  /\ UNCHANGED <<ledgerVars, chainVars, payoutVars, gasVars>>

LockWithdrawal(c, w) ==
  /\ request[c] = NoRequest
  /\ ~TxKeyUsed(w.key) /\ Room(1)
  /\ w.user \in cashRows /\ CashAffords(w.user, LockFundsOf(w.amount))
  /\ cash' = [cash EXCEPT ![w.user] = CashAfter(@, LockFundsOf(w.amount))]
  /\ request' = [request EXCEPT ![c] = [step |-> "withdraw", asked |-> w]]
  /\ UNCHANGED <<txs, cashRows, failures, txHistory, withdrawalVars>>

StoreWithdrawal(c) ==
  LET w == request[c].asked
  IN  /\ request[c].step = "withdraw"
      /\ ~TxKeyUsed(w.key) /\ Room(1)
      /\ txs' = Append(txs, TxRow("WITHDRAW", w.user, w.amount, "PENDING", 0, w.key))
      /\ request' = [request EXCEPT ![c] = [step |-> "queue", id |-> Len(txs) + 1]]
      /\ UNCHANGED <<cashTable, failures, txHistory, withdrawalVars>>

QueueWithdrawal(c) ==
  /\ request[c].step = "queue"
  /\ jobs' = Append(jobs, request[c].id)
  /\ request' = [request EXCEPT ![c] = NoRequest]
  /\ UNCHANGED <<txs, cashTable, failures, txHistory, linked, chainVars, gasVars,
                 processor, sent, broken, orphanedCash>>

\* The key was used in between, or the database or Redis fails: what is locked
\* stays locked, what is stored stays PENDING.
WithdrawThrows(c) ==
  /\ request[c].step \in {"withdraw", "queue"}
  /\ \/ request[c].step = "withdraw" /\ TxKeyUsed(request[c].asked.key) /\ UNCHANGED failures
     \/ Fail
  /\ orphanedCash' = IF request[c].step = "withdraw"
                     THEN [orphanedCash EXCEPT ![request[c].asked.user] = @ + request[c].asked.amount]
                     ELSE orphanedCash
  /\ request' = [request EXCEPT ![c] = NoRequest]
  /\ UNCHANGED <<txs, cashTable, txHistory, linked, chainVars, gasVars, jobs, processor, sent, broken>>

------------------------------------------------------------------------------
\* Mutant: a row that has a hash is paid out too.
TakeAnyPayout ==
  /\ processor = NoPayout /\ jobs # <<>>
  /\ jobs' = Tail(jobs)
  /\ processor' = IF txs[Head(jobs)].status = "PENDING" THEN [step |-> "send", id |-> Head(jobs)]
                  ELSE NoPayout
  /\ UNCHANGED <<ledgerVars, linked, chainVars, gasVars, sent, broken, orphanedCash>>

(***************************************************************************)
(* TransactionProcessingProcessor.process                                  *)
(***************************************************************************)
TakePayout ==
  /\ processor = NoPayout /\ jobs # <<>>
  /\ jobs' = Tail(jobs)
  /\ processor' =
       LET row == txs[Head(jobs)]
       IN  IF row.status = "PENDING" /\ row.type = "WITHDRAW" /\ row.hash = 0
           THEN [step |-> IF linked[row.user] = NoWallet THEN "reject" ELSE "send", id |-> Head(jobs)]
           ELSE NoPayout
  /\ UNCHANGED <<ledgerVars, linked, chainVars, gasVars, sent, broken, orphanedCash>>

\* No wallet: the row fails, the funds stay locked.
RejectPayout ==
  /\ processor.step = "reject"
  /\ txs' = [txs EXCEPT ![processor.id].status = "FAILED"]
  /\ processor' = NoPayout
  /\ UNCHANGED <<cashTable, request, failures, txHistory, linked, chainVars, gasVars,
                 jobs, sent, broken, orphanedCash>>

SendPayout ==
  /\ processor.step = "send"
  /\ OnChain(Outgo("payout", processor.id, PendingNonce))
  /\ sent' = [sent EXCEPT ![processor.id] = @ + 1]
  /\ processor' = [step |-> "store", id |-> processor.id, hash |-> Len(chain) + 1]
  /\ UNCHANGED <<ledgerVars, linked, gasVars, jobs, broken, orphanedCash>>

StorePayoutHash ==
  /\ processor.step = "store"
  /\ txs' = [txs EXCEPT ![processor.id].hash = processor.hash]
  /\ processor' = [step |-> "done", id |-> processor.id]
  /\ UNCHANGED <<cashTable, request, failures, txHistory, linked, chainVars, gasVars,
                 jobs, sent, broken, orphanedCash>>

CompletePayout ==
  /\ processor.step = "done"
  /\ processor' = NoPayout
  /\ UNCHANGED <<ledgerVars, linked, chainVars, gasVars, jobs, sent, broken, orphanedCash>>

\* The payout is broadcast and its hash is not in the row.
Unrecorded == IF processor.step = "store"
              THEN [broken EXCEPT ![processor.id] = @ + 1] ELSE broken

\* The database fails, or the RPC node does, before it has the payout (a step
\* of "send") or after (a step of "store"); the job is not tried again.
PayoutThrows ==
  /\ processor.step \in {"reject", "send", "store"} /\ Fail
  /\ broken' = Unrecorded
  /\ processor' = NoPayout
  /\ UNCHANGED <<txs, cashTable, request, txHistory, linked, chainVars, gasVars,
                 jobs, sent, orphanedCash>>

------------------------------------------------------------------------------
(***************************************************************************)
(* GasSpikeService.  checkStuckTransactions is a job of TransactionsCron;  *)
(* speedUpTransaction and processRefund are called by no controller yet.   *)
(***************************************************************************)
LooksStuck(t) ==
  /\ txs[t].status = "PENDING" /\ txs[t].hash # 0 /\ txs[t].type = "WITHDRAW"
  /\ ~txs[t].stuck /\ txs[t].confirmations = 0

ScanStuck ==
  /\ stuckScan = {}
  /\ \E S \in SUBSET {t \in DOMAIN txs : LooksStuck(t)} : S # {} /\ stuckScan' = S
  /\ UNCHANGED <<ledgerVars, linked, chainVars, payoutVars, sped>>

MarkStuck(t) ==
  /\ t \in stuckScan
  /\ txs' = [txs EXCEPT ![t].stuck = TRUE]
  /\ stuckScan' = stuckScan \ {t}
  /\ UNCHANGED <<cashTable, request, failures, txHistory, linked, chainVars, payoutVars, sped>>

\* An update fails: the rows that are left are read again by the next run.
StuckCheckThrows ==
  /\ stuckScan # {} /\ Fail
  /\ stuckScan' = {}
  /\ UNCHANGED <<txs, cashTable, request, txHistory, linked, chainVars, payoutVars, sped>>

ReadForSpeedUp(c, t) ==
  /\ "speedUp" \in Interventions /\ request[c] = NoRequest /\ IsTx(t)
  /\ txs[t].type = "WITHDRAW" /\ txs[t].status = "PENDING" /\ txs[t].hash # 0
  /\ txs[t].speedUps < MaxSpeedUps
  /\ linked[txs[t].user] # NoWallet
  /\ request' = [request EXCEPT ![c] = [step |-> "speedUp", id |-> t]]
  /\ UNCHANGED <<txs, cashTable, failures, txHistory, withdrawalVars>>

\* speedUpWithdrawal takes the latest nonce: that of the oldest pending
\* transaction of the treasury, or a new one when nothing is pending.
SpeedUp(c) ==
  /\ request[c].step = "speedUp"
  /\ OnChain(Outgo("payout", request[c].id, LatestNonce))
  /\ sped' = [sped EXCEPT ![request[c].id] = @ + 1]
  /\ request' = [request EXCEPT ![c] =
       [step |-> "storeSpeedUp", id |-> request[c].id, hash |-> Len(chain) + 1]]
  /\ UNCHANGED <<txs, cashTable, failures, txHistory, linked, payoutVars, stuckScan>>

StoreSpeedUp(c) ==
  LET t == request[c].id
  IN  /\ request[c].step = "storeSpeedUp"
      /\ txs' = [txs EXCEPT ![t].hash = request[c].hash, ![t].speedUps = @ + 1]
      /\ request' = [request EXCEPT ![c] = NoRequest]
      /\ UNCHANGED <<cashTable, failures, txHistory, withdrawalVars>>

ReadForRefund(c, t) ==
  /\ "refund" \in Interventions /\ request[c] = NoRequest /\ IsTx(t)
  /\ txs[t].type = "WITHDRAW" /\ txs[t].stuck /\ txs[t].hash # 0
  /\ request' = [request EXCEPT ![c] = [step |-> "refund", hash |-> txs[t].hash]]
  /\ UNCHANGED <<txs, cashTable, failures, txHistory, withdrawalVars>>

(***************************************************************************)
(* The payout is replaced while it is pending; the transaction that should *)
(* give the money back then always throws, since its audit log names a     *)
(* performer "SYSTEM" that is no user, so that nothing else is written.    *)
(***************************************************************************)
Refund(c) ==
  /\ request[c].step = "refund"
  /\ chain[request[c].hash].fate = "pending"
  /\ OnChain(Outgo("cancel", 0, chain[request[c].hash].nonce))
  /\ request' = [request EXCEPT ![c] = NoRequest]
  /\ UNCHANGED <<txs, cashTable, failures, txHistory, linked, payoutVars, gasVars>>

\* The nonce is used, the node refuses, or the database fails after it.
InterventionThrows(c) ==
  /\ request[c].step \in {"speedUp", "storeSpeedUp", "refund"}
  /\ request' = [request EXCEPT ![c] = NoRequest]
  /\ UNCHANGED <<txs, cashTable, failures, txHistory, withdrawalVars>>
==============================================================================
