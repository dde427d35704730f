------------------------------- MODULE Payments -------------------------------
(***************************************************************************)
(* Payments as a whole: what users and administrators ask for, the payout  *)
(* processor, the scanner, the chain, and TransactionsCron, whose runs     *)
(* every ten seconds complete what is deep enough in the chain and do not  *)
(* wait for each other.                                                    *)
(***************************************************************************)
EXTENDS Deposits, Functions

CONSTANTS
  Checks,   \* runs of checkPendingTransactions that may overlap
  Required  \* getRequiredConfirmations

VARIABLE check  \* what each run carries

payVars == <<ledgerVars, withdrawalVars, depositVars, check>>

NoCheck == [step |-> "idle"]

PayInit ==
  /\ LedgerInit /\ WithdrawalInit /\ DepositInit
  /\ linked \in [Payers -> {NoWallet, "checksum"}]
  /\ check = [r \in Checks |-> NoCheck]

------------------------------------------------------------------------------
\* Mutants: completed rows are read again; deposits are not read.
ConfirmableAgain == {t \in DOMAIN txs : txs[t].hash # 0}
ConfirmablePayouts ==
  {t \in DOMAIN txs : txs[t].status = "PENDING" /\ txs[t].hash # 0 /\ txs[t].type = "WITHDRAW"}

(***************************************************************************)
(* TransactionsCron.checkPendingTransactions                               *)
(***************************************************************************)
Confirmable == {t \in DOMAIN txs : txs[t].status = "PENDING" /\ txs[t].hash # 0}

StartCheck(r) ==
  /\ check[r] = NoCheck /\ Confirmable # {}
  /\ check' = [check EXCEPT ![r] =
       [step |-> "count",
        todo |-> {[id |-> t, hash |-> txs[t].hash, status |-> txs[t].status] : t \in Confirmable}]]
  /\ UNCHANGED <<ledgerVars, withdrawalVars, depositVars>>

Capped(n) == Smallest(n, Required)

\* The confirmations of the hash it has read are written; enough of them end it.
CountConfirmations(r) ==
  /\ check[r].step = "count"
  /\ \E x \in check[r].todo :
       /\ txs' = [txs EXCEPT ![x.id].confirmations = Capped(Confirmations(x.hash))]
       /\ check' = [check EXCEPT ![r] =
            IF Confirmations(x.hash) >= Required
            THEN [step |-> "finish", todo |-> check[r].todo \ {x}, item |-> x]
            ELSE [step |-> "count", todo |-> check[r].todo \ {x}]]
  /\ UNCHANGED <<cashTable, request, failures, txHistory, withdrawalVars, depositVars>>

\* updateMany on the cash row: no column is checked, and a user without a row
\* gets nothing.
Completed(row) ==
  IF row.user \notin cashRows THEN cash
  ELSE IF row.type = "DEPOSIT" THEN [cash EXCEPT ![row.user].available = @ + row.amount]
  ELSE [cash EXCEPT ![row.user].locked = @ - row.amount]

Finish(r) ==
  LET t == check[r].item.id
      decidedSince == Decided(t) /\ ~MovesMoney(check[r].item.status)
  IN  /\ check[r].step = "finish"
      /\ txs' = [txs EXCEPT ![t].status = "COMPLETED"]
      /\ cash' = Completed(txs[t])
      /\ released' = IF txs[t].type = "WITHDRAW" /\ txs[t].user \in cashRows
                     THEN [released EXCEPT ![t] = @ + 1] ELSE released
      /\ credited' = IF txs[t].type = "DEPOSIT" /\ txs[t].user \in cashRows
                     THEN [credited EXCEPT ![t] = @ + 1] ELSE credited
      /\ contested' = IF decidedSince THEN [contested EXCEPT ![t] = @ + 1] ELSE contested
      /\ check' = [check EXCEPT ![r] = [step |-> "count", todo |-> check[r].todo]]
      /\ UNCHANGED <<cashRows, request, failures, overruled, withdrawalVars, depositVars>>

\* The node or the database fails for one row; the run goes on.
CheckFails(r) ==
  /\ Fail
  /\ \/ /\ check[r].step = "count"
        /\ \E x \in check[r].todo : check' = [check EXCEPT ![r].todo = @ \ {x}]
     \/ /\ check[r].step = "finish"
        /\ check' = [check EXCEPT ![r] = [step |-> "count", todo |-> check[r].todo]]
  /\ UNCHANGED <<txs, cashTable, request, txHistory, withdrawalVars, depositVars>>

EndCheck(r) ==
  /\ check[r].step = "count" /\ check[r].todo = {}
  /\ check' = [check EXCEPT ![r] = NoCheck]
  /\ UNCHANGED <<ledgerVars, withdrawalVars, depositVars>>

AdminDecides(c) == AdminPosts(c) /\ UNCHANGED <<withdrawalVars, depositVars, check>>

\* What requests have locked whose row is not stored yet.
Withdrawing(u) ==
  {c \in Clients : request[c].step = "withdraw" /\ request[c].asked.user = u}
LockedInFlight(u) ==
  SumFunctionOnSet([c \in Withdrawing(u) |-> request[c].asked.amount], Withdrawing(u))

(***************************************************************************)
(* The backend restarts: requests, runs and scans are gone, the active job *)
(* stalls and is run again.                                                *)
(***************************************************************************)
RestartPayments ==
  /\ Fail
  /\ request' = [c \in Clients |-> NoRequest]
  /\ check' = [r \in Checks |-> NoCheck]
  /\ scan' = [s \in Scans |-> NoScan]
  /\ stuckScan' = {}
  /\ orphanedCash' = [u \in Payers |-> orphanedCash[u] + LockedInFlight(u)]
  /\ jobs' = IF processor = NoPayout THEN jobs ELSE <<processor.id>> \o jobs
  /\ processor' = NoPayout
  /\ broken' = Unrecorded
  /\ UNCHANGED <<txs, cashTable, txHistory, linked, chainVars, sent, sped,
                 cursor, scanStart, missed>>

------------------------------------------------------------------------------
CashNext ==
  /\ \E u \in Payers, key \in CreditKeys :
       DepositDemo(u, 1, key) \/ \E v \in Payers : ProcessTransfer(u, v, 1, key)
  /\ UNCHANGED <<withdrawalVars, depositVars, check>>

SweepNext ==
  /\ \E c \in Clients : SweepReads(c) \/ SweepWrites(c) \/ SweepEnds(c)
  /\ UNCHANGED <<withdrawalVars, depositVars, check>>

AdminNext ==
  \E c \in Clients :
    \/ /\ \/ \E t \in TxIds, status \in AdminStatuses : AdminReads(c, t, status)
          \/ AdminThrows(c)
       /\ UNCHANGED <<withdrawalVars, depositVars, check>>
    \/ AdminDecides(c)

WithdrawNext ==
  /\ \/ \E u \in Payers, form \in {"checksum", "lower"} : CreateWallet(u, form)
     \/ \E c \in Clients :
          \/ \E w \in WithdrawRequests : LockWithdrawal(c, w)
          \/ StoreWithdrawal(c) \/ QueueWithdrawal(c) \/ WithdrawThrows(c)
  /\ UNCHANGED <<depositVars, check>>

PayoutStep ==
  /\ TakePayout \/ RejectPayout \/ SendPayout \/ StorePayoutHash \/ CompletePayout
  /\ UNCHANGED <<depositVars, check>>

PayoutNext == PayoutStep \/ (PayoutThrows /\ UNCHANGED <<depositVars, check>>)

GasNext ==
  /\ \/ ScanStuck \/ \E t \in TxIds : MarkStuck(t) \/ StuckCheckThrows
     \/ \E c \in Clients :
          \/ \E t \in TxIds : ReadForSpeedUp(c, t) \/ ReadForRefund(c, t)
          \/ SpeedUp(c) \/ StoreSpeedUp(c) \/ Refund(c) \/ InterventionThrows(c)
  /\ UNCHANGED <<depositVars, check>>

MineNext ==
  /\ \E i \in 1 .. MaxChain, fate \in {"mined", "reverted"} : Mine(i, fate)
  /\ UNCHANGED <<depositVars, check>>

BlockNext == PassBlock /\ UNCHANGED check

ReceiveNext == (\E logs \in Transfers : Receive(logs)) /\ UNCHANGED check

ScanStep(s) == (StartScan(s) \/ ScanTransfer(s) \/ MoveCursor(s)) /\ UNCHANGED check

ScanNext ==
  \E s \in Scans :
    ScanStep(s) \/ ((ScanTransferFails(s) \/ ScanThrows(s)) /\ UNCHANGED check)

CheckStep(r) == StartCheck(r) \/ CountConfirmations(r) \/ Finish(r) \/ EndCheck(r)

CheckNext == \E r \in Checks : CheckStep(r) \/ CheckFails(r)

\* Nothing is in progress, or a bound keeps it from going on.
PayRest ==
  /\ \/ /\ \A c \in Clients : request[c] = NoRequest
        /\ processor = NoPayout /\ jobs = <<>> /\ stuckScan = {}
        /\ \A s \in Scans : scan[s] = NoScan
        /\ \A r \in Checks : check[r] = NoCheck
     \/ ~Room(1) \/ Len(chain) = MaxChain
  /\ UNCHANGED payVars

PayNext ==
  \/ CashNext \/ SweepNext \/ AdminNext \/ WithdrawNext \/ PayoutNext \/ GasNext
  \/ MineNext \/ BlockNext \/ ReceiveNext \/ ScanNext \/ CheckNext
  \/ RestartPayments \/ PayRest

PaySpec == PayInit /\ [][PayNext]_payVars

(***************************************************************************)
(* Cron starts a run while there is something to complete, a started run   *)
(* goes on; blocks follow each other.                                      *)
(***************************************************************************)
PayFairness ==
  /\ WF_payVars(PayoutStep)
  /\ \A r \in Checks : WF_payVars(CheckStep(r))
  /\ \A s \in Scans : WF_payVars(ScanStep(s))
PayFairSpec == PaySpec /\ PayFairness

------------------------------------------------------------------------------
(***************************************************************************)
(* Properties                                                              *)
(***************************************************************************)
Locks(t) == IF txs[t].type = "WITHDRAW" THEN 1 ELSE 0

RowsOf(u) == {t \in DOMAIN txs : txs[t].user = u}
Unreleased(u) ==
  SumFunctionOnSet([t \in RowsOf(u) |-> txs[t].amount * (Locks(t) - released[t])], RowsOf(u))

\* What a user has locked is the amounts of the withdrawals that have not been
\* released yet, and what requests have locked and not stored (or never will):
\* every posting is of the amount that was locked, on the column it was locked in.
LockedIsExplained ==
  \A u \in Payers :
    cash[u].locked
      = OpeningCash[u].locked + LockedInFlight(u) + orphanedCash[u] + Unreleased(u)

\* The money of a transaction moves once. Each further move is one of two writes
\* that nothing in the code prevents: a run of TransactionsCron that completes a
\* row somebody decided after the run had read it as PENDING, or an administrator
\* who writes over a row that is already decided. Retries, restarts, refunds,
\* speed-ups and the runs that come later never move it again.
MovedOnce ==
  \A t \in TxIds : released[t] + credited[t] <= 1 + contested[t] + overruled[t]

\* The same status update is executed once, as AdminUpdateWithdrawStatusDto says
\* of its idempotency key: a request for the status a row already has moves no
\* money.
StatusUpdateOnce ==
  [][\A c \in Clients :
       AdminDecides(c) /\ request[c].status = txs[request[c].id].status
       => UNCHANGED <<cash, released>>]_payVars

\* A withdrawal is paid out a second time only when the hash of the payout
\* before was lost, however often its job is run.
PaidAgainAfterBreak == \A t \in TxIds : sent[t] <= 1 + broken[t]

\* The cursor never passes a transfer: all transactions in the blocks that were
\* scanned are registered, but for those the scanner saw and could not store or
\* whose sender it did not know, whatever runs overlap and fail, as long as the
\* tip moves no further than FirstRange blocks until the first run has ended.
ScannedIsRegistered ==
  \A i \in DOMAIN chain :
    /\ chain[i].logs # <<>>
    /\ scanStart < chain[i].block /\ chain[i].block <= cursor
    => Registered(i) \/ i \in missed

\* A transaction whose hash is deep enough in the chain does not stay PENDING,
\* unless a speed-up puts another hash in its place.
ConfirmedIsSettled ==
  \A t \in TxIds :
    (/\ IsTx(t) /\ txs[t].status = "PENDING" /\ txs[t].hash # 0
     /\ Confirmations(txs[t].hash) >= Required)
    ~> (IsTx(t) /\ (txs[t].status # "PENDING" \/ txs[t].speedUps > 0))
==============================================================================
