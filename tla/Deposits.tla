------------------------------- MODULE Deposits -------------------------------
(***************************************************************************)
(* DepositScannerCron: once a minute the blocks after the stored cursor    *)
(* are searched for token transfers to the treasury, and each is stored as *)
(* a PENDING deposit of the user whose walletAddress sent it.              *)
(***************************************************************************)
EXTENDS Withdrawals

CONSTANTS
  Scans,       \* runs of the scanner that may overlap
  Transfers,   \* transfers others may send: who and how much
  MaxLogs,     \* bound: transfers in one transaction of the chain
  BlockRange,  \* blockRangeLimit
  FirstRange,  \* blocks before the current one where the first scan starts
  MaxHeight    \* bound: blocks

ASSUME DepositAssumption ==
  /\ MaxLogs \in Nat /\ BlockRange \in Nat /\ FirstRange \in Nat
  /\ \A logs \in Transfers : logs \in Seq([from : Nat, amount : Nat]) /\ Len(logs) <= MaxLogs

VARIABLES
  cursor,      \* SystemConfig lastScannedBlock, NoCursor before the first scan
  scan,        \* what each run carries
  scanStart,   \* history: the block after which the first completed scan began
  missed       \* history: transactions a scan saw and could not store, or of an unknown sender

depositVars == <<cursor, scan, scanStart, missed>>

NoCursor == -1
NoScan == [step |-> "idle"]

DepositInit ==
  /\ cursor = NoCursor /\ scan = [s \in Scans |-> NoScan]
  /\ scanStart = NoCursor /\ missed = {}

\* Somebody sends tokens to the treasury, in a block of their own.
Receive(logs) ==
  /\ height < MaxHeight
  /\ Len(chain) < MaxChain
  /\ height' = height + 1
  /\ chain' = Append(chain, [kind |-> "deposit", tx |-> 0, nonce |-> 0, fate |-> "mined",
                             block |-> height + 1, logs |-> logs])
  /\ UNCHANGED <<ledgerVars, linked, payoutVars, gasVars, depositVars>>

PassBlock ==
  /\ height < MaxHeight /\ height' = height + 1
  /\ UNCHANGED <<ledgerVars, linked, chain, payoutVars, gasVars, depositVars>>

Smallest(a, b) == IF a < b THEN a ELSE b
Largest(a, b) == IF a > b THEN a ELSE b

LastScanned == IF cursor = NoCursor THEN Largest(0, height - FirstRange) ELSE cursor

\* The transfers in these blocks, each with its transaction's hash.
LogsIn(from, to) ==
  {[hash |-> i, log |-> k] : i \in {j \in DOMAIN chain : chain[j].block \in from .. to},
                             k \in 1 .. MaxLogs}

StartScan(s) ==
  /\ scan[s] = NoScan
  /\ LastScanned < height
  /\ LET to == Smallest(height, LastScanned + 1 + BlockRange)
     IN  scan' = [scan EXCEPT ![s] =
           [step |-> "scan", from |-> LastScanned, to |-> to,
            todo |-> {l \in LogsIn(LastScanned + 1, to) : l.log \in DOMAIN chain[l.hash].logs}]]
  /\ UNCHANGED <<ledgerVars, withdrawalVars, cursor, scanStart, missed>>

FirstLog(S) == CHOOSE l \in S : \A k \in S : l.hash < k.hash \/ (l.hash = k.hash /\ l.log <= k.log)

Registered(hash) == \E t \in DOMAIN txs : txs[t].hash = hash /\ txs[t].type = "DEPOSIT"

\* findFirst compares the address as the chain library spells it.
SenderOf(log) == {u \in Payers : log.from = u /\ linked[u] = "checksum"}

NextScanned(s) == [scan EXCEPT ![s].todo = @ \ {FirstLog(@)}]

(***************************************************************************)
(* processTransfer: an unknown sender and a known hash are passed over.    *)
(* The hash is unique in the table, so that a run that looked it up before *)
(* another stored it only fails to store it again.                         *)
(***************************************************************************)
ScanTransfer(s) ==
  LET l   == FirstLog(scan[s].todo)
      log == chain[l.hash].logs[l.log]
  IN  /\ scan[s].step = "scan" /\ scan[s].todo # {}
      /\ IF SenderOf(log) = {} \/ Registered(l.hash)
         THEN UNCHANGED txs
         ELSE /\ Room(1)
              /\ txs' = Append(txs, TxRow("DEPOSIT", log.from, log.amount, "PENDING", l.hash, 0))
      /\ missed' = IF SenderOf(log) = {} THEN missed \cup {l.hash} ELSE missed
      /\ scan' = NextScanned(s)
      /\ UNCHANGED <<cashTable, request, failures, txHistory, withdrawalVars, cursor, scanStart>>

\* A transfer that cannot be stored is logged and passed over.
ScanTransferFails(s) ==
  /\ scan[s].step = "scan" /\ scan[s].todo # {} /\ Fail
  /\ missed' = missed \cup {FirstLog(scan[s].todo).hash}
  /\ scan' = NextScanned(s)
  /\ UNCHANGED <<txs, cashTable, request, txHistory, withdrawalVars, cursor, scanStart>>

\* Mutant: the cursor moves to the current block.
MoveCursorToTip(s) ==
  /\ scan[s].step = "scan" /\ scan[s].todo = {}
  /\ cursor' = height
  /\ scanStart' = IF cursor = NoCursor THEN scan[s].from
                  ELSE Smallest(scanStart, scan[s].from)
  /\ scan' = [scan EXCEPT ![s] = NoScan]
  /\ UNCHANGED <<ledgerVars, withdrawalVars, missed>>

MoveCursor(s) ==
  /\ scan[s].step = "scan" /\ scan[s].todo = {}
  /\ cursor' = scan[s].to
  /\ scanStart' = IF cursor = NoCursor THEN scan[s].from
                  ELSE Smallest(scanStart, scan[s].from)
  /\ scan' = [scan EXCEPT ![s] = NoScan]
  /\ UNCHANGED <<ledgerVars, withdrawalVars, missed>>

ScanThrows(s) ==
  /\ scan[s].step = "scan" /\ Fail
  /\ scan' = [scan EXCEPT ![s] = NoScan]
  /\ UNCHANGED <<txs, cashTable, request, txHistory, withdrawalVars, cursor, scanStart, missed>>
==============================================================================
