---------------------------- MODULE BalanceLedger ----------------------------
(***************************************************************************)
(* What BalancesService promises to its callers.  A wallet is a row of the *)
(* Balance table: the account (user and asset) it belongs to, an available *)
(* and a locked column.  A call is one updateBalance or one                *)
(* transferBetweenAvailableAndLocked.  Every call is answered at one       *)
(* instant, as if no other call were running: its whole effect reaches one *)
(* row that can afford it at that instant, or it is refused because at     *)
(* that instant some row of the account cannot afford it, or it fails and  *)
(* changes nothing.                                                        *)
(***************************************************************************)
EXTENDS BalanceRequests

VARIABLES
  account,    \* account[r]: whose row r is, None while it does not exist
  available,  \* column "available"
  locked,     \* column "locked"
  request,    \* what each call asked for
  outcome     \* "none", "pending", "applied", "refused" or "failed"

ledgerVars == <<account, available, locked, request, outcome>>

RowsOf(a) == {r \in Rows : account[r] = a}

LedgerInit ==
  /\ account = OpeningAccount
  /\ available = OpeningAvailable
  /\ locked = OpeningLocked
  /\ request = [c \in Calls |-> None]
  /\ outcome = [c \in Calls |-> "none"]

Submit(c, q) ==
  /\ outcome[c] = "none"
  /\ request' = [request EXCEPT ![c] = q]
  /\ outcome' = [outcome EXCEPT ![c] = IF q.amount <= 0 THEN "refused" ELSE "pending"]
  /\ UNCHANGED <<account, available, locked>>

Apply(c, r) ==
  /\ outcome[c] = "pending"
  /\ account[r] = request[c].account
  /\ Affords(available[r], locked[r], request[c])
  /\ available' = [available EXCEPT ![r] = @ + Effect(request[c]).available]
  /\ locked' = [locked EXCEPT ![r] = @ + Effect(request[c]).locked]
  /\ outcome' = [outcome EXCEPT ![c] = "applied"]
  /\ UNCHANGED <<account, request>>

(***************************************************************************)
(* A credit may open the row.  The unique key (userId, assetId) does not   *)
(* bind rows whose assetId is null.                                        *)
(***************************************************************************)
OpenRow(c, r) ==
  /\ outcome[c] = "pending"
  /\ request[c].kind = "credit"
  /\ account[r] = None
  /\ request[c].account \in CashAccounts \/ RowsOf(request[c].account) = {}
  /\ account' = [account EXCEPT ![r] = request[c].account]
  /\ available' = [available EXCEPT ![r] = Effect(request[c]).available]
  /\ locked' = [locked EXCEPT ![r] = Effect(request[c]).locked]
  /\ outcome' = [outcome EXCEPT ![c] = "applied"]
  /\ UNCHANGED request

Refuse(c) ==
  /\ outcome[c] = "pending"
  /\ \/ RowsOf(request[c].account) = {} /\ request[c].kind # "credit"
     \/ \E r \in RowsOf(request[c].account) :
          ~Affords(available[r], locked[r], request[c])
  /\ outcome' = [outcome EXCEPT ![c] = "refused"]
  /\ UNCHANGED <<account, available, locked, request>>

Fail(c) ==
  /\ outcome[c] = "pending"
  /\ outcome' = [outcome EXCEPT ![c] = "failed"]
  /\ UNCHANGED <<account, available, locked, request>>

LedgerNext ==
  \E c \in Calls :
    \/ \E q \in Requests : Submit(c, q)
    \/ \E r \in Rows : Apply(c, r) \/ OpenRow(c, r)
    \/ Refuse(c)
    \/ Fail(c)

LedgerSpec == LedgerInit /\ [][LedgerNext]_ledgerVars
==============================================================================
