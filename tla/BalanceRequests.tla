--------------------------- MODULE BalanceRequests ---------------------------
(***************************************************************************)
(* The requests BalancesService takes.                                     *)
(* An account is a (userId, assetId) pair; a wallet is a row of the table  *)
(* Balance with an available and a locked column.                          *)
(***************************************************************************)
EXTENDS BalanceEffects

CONSTANTS
  Calls,            \* one updateBalance or transferBetweenAvailableAndLocked each
  Rows,             \* identities of Balance rows
  Accounts,
  CashAccounts,     \* the accounts whose assetId is null
  Requests,         \* what a call may ask for
  OpeningAccount,   \* whose each row is before the first call, None for no row
  OpeningAvailable,
  OpeningLocked,
  None

(***************************************************************************)
(* isolation "own" means that the caller passes no transaction: the method *)
(* then opens one at RepeatableRead and retries it.  The other two are the *)
(* levels of the transactions callers pass: Serializable in OrdersService, *)
(* the database default in payments, matching, dividends.                  *)
(***************************************************************************)
RequestType ==
  [account : Accounts, kind : {"credit", "debit", "lock", "unlock"},
   useAvailable : BOOLEAN, useLocked : BOOLEAN, amount : Int,
   isolation : {"own", "Serializable", "ReadCommitted"}]

ASSUME RequestAssumption ==
  /\ None \notin Rows /\ None \notin Accounts
  /\ CashAccounts \subseteq Accounts
  /\ Requests \subseteq RequestType
  /\ OpeningAccount \in [Rows -> Accounts \cup {None}]
  /\ OpeningAvailable \in [Rows -> Nat]
  /\ OpeningLocked \in [Rows -> Nat]
  /\ \A r, s \in Rows : OpeningAccount[r] = OpeningAccount[s]
       /\ OpeningAccount[r] \in Accounts \ CashAccounts => r = s
==============================================================================
