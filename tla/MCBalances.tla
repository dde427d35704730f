----------------------------- MODULE MCBalances -----------------------------
(***************************************************************************)
(* Instances of BalancesService.  One user's cash wallet and one of the    *)
(* user's asset wallets; amounts small enough for two calls to compete for *)
(* the same money.                                                         *)
(***************************************************************************)
EXTENDS BalancesService, TLC

CONSTANTS cash, asset, r1, r2, r3, c1, c2, c3, none

MCAccounts == {cash, asset}
MCCash == {cash}

Req(a, k, av, lo, n, iso) ==
  [account |-> a, kind |-> k, useAvailable |-> av, useLocked |-> lo,
   amount |-> n, isolation |-> iso]

\* The cash row exists and holds 2 available and 1 locked; no asset row yet.
MCRows == {r1, r2, r3}
OpenCash == [r \in MCRows |-> IF r = r1 THEN cash ELSE none]
Available2 == [r \in MCRows |-> IF r = r1 THEN 2 ELSE 0]
Locked1 == [r \in MCRows |-> IF r = r1 THEN 1 ELSE 0]

\* Calls that bring their own transaction or run in one of OrdersService.
SnapshotRequests == {
  Req(cash, "debit", TRUE, FALSE, 2, "own"),
  Req(cash, "debit", FALSE, TRUE, 1, "own"),
  Req(cash, "lock", TRUE, FALSE, 2, "Serializable"),
  Req(cash, "unlock", FALSE, TRUE, 1, "Serializable"),
  Req(cash, "credit", TRUE, FALSE, 1, "own"),
  Req(asset, "credit", TRUE, FALSE, 1, "own"),
  Req(asset, "debit", TRUE, FALSE, 1, "own"),
  Req(cash, "lock", TRUE, FALSE, 0, "own")}

\* Calls in the transactions of payments, matching and dividends as well: the
\* debit and credit legs of a transfer and of a settlement, a deposit.
MixedRequests == {
  Req(cash, "debit", TRUE, FALSE, 2, "ReadCommitted"),
  Req(cash, "credit", TRUE, FALSE, 1, "ReadCommitted"),
  Req(cash, "lock", TRUE, FALSE, 1, "own"),
  Req(asset, "credit", FALSE, TRUE, 1, "ReadCommitted"),
  Req(asset, "credit", TRUE, FALSE, 1, "own")}

\* Two transfers of the whole balance.
TransferRequests == {Req(cash, "debit", TRUE, FALSE, 2, "ReadCommitted")}

Symmetry == Permutations({c1, c2, c3}) \cup Permutations({r2, r3})
==============================================================================
