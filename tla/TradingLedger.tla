---------------------------- MODULE TradingLedger ----------------------------
(***************************************************************************)
(* src/modules/orders/services/trading-ledger.service.ts, and the methods  *)
(* of BalancesService it calls inside a caller's transaction.  A wallet    *)
(* maps each account, a user's cash or a user's tokens of the traded       *)
(* asset, to its two columns; a missing row is a row of zeros, since both  *)
(* refuse every debit and accept every credit.  ok is FALSE once a posting *)
(* has thrown, and the transaction can then only be rolled back.           *)
(***************************************************************************)
EXTENDS BalanceEffects

CONSTANT Users

Accounts == Users \X {"cash", "token"}

Wallet == [ok : BOOLEAN, available : [Accounts -> Int], locked : [Accounts -> Int]]

\* What an order keeps locked: cash for a BUY, tokens for a SELL.
Pledge(u, side, quantity, price) ==
  IF side = "BUY" THEN [account |-> <<u, "cash">>, amount |-> quantity * price]
                  ELSE [account |-> <<u, "token">>, amount |-> quantity]

(***************************************************************************)
(* One transferBetweenAvailableAndLocked with the transaction of the       *)
(* caller: an amount that is not positive and a column that is too small   *)
(* throw.                                                                  *)
(***************************************************************************)
Transfer(w, pledge, direction) ==
  LET a == pledge.account
      q == [kind |-> direction, amount |-> pledge.amount,
            useAvailable |-> FALSE, useLocked |-> FALSE]
  IN  IF w.ok /\ q.amount > 0 /\ Affords(w.available[a], w.locked[a], q)
      THEN [ok |-> TRUE,
            available |-> [w.available EXCEPT ![a] = @ + Effect(q).available],
            locked |-> [w.locked EXCEPT ![a] = @ + Effect(q).locked]]
      ELSE [w EXCEPT !.ok = FALSE]

lockOrderFunds(w, u, side, quantity, price) ==
  Transfer(w, Pledge(u, side, quantity, price), "lock")

unlockOrderRemainder(w, u, side, remaining, price) ==
  IF remaining <= 0 THEN w ELSE Transfer(w, Pledge(u, side, remaining, price), "unlock")

settleUnpaid(w, buyer, seller, quantity, price) ==
  IF w.ok
  THEN [ok |-> TRUE, available |-> w.available,
        locked |-> [w.locked EXCEPT ![<<buyer, "cash">>]   = @ - quantity * price,
                                    ![<<buyer, "token">>]  = @ + quantity,
                                    ![<<seller, "token">>] = @ - quantity]]
  ELSE w

(***************************************************************************)
(* Four updateBalance on the locked columns.  Buyer and seller differ, so  *)
(* they touch four rows, and no one of them changes what the next checks.  *)
(* The two rows of Transaction for the users' history and the two          *)
(* commission jobs that settleMatch queues are left out: no column of a    *)
(* wallet depends on them.                                                 *)
(***************************************************************************)
settleMatch(w, buyer, seller, quantity, price) ==
  LET quoteAmount == quantity * price
  IN  IF /\ w.ok
         /\ quantity > 0 /\ quoteAmount > 0
         /\ w.locked[<<buyer, "cash">>] >= quoteAmount
         /\ w.locked[<<seller, "token">>] >= quantity
      THEN [ok |-> TRUE, available |-> w.available,
            locked |-> [w.locked EXCEPT ![<<buyer, "cash">>]   = @ - quoteAmount,
                                        ![<<buyer, "token">>]  = @ + quantity,
                                        ![<<seller, "token">>] = @ - quantity,
                                        ![<<seller, "cash">>]  = @ + quoteAmount]]
      ELSE [w EXCEPT !.ok = FALSE]

refundBuyerPriceImprovement(w, buyer, amount) ==
  IF amount <= 0 THEN w
  ELSE Transfer(w, [account |-> <<buyer, "cash">>, amount |-> amount], "unlock")
==============================================================================
