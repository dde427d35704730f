---------------------------- MODULE BalanceEffects ----------------------------
(***************************************************************************)
(* What one updateBalance or transferBetweenAvailableAndLocked does to a   *)
(* wallet row.  kind "lock" is the direction available_to_locked, "unlock" *)
(* the other one.                                                          *)
(***************************************************************************)
EXTENDS Integers

\* updateData: what a request adds to each column.
Effect(q) ==
  LET onAvailable == IF q.useAvailable THEN q.amount ELSE 0
      onLocked    == IF q.useLocked THEN q.amount ELSE 0
  IN  CASE q.kind = "credit" -> [available |-> onAvailable,  locked |-> onLocked]
        [] q.kind = "debit"  -> [available |-> -onAvailable, locked |-> -onLocked]
        [] q.kind = "lock"   -> [available |-> -q.amount,    locked |-> q.amount]
        [] q.kind = "unlock" -> [available |-> q.amount,     locked |-> -q.amount]

\* Only a column that is drawn on is compared with the amount.
Affords(a, l, q) ==
  /\ Effect(q).available < 0 => a + Effect(q).available >= 0
  /\ Effect(q).locked < 0 => l + Effect(q).locked >= 0
==============================================================================
