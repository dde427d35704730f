---------------------------- MODULE MCSettlement ----------------------------
(***************************************************************************)
(* Three trades of one asset, t2 of them of a user who may lack a wallet,  *)
(* and one of another asset; ann has further tokens locked, for an order   *)
(* of hers.                                                                *)
(***************************************************************************)
EXTENDS Settlement, TLC

CONSTANTS ann, bob, eve, t1, t2, t3, t4

Trade(a, buyer, seller, price) ==
  [asset |-> a, buyer |-> buyer, seller |-> seller, quantity |-> 1, price |-> price]

TradeData ==
  [t \in Trades |-> CASE t = t1 -> Trade("villa", ann, bob, 1)
                            [] t = t2 -> Trade("villa", eve, bob, 1)
                            [] t = t3 -> Trade("tower", ann, bob, 2)
                            [] t = t4 -> Trade("villa", bob, ann, 1)]

\* For invariants that do not speak of broken, which no action reads.
WithoutBroken == <<status, stale, money, run, faults, submitted, delivered, paid>>
Exchangeable == Permutations(Slots)

NoMoney == [a \in Accounts |-> 0]
Pledges == [a \in Accounts |-> IF a = <<ann, "villa">> THEN 1 ELSE 0]
==============================================================================
