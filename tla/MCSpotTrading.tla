---------------------------- MODULE MCSpotTrading ----------------------------
(***************************************************************************)
(* Instances of SpotTrading for TLC.  Quantities are 1 or 2, prices 1 or   *)
(* 2: enough for partial fills, price improvement, a taker that walks two  *)
(* resting orders and a MARKET BUY that runs out of budget.                *)
(***************************************************************************)
EXTENDS SpotTrading

CONSTANTS ann, bob, eve, h1

Limit(u, side, quantity, price) ==
  [owner |-> u, side |-> side, type |-> "LIMIT", price |-> price,
   maxTotalCost |-> 0, quantity |-> quantity, key |-> NoKey]

Market(u, side, quantity, cost) ==
  [owner |-> u, side |-> side, type |-> "MARKET", price |-> 0,
   maxTotalCost |-> cost, quantity |-> quantity, key |-> NoKey]

\* A buyer who takes two sellers' orders, at their prices or at the market's, and
\* an order that crosses only one of them.
MatchingRequests ==
  {[Limit(ann, "BUY", 2, 2) EXCEPT !.key = "k"], Limit(bob, "SELL", 1, 1), Limit(bob, "SELL", 1, 2),
   Limit(eve, "BUY", 1, 1), Market(ann, "BUY", 2, 2)}

\* A seller whose order is taken in two parts, and one who asks for more.
PartialRequests ==
  {Limit(bob, "SELL", 2, 1), Limit(ann, "BUY", 1, 2), Limit(eve, "SELL", 1, 2)}

\* A bid that is sent twice with its idempotency key, and two ways to meet it.
ChangingRequests ==
  {[Limit(ann, "BUY", 1, 2) EXCEPT !.key = "k"], Limit(bob, "SELL", 2, 1),
   Market(bob, "SELL", 1, 0)}

Prices == {1, 2}

\* Cash to buy with, tokens to sell, and money of ann's that a withdrawal keeps locked.
Available ==
  [a \in Accounts |-> IF a[2] = "cash" THEN 4 ELSE 2]

\* Enough for one order of each kind.
Tight == [a \in Accounts |-> 2]

Reserved ==
  [a \in Accounts |-> IF a = <<ann, "cash">> THEN 2 ELSE 0]

==============================================================================
