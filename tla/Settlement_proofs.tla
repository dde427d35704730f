-------------------------- MODULE Settlement_proofs --------------------------
(***************************************************************************)
(* For any number of trades, users, assets and overlapping runs: the       *)
(* types, that what says SETTLED is complete, that nothing is unlocked     *)
(* more often than it was broadcast, and, when runs do not overlap, that a *)
(* second broadcast is paid for by a run that broke off.                   *)
(***************************************************************************)
EXTENDS Settlement, FiniteSetTheorems, TLAPS

LEMMA TradeTypes ==
  \A t \in Trades : /\ TokenOf(t) \in Accounts /\ CashOf(t) \in Accounts
                    /\ TokenOf(t) # CashOf(t)
                    /\ trade[t].quantity \in Nat \ {0}
                    /\ trade[t].price \in Nat \ {0}
BY SettlementAssumption DEF TokenOf, CashOf, Accounts

LEMMA QuotePositive == \A t \in Trades : QuoteAmount(t) \in Nat \ {0}
<1> SUFFICES ASSUME NEW t \in Trades PROVE QuoteAmount(t) \in Nat \ {0}
  OBVIOUS
<1>1. \A m, n \in Nat \ {0} : m * n \in Nat \ {0}
  OBVIOUS
<1> QED BY <1>1, TradeTypes DEF QuoteAmount

LEMMA CountType ==
  ASSUME NEW counter \in [Trades -> 0 .. MaxCount], NEW T
  PROVE  Count(counter, T) \in [Trades -> 0 .. MaxCount]
BY SettlementAssumption DEF Count

LEMMA CountUp ==
  ASSUME NEW counter \in [Trades -> 0 .. MaxCount], NEW T, NEW t \in Trades
  PROVE  /\ Count(counter, T)[t] >= counter[t]
         /\ t \notin T => Count(counter, T)[t] = counter[t]
         /\ t \in T /\ counter[t] < MaxCount => Count(counter, T)[t] = counter[t] + 1
         /\ t \in T /\ ~(counter[t] < MaxCount) => Count(counter, T)[t] = MaxCount
         /\ t \in T => Count(counter, T)[t] > 0
<1>1. Count(counter, T)[t] =
        IF t \in T /\ counter[t] < MaxCount THEN counter[t] + 1 ELSE counter[t]
  BY DEF Count
<1>2. counter[t] \in 0 .. MaxCount /\ MaxCount \in Nat \ {0}
  BY SettlementAssumption
<1>3. CASE t \in T /\ counter[t] < MaxCount
  BY <1>1, <1>2, <1>3
<1>4. CASE t \in T /\ ~(counter[t] < MaxCount)
  BY <1>1, <1>2, <1>4
<1>5. CASE t \notin T
  BY <1>1, <1>2, <1>5
<1> QED BY <1>3, <1>4, <1>5

LEMMA UpdateType ==
  ASSUME NEW T, NEW s \in Statuses, status \in [Trades -> Statuses], stale \subseteq Trades,
         UpdateMany(T, s)
  PROVE  status' \in [Trades -> Statuses] /\ stale' \subseteq Trades
BY DEF UpdateMany

\* An unlock that is affordable moves n between columns and leaves both natural.
LEMMA UnlockType ==
  ASSUME NEW a \in Accounts, NEW n \in Nat \ {0},
         available \in [Accounts -> Nat], locked \in [Accounts -> Nat],
         Unlockable(a, n), Unlock(a, n)
  PROVE  available' \in [Accounts -> Nat] /\ locked' \in [Accounts -> Nat]
<1>1. Effect(Request(n)).available = n /\ Effect(Request(n)).locked = -n
  BY DEF Effect, Request
<1>2. locked[a] >= n
  BY <1>1 DEF Unlockable, Affords, Request, Effect
<1> QED BY <1>1, <1>2 DEF Unlock

LEMMA NewRunType ==
  \A p \in Phases, T, G \in SUBSET Trades : Run(p, T, G) \in RunType
BY DEF Run, RunType

LEMMA NoRunType == NoRun \in RunType
BY NewRunType DEF NoRun, Phases

\* A run whose local variables are assigned keeps its type.
LEMMA AssignType ==
  ASSUME NEW x \in RunType
  PROVE  /\ \A p \in Phases : [x EXCEPT !.phase = p] \in RunType
         /\ \A T \in SUBSET Trades :
              /\ [x EXCEPT !.todo = T] \in RunType
              /\ [x EXCEPT !.group = T] \in RunType
              /\ [x EXCEPT !.left = T] \in RunType
         /\ \A h \in Trades \cup {None} : [x EXCEPT !.half = h] \in RunType
BY DEF RunType

LEMMA RunType1 ==
  ASSUME run \in [Slots -> RunType], NEW r \in Slots, NEW x \in RunType,
         run' = [run EXCEPT ![r] = x]
  PROVE  run' \in [Slots -> RunType]
OBVIOUS

------------------------------------------------------------------------------
LEMMA InitTypeOK == Init => TypeOK
BY SettlementAssumption, NoRunType DEF Init, TypeOK, Statuses, Zero

LEMMA NextTypeOK == TypeOK /\ [Next]_vars => TypeOK'
<1> SUFFICES ASSUME TypeOK, [Next]_vars PROVE TypeOK'
  OBVIOUS
<1> USE SettlementAssumption DEF TypeOK, money, history
<1>t. run \in [Slots -> RunType] /\ \A r \in Slots : run[r] \in RunType
  OBVIOUS
<1>1. ASSUME NEW t \in Trades, Match(t) PROVE TypeOK'
  <2>1. locked' \in [Accounts -> Nat]
    BY <1>1, TradeTypes, QuotePositive DEF Match
  <2>2. status' \in [Trades -> Statuses]
    BY <1>1 DEF Match, Statuses
  <2> QED BY <1>1, <2>1, <2>2 DEF Match
<1>2. ASSUME NEW t \in Trades, Age(t) PROVE TypeOK'
  BY <1>2 DEF Age
<1>3. ASSUME NEW r \in Slots, NEW T \in SUBSET Trades, Fetch(r, T) PROVE TypeOK'
  <2>1. run' \in [Slots -> RunType]
    BY <1>3, NewRunType DEF Fetch, Phases
  <2> QED BY <1>3, <2>1 DEF Fetch
<1>4. ASSUME NEW r \in Slots, NEW a \in Assets, NextGroup(r, a) PROVE TypeOK'
  <2> DEFINE trades == {t \in run[r].todo : trade[t].asset = a}
             others == run[r].todo \ trades
  <2>a. trades \in SUBSET Trades /\ others \in SUBSET Trades
    BY <1>t DEF RunType
  <2>b. Run("reject", others, trades) \in RunType /\ Run("groups", others, {}) \in RunType
    BY <2>a, NewRunType DEF Phases
  <2>1. run' \in [Slots -> RunType]
    BY <1>4, <2>b DEF NextGroup
  <2> QED BY <1>4, <2>1 DEF NextGroup
<1>5. ASSUME NEW r \in Slots, EndRun(r) PROVE TypeOK'
  BY <1>5, NoRunType DEF EndRun
<1>g. ASSUME NEW r \in Slots, GroupEnds(r) PROVE run' \in [Slots -> RunType]
  <2>1. run[r].todo \in SUBSET Trades
    BY <1>t DEF RunType
  <2> QED BY <1>g, <2>1, NewRunType DEF GroupEnds, Phases
<1>6. ASSUME NEW r \in Slots, RejectMissingWallets(r) PROVE TypeOK'
  <2>1. run' \in [Slots -> RunType]
    <3>1. CASE GroupEnds(r)
      BY <3>1, <1>g
    <3>2. CASE run' = [run EXCEPT ![r].phase = "mark"]
      <4>1. [run[r] EXCEPT !.phase = "mark"] \in RunType
        BY <1>t, AssignType DEF Phases
      <4> QED BY <3>2, <4>1
    <3> QED BY <1>6, <3>1, <3>2 DEF RejectMissingWallets
  <2>2. status' \in [Trades -> Statuses] /\ stale' \subseteq Trades
    BY <1>6, UpdateType DEF RejectMissingWallets, Statuses
  <2> QED BY <1>6, <2>1, <2>2 DEF RejectMissingWallets
<1>7. ASSUME NEW r \in Slots, MarkProcessing(r) PROVE TypeOK'
  <2>1. run' \in [Slots -> RunType]
    <3>1. [run[r] EXCEPT !.phase = "submit"] \in RunType
      BY <1>t, AssignType DEF Phases
    <3> QED BY <1>7, <3>1 DEF MarkProcessing
  <2>2. status' \in [Trades -> Statuses] /\ stale' \subseteq Trades
    BY <1>7, UpdateType DEF MarkProcessing, Statuses
  <2> QED BY <1>7, <2>1, <2>2 DEF MarkProcessing
<1>8. ASSUME NEW r \in Slots, Submit(r) PROVE TypeOK'
  <2>1. run' \in [Slots -> RunType]
    <3>1. Eligible(run[r].group) \in SUBSET Trades
      BY <1>t DEF Eligible, RunType
    <3> DEFINE unlocking == [run[r] EXCEPT !.phase = "unlock"]
    <3>2. unlocking \in RunType
      BY <1>t, AssignType DEF Phases
    <3>3. [unlocking EXCEPT !.left = Eligible(run[r].group)] \in RunType
      BY <3>1, <3>2, AssignType
    <3> QED BY <1>8, <3>3 DEF Submit
  <2> QED BY <1>8, <2>1, CountType DEF Submit
<1>9. ASSUME NEW r \in Slots, NEW sent \in BOOLEAN, SubmitThrows(r, sent) PROVE TypeOK'
  <2>1. run' \in [Slots -> RunType]
    <3>1. [run[r] EXCEPT !.phase = "catch"] \in RunType
      BY <1>t, AssignType DEF Phases
    <3> QED BY <1>9, <3>1 DEF SubmitThrows
  <2>2. submitted' \in [Trades -> 0 .. MaxCount]
    BY <1>9, CountType DEF SubmitThrows
  <2> QED BY <1>9, <2>1, <2>2 DEF SubmitThrows
<1>10. ASSUME NEW r \in Slots, NEW t \in Trades, UnlockTokens(r, t) PROVE TypeOK'
  <2>1. run' \in [Slots -> RunType]
    BY <1>10, <1>t DEF UnlockTokens, RunType, Phases
  <2>2. available' \in [Accounts -> Nat] /\ locked' \in [Accounts -> Nat]
    BY <1>10, UnlockType, TradeTypes DEF UnlockTokens
  <2> QED BY <1>10, <2>1, <2>2, CountType DEF UnlockTokens
<1>11. ASSUME NEW r \in Slots, UnlockCash(r) PROVE TypeOK'
  <2>1. run' \in [Slots -> RunType]
    <3>1. [run[r] EXCEPT !.half = None] \in RunType
      BY <1>t, AssignType
    <3> QED BY <1>11, <3>1 DEF UnlockCash
  <2>2. run[r].half \in Trades
    BY <1>11, <1>t DEF UnlockCash, RunType
  <2>3. available' \in [Accounts -> Nat] /\ locked' \in [Accounts -> Nat]
    BY <1>11, <2>2, UnlockType, TradeTypes, QuotePositive DEF UnlockCash
  <2> QED BY <1>11, <2>1, <2>3, CountType DEF UnlockCash
<1>12. ASSUME NEW r \in Slots, UnlockThrows(r) PROVE TypeOK'
  <2>1. run' \in [Slots -> RunType]
    BY <1>12, <1>t DEF UnlockThrows, RunType, Phases
  <2> QED BY <1>12, <2>1 DEF UnlockThrows
<1>13. ASSUME NEW r \in Slots, MarkSettled(r) PROVE TypeOK'
  <2>1. run' \in [Slots -> RunType]
    BY <1>13, <1>g DEF MarkSettled
  <2>2. status' \in [Trades -> Statuses] /\ stale' \subseteq Trades
    BY <1>13, UpdateType DEF MarkSettled, Statuses
  <2> QED BY <1>13, <2>1, <2>2 DEF MarkSettled
<1>14. ASSUME NEW r \in Slots, MarkFailed(r) PROVE TypeOK'
  <2>1. run' \in [Slots -> RunType]
    BY <1>14, <1>g DEF MarkFailed
  <2>2. status' \in [Trades -> Statuses] /\ stale' \subseteq Trades
    BY <1>14, UpdateType DEF MarkFailed, Statuses
  <2> QED BY <1>14, <2>1, <2>2, CountType DEF MarkFailed
<1>15. ASSUME NEW r \in Slots, DatabaseFails(r) PROVE TypeOK'
  <2>1. run' \in [Slots -> RunType]
    <3>1. [run[r] EXCEPT !.phase = "catch"] \in RunType
      BY <1>t, AssignType DEF Phases
    <3> QED BY <1>15, <3>1, NoRunType DEF DatabaseFails
  <2>2. broken' \in [Trades -> 0 .. MaxCount]
    BY <1>15, CountType DEF DatabaseFails
  <2> QED BY <1>15, <2>1, <2>2 DEF DatabaseFails
<1>16. ASSUME Restart PROVE TypeOK'
  <2>1. run' \in [Slots -> RunType]
    BY <1>16, NoRunType DEF Restart
  <2> QED BY <1>16, <2>1, CountType DEF Restart
<1>17. ASSUME UNCHANGED vars PROVE TypeOK'
  BY <1>17 DEF vars
<1> QED
  BY <1>1, <1>2, <1>3, <1>4, <1>5, <1>6, <1>7, <1>8, <1>9, <1>10, <1>11, <1>12, <1>13, <1>14,
     <1>15, <1>16, <1>17 DEF Next, StartRun, RunStep, Rest

\* In every behaviour the rows and the runs keep their types, and no available
\* or locked column is ever negative, however many runs overlap and fail.
THEOREM SettlementTypeCorrect == Spec => []TypeOK
<1>1. TypeOK /\ [Next]_vars => TypeOK'
  BY NextTypeOK
<1> QED BY InitTypeOK, <1>1, PTL DEF Spec

------------------------------------------------------------------------------
(***************************************************************************)
(* What is SETTLED is complete.  The strengthening follows one run through *)
(* its group: what it has neither left to do nor half done is paid.        *)
(***************************************************************************)
BeforeUnlock == {"idle", "groups", "reject", "mark", "submit"}

Shape(x) ==
  /\ x.left \subseteq Eligible(x.group)
  /\ x.half \in Eligible(x.group) \cup {None}
  /\ x.half \notin x.left
  /\ x.phase \in BeforeUnlock => x.half = None

RunShape == \A r \in Slots : Shape(run[r])

\* A run that unlocks has paid every trade of its group it is not yet to unlock.
PaidBehind ==
  \A r \in Slots : run[r].phase = "unlock" =>
    \A t \in Eligible(run[r].group) : t \in run[r].left \/ t = run[r].half \/ paid[t] > 0

CompleteInv == TypeOK /\ RunShape /\ PaidBehind /\ SettledIsComplete

LEMMA NewRunShape == \A p \in BeforeUnlock, T, G \in SUBSET Trades : Shape(Run(p, T, G))
BY DEF Shape, Run, BeforeUnlock

LEMMA EligibleTrades == \A T \in SUBSET Trades : Eligible(T) \subseteq T
BY DEF Eligible

\* Only UnlockCash counts a payment, and no step takes one back.
LEMMA PaidGrows == TypeOK /\ [Next]_vars => \A t \in Trades : paid'[t] >= paid[t]
<1> SUFFICES ASSUME TypeOK, [Next]_vars, NEW t \in Trades PROVE paid'[t] >= paid[t]
  OBVIOUS
<1>1. paid \in [Trades -> 0 .. MaxCount] /\ paid[t] \in Int
  BY DEF TypeOK
<1>2. CASE paid' = paid
  BY <1>1, <1>2
<1>3. ASSUME NEW r \in Slots, UnlockCash(r) PROVE paid'[t] >= paid[t]
  BY <1>1, <1>3, CountUp DEF UnlockCash
<1> QED
  BY <1>2, <1>3 DEF Next, StartRun, RunStep, Rest, Match, Age, Fetch, NextGroup, EndRun,
     RejectMissingWallets, MarkProcessing, Submit, SubmitThrows, UnlockTokens, UnlockThrows,
     MarkSettled, MarkFailed, DatabaseFails, Restart, vars, history

\* A step of a run leaves the other runs alone.
LEMMA RunStepLocal ==
  ASSUME TypeOK, NEW r \in Slots, RunStep(r) \/ DatabaseFails(r)
  PROVE  \A s \in Slots : s # r => run'[s] = run[s]
BY DEF TypeOK, RunStep, NextGroup, EndRun, RejectMissingWallets, MarkProcessing, Submit,
   SubmitThrows, UnlockTokens, UnlockCash, UnlockThrows, MarkSettled, MarkFailed,
   DatabaseFails, GroupEnds

LEMMA InitCompleteInv == Init => CompleteInv
<1> SUFFICES ASSUME Init PROVE CompleteInv
  OBVIOUS
<1>1. TypeOK
  BY InitTypeOK
<1>2. \A r \in Slots : run[r] = NoRun /\ Shape(run[r]) /\ run[r].phase = "idle"
  BY NewRunShape DEF Init, NoRun, BeforeUnlock, Run
<1>3. SettledIsComplete
  BY DEF Init, SettledIsComplete
<1> QED BY <1>1, <1>2, <1>3 DEF CompleteInv, RunShape, PaidBehind

\* What a run that moves must establish for itself.
LEMMA OwnRun ==
  ASSUME TypeOK, [Next]_vars, RunShape, PaidBehind, NEW r \in Slots,
         RunStep(r) \/ DatabaseFails(r),
         Shape(run'[r]),
         run'[r].phase = "unlock" =>
           \A t \in Eligible(run'[r].group) :
             t \in run'[r].left \/ t = run'[r].half \/ paid'[t] > 0
  PROVE  RunShape' /\ PaidBehind'
<1>1. \A s \in Slots : s # r => run'[s] = run[s]
  BY RunStepLocal
<1>2. \A s \in Slots : Shape(run[s])'
  BY <1>1 DEF RunShape, Shape
<1>3. ASSUME NEW s \in Slots, s # r, run'[s].phase = "unlock", NEW t \in Eligible(run'[s].group)
      PROVE  t \in run'[s].left \/ t = run'[s].half \/ paid'[t] > 0
  <2>1. t \in Trades
    BY <1>1, <1>3, EligibleTrades DEF TypeOK, RunType
  <2>2. paid'[t] >= paid[t] /\ paid[t] \in Int /\ paid'[t] \in Int
    BY <2>1, PaidGrows, NextTypeOK DEF TypeOK
  <2>3. t \in run[s].left \/ t = run[s].half \/ paid[t] > 0
    BY <1>1, <1>3 DEF PaidBehind
  <2> QED BY <1>1, <1>3, <2>2, <2>3
<1> QED BY <1>2, <1>3 DEF RunShape, PaidBehind, Eligible

\* While no trade is newly SETTLED, payments only grow and what is SETTLED stays
\* complete.
LEMMA SettledStaysComplete ==
  ASSUME TypeOK, [Next]_vars, SettledIsComplete,
         \A t \in Trades : status'[t] = "SETTLED" => status[t] = "SETTLED"
  PROVE  SettledIsComplete'
<1> SUFFICES ASSUME NEW t \in Trades, status'[t] = "SETTLED"
             PROVE  trade[t].buyer \in Linked /\ trade[t].seller \in Linked /\ paid'[t] > 0
  BY DEF SettledIsComplete
<1>1. paid'[t] >= paid[t] /\ paid[t] \in Int /\ paid'[t] \in Int
  BY PaidGrows, NextTypeOK DEF TypeOK
<1> QED BY <1>1 DEF SettledIsComplete

LEMMA NextCompleteInv == CompleteInv /\ [Next]_vars => CompleteInv'
<1> SUFFICES ASSUME CompleteInv, [Next]_vars PROVE CompleteInv'
  OBVIOUS
<1> USE DEF CompleteInv
<1>t. TypeOK'
  BY NextTypeOK
<1>r. \A r \in Slots : run[r] \in RunType /\ Shape(run[r])
  BY DEF TypeOK, RunShape
<1>i. ASSUME UNCHANGED run PROVE RunShape' /\ PaidBehind'
  <2>1. \A t \in Trades : paid'[t] >= paid[t] /\ paid[t] \in Int /\ paid'[t] \in Int
    BY <1>t, PaidGrows DEF TypeOK
  <2>2. \A r \in Slots : Eligible(run[r].group) \subseteq Trades
    BY <1>r, EligibleTrades DEF RunType
  <2> QED BY <1>i, <2>1, <2>2 DEF RunShape, PaidBehind, Shape, Eligible
<1>u. ASSUME NEW T, NEW s \in Statuses \ {"SETTLED"}, UpdateMany(T, s)
      PROVE  SettledIsComplete'
  <2>1. \A t \in Trades : status'[t] = "SETTLED" => status[t] = "SETTLED"
    BY <1>u DEF UpdateMany, TypeOK
  <2> QED BY <2>1, SettledStaysComplete
<1>k. ASSUME status' = status PROVE SettledIsComplete'
  BY <1>k, SettledStaysComplete
<1>1. ASSUME NEW t \in Trades, Match(t) PROVE CompleteInv'
  <2>1. \A u \in Trades : status'[u] = "SETTLED" => status[u] = "SETTLED"
    BY <1>1 DEF Match, TypeOK
  <2> QED BY <1>1, <1>t, <1>i, <2>1, SettledStaysComplete DEF Match
<1>2. ASSUME NEW t \in Trades, Age(t) PROVE CompleteInv'
  BY <1>2, <1>t, <1>i, <1>k DEF Age
<1>3. ASSUME NEW r \in Slots, NEW T \in SUBSET Trades, Fetch(r, T) PROVE CompleteInv'
  <2>1. Shape(Run("groups", T, {}))
    BY NewRunShape DEF BeforeUnlock
  <2>2. \A s \in Slots : run'[s] = run[s] \/ run'[s] = Run("groups", T, {})
    BY <1>3 DEF Fetch, TypeOK
  <2>3. RunShape'
    BY <2>1, <2>2 DEF RunShape, Shape, Eligible
  <2>4. PaidBehind'
    BY <1>3, <2>2 DEF PaidBehind, Fetch, Run, Eligible, history
  <2> QED BY <1>3, <1>t, <1>k, <2>3, <2>4 DEF Fetch
<1>e. ASSUME NEW r \in Slots, RunStep(r), GroupEnds(r) PROVE RunShape' /\ PaidBehind'
  <2>1. run[r].todo \in SUBSET Trades
    BY <1>r DEF RunType
  <2>2. run'[r] = Run("groups", run[r].todo, {})
    BY <1>e DEF GroupEnds, TypeOK
  <2>3. Shape(run'[r]) /\ run'[r].phase # "unlock"
    BY <2>1, <2>2, NewRunShape DEF BeforeUnlock, Run
  <2> QED BY <1>e, <2>3, OwnRun
<1>c. ASSUME NEW r \in Slots, RunStep(r) \/ DatabaseFails(r), NEW p \in Phases,
             p # "unlock",
             p \in BeforeUnlock => run[r].half = None,
             run' = [run EXCEPT ![r].phase = p]
      PROVE  RunShape' /\ PaidBehind'
  <2>1. run'[r] = [run[r] EXCEPT !.phase = p]
    BY <1>c DEF TypeOK
  <2>2. /\ run'[r].phase = p /\ run'[r].group = run[r].group
        /\ run'[r].left = run[r].left /\ run'[r].half = run[r].half
    BY <2>1, <1>r DEF RunType
  <2>3. Shape(run'[r])
    BY <1>c, <1>r, <2>2 DEF Shape
  <2> QED BY <1>c, <2>2, <2>3, OwnRun
<1>4. ASSUME NEW r \in Slots, NEW a \in Assets, NextGroup(r, a) PROVE CompleteInv'
  <2> DEFINE trades == {t \in run[r].todo : trade[t].asset = a}
             others == run[r].todo \ trades
  <2>1. trades \in SUBSET Trades /\ others \in SUBSET Trades
    BY <1>r DEF RunType
  <2>2. run'[r] \in {Run("reject", others, trades), Run("groups", others, {})}
    BY <1>4 DEF NextGroup, TypeOK
  <2>3. Shape(run'[r]) /\ run'[r].phase # "unlock"
    BY <2>1, <2>2, NewRunShape DEF BeforeUnlock, Run
  <2>4. RunShape' /\ PaidBehind'
    BY <1>4, <2>3, OwnRun DEF RunStep
  <2> QED BY <1>4, <1>t, <1>k, <2>4 DEF NextGroup
<1>5. ASSUME NEW r \in Slots, EndRun(r) PROVE CompleteInv'
  <2>1. run'[r] = NoRun
    BY <1>5 DEF EndRun, TypeOK
  <2>2. Shape(run'[r]) /\ run'[r].phase # "unlock"
    BY <2>1, NewRunShape DEF NoRun, BeforeUnlock, Run
  <2>3. RunShape' /\ PaidBehind'
    BY <1>5, <2>2, OwnRun DEF RunStep
  <2> QED BY <1>5, <1>t, <1>k, <2>3 DEF EndRun
<1>6. ASSUME NEW r \in Slots, RejectMissingWallets(r) PROVE CompleteInv'
  <2>1. SettledIsComplete'
    BY <1>6, <1>u DEF RejectMissingWallets, Statuses
  <2>2. run[r].half = None
    BY <1>6, <1>r DEF RejectMissingWallets, Shape, BeforeUnlock
  <2>3. RunShape' /\ PaidBehind'
    <3>1. CASE GroupEnds(r)
      BY <1>6, <1>e, <3>1 DEF RunStep
    <3>2. CASE run' = [run EXCEPT ![r].phase = "mark"]
      BY <1>6, <1>c, <2>2, <3>2 DEF RunStep, Phases
    <3> QED BY <1>6, <3>1, <3>2 DEF RejectMissingWallets
  <2> QED BY <1>t, <2>1, <2>3
<1>7. ASSUME NEW r \in Slots, MarkProcessing(r) PROVE CompleteInv'
  <2>1. SettledIsComplete'
    BY <1>7, <1>u DEF MarkProcessing, Statuses
  <2>2. run[r].half = None
    BY <1>7, <1>r DEF MarkProcessing, Shape, BeforeUnlock
  <2>3. RunShape' /\ PaidBehind'
    BY <1>7, <1>c, <2>2 DEF RunStep, Phases, MarkProcessing
  <2> QED BY <1>t, <2>1, <2>3
<1>8. ASSUME NEW r \in Slots, Submit(r) PROVE CompleteInv'
  <2>1. /\ run'[r].phase = "unlock" /\ run'[r].group = run[r].group
        /\ run'[r].left = Eligible(run[r].group) /\ run'[r].half = run[r].half
    BY <1>8, <1>r DEF Submit, RunType, TypeOK
  <2>2. run[r].half = None
    BY <1>8, <1>r DEF Submit, Shape, BeforeUnlock
  <2>3. None \notin Eligible(run[r].group)
    BY <1>r, EligibleTrades, SettlementAssumption DEF RunType
  <2>4. Shape(run'[r])
    BY <2>1, <2>2, <2>3 DEF Shape
  <2>5. RunShape' /\ PaidBehind'
    BY <1>8, <2>1, <2>4, OwnRun DEF RunStep
  <2> QED BY <1>8, <1>t, <1>k, <2>5 DEF Submit
<1>9. ASSUME NEW r \in Slots, NEW sent \in BOOLEAN, SubmitThrows(r, sent) PROVE CompleteInv'
  <2>1. RunShape' /\ PaidBehind'
    BY <1>9, <1>c DEF RunStep, Phases, SubmitThrows, BeforeUnlock
  <2> QED BY <1>9, <1>t, <1>k, <2>1 DEF SubmitThrows
<1>10. ASSUME NEW r \in Slots, NEW t \in Trades, UnlockTokens(r, t) PROVE CompleteInv'
  <2>1. /\ run'[r].phase = "unlock" /\ run'[r].group = run[r].group
        /\ run'[r].left = run[r].left \ {t} /\ run'[r].half = t
    BY <1>10, <1>r DEF UnlockTokens, RunType, TypeOK
  <2>2. t \in run[r].left /\ run[r].half = None /\ run[r].phase = "unlock"
    BY <1>10 DEF UnlockTokens
  <2>3. Shape(run'[r])
    BY <1>r, <2>1, <2>2 DEF Shape, BeforeUnlock
  <2>4. None \notin Eligible(run[r].group)
    BY <1>r, EligibleTrades, SettlementAssumption DEF RunType
  <2>5. \A u \in Eligible(run[r].group) : u \in run'[r].left \/ u = run'[r].half \/ paid'[u] > 0
    BY <1>10, <2>1, <2>2, <2>4 DEF PaidBehind, UnlockTokens
  <2>6. RunShape' /\ PaidBehind'
    BY <1>10, <2>1, <2>3, <2>5, OwnRun DEF RunStep
  <2> QED BY <1>10, <1>t, <1>k, <2>6 DEF UnlockTokens
<1>11. ASSUME NEW r \in Slots, UnlockCash(r) PROVE CompleteInv'
  <2> DEFINE t == run[r].half
  <2>1. /\ run'[r].phase = "unlock" /\ run'[r].group = run[r].group
        /\ run'[r].left = run[r].left /\ run'[r].half = None
    BY <1>11, <1>r DEF UnlockCash, RunType, TypeOK
  <2>2. t \in Trades
    BY <1>11, <1>r DEF UnlockCash, RunType
  <2>3. None \notin Trades
    BY SettlementAssumption
  <2>4. Shape(run'[r])
    <3>1. run[r].left \subseteq Trades
      BY <1>r DEF RunType
    <3> QED BY <1>r, <2>1, <2>3, <3>1 DEF Shape, BeforeUnlock
  <2>5. paid'[t] > 0
    BY <1>11, <2>2, CountUp DEF UnlockCash, TypeOK
  <2>6. \A u \in Trades : paid'[u] >= paid[u] /\ paid[u] \in Int /\ paid'[u] \in Int
    BY <1>t, PaidGrows DEF TypeOK
  <2>7. \A u \in Eligible(run[r].group) : u \in run'[r].left \/ u = run'[r].half \/ paid'[u] > 0
    <3> SUFFICES ASSUME NEW u \in Eligible(run[r].group)
                 PROVE  u \in run'[r].left \/ paid'[u] > 0
      OBVIOUS
    <3>1. u \in Trades
      BY <1>r, EligibleTrades DEF RunType
    <3>2. u \in run[r].left \/ u = t \/ paid[u] > 0
      BY <1>11 DEF PaidBehind, UnlockCash
    <3> QED BY <2>1, <2>5, <2>6, <3>1, <3>2
  <2>8. RunShape' /\ PaidBehind'
    BY <1>11, <2>1, <2>4, <2>7, OwnRun DEF RunStep
  <2> QED BY <1>11, <1>t, <1>k, <2>8 DEF UnlockCash
<1>12. ASSUME NEW r \in Slots, UnlockThrows(r) PROVE CompleteInv'
  <2>1. RunShape' /\ PaidBehind'
    BY <1>12, <1>c DEF RunStep, Phases, UnlockThrows, BeforeUnlock
  <2> QED BY <1>12, <1>t, <1>k, <2>1 DEF UnlockThrows
<1>13. ASSUME NEW r \in Slots, MarkSettled(r) PROVE CompleteInv'
  <2>1. RunShape' /\ PaidBehind'
    BY <1>13, <1>e DEF RunStep, MarkSettled
  <2>2. \A t \in Eligible(run[r].group) : t \in Trades /\ paid[t] > 0
    BY <1>13, <1>r, EligibleTrades, SettlementAssumption
       DEF MarkSettled, Unlocked, PaidBehind, RunType
  <2>3. SettledIsComplete'
    <3> SUFFICES ASSUME NEW t \in Trades, status'[t] = "SETTLED"
                 PROVE  trade[t].buyer \in Linked /\ trade[t].seller \in Linked /\ paid'[t] > 0
      BY DEF SettledIsComplete
    <3>1. paid' = paid
      BY <1>13 DEF MarkSettled, history
    <3>2. CASE t \in Eligible(run[r].group)
      BY <2>2, <3>1, <3>2 DEF Eligible
    <3>3. CASE t \notin Eligible(run[r].group)
      BY <1>13, <3>1, <3>3 DEF MarkSettled, UpdateMany, SettledIsComplete
    <3> QED BY <3>2, <3>3
  <2> QED BY <1>t, <2>1, <2>3
<1>14. ASSUME NEW r \in Slots, MarkFailed(r) PROVE CompleteInv'
  <2>1. RunShape' /\ PaidBehind'
    BY <1>14, <1>e DEF RunStep, MarkFailed
  <2>2. SettledIsComplete'
    BY <1>14, <1>u DEF MarkFailed, Statuses
  <2> QED BY <1>t, <2>1, <2>2
<1>15. ASSUME NEW r \in Slots, DatabaseFails(r) PROVE CompleteInv'
  <2>1. RunShape' /\ PaidBehind'
    <3>1. CASE run' = [run EXCEPT ![r] = NoRun]
      <4>1. run'[r] = NoRun
        BY <3>1 DEF TypeOK
      <4>2. Shape(run'[r]) /\ run'[r].phase # "unlock"
        BY <4>1, NewRunShape DEF NoRun, BeforeUnlock, Run
      <4> QED BY <1>15, <4>2, OwnRun
    <3>2. CASE run' = [run EXCEPT ![r].phase = "catch"]
      BY <1>15, <1>c, <3>2 DEF Phases, BeforeUnlock
    <3> QED BY <1>15, <3>1, <3>2 DEF DatabaseFails
  <2> QED BY <1>15, <1>t, <1>k, <2>1 DEF DatabaseFails
<1>16. ASSUME Restart PROVE CompleteInv'
  <2>1. \A r \in Slots : run'[r] = NoRun
    BY <1>16 DEF Restart
  <2>2. Shape(NoRun) /\ NoRun.phase # "unlock"
    BY NewRunShape DEF NoRun, BeforeUnlock, Run
  <2>3. RunShape' /\ PaidBehind'
    BY <2>1, <2>2 DEF RunShape, PaidBehind, Shape, Eligible
  <2> QED BY <1>16, <1>t, <1>k, <2>3 DEF Restart
<1>17. ASSUME UNCHANGED vars PROVE CompleteInv'
  BY <1>17, <1>t, <1>i, <1>k DEF vars
<1> QED
  BY <1>1, <1>2, <1>3, <1>4, <1>5, <1>6, <1>7, <1>8, <1>9, <1>10, <1>11, <1>12, <1>13, <1>14,
     <1>15, <1>16, <1>17 DEF Next, StartRun, RunStep, Rest

\* In every behaviour a trade that says SETTLED has been unlocked for both sides,
\* and both have a wallet, whatever overlapping or failing runs did to it.
THEOREM SettledComplete == Spec => []SettledIsComplete
<1>1. CompleteInv /\ [Next]_vars => CompleteInv'
  BY NextCompleteInv
<1>2. CompleteInv => SettledIsComplete
  BY DEF CompleteInv
<1> QED BY InitCompleteInv, <1>1, <1>2, PTL DEF Spec

------------------------------------------------------------------------------
(***************************************************************************)
(* Nothing is unlocked more often than it was broadcast.  The              *)
(* strengthening counts the runs that are still to unlock a trade, until   *)
(* the counter they draw on is at its bound.                               *)
(***************************************************************************)

\* The runs that are still to unlock the tokens of t, or its cash.
ToDeliver(t) == {r \in Slots : run[r].phase = "unlock" /\ t \in run[r].left}
ToPay(t) == {r \in Slots : run[r].phase = "unlock" /\ run[r].half = t}

CountsOf(t) ==
  /\ paid[t] <= delivered[t] /\ delivered[t] <= submitted[t]
  /\ delivered[t] < MaxCount => paid[t] + Cardinality(ToPay(t)) <= delivered[t]
  /\ submitted[t] < MaxCount => delivered[t] + Cardinality(ToDeliver(t)) <= submitted[t]

CountInv == \A t \in Trades : CountsOf(t)

LEMMA SlotCount ==
  ASSUME NEW S \in SUBSET Slots
  PROVE  /\ Cardinality(S) \in Nat
         /\ \A R \in SUBSET S : Cardinality(R) \in Nat /\ Cardinality(R) <= Cardinality(S)
         /\ \A r \in Slots : Cardinality(S \cup {r}) \in Nat
                             /\ Cardinality(S \cup {r}) <= Cardinality(S) + 1
         /\ \A r \in S : Cardinality(S \ {r}) = Cardinality(S) - 1
<1>1. IsFiniteSet(Slots)
  BY SettlementAssumption
<1>2. IsFiniteSet(S) /\ Cardinality(S) \in Nat
  BY <1>1, FS_Subset, FS_CardinalityType
<1>3. \A R \in SUBSET S : Cardinality(R) \in Nat /\ Cardinality(R) <= Cardinality(S)
  BY <1>2, FS_Subset, FS_CardinalityType
<1>4. ASSUME NEW r \in Slots
      PROVE  Cardinality(S \cup {r}) \in Nat /\ Cardinality(S \cup {r}) <= Cardinality(S) + 1
  <2>1. Cardinality(S \cup {r}) = IF r \in S THEN Cardinality(S) ELSE Cardinality(S) + 1
    BY <1>2, FS_AddElement
  <2> QED BY <1>2, <2>1
<1>5. ASSUME NEW r \in S PROVE Cardinality(S \ {r}) = Cardinality(S) - 1
  BY <1>2, FS_RemoveElement
<1> QED BY <1>2, <1>3, <1>4, <1>5

\* A trade keeps its counts when runs only give up unlocking it.
LEMMA CountsKept ==
  ASSUME TypeOK, TypeOK', NEW t \in Trades, CountsOf(t),
         ToPay(t)' \subseteq ToPay(t), ToDeliver(t)' \subseteq ToDeliver(t),
         paid'[t] = paid[t], delivered'[t] = delivered[t], submitted'[t] >= submitted[t]
  PROVE  CountsOf(t)'
<1>1. ToPay(t) \in SUBSET Slots /\ ToDeliver(t) \in SUBSET Slots
  BY DEF ToPay, ToDeliver
<1>2. /\ Cardinality(ToPay(t)') <= Cardinality(ToPay(t))
      /\ Cardinality(ToDeliver(t)') <= Cardinality(ToDeliver(t))
      /\ Cardinality(ToPay(t)) \in Nat /\ Cardinality(ToDeliver(t)) \in Nat
      /\ Cardinality(ToPay(t)') \in Nat /\ Cardinality(ToDeliver(t)') \in Nat
  BY <1>1, SlotCount
<1>3. /\ paid[t] \in Nat /\ delivered[t] \in Nat /\ submitted[t] \in Nat
      /\ submitted'[t] \in Nat /\ MaxCount \in Nat
  BY SettlementAssumption DEF TypeOK
<1> QED BY <1>2, <1>3 DEF CountsOf

LEMMA InitCountInv == Init => CountInv
<1> SUFFICES ASSUME Init, NEW t \in Trades PROVE CountsOf(t)
  BY DEF CountInv
<1>1. ToPay(t) = {} /\ ToDeliver(t) = {}
  BY DEF Init, NoRun, Run, ToPay, ToDeliver
<1>2. paid[t] = 0 /\ delivered[t] = 0 /\ submitted[t] = 0
  BY DEF Init, Zero
<1> QED BY <1>1, <1>2, FS_EmptySet DEF CountsOf

\* Steps after which no run is to unlock what it was not to unlock before.
LEMMA QuietStep ==
  ASSUME TypeOK, TypeOK', CountInv, paid' = paid, delivered' = delivered,
         \A t \in Trades : submitted'[t] >= submitted[t],
         \A r \in Slots : run'[r] = run[r] \/ run'[r].phase # "unlock"
  PROVE  CountInv'
<1> SUFFICES ASSUME NEW t \in Trades PROVE CountsOf(t)'
  BY DEF CountInv
<1>1. ToPay(t)' \subseteq ToPay(t) /\ ToDeliver(t)' \subseteq ToDeliver(t)
  BY DEF ToPay, ToDeliver
<1> QED BY <1>1, CountsKept DEF CountInv

LEMMA NextCountInv == TypeOK /\ RunShape /\ CountInv /\ [Next]_vars => CountInv'
<1> SUFFICES ASSUME TypeOK, RunShape, CountInv, [Next]_vars PROVE CountInv'
  OBVIOUS
<1>t. TypeOK'
  BY NextTypeOK
<1>r. \A r \in Slots : run[r] \in RunType /\ Shape(run[r])
  BY DEF TypeOK, RunShape
<1>n. /\ paid \in [Trades -> 0 .. MaxCount] /\ delivered \in [Trades -> 0 .. MaxCount]
      /\ submitted \in [Trades -> 0 .. MaxCount]
      /\ \A t \in Trades : paid[t] \in Nat /\ delivered[t] \in Nat /\ submitted[t] \in Nat
                           /\ paid[t] <= MaxCount /\ delivered[t] <= MaxCount
                           /\ submitted[t] <= MaxCount
      /\ MaxCount \in Nat
  BY SettlementAssumption DEF TypeOK
<1>s. submitted' = submitted => \A t \in Trades : submitted'[t] >= submitted[t]
  BY <1>n
<1>c. \A t \in Trades : ToPay(t) \in SUBSET Slots /\ ToDeliver(t) \in SUBSET Slots
  BY DEF ToPay, ToDeliver
<1>1. ASSUME NEW r \in Slots, Submit(r) PROVE CountInv'
  <2> SUFFICES ASSUME NEW t \in Trades PROVE CountsOf(t)'
    BY DEF CountInv
  <2>1. /\ run'[r].phase = "unlock" /\ run'[r].left = Eligible(run[r].group)
        /\ run'[r].half = run[r].half
        /\ \A s \in Slots \ {r} : run'[s] = run[s]
    BY <1>1, <1>r DEF Submit, RunType, TypeOK
  <2>2. run[r].half # t /\ run[r].phase # "unlock"
    BY <1>1, <1>r, SettlementAssumption DEF Submit, Shape, BeforeUnlock
  <2>3. ToPay(t)' = ToPay(t)
    BY <2>1, <2>2 DEF ToPay
  <2>4. CASE t \notin Eligible(run[r].group)
    <3>1. ToDeliver(t)' = ToDeliver(t)
      BY <2>1, <2>2, <2>4 DEF ToDeliver
    <3>2. submitted'[t] = submitted[t] /\ paid' = paid /\ delivered' = delivered
      BY <1>1, <1>n, <2>4, CountUp DEF Submit
    <3> QED BY <1>n, <1>t, <2>3, <3>1, <3>2, CountsKept DEF CountInv
  <2>5. CASE t \in Eligible(run[r].group)
    <3>1. ToDeliver(t)' = ToDeliver(t) \cup {r}
      BY <2>1, <2>2, <2>5 DEF ToDeliver
    <3>2. /\ Cardinality(ToDeliver(t)') \in Nat /\ Cardinality(ToDeliver(t)) \in Nat
          /\ Cardinality(ToDeliver(t)') <= Cardinality(ToDeliver(t)) + 1
      BY <1>c, <3>1, SlotCount
    <3>3. /\ submitted[t] < MaxCount => submitted'[t] = submitted[t] + 1
          /\ ~(submitted[t] < MaxCount) => submitted'[t] = MaxCount
          /\ paid' = paid /\ delivered' = delivered
      BY <1>1, <1>n, <2>5, CountUp DEF Submit
    <3>4. CountsOf(t)
      BY DEF CountInv
    <3>5. Cardinality(ToPay(t)) \in Nat
      BY <1>c, SlotCount
    <3> QED BY <1>n, <2>3, <3>2, <3>3, <3>4, <3>5 DEF CountsOf
  <2> QED BY <2>4, <2>5
<1>2. ASSUME NEW r \in Slots, NEW u \in Trades, UnlockTokens(r, u) PROVE CountInv'
  <2> SUFFICES ASSUME NEW t \in Trades PROVE CountsOf(t)'
    BY DEF CountInv
  <2>1. /\ run'[r].phase = "unlock" /\ run'[r].left = run[r].left \ {u} /\ run'[r].half = u
        /\ \A s \in Slots \ {r} : run'[s] = run[s]
    BY <1>2, <1>r DEF UnlockTokens, RunType, TypeOK
  <2>2. u \in run[r].left /\ run[r].half # t /\ run[r].phase = "unlock"
    BY <1>2, SettlementAssumption DEF UnlockTokens
  <2>3. CASE t # u
    <3>1. ToPay(t)' = ToPay(t) /\ ToDeliver(t)' = ToDeliver(t)
      BY <2>1, <2>2, <2>3 DEF ToPay, ToDeliver
    <3>2. submitted'[t] = submitted[t] /\ paid' = paid /\ delivered'[t] = delivered[t]
      BY <1>2, <1>n, <2>3, CountUp DEF UnlockTokens
    <3> QED BY <1>n, <1>t, <3>1, <3>2, CountsKept DEF CountInv
  <2>4. CASE t = u
    <3>1. ToPay(t)' = ToPay(t) \cup {r} /\ ToDeliver(t)' = ToDeliver(t) \ {r} /\ r \in ToDeliver(t)
      BY <2>1, <2>2, <2>4 DEF ToPay, ToDeliver
    <3>2. /\ Cardinality(ToPay(t)') \in Nat /\ Cardinality(ToPay(t)) \in Nat
          /\ Cardinality(ToPay(t)') <= Cardinality(ToPay(t)) + 1
          /\ Cardinality(ToDeliver(t)) \in Nat
          /\ Cardinality(ToDeliver(t)') = Cardinality(ToDeliver(t)) - 1
          /\ Cardinality(ToDeliver(t)) >= 1
      <4>1. Cardinality(ToDeliver(t) \ {r}) \in Nat
        BY <1>c, SlotCount
      <4> QED BY <1>c, <3>1, <4>1, SlotCount
    <3>3. /\ delivered[t] < MaxCount => delivered'[t] = delivered[t] + 1
          /\ ~(delivered[t] < MaxCount) => delivered'[t] = MaxCount
          /\ paid' = paid /\ submitted' = submitted
      BY <1>2, <1>n, <2>4, CountUp DEF UnlockTokens
    <3>4. CountsOf(t)
      BY DEF CountInv
    <3> QED BY <1>n, <3>2, <3>3, <3>4 DEF CountsOf
  <2> QED BY <2>3, <2>4
<1>3. ASSUME NEW r \in Slots, UnlockCash(r) PROVE CountInv'
  <2> DEFINE u == run[r].half
  <2> SUFFICES ASSUME NEW t \in Trades PROVE CountsOf(t)'
    BY DEF CountInv
  <2>1. /\ run'[r].phase = "unlock" /\ run'[r].left = run[r].left /\ run'[r].half = None
        /\ \A s \in Slots \ {r} : run'[s] = run[s]
    BY <1>3, <1>r DEF UnlockCash, RunType, TypeOK
  <2>2. t # None /\ run[r].phase = "unlock"
    BY <1>3, SettlementAssumption DEF UnlockCash
  <2>3. ToDeliver(t)' = ToDeliver(t)
    BY <2>1, <2>2 DEF ToDeliver
  <2>4. CASE t # u
    <3>1. ToPay(t)' = ToPay(t)
      BY <2>1, <2>2, <2>4 DEF ToPay
    <3>2. submitted'[t] = submitted[t] /\ delivered' = delivered /\ paid'[t] = paid[t]
      BY <1>3, <1>n, <2>4, CountUp DEF UnlockCash
    <3> QED BY <1>n, <1>t, <2>3, <3>1, <3>2, CountsKept DEF CountInv
  <2>5. CASE t = u
    <3>1. ToPay(t)' = ToPay(t) \ {r} /\ r \in ToPay(t)
      BY <2>1, <2>2, <2>5 DEF ToPay
    <3>2. /\ Cardinality(ToPay(t)) \in Nat /\ Cardinality(ToPay(t)') \in Nat
          /\ Cardinality(ToPay(t)') = Cardinality(ToPay(t)) - 1
          /\ Cardinality(ToDeliver(t)) \in Nat
      BY <1>c, <3>1, SlotCount
    <3>a. paid' = Count(paid, {t}) /\ delivered' = delivered /\ submitted' = submitted
      BY <1>3, <2>5 DEF UnlockCash
    <3>3. /\ paid[t] < MaxCount => paid'[t] = paid[t] + 1
          /\ ~(paid[t] < MaxCount) => paid'[t] = MaxCount
          /\ delivered' = delivered /\ submitted' = submitted
      BY <1>n, <3>a, CountUp
    <3>4. CountsOf(t)
      BY DEF CountInv
    <3> QED BY <1>n, <2>3, <3>2, <3>3, <3>4 DEF CountsOf
  <2> QED BY <2>4, <2>5
<1>4. ASSUME NEW r \in Slots, NEW sent \in BOOLEAN, SubmitThrows(r, sent) PROVE CountInv'
  <2>1. \A t \in Trades : submitted'[t] >= submitted[t]
    BY <1>4, <1>n, <1>s, CountUp DEF SubmitThrows
  <2>2. \A s \in Slots : run'[s] = run[s] \/ run'[s].phase # "unlock"
    BY <1>4, <1>r DEF SubmitThrows, RunType, TypeOK
  <2> QED BY <1>4, <1>t, <2>1, <2>2, QuietStep DEF SubmitThrows
<1>q. ASSUME NEW r \in Slots, NEW x \in RunType, x.phase # "unlock",
             run' = [run EXCEPT ![r] = x],
             paid' = paid, delivered' = delivered, submitted' = submitted
      PROVE  CountInv'
  <2>1. \A s \in Slots : run'[s] = run[s] \/ run'[s].phase # "unlock"
    BY <1>q DEF TypeOK
  <2> QED BY <1>q, <1>t, <1>s, <2>1, QuietStep
<1>p. ASSUME NEW r \in Slots, NEW p \in Phases, p # "unlock",
             run' = [run EXCEPT ![r].phase = p],
             paid' = paid, delivered' = delivered, submitted' = submitted
      PROVE  CountInv'
  <2>1. [run[r] EXCEPT !.phase = p] \in RunType /\ [run[r] EXCEPT !.phase = p].phase = p
    BY <1>r, AssignType DEF RunType
  <2> QED BY <1>p, <1>q, <2>1
<1>g. ASSUME NEW r \in Slots, GroupEnds(r),
             paid' = paid, delivered' = delivered, submitted' = submitted
      PROVE  CountInv'
  <2>1. run[r].todo \in SUBSET Trades
    BY <1>r DEF RunType
  <2>2. Run("groups", run[r].todo, {}) \in RunType
    BY <2>1, NewRunType DEF Phases
  <2> QED BY <1>g, <1>q, <2>2 DEF GroupEnds, Run
<1>5. ASSUME NEW r \in Slots, NEW T \in SUBSET Trades, Fetch(r, T) PROVE CountInv'
  <2>1. Run("groups", T, {}) \in RunType
    BY NewRunType DEF Phases
  <2> QED BY <1>5, <1>q, <2>1 DEF Fetch, Run, history
<1>8. ASSUME NEW r \in Slots, NEW a \in Assets, NextGroup(r, a) PROVE CountInv'
  <2>1. \A s \in Slots : run'[s] = run[s] \/ run'[s].phase # "unlock"
    BY <1>8 DEF NextGroup, Run, TypeOK
  <2> QED BY <1>8, <1>t, <1>s, <2>1, QuietStep DEF NextGroup, history
<1>9. ASSUME NEW r \in Slots, EndRun(r) PROVE CountInv'
  BY <1>9, <1>q, NoRunType DEF EndRun, NoRun, Run, history
<1>10. ASSUME NEW r \in Slots, RejectMissingWallets(r) PROVE CountInv'
  BY <1>10, <1>g, <1>p DEF RejectMissingWallets, Phases, history
<1>11. ASSUME NEW r \in Slots, MarkProcessing(r) PROVE CountInv'
  BY <1>11, <1>p DEF MarkProcessing, Phases, history
<1>12. ASSUME NEW r \in Slots, UnlockThrows(r) PROVE CountInv'
  BY <1>12, <1>p DEF UnlockThrows, Phases, history
<1>13. ASSUME NEW r \in Slots, MarkSettled(r) PROVE CountInv'
  BY <1>13, <1>g DEF MarkSettled, history
<1>14. ASSUME NEW r \in Slots, MarkFailed(r) PROVE CountInv'
  BY <1>14, <1>g DEF MarkFailed
<1>15. ASSUME NEW r \in Slots, DatabaseFails(r) PROVE CountInv'
  <2>1. CASE run' = [run EXCEPT ![r] = NoRun]
    BY <1>15, <1>q, <2>1, NoRunType DEF DatabaseFails, NoRun, Run
  <2>2. CASE run' = [run EXCEPT ![r].phase = "catch"]
    BY <1>15, <1>p, <2>2 DEF DatabaseFails, Phases
  <2> QED BY <1>15, <2>1, <2>2 DEF DatabaseFails
<1>6. ASSUME Restart PROVE CountInv'
  <2>1. \A s \in Slots : run'[s].phase # "unlock"
    BY <1>6 DEF Restart, NoRun, Run
  <2> QED BY <1>6, <1>t, <1>s, <2>1, QuietStep DEF Restart
<1>7. ASSUME UNCHANGED <<run, submitted, delivered, paid>> PROVE CountInv'
  BY <1>7, <1>t, <1>s, QuietStep
<1> QED
  BY <1>1, <1>2, <1>3, <1>4, <1>5, <1>6, <1>7, <1>8, <1>9, <1>10, <1>11, <1>12, <1>13, <1>14,
     <1>15 DEF Next, StartRun, RunStep, Rest, Match, Age, vars, history

\* In every behaviour tokens are unlocked at most once per broadcast and cash at
\* most once per unlock of the tokens, for any number of overlapping runs.
THEOREM UnlockedAfterBroadcast == Spec => []UnlockedForABroadcast
<1>1. CompleteInv /\ CountInv /\ [Next]_vars => (CompleteInv /\ CountInv)'
  BY NextCompleteInv, NextCountInv DEF CompleteInv
<1>2. CountInv => UnlockedForABroadcast
  BY DEF CountInv, CountsOf, UnlockedForABroadcast
<1>3. Init => CompleteInv /\ CountInv
  BY InitCompleteInv, InitCountInv
<1> QED BY <1>1, <1>2, <1>3, PTL DEF Spec

------------------------------------------------------------------------------
(***************************************************************************)
(* Runs that do not overlap.  A trade that no run is unlocking or failing, *)
(* and that is not SETTLED, has been broadcast no more often than runs     *)
(* broke off; what a run has still to submit is not SETTLED.               *)
(***************************************************************************)
Alone == \A r, s \in Slots : r = s

Broadcasting(t) ==
  \E r \in Slots : run[r].phase \in {"unlock", "catch"} /\ t \in Eligible(run[r].group)

ToSubmit(r) ==
  run[r].todo \cup (IF run[r].phase \in {"reject", "mark", "submit"} THEN run[r].group ELSE {})

BroadcastInv ==
  /\ \A t \in Trades : submitted[t] <= 1 + broken[t]
  /\ \A t \in Trades : status[t] # "SETTLED" /\ ~Broadcasting(t) => submitted[t] <= broken[t]
  /\ \A r \in Slots : /\ run[r].todo \cap run[r].group = {}
                       /\ \A t \in ToSubmit(r) : status[t] # "SETTLED"

LEMMA InitBroadcastInv == Init => BroadcastInv
BY DEF Init, Zero, NoRun, Run, BroadcastInv, ToSubmit

LEMMA NextBroadcastInv == Alone /\ TypeOK /\ BroadcastInv /\ [Next]_vars => BroadcastInv'
<1> SUFFICES ASSUME Alone, TypeOK, BroadcastInv, [Next]_vars PROVE BroadcastInv'
  OBVIOUS
<1>t. TypeOK'
  BY NextTypeOK
<1>r. \A r \in Slots : run[r] \in RunType
  BY DEF TypeOK
<1>n. /\ submitted \in [Trades -> 0 .. MaxCount] /\ broken \in [Trades -> 0 .. MaxCount]
      /\ \A t \in Trades : submitted[t] \in Nat /\ broken[t] \in Nat
                           /\ submitted[t] <= MaxCount /\ broken[t] <= MaxCount
      /\ MaxCount \in Nat
  BY SettlementAssumption DEF TypeOK
\* The run that moves is the only one.
<1>o. ASSUME NEW r \in Slots
      PROVE  /\ \A s \in Slots : s = r
             /\ \A t : Broadcasting(t)
                  <=> run[r].phase \in {"unlock", "catch"} /\ t \in Eligible(run[r].group)
             /\ \A t : Broadcasting(t)'
                  <=> run'[r].phase \in {"unlock", "catch"} /\ t \in Eligible(run'[r].group)
  BY DEF Alone, Broadcasting, Eligible
\* No count changes and the run keeps its group: what it may do shrinks.
<1>k. ASSUME NEW r \in Slots, submitted' = submitted, broken' = broken,
             \A t \in Trades : status'[t] = "SETTLED" <=> status[t] = "SETTLED",
             \A t \in Trades : Broadcasting(t) /\ status[t] # "SETTLED" => Broadcasting(t)',
             run'[r].todo \cap run'[r].group = {},
             ToSubmit(r)' \subseteq {t \in Trades : status[t] # "SETTLED"}
      PROVE  BroadcastInv'
  <2>1. \A s \in Slots : s = r
    BY <1>o
  <2>2. \A t \in ToSubmit(r)' : status'[t] # "SETTLED"
    BY <1>k
  <2>3. \A t \in Trades : status'[t] # "SETTLED" /\ ~Broadcasting(t)' => submitted'[t] <= broken'[t]
    BY <1>k DEF BroadcastInv
  <2> QED BY <1>k, <2>1, <2>2, <2>3 DEF BroadcastInv
<1>1. ASSUME NEW t \in Trades, Match(t) \/ Age(t) PROVE BroadcastInv'
  <2>1. \A u \in Trades : status'[u] = "SETTLED" <=> status[u] = "SETTLED"
    BY <1>1 DEF Match, Age, TypeOK
  <2>2. run' = run /\ submitted' = submitted /\ broken' = broken
    BY <1>1 DEF Match, Age, history
  <2>3. \A u : Broadcasting(u)' <=> Broadcasting(u)
    BY <2>2 DEF Broadcasting, Eligible
  <2>4. \A r \in Slots : ToSubmit(r)' = ToSubmit(r) /\ ToSubmit(r) \subseteq Trades
    BY <1>r, <2>2 DEF ToSubmit, RunType
  <2> QED BY <2>1, <2>2, <2>3, <2>4 DEF BroadcastInv
<1>2. ASSUME NEW r \in Slots, NEW T \in SUBSET Trades, Fetch(r, T) PROVE BroadcastInv'
  <2>1. run'[r] = Run("groups", T, {}) /\ run[r].phase = "idle"
    BY <1>2 DEF Fetch, TypeOK, NoRun, Run
  <2>2. \A t \in T : status[t] # "SETTLED"
    BY <1>2 DEF Fetch, Unsettled
  <2>3. ToSubmit(r)' \subseteq {t \in Trades : status[t] # "SETTLED"}
    BY <2>1, <2>2 DEF ToSubmit, Run
  <2>4. \A t : ~Broadcasting(t)
    BY <2>1, <1>o
  <2> QED BY <1>2, <1>k, <2>1, <2>3, <2>4 DEF Fetch, Run, history
<1>3. ASSUME NEW r \in Slots, NEW a \in Assets, NextGroup(r, a) PROVE BroadcastInv'
  <2> DEFINE trades == {t \in run[r].todo : trade[t].asset = a}
             others == run[r].todo \ trades
  <2>1. run'[r] \in {Run("reject", others, trades), Run("groups", others, {})}
    BY <1>3 DEF NextGroup, TypeOK
  <2>2. run[r].todo \subseteq {t \in Trades : status[t] # "SETTLED"}
    BY <1>r DEF BroadcastInv, ToSubmit, RunType
  <2>3. ToSubmit(r)' \subseteq {t \in Trades : status[t] # "SETTLED"}
    BY <2>1, <2>2 DEF ToSubmit, Run
  <2>4. \A t : ~Broadcasting(t)
    BY <1>3, <1>o DEF NextGroup
  <2>5. run'[r].todo \cap run'[r].group = {}
    BY <2>1 DEF Run
  <2> QED BY <1>3, <1>k, <2>3, <2>4, <2>5 DEF NextGroup, history
<1>4. ASSUME NEW r \in Slots, EndRun(r) PROVE BroadcastInv'
  <2>1. run'[r] = NoRun
    BY <1>4 DEF EndRun, TypeOK
  <2>2. ToSubmit(r)' = {} /\ run'[r].todo \cap run'[r].group = {}
    BY <2>1 DEF ToSubmit, NoRun, Run
  <2>3. \A t : ~Broadcasting(t)
    BY <1>4, <1>o DEF EndRun
  <2> QED BY <1>4, <1>k, <2>2, <2>3 DEF EndRun, history
<1>g. ASSUME NEW r \in Slots, GroupEnds(r)
      PROVE  /\ run'[r].todo = run[r].todo /\ run'[r].group = {}
             /\ run'[r].phase = "groups"
             /\ ToSubmit(r)' = run[r].todo
             /\ run[r].todo \subseteq {t \in Trades : status[t] # "SETTLED"}
  <2>1. run'[r] = Run("groups", run[r].todo, {})
    BY <1>g DEF GroupEnds, TypeOK
  <2>2. run[r].todo \subseteq {t \in Trades : status[t] # "SETTLED"}
    BY <1>r DEF BroadcastInv, ToSubmit, RunType
  <2> QED BY <2>1, <2>2 DEF Run, ToSubmit
\* A step to another phase of the same group.
<1>p. ASSUME NEW r \in Slots, NEW p \in Phases, run' = [run EXCEPT ![r].phase = p]
      PROVE  run'[r].phase = p /\ run'[r].todo = run[r].todo /\ run'[r].group = run[r].group
  BY <1>p, <1>r DEF TypeOK, RunType
<1>u. ASSUME NEW T, NEW s \in Statuses, s # "SETTLED", UpdateMany(T, s),
             \A t \in Trades \cap T : status[t] # "SETTLED"
      PROVE  \A t \in Trades : status'[t] = "SETTLED" <=> status[t] = "SETTLED"
  BY <1>u DEF UpdateMany, TypeOK
<1>5. ASSUME NEW r \in Slots, RejectMissingWallets(r) PROVE BroadcastInv'
  <2>1. run[r].phase = "reject" /\ submitted' = submitted /\ broken' = broken
    BY <1>5 DEF RejectMissingWallets, history
  <2>2. \A t \in run[r].todo \cup run[r].group : t \in Trades /\ status[t] # "SETTLED"
    BY <1>r, <2>1 DEF BroadcastInv, ToSubmit, RunType
  <2>3. \A t \in Trades : status'[t] = "SETTLED" <=> status[t] = "SETTLED"
    BY <1>5, <1>u, <2>2 DEF RejectMissingWallets, Statuses
  <2>4. \A t : ~Broadcasting(t)
    BY <2>1, <1>o
  <2>5. /\ run'[r].todo \cap run'[r].group = {}
        /\ ToSubmit(r)' \subseteq {t \in Trades : status[t] # "SETTLED"}
    <3>1. CASE GroupEnds(r)
      BY <1>g, <3>1
    <3>2. CASE run' = [run EXCEPT ![r].phase = "mark"]
      BY <1>p, <2>2, <3>2 DEF Phases, BroadcastInv, ToSubmit
    <3> QED BY <1>5, <3>1, <3>2 DEF RejectMissingWallets
  <2> QED BY <1>k, <2>1, <2>3, <2>4, <2>5
<1>6. ASSUME NEW r \in Slots, MarkProcessing(r) PROVE BroadcastInv'
  <2>1. /\ run[r].phase = "mark" /\ submitted' = submitted /\ broken' = broken
        /\ run' = [run EXCEPT ![r].phase = "submit"]
    BY <1>6 DEF MarkProcessing, history
  <2>2. \A t \in run[r].todo \cup run[r].group : t \in Trades /\ status[t] # "SETTLED"
    BY <1>r, <2>1 DEF BroadcastInv, ToSubmit, RunType
  <2>3. \A t \in Trades : status'[t] = "SETTLED" <=> status[t] = "SETTLED"
    BY <1>6, <1>u, <2>2, EligibleTrades, <1>r DEF MarkProcessing, Statuses, RunType
  <2>4. \A t : ~Broadcasting(t)
    BY <2>1, <1>o
  <2>5. /\ run'[r].todo \cap run'[r].group = {}
        /\ ToSubmit(r)' \subseteq {t \in Trades : status[t] # "SETTLED"}
    BY <1>p, <2>1, <2>2 DEF Phases, BroadcastInv, ToSubmit
  <2> QED BY <1>k, <2>1, <2>3, <2>4, <2>5
\* The batch leaves, or may have left.
<1>b. ASSUME NEW r \in Slots, run[r].phase = "submit", status' = status, broken' = broken,
             \/ submitted' = submitted
             \/ submitted' = Count(submitted, Eligible(run[r].group)),
             run'[r].todo = run[r].todo, run'[r].group = run[r].group,
             run'[r].phase \in {"unlock", "catch"}
      PROVE  BroadcastInv'
  <2>1. \A t \in run[r].todo \cup run[r].group : t \in Trades /\ status[t] # "SETTLED"
    BY <1>b, <1>r DEF BroadcastInv, ToSubmit, RunType
  <2>2. \A t : ~Broadcasting(t) /\ (Broadcasting(t)' <=> t \in Eligible(run[r].group))
    BY <1>b, <1>o
  <2>3. ASSUME NEW t \in Trades
        PROVE  /\ submitted'[t] <= 1 + broken'[t]
               /\ status'[t] # "SETTLED" /\ ~Broadcasting(t)' => submitted'[t] <= broken'[t]
    <3>1. CASE t \in Eligible(run[r].group)
      <4>1. t \in run[r].group
        BY <3>1 DEF Eligible
      <4>2. submitted[t] <= broken[t]
        BY <2>1, <2>2, <4>1 DEF BroadcastInv
      <4>3. submitted'[t] <= submitted[t] + 1
        BY <1>b, <1>n, CountUp, <3>1
      <4>4. submitted'[t] \in Nat /\ submitted[t] \in Nat /\ broken[t] \in Nat
        BY <1>n, <1>t DEF TypeOK
      <4> QED BY <1>b, <2>2, <3>1, <4>2, <4>3, <4>4
    <3>2. CASE t \notin Eligible(run[r].group)
      <4>1. submitted'[t] = submitted[t]
        BY <1>b, <1>n, CountUp, <3>2
      <4> QED BY <1>b, <2>2, <4>1 DEF BroadcastInv
    <3> QED BY <3>1, <3>2
  <2>4. ToSubmit(r)' \subseteq run[r].todo
    BY <1>b DEF ToSubmit
  <2>5. \A s \in Slots : s = r
    BY <1>o
  <2> QED BY <1>b, <2>1, <2>3, <2>4, <2>5 DEF BroadcastInv
<1>7. ASSUME NEW r \in Slots, Submit(r) PROVE BroadcastInv'
  <2>1. /\ run'[r].todo = run[r].todo /\ run'[r].group = run[r].group
        /\ run'[r].phase = "unlock"
    BY <1>7, <1>r DEF Submit, TypeOK, RunType
  <2> QED BY <1>7, <1>b, <2>1 DEF Submit
<1>8. ASSUME NEW r \in Slots, NEW sent \in BOOLEAN, SubmitThrows(r, sent) PROVE BroadcastInv'
  <2>1. /\ run'[r].todo = run[r].todo /\ run'[r].group = run[r].group
        /\ run'[r].phase = "catch"
    BY <1>8, <1>r DEF SubmitThrows, TypeOK, RunType
  <2> QED BY <1>8, <1>b, <2>1 DEF SubmitThrows
\* The run unlocks or fails; its group stays.
<1>w. ASSUME NEW r \in Slots, status' = status, submitted' = submitted, broken' = broken,
             run[r].phase # "idle",
             run'[r].todo = run[r].todo, run'[r].group = run[r].group,
             run'[r].phase \in {"unlock", "catch"}
      PROVE  BroadcastInv'
  <2>1. run[r].todo \subseteq {t \in Trades : status[t] # "SETTLED"}
    BY <1>r DEF BroadcastInv, ToSubmit, RunType
  <2>2. ToSubmit(r)' \subseteq {t \in Trades : status[t] # "SETTLED"}
    BY <1>w, <2>1 DEF ToSubmit
  <2>3. \A t : Broadcasting(t) => Broadcasting(t)'
    BY <1>w, <1>o
  <2>4. run'[r].todo \cap run'[r].group = {}
    BY <1>w DEF BroadcastInv
  <2> QED BY <1>w, <1>k, <2>2, <2>3, <2>4
<1>9. ASSUME NEW r \in Slots, NEW t \in Trades, UnlockTokens(r, t) PROVE BroadcastInv'
  <2>1. /\ run'[r].todo = run[r].todo /\ run'[r].group = run[r].group
        /\ run'[r].phase = "unlock" /\ run[r].phase = "unlock"
    BY <1>9, <1>r DEF UnlockTokens, TypeOK, RunType
  <2> QED BY <1>9, <1>w, <2>1 DEF UnlockTokens
<1>10. ASSUME NEW r \in Slots, UnlockCash(r) PROVE BroadcastInv'
  <2>1. /\ run'[r].todo = run[r].todo /\ run'[r].group = run[r].group
        /\ run'[r].phase = "unlock" /\ run[r].phase = "unlock"
    BY <1>10, <1>r DEF UnlockCash, TypeOK, RunType
  <2> QED BY <1>10, <1>w, <2>1 DEF UnlockCash
<1>11. ASSUME NEW r \in Slots, UnlockThrows(r) PROVE BroadcastInv'
  <2>1. /\ run'[r].todo = run[r].todo /\ run'[r].group = run[r].group
        /\ run'[r].phase = "catch" /\ run[r].phase = "unlock"
    BY <1>11, <1>r DEF UnlockThrows, TypeOK, RunType
  <2> QED BY <1>11, <1>w, <2>1 DEF UnlockThrows, history
<1>12. ASSUME NEW r \in Slots, MarkSettled(r) PROVE BroadcastInv'
  <2>1. /\ GroupEnds(r) /\ submitted' = submitted /\ broken' = broken
        /\ UpdateMany(Eligible(run[r].group), "SETTLED")
    BY <1>12 DEF MarkSettled, history
  <2>2. \A t \in Trades : status'[t] = IF t \in Eligible(run[r].group) THEN "SETTLED" ELSE status[t]
    BY <2>1 DEF UpdateMany
  <2>3. \A t \in ToSubmit(r)' : t \in Trades /\ t \notin run[r].group /\ status[t] # "SETTLED"
    BY <1>g, <2>1 DEF BroadcastInv
  <2>4. \A t \in ToSubmit(r)' : status'[t] # "SETTLED"
    BY <2>2, <2>3 DEF Eligible
  <2>5. \A t \in Trades : status'[t] # "SETTLED" => ~Broadcasting(t) /\ status[t] # "SETTLED"
    BY <2>2, <1>o
  <2>6. run'[r].todo \cap run'[r].group = {} /\ \A s \in Slots : s = r
    BY <1>g, <1>o, <2>1
  <2> QED BY <2>1, <2>4, <2>5, <2>6 DEF BroadcastInv
\* A run breaks off: every trade of its group is paid for by broken.
<1>f. ASSUME NEW r \in Slots, submitted' = submitted, broken' = Count(broken, run[r].group),
             \A t \in Trades \ run[r].group : status'[t] = "SETTLED" <=> status[t] = "SETTLED",
             run'[r].todo \subseteq run[r].todo, run'[r].group = {},
             run'[r].phase \in {"idle", "groups"}
      PROVE  BroadcastInv'
  <2>1. ASSUME NEW t \in Trades
        PROVE  /\ submitted'[t] <= 1 + broken'[t]
               /\ status'[t] # "SETTLED" => submitted'[t] <= broken'[t]
    <3>1. submitted[t] <= 1 + broken[t]
      BY DEF BroadcastInv
    <3>2. CASE t \in run[r].group
      <4>1. /\ broken[t] < MaxCount => broken'[t] = broken[t] + 1
            /\ ~(broken[t] < MaxCount) => broken'[t] = MaxCount
        BY <1>f, <1>n, <3>2, CountUp
      <4> QED BY <1>f, <1>n, <3>1, <4>1
    <3>3. CASE t \notin run[r].group
      <4>1. broken'[t] = broken[t]
        BY <1>f, <1>n, <3>3, CountUp
      <4>2. ~Broadcasting(t)
        BY <1>o, <3>3 DEF Eligible
      <4> QED BY <1>f, <3>1, <3>3, <4>1, <4>2 DEF BroadcastInv
    <3> QED BY <3>2, <3>3
  <2>2. \A t \in ToSubmit(r)' : t \in Trades \ run[r].group /\ status[t] # "SETTLED"
    <3>1. ToSubmit(r)' \subseteq run[r].todo
      BY <1>f DEF ToSubmit
    <3> QED BY <3>1, <1>r DEF BroadcastInv, ToSubmit, RunType
  <2>3. \A t \in ToSubmit(r)' : status'[t] # "SETTLED"
    BY <1>f, <2>2
  <2>4. \A s \in Slots : s = r
    BY <1>o
  <2> QED BY <1>f, <2>1, <2>3, <2>4 DEF BroadcastInv
<1>13. ASSUME NEW r \in Slots, MarkFailed(r) PROVE BroadcastInv'
  <2>1. \A t \in Trades \ run[r].group : status'[t] = status[t]
    BY <1>13 DEF MarkFailed, UpdateMany
  <2> QED BY <1>13, <1>f, <1>g, <2>1 DEF MarkFailed
<1>14. ASSUME NEW r \in Slots, DatabaseFails(r) PROVE BroadcastInv'
  <2>1. status' = status /\ submitted' = submitted
    BY <1>14 DEF DatabaseFails
  <2>2. CASE run[r].phase = "catch"
    <3>1. run'[r] = NoRun /\ broken' = Count(broken, run[r].group)
      BY <1>14, <2>2 DEF DatabaseFails, TypeOK
    <3> QED BY <1>f, <2>1, <3>1 DEF NoRun, Run
  <2>3. CASE run[r].phase # "catch"
    <3>1. run' = [run EXCEPT ![r].phase = "catch"] /\ broken' = broken /\ run[r].phase # "idle"
      BY <1>14, <2>3 DEF DatabaseFails
    <3> QED BY <1>p, <1>w, <2>1, <3>1 DEF Phases
  <2> QED BY <2>2, <2>3
<1>15. ASSUME Restart PROVE BroadcastInv'
  <2>1. PICK r \in Slots : run[r] # NoRun
    BY <1>15 DEF Restart
  <2>2. UNION {run[s].group : s \in Slots} = run[r].group
    BY <1>o
  <2>3. run'[r] = NoRun /\ broken' = Count(broken, run[r].group)
        /\ status' = status /\ submitted' = submitted
    BY <1>15, <2>2 DEF Restart
  <2> QED BY <1>f, <2>3 DEF NoRun, Run
<1>16. ASSUME UNCHANGED vars PROVE BroadcastInv'
  <2>1. run' = run /\ status' = status /\ submitted' = submitted /\ broken' = broken
    BY <1>16 DEF vars, history
  <2> QED BY <2>1 DEF BroadcastInv, Broadcasting, ToSubmit, Eligible
<1> QED
  BY <1>1, <1>2, <1>3, <1>4, <1>5, <1>6, <1>7, <1>8, <1>9, <1>10, <1>11, <1>12, <1>13, <1>14,
     <1>15, <1>16 DEF Next, StartRun, RunStep, Rest

\* As long as runs do not overlap, every further broadcast of a trade is paid for
\* by a run that broke off: a trade that is settled is never broadcast again.
THEOREM NoNeedlessBroadcast == Spec => []BroadcastAgainAfterFailure
<1>1. CASE Alone
  <2>1. (TypeOK /\ BroadcastInv) /\ [Next]_vars => (TypeOK /\ BroadcastInv)'
    BY <1>1, NextTypeOK, NextBroadcastInv
  <2>2. BroadcastInv => BroadcastAgainAfterFailure
    BY DEF BroadcastInv, BroadcastAgainAfterFailure
  <2> QED BY InitTypeOK, InitBroadcastInv, <2>1, <2>2, PTL DEF Spec
<1>2. CASE ~Alone
  <2>1. BroadcastAgainAfterFailure
    BY <1>2 DEF Alone, BroadcastAgainAfterFailure
  <2> QED BY <2>1, PTL
<1> QED BY <1>1, <1>2
==============================================================================
