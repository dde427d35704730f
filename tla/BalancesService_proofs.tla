----------------------- MODULE BalancesService_proofs -----------------------
(***************************************************************************)
(* For any number of calls, accounts, rows and retries: the types, that    *)
(* an asset wallet is never doubled, that no column goes negative when     *)
(* every transaction works on a snapshot, and that the calls then          *)
(* implement BalanceLedger.                                                *)
(***************************************************************************)
EXTENDS BalancesService, Sums, FiniteSetTheorems, TLAPS

LEMMA EffectType ==
  \A q \in RequestType : Effect(q) \in [available : Int, locked : Int]
BY SMT DEF Effect, RequestType

\* A credit never draws on a column.
LEMMA CreditAdds ==
  \A q \in RequestType : q.kind = "credit" /\ q.amount > 0 =>
    Effect(q).available >= 0 /\ Effect(q).locked >= 0
BY SMT DEF Effect, RequestType

\* A row without negative columns that affords a request still has none after it.
LEMMA AffordsKeepsNonNegative ==
  \A q \in RequestType, a \in Nat, l \in Nat : Affords(a, l, q) =>
    a + Effect(q).available >= 0 /\ l + Effect(q).locked >= 0
<1> SUFFICES ASSUME NEW q \in RequestType, NEW a \in Nat, NEW l \in Nat, Affords(a, l, q)
             PROVE  a + Effect(q).available >= 0 /\ l + Effect(q).locked >= 0
  OBVIOUS
<1>1. Effect(q).available \in Int /\ Effect(q).locked \in Int
  BY EffectType
<1> QED BY <1>1 DEF Affords

LEMMA StatesDistinct ==
  /\ Running \cap Ended = {}
  /\ "idle" \notin Running \cup Ended
BY DEF Running, Ended

------------------------------------------------------------------------------
(***************************************************************************)
(* Types.                                                                  *)
(***************************************************************************)
LEMMA InitTypeOK == Init => TypeOK
BY RequestAssumption, RetriesAssumption DEF Init, TypeOK, Running, Ended

LEMMA NextTypeOK == TypeOK /\ [Next]_vars => TypeOK'
<1> SUFFICES ASSUME TypeOK, [Next]_vars PROVE TypeOK'
  OBVIOUS
<1> USE RequestAssumption, RetriesAssumption DEF TypeOK, Running, Ended, table
<1>1. ASSUME NEW c \in Calls, NEW q \in Requests, Call(c, q) PROVE TypeOK'
  BY <1>1 DEF Call
<1>2. ASSUME NEW c \in Calls, NEW r \in Rows, FindRow(c, r) PROVE TypeOK'
  BY <1>2 DEF FindRow
<1>3. ASSUME NEW c \in Calls, NEW r \in Rows, CreateRow(c, r) PROVE TypeOK'
  BY <1>3 DEF CreateRow
<1>4. ASSUME NEW c \in Calls, FindNoRow(c) PROVE TypeOK'
  BY <1>4 DEF FindNoRow
<1>5. ASSUME NEW c \in Calls, CreateDuplicate(c) PROVE TypeOK'
  BY <1>5 DEF CreateDuplicate
<1>6. ASSUME NEW c \in Calls, UpdateRow(c) PROVE TypeOK'
  BY <1>6 DEF UpdateRow
<1>7. ASSUME NEW c \in Calls, Conflict(c) PROVE TypeOK'
  <2>1. CASE request[c].isolation = "own" /\ attempt[c] < MaxRetries
    <3>1. attempt[c] + 1 \in 0 .. MaxRetries
      BY <2>1
    <3>2. /\ pc' = [pc EXCEPT ![c] = "findFirst"]
          /\ attempt' = [attempt EXCEPT ![c] = @ + 1]
          /\ UNCHANGED <<account, available, locked, version, request, row, seen, fresh>>
      BY <1>7, <2>1 DEF Conflict
    <3> QED BY <1>7, <3>1, <3>2 DEF Conflict
  <2>2. CASE ~(request[c].isolation = "own" /\ attempt[c] < MaxRetries)
    BY <1>7, <2>2 DEF Conflict
  <2> QED BY <2>1, <2>2
<1>8. ASSUME NEW c \in Calls, Commit(c) PROVE TypeOK'
  <2>1. request[c] \in RequestType /\ row[c] \in Rows
    BY <1>8 DEF Commit
  <2>2. Effect(request[c]).available \in Int /\ Effect(request[c]).locked \in Int
    BY <2>1, EffectType
  <2>3. request[c].account \in Accounts
    BY <2>1 DEF RequestType
  <2> QED BY <1>8, <2>1, <2>2, <2>3 DEF Commit
<1>9. ASSUME NEW c \in Calls, Rollback(c) PROVE TypeOK'
  BY <1>9 DEF Rollback
<1>10. ASSUME UNCHANGED vars PROVE TypeOK'
  BY <1>10 DEF vars
<1> QED
  BY <1>1, <1>2, <1>3, <1>4, <1>5, <1>6, <1>7, <1>8, <1>9, <1>10 DEF Next, Step, Done

\* The table, the calls' local variables and the retry counter keep their types
\* and bounds, whatever calls run.
THEOREM TypeCorrect == Spec => []TypeOK
<1>1. TypeOK /\ [Next]_vars => TypeOK'
  BY NextTypeOK
<1> QED BY InitTypeOK, <1>1, PTL DEF Spec

------------------------------------------------------------------------------
(***************************************************************************)
(* Row locks, and what a call knows about the row it is going to write.    *)
(***************************************************************************)

\* No two transactions hold the same row.
LocksExclusive ==
  \A c, d \in Calls : c # d => HeldBy(c) \cap HeldBy(d) = {}

\* A row that is being inserted is not in the table, and nobody writes it.
FreshRowIsAbsent ==
  \A c \in Calls : fresh[c] /\ pc[c] \in {"update", "commit"} =>
    account[row[c]] = None /\ version[row[c]] = seen[c].version

\* A row that was found is in the table and belongs to the account asked for.
FoundRowIsTheAccounts ==
  \A c \in Calls : ~fresh[c] /\ pc[c] \in {"update", "commit"} =>
    account[row[c]] = request[c].account

\* fresh is set by create and its call goes on or ends.
FreshNeverSearches ==
  \A c \in Calls : fresh[c] => pc[c] \in {"update", "commit"} \cup Ended

\* Only credits insert rows.
OnlyCreditsCreate ==
  \A c \in Calls : fresh[c] \/ pc[c] = "create" => request[c].kind = "credit"

\* Only amounts that are positive reach a transaction.
AmountsPositive ==
  \A c \in Calls : pc[c] \in Running => request[c].amount > 0

RowInv ==
  /\ TypeOK
  /\ LocksExclusive
  /\ FreshRowIsAbsent
  /\ FoundRowIsTheAccounts
  /\ FreshNeverSearches
  /\ OnlyCreditsCreate
  /\ AmountsPositive

LEMMA InitRowInv == Init => RowInv
<1> SUFFICES ASSUME Init PROVE RowInv
  OBVIOUS
<1>1. TypeOK
  BY InitTypeOK
<1>2. \A c \in Calls : pc[c] = "idle" /\ fresh[c] = FALSE
  BY DEF Init
<1> QED
  BY <1>1, <1>2 DEF RowInv, LocksExclusive, FreshRowIsAbsent, FoundRowIsTheAccounts,
                    FreshNeverSearches, OnlyCreditsCreate, AmountsPositive, HeldBy, Running

LEMMA NextRowInv == RowInv /\ [Next]_vars => RowInv'
<1> SUFFICES ASSUME RowInv, [Next]_vars PROVE RowInv'
  OBVIOUS
<1>0. TypeOK /\ TypeOK'
  BY NextTypeOK DEF RowInv
<1> DEFINE Rest == /\ LocksExclusive /\ FreshRowIsAbsent /\ FoundRowIsTheAccounts
                   /\ FreshNeverSearches /\ OnlyCreditsCreate /\ AmountsPositive
<1>n. None \notin Accounts /\ Requests \subseteq RequestType
  BY RequestAssumption
<1>a. \A c \in Calls : pc[c] # "idle" => request[c].account \in Accounts /\ request[c].amount \in Int
  BY <1>0, <1>n DEF TypeOK, RequestType
<1>b. TypeOK /\ Rest
  BY <1>0 DEF RowInv
<1> HIDE DEF Rest
<1> SUFFICES Rest'
  BY <1>0 DEF RowInv, Rest
<1>1. ASSUME NEW c \in Calls, NEW q \in Requests, Call(c, q) PROVE Rest'
  <2>1. q.amount \in Int
    BY <1>n DEF RequestType
  <2>2. ~fresh[c]
    BY <1>1, <1>b DEF Call, Rest, FreshNeverSearches, Ended
  <2> QED
    BY <1>1, <1>b, <2>1, <2>2 DEF Call, Rest, TypeOK, LocksExclusive, FreshRowIsAbsent,
       FoundRowIsTheAccounts, FreshNeverSearches, OnlyCreditsCreate, AmountsPositive, HeldBy, Running, Ended, table
<1>2. ASSUME NEW c \in Calls, NEW r \in Rows, FindRow(c, r) PROVE Rest'
  <2>2. ~fresh[c]
    BY <1>2, <1>b DEF FindRow, Rest, FreshNeverSearches, Ended
  <2> QED
    BY <1>2, <1>b, <2>2 DEF FindRow, Rest, TypeOK, LocksExclusive, FreshRowIsAbsent,
       FoundRowIsTheAccounts, FreshNeverSearches, OnlyCreditsCreate, AmountsPositive, HeldBy, Running, Ended, table
<1>3. ASSUME NEW c \in Calls, NEW r \in Rows, CreateRow(c, r) PROVE Rest'
  BY <1>3, <1>b DEF CreateRow, Rest, TypeOK, LocksExclusive, FreshRowIsAbsent,
       FoundRowIsTheAccounts, FreshNeverSearches, OnlyCreditsCreate, AmountsPositive, HeldBy, Running, Ended, table
<1>4. ASSUME NEW c \in Calls, FindNoRow(c) PROVE Rest'
  <2>2. ~fresh[c]
    BY <1>4, <1>b DEF FindNoRow, Rest, FreshNeverSearches, Ended
  <2> QED
    BY <1>4, <1>b, <2>2 DEF FindNoRow, Rest, TypeOK, LocksExclusive, FreshRowIsAbsent,
       FoundRowIsTheAccounts, FreshNeverSearches, OnlyCreditsCreate, AmountsPositive, HeldBy, Running, Ended, table
<1>5. ASSUME NEW c \in Calls, CreateDuplicate(c) PROVE Rest'
  BY <1>5, <1>b DEF CreateDuplicate, Rest, TypeOK, LocksExclusive, FreshRowIsAbsent,
     FoundRowIsTheAccounts, FreshNeverSearches, OnlyCreditsCreate, AmountsPositive, HeldBy, Running, Ended, table
<1>6. ASSUME NEW c \in Calls, UpdateRow(c) PROVE Rest'
  BY <1>6, <1>b DEF UpdateRow, RowFree, Rest, TypeOK, LocksExclusive, FreshRowIsAbsent,
     FoundRowIsTheAccounts, FreshNeverSearches, OnlyCreditsCreate, AmountsPositive, HeldBy, Running, Ended, table
<1>7. ASSUME NEW c \in Calls, Conflict(c) PROVE Rest'
  <2>1. ~fresh[c]
    BY <1>7, <1>b DEF Conflict, Conflicting, Rest, FreshRowIsAbsent
  <2>2. pc' \in {[pc EXCEPT ![c] = "findFirst"], [pc EXCEPT ![c] = "failed"]}
    BY <1>7 DEF Conflict
  <2>3. pc[c] = "update" /\ UNCHANGED <<account, available, locked, version, request, row, seen, fresh>>
    BY <1>7 DEF Conflict, table
  <2>4. \A d \in Calls : HeldBy(d)' \subseteq HeldBy(d)
    BY <1>b, <2>1, <2>2, <2>3 DEF TypeOK, HeldBy
  <2>5. \A d \in Calls : pc'[d] \in {"update", "commit", "create"} => pc[d] = pc'[d]
    BY <1>b, <2>2 DEF TypeOK
  <2>6. LocksExclusive'
    BY <1>b, <2>4 DEF Rest, LocksExclusive
  <2>7. FreshRowIsAbsent' /\ FoundRowIsTheAccounts'
    BY <1>b, <2>3, <2>5 DEF Rest, FreshRowIsAbsent, FoundRowIsTheAccounts
  <2>8. FreshNeverSearches'
    BY <1>b, <2>1, <2>2, <2>3 DEF Rest, TypeOK, FreshNeverSearches
  <2>9. OnlyCreditsCreate' /\ AmountsPositive'
    BY <1>b, <2>2, <2>3, <2>5 DEF Rest, TypeOK, OnlyCreditsCreate, AmountsPositive, Running
  <2> QED BY <2>6, <2>7, <2>8, <2>9 DEF Rest
<1>8. ASSUME NEW c \in Calls, Commit(c) PROVE Rest'
  <2>1. /\ pc[c] = "commit" /\ row[c] \in Rows
        /\ pc' = [pc EXCEPT ![c] = "applied"]
        /\ account' = [account EXCEPT ![row[c]] = request[c].account]
        /\ version' = [version EXCEPT ![row[c]] = @ + 1]
        /\ UNCHANGED <<request, row, seen, fresh>>
    BY <1>8, <1>b DEF Commit, TypeOK
  <2>2. LocksExclusive' /\ FreshNeverSearches' /\ OnlyCreditsCreate' /\ AmountsPositive'
    BY <1>b, <2>1 DEF Rest, TypeOK, LocksExclusive, FreshRowIsAbsent,
       FoundRowIsTheAccounts, FreshNeverSearches, OnlyCreditsCreate, AmountsPositive,
       HeldBy, Running, Ended, table
  <2>3. FreshRowIsAbsent'
    <3> SUFFICES ASSUME NEW d \in Calls, fresh[d], pc'[d] \in {"update", "commit"}
                 PROVE  account'[row[d]] = None /\ version'[row[d]] = seen[d].version
      BY <2>1 DEF FreshRowIsAbsent
    <3>1. d # c /\ pc[d] \in {"update", "commit"} /\ row[d] \in Rows
      BY <1>b, <2>1 DEF TypeOK
    <3>2. row[d] # row[c]
      BY <1>b, <2>1, <3>1 DEF Rest, LocksExclusive, HeldBy
    <3> QED BY <1>b, <2>1, <3>1, <3>2 DEF Rest, FreshRowIsAbsent, TypeOK
  <2>4. FoundRowIsTheAccounts'
    <3> SUFFICES ASSUME NEW d \in Calls, ~fresh[d], pc'[d] \in {"update", "commit"}
                 PROVE  account'[row[d]] = request[d].account
      BY <2>1 DEF FoundRowIsTheAccounts
    <3>1. d # c /\ pc[d] \in {"update", "commit"} /\ row[d] \in Rows
      BY <1>b, <2>1 DEF TypeOK
    <3>2. account[row[d]] = request[d].account /\ request[d].account \in Accounts
      BY <1>a, <1>b, <3>1 DEF Rest, FoundRowIsTheAccounts
    <3>3. CASE row[d] = row[c]
      <4>1. ~fresh[c]
        BY <1>b, <1>n, <2>1, <3>2, <3>3 DEF Rest, FreshRowIsAbsent
      <4>2. account[row[c]] = request[c].account
        BY <1>b, <2>1, <4>1 DEF Rest, FoundRowIsTheAccounts
      <4> QED BY <1>b, <2>1, <3>2, <3>3, <4>2 DEF TypeOK
    <3>4. CASE row[d] # row[c]
      BY <1>b, <2>1, <3>1, <3>2, <3>4 DEF TypeOK
    <3> QED BY <3>3, <3>4
  <2> QED BY <2>2, <2>3, <2>4 DEF Rest
<1>9. ASSUME NEW c \in Calls, Rollback(c) PROVE Rest'
  BY <1>9, <1>b DEF Rollback, Rest, TypeOK, LocksExclusive, FreshRowIsAbsent,
     FoundRowIsTheAccounts, FreshNeverSearches, OnlyCreditsCreate, AmountsPositive, HeldBy, Running, Ended, table
<1>10. ASSUME UNCHANGED vars PROVE Rest'
  BY <1>10, <1>b DEF vars, Rest, TypeOK, LocksExclusive, FreshRowIsAbsent,
     FoundRowIsTheAccounts, FreshNeverSearches, OnlyCreditsCreate, AmountsPositive, HeldBy, Running, Ended, table
<1> QED
  BY <1>1, <1>2, <1>3, <1>4, <1>5, <1>6, <1>7, <1>8, <1>9, <1>10 DEF Next, Step, Done

LEMMA RowInvariant == Spec => []RowInv
<1>1. RowInv /\ [Next]_vars => RowInv'
  BY NextRowInv
<1> QED BY InitRowInv, <1>1, PTL DEF Spec

------------------------------------------------------------------------------
(***************************************************************************)
(* The unique key of asset wallets.                                        *)
(***************************************************************************)
Inserting(c) == fresh[c] /\ pc[c] \in {"update", "commit"}

\* One row per asset account, none while one is being inserted, and at most one
\* insert at a time.
KeyInv ==
  /\ OneRowPerAsset
  /\ \A c \in Calls : Inserting(c) /\ request[c].account \notin CashAccounts =>
       RowsOf(request[c].account) = {}
  /\ \A c, d \in Calls :
       /\ Inserting(c) /\ Inserting(d)
       /\ request[c].account = request[d].account
       /\ request[c].account \notin CashAccounts
       => c = d

\* A step that inserts nothing and commits nothing cannot break the key.
LEMMA KeyUndisturbed ==
  ASSUME KeyInv, UNCHANGED account,
         \A c \in Calls : Inserting(c)' => Inserting(c) /\ request'[c] = request[c]
  PROVE  KeyInv'
<1>1. OneRowPerAsset'
  BY DEF KeyInv, OneRowPerAsset
<1>2. \A a : RowsOf(a)' = RowsOf(a)
  BY DEF RowsOf
<1> QED BY <1>1, <1>2 DEF KeyInv

LEMMA InitKeyInv == Init => KeyInv
BY RequestAssumption DEF Init, KeyInv, OneRowPerAsset, Inserting

LEMMA NextKeyInv == RowInv /\ KeyInv /\ [Next]_vars => KeyInv'
<1> SUFFICES ASSUME RowInv, KeyInv, [Next]_vars PROVE KeyInv'
  OBVIOUS
<1>0. TypeOK
  BY DEF RowInv
<1>a. \A c \in Calls : pc[c] # "idle" => request[c].account \in Accounts
  BY <1>0, RequestAssumption DEF TypeOK, RequestType
<1>1. ASSUME NEW c \in Calls, NEW q \in Requests, Call(c, q) PROVE KeyInv'
  <2>1. ~fresh[c]
    BY <1>1 DEF Call, RowInv, FreshNeverSearches, Ended
  <2>2. \A d \in Calls : Inserting(d)' => Inserting(d) /\ request'[d] = request[d]
    BY <1>0, <1>1, <2>1 DEF Call, TypeOK, Inserting
  <2> QED BY <1>1, <2>2, KeyUndisturbed DEF Call, table
<1>2. ASSUME NEW c \in Calls, NEW r \in Rows, FindRow(c, r) PROVE KeyInv'
  <2>1. ~fresh[c]
    BY <1>2 DEF FindRow, RowInv, FreshNeverSearches, Ended
  <2>2. \A d \in Calls : Inserting(d)' => Inserting(d) /\ request'[d] = request[d]
    BY <1>0, <1>2, <2>1 DEF FindRow, TypeOK, Inserting
  <2> QED BY <1>2, <2>2, KeyUndisturbed DEF FindRow, table
<1>3. ASSUME NEW c \in Calls, NEW r \in Rows, CreateRow(c, r) PROVE KeyInv'
  <2>1. /\ UNCHANGED <<account, request>>
        /\ fresh' = [fresh EXCEPT ![c] = TRUE] /\ pc' = [pc EXCEPT ![c] = "update"]
    BY <1>3 DEF CreateRow, table
  <2>2. OneRowPerAsset'
    BY <2>1 DEF KeyInv, OneRowPerAsset
  <2>3. \A d \in Calls \ {c} : Inserting(d)' = Inserting(d)
    BY <1>0, <2>1 DEF TypeOK, Inserting
  <2>4. request[c].account \notin CashAccounts =>
          /\ RowsOf(request[c].account) = {}
          /\ \A d \in Calls \ {c} : Inserting(d) => request[d].account # request[c].account
    BY <1>3 DEF CreateRow, KeyTaken, KeyAwaited, Inserting, Running
  <2>5. \A a : RowsOf(a)' = RowsOf(a)
    BY <2>1 DEF RowsOf
  <2> QED BY <2>1, <2>2, <2>3, <2>4, <2>5 DEF KeyInv
<1>4. ASSUME NEW c \in Calls, FindNoRow(c) PROVE KeyInv'
  <2>2. \A d \in Calls : Inserting(d)' => Inserting(d) /\ request'[d] = request[d]
    BY <1>0, <1>4 DEF FindNoRow, TypeOK, Inserting
  <2> QED BY <1>4, <2>2, KeyUndisturbed DEF FindNoRow, table
<1>5. ASSUME NEW c \in Calls, CreateDuplicate(c) PROVE KeyInv'
  <2>2. \A d \in Calls : Inserting(d)' => Inserting(d) /\ request'[d] = request[d]
    BY <1>0, <1>5 DEF CreateDuplicate, TypeOK, Inserting
  <2> QED BY <1>5, <2>2, KeyUndisturbed DEF CreateDuplicate, table
<1>6. ASSUME NEW c \in Calls, UpdateRow(c) PROVE KeyInv'
  <2>2. \A d \in Calls : Inserting(d)' => Inserting(d) /\ request'[d] = request[d]
    BY <1>0, <1>6 DEF UpdateRow, TypeOK, Inserting
  <2> QED BY <1>6, <2>2, KeyUndisturbed DEF UpdateRow, table
<1>7. ASSUME NEW c \in Calls, Conflict(c) PROVE KeyInv'
  <2>2. \A d \in Calls : Inserting(d)' => Inserting(d) /\ request'[d] = request[d]
    BY <1>0, <1>7 DEF Conflict, TypeOK, Inserting
  <2> QED BY <1>7, <2>2, KeyUndisturbed DEF Conflict, table
<1>8. ASSUME NEW c \in Calls, Commit(c) PROVE KeyInv'
  <2> DEFINE a == request[c].account
  <2>1. /\ pc[c] = "commit" /\ row[c] \in Rows /\ a \in Accounts
        /\ account' = [account EXCEPT ![row[c]] = a]
        /\ pc' = [pc EXCEPT ![c] = "applied"]
        /\ UNCHANGED <<request, fresh>>
    BY <1>0, <1>8, <1>a DEF Commit, TypeOK
  <2>2. \A d \in Calls : Inserting(d)' => Inserting(d) /\ d # c
    BY <1>0, <2>1 DEF Inserting, TypeOK
  <2>3. CASE ~fresh[c]
    <3>1. account[row[c]] = a
      BY <2>1, <2>3 DEF RowInv, FoundRowIsTheAccounts
    <3>2. account' = account
      BY <1>0, <2>1, <3>1 DEF TypeOK
    <3> QED BY <2>1, <2>2, <3>2, KeyUndisturbed
  <2>4. CASE fresh[c]
    <3>1. Inserting(c)
      BY <2>1, <2>4 DEF Inserting
    <3>3. a \notin CashAccounts => RowsOf(a) = {}
      BY <3>1 DEF KeyInv
    <3>4. OneRowPerAsset'
      <4> SUFFICES ASSUME NEW r \in Rows, NEW s \in Rows, account'[r] = account'[s],
                          account'[r] \in Accounts \ CashAccounts
                   PROVE  r = s
        BY DEF OneRowPerAsset
      <4>1. CASE account'[r] = a
        <5>1. \A t \in Rows : account'[t] = a => t = row[c]
          BY <1>0, <2>1, <3>3, <4>1 DEF RowsOf, TypeOK
        <5> QED BY <4>1, <5>1
      <4>2. CASE account'[r] # a
        BY <1>0, <2>1, <4>2 DEF TypeOK, KeyInv, OneRowPerAsset
      <4> QED BY <4>1, <4>2
    <3>5. ASSUME NEW d \in Calls, Inserting(d)', request[d].account \notin CashAccounts
          PROVE  RowsOf(request[d].account)' = {}
      <4>1. Inserting(d) /\ d # c
        BY <2>2, <3>5
      <4>2. request[d].account # a /\ RowsOf(request[d].account) = {}
        BY <3>1, <3>5, <4>1 DEF KeyInv
      <4> QED BY <1>0, <2>1, <4>2 DEF RowsOf, TypeOK
    <3> QED BY <2>1, <2>2, <3>4, <3>5 DEF KeyInv
  <2> QED BY <2>3, <2>4
<1>9. ASSUME NEW c \in Calls, Rollback(c) PROVE KeyInv'
  <2>2. \A d \in Calls : Inserting(d)' => Inserting(d) /\ request'[d] = request[d]
    BY <1>0, <1>9 DEF Rollback, TypeOK, Inserting
  <2> QED BY <1>9, <2>2, KeyUndisturbed DEF Rollback, table
<1>10. ASSUME UNCHANGED vars PROVE KeyInv'
  BY <1>10, KeyUndisturbed DEF vars, Inserting
<1> QED
  BY <1>1, <1>2, <1>3, <1>4, <1>5, <1>6, <1>7, <1>8, <1>9, <1>10 DEF Next, Step, Done

\* Credits racing to open the wallet of an asset never leave two of them, at any
\* isolation level: the unique key makes the second insert wait and fail.
THEOREM AssetWalletUnique == Spec => []OneRowPerAsset
<1>1. RowInv /\ KeyInv /\ [Next]_vars => KeyInv'
  BY NextKeyInv
<1>2. KeyInv => OneRowPerAsset
  BY DEF KeyInv
<1> QED BY RowInvariant, InitKeyInv, <1>1, <1>2, PTL DEF Spec

------------------------------------------------------------------------------
(***************************************************************************)
(* What a call has read stays true while the version stays the same, and   *)
(* a snapshot transaction that holds the row has the current version.      *)
(***************************************************************************)
Writing(c) == ~fresh[c] /\ pc[c] \in {"update", "commit"}

Current(c) == version[row[c]] = seen[c].version

SeenInv ==
  /\ \A c \in Calls : Writing(c) =>
       /\ Affords(seen[c].available, seen[c].locked, request[c])
       /\ seen[c].version <= version[row[c]]
       /\ Current(c) => available[row[c]] = seen[c].available
                        /\ locked[row[c]] = seen[c].locked
  /\ \A c \in Calls : Writing(c) /\ pc[c] = "commit" /\ Snapshot(c) => Current(c)

\* A step that writes no row and lets no call reach update or commit keeps it.
LEMMA SeenUndisturbed ==
  ASSUME SeenInv, UNCHANGED <<available, locked, version>>,
         \A c \in Calls : Writing(c)' =>
           /\ Writing(c) /\ pc'[c] = pc[c]
           /\ row'[c] = row[c] /\ seen'[c] = seen[c] /\ request'[c] = request[c]
  PROVE  SeenInv'
<1> SUFFICES ASSUME NEW c \in Calls, Writing(c)'
             PROVE  /\ Affords(seen'[c].available, seen'[c].locked, request'[c])
                    /\ seen'[c].version <= version'[row'[c]]
                    /\ Current(c)' => available'[row'[c]] = seen'[c].available
                                      /\ locked'[row'[c]] = seen'[c].locked
                    /\ pc'[c] = "commit" /\ Snapshot(c)' => Current(c)'
  BY DEF SeenInv, Affords, Effect
<1>1. Current(c)' = Current(c) /\ Snapshot(c)' = Snapshot(c)
  BY DEF Current, Snapshot
<1> QED BY <1>1 DEF SeenInv

LEMMA InitSeenInv == Init => SeenInv
BY DEF Init, SeenInv, Writing

LEMMA NextSeenInv == RowInv /\ SeenInv /\ [Next]_vars => SeenInv'
<1> SUFFICES ASSUME RowInv, SeenInv, [Next]_vars PROVE SeenInv'
  OBVIOUS
<1>0. TypeOK
  BY DEF RowInv
<1> DEFINE Kept(d) == /\ Writing(d) /\ pc'[d] = pc[d]
                      /\ row'[d] = row[d] /\ seen'[d] = seen[d] /\ request'[d] = request[d]
<1>1. ASSUME NEW c \in Calls, NEW q \in Requests, Call(c, q) PROVE SeenInv'
  <2>1. \A d \in Calls : Writing(d)' => Kept(d)
    BY <1>0, <1>1 DEF Call, TypeOK, Writing
  <2> QED BY <1>1, <2>1, SeenUndisturbed DEF Call, table
<1>2. ASSUME NEW c \in Calls, NEW r \in Rows, FindRow(c, r) PROVE SeenInv'
  <2>1. /\ UNCHANGED <<account, available, locked, version, request, fresh>>
        /\ row' = [row EXCEPT ![c] = r]
        /\ seen' = [seen EXCEPT ![c] = [available |-> available[r], locked |-> locked[r],
                                        version |-> version[r]]]
        /\ pc' = [pc EXCEPT ![c] = IF Affords(available[r], locked[r], request[c])
                                   THEN "update" ELSE "refused"]
    BY <1>2 DEF FindRow, table
  <2>2. \A d \in Calls \ {c} : Writing(d)' => Kept(d)
    BY <1>0, <2>1 DEF TypeOK, Writing
  <2>3. Writing(c)' => /\ pc'[c] = "update"
                       /\ Affords(available[r], locked[r], request[c])
    BY <1>0, <2>1 DEF TypeOK, Writing
  <2>4. /\ row'[c] = r /\ version[r] \in Nat
        /\ seen'[c].available = available[r] /\ seen'[c].locked = locked[r]
        /\ seen'[c].version = version[r]
    BY <1>0, <2>1 DEF TypeOK
  <2>5. \A d \in Calls \ {c} : Writing(d)' =>
          /\ Affords(seen'[d].available, seen'[d].locked, request'[d])
          /\ seen'[d].version <= version'[row'[d]]
          /\ Current(d)' => available'[row'[d]] = seen'[d].available
                            /\ locked'[row'[d]] = seen'[d].locked
          /\ pc'[d] = "commit" /\ Snapshot(d)' => Current(d)'
    BY <2>1, <2>2 DEF SeenInv, Current, Snapshot
  <2>6. Writing(c)' =>
          /\ Affords(seen'[c].available, seen'[c].locked, request'[c])
          /\ seen'[c].version <= version'[row'[c]]
          /\ Current(c)' => available'[row'[c]] = seen'[c].available
                            /\ locked'[row'[c]] = seen'[c].locked
          /\ pc'[c] # "commit"
    BY <2>1, <2>3, <2>4
  <2> HIDE DEF Kept
  <2>7. \A d \in Calls : Writing(d)' =>
          /\ Affords(seen'[d].available, seen'[d].locked, request'[d])
          /\ seen'[d].version <= version'[row'[d]]
          /\ Current(d)' => available'[row'[d]] = seen'[d].available
                            /\ locked'[row'[d]] = seen'[d].locked
          /\ pc'[d] = "commit" /\ Snapshot(d)' => Current(d)'
    <3>1. TAKE d \in Calls
    <3>2. CASE d = c
      BY <2>6, <3>2
    <3>3. CASE d # c
      BY <2>5, <3>3
    <3> QED BY <3>2, <3>3
  <2> QED BY <2>7 DEF SeenInv, Affords, Effect
<1>3. ASSUME NEW c \in Calls, NEW r \in Rows, CreateRow(c, r) PROVE SeenInv'
  <2>1. \A d \in Calls : Writing(d)' => Kept(d)
    BY <1>0, <1>3 DEF CreateRow, TypeOK, Writing
  <2> QED BY <1>3, <2>1, SeenUndisturbed DEF CreateRow, table
<1>4. ASSUME NEW c \in Calls, FindNoRow(c) PROVE SeenInv'
  <2>1. \A d \in Calls : Writing(d)' => Kept(d)
    BY <1>0, <1>4 DEF FindNoRow, TypeOK, Writing
  <2> QED BY <1>4, <2>1, SeenUndisturbed DEF FindNoRow, table
<1>5. ASSUME NEW c \in Calls, CreateDuplicate(c) PROVE SeenInv'
  <2>1. \A d \in Calls : Writing(d)' => Kept(d)
    BY <1>0, <1>5 DEF CreateDuplicate, TypeOK, Writing
  <2> QED BY <1>5, <2>1, SeenUndisturbed DEF CreateDuplicate, table
<1>6. ASSUME NEW c \in Calls, UpdateRow(c) PROVE SeenInv'
  <2>1. /\ pc[c] = "update" /\ pc' = [pc EXCEPT ![c] = "commit"] /\ ~Conflicting(c)
        /\ UNCHANGED <<account, available, locked, version, request, row, seen, fresh>>
    BY <1>6 DEF UpdateRow, table
  <2>2. \A d \in Calls : Writing(d)' = Writing(d) /\ Current(d)' = Current(d)
                         /\ Snapshot(d)' = Snapshot(d)
    BY <1>0, <2>1 DEF TypeOK, Writing, Current, Snapshot
  <2>3. Snapshot(c) => Current(c)
    BY <2>1 DEF Conflicting, Current
  <2>4. \A d \in Calls : d # c => pc'[d] = pc[d]
    BY <1>0, <2>1 DEF TypeOK
  <2> QED BY <2>1, <2>2, <2>3, <2>4 DEF SeenInv, Affords, Effect
<1>7. ASSUME NEW c \in Calls, Conflict(c) PROVE SeenInv'
  <2>1. \A d \in Calls : Writing(d)' => Kept(d)
    BY <1>0, <1>7 DEF Conflict, TypeOK, Writing
  <2> QED BY <1>7, <2>1, SeenUndisturbed DEF Conflict, table
<1>8. ASSUME NEW c \in Calls, Commit(c) PROVE SeenInv'
  <2>1. /\ pc[c] = "commit" /\ row[c] \in Rows
        /\ pc' = [pc EXCEPT ![c] = "applied"]
        /\ version' = [version EXCEPT ![row[c]] = @ + 1]
        /\ UNCHANGED <<request, row, seen, fresh>>
        /\ \A r \in Rows \ {row[c]} : available'[r] = available[r] /\ locked'[r] = locked[r]
    BY <1>0, <1>8 DEF Commit, TypeOK
  <2> SUFFICES ASSUME NEW d \in Calls, Writing(d)'
               PROVE  /\ Affords(seen'[d].available, seen'[d].locked, request'[d])
                      /\ seen'[d].version <= version'[row'[d]]
                      /\ Current(d)' => available'[row'[d]] = seen'[d].available
                                        /\ locked'[row'[d]] = seen'[d].locked
                      /\ pc'[d] = "commit" /\ Snapshot(d)' => Current(d)'
    BY DEF SeenInv, Affords, Effect
  <2>2. d # c /\ Writing(d) /\ pc'[d] = pc[d] /\ row[d] \in Rows
    BY <1>0, <2>1 DEF TypeOK, Writing
  <2>3. seen[d].version \in Nat /\ version[row[d]] \in Nat
    BY <1>0, <2>2 DEF TypeOK
  <2>4. CASE row[d] = row[c]
    <3>1. version'[row[d]] = version[row[d]] + 1
      BY <1>0, <2>1, <2>4 DEF TypeOK
    <3>2. pc[d] # "commit"
      BY <2>1, <2>2, <2>4 DEF RowInv, LocksExclusive, HeldBy
    <3>3. seen[d].version <= version[row[d]]
      BY <2>2 DEF SeenInv
    <3>4. ~Current(d)'
      BY <2>1, <2>3, <3>1, <3>3 DEF Current
    <3>5. seen[d].version <= version'[row[d]]
      BY <2>3, <3>1, <3>3
    <3> QED BY <2>1, <2>2, <3>2, <3>4, <3>5 DEF SeenInv
  <2>5. CASE row[d] # row[c]
    <3>1. version'[row[d]] = version[row[d]]
      BY <1>0, <2>1, <2>2, <2>5 DEF TypeOK
    <3>2. Current(d)' = Current(d) /\ Snapshot(d)' = Snapshot(d)
      BY <2>1, <3>1 DEF Current, Snapshot
    <3> QED BY <2>1, <2>2, <2>5, <3>1, <3>2 DEF SeenInv
  <2> QED BY <2>4, <2>5
<1>9. ASSUME NEW c \in Calls, Rollback(c) PROVE SeenInv'
  <2>1. \A d \in Calls : Writing(d)' => Kept(d)
    BY <1>0, <1>9 DEF Rollback, TypeOK, Writing
  <2> QED BY <1>9, <2>1, SeenUndisturbed DEF Rollback, table
<1>10. ASSUME UNCHANGED vars PROVE SeenInv'
  BY <1>10, SeenUndisturbed DEF vars, Writing
<1> QED
  BY <1>1, <1>2, <1>3, <1>4, <1>5, <1>6, <1>7, <1>8, <1>9, <1>10 DEF Next, Step, Done

LEMMA SeenInvariant == Spec => [](RowInv /\ KeyInv /\ SeenInv)
<1>1. RowInv /\ SeenInv /\ [Next]_vars => SeenInv'
  BY NextSeenInv
<1>2. RowInv /\ KeyInv /\ [Next]_vars => KeyInv'
  BY NextKeyInv
<1> QED BY RowInvariant, InitKeyInv, InitSeenInv, <1>1, <1>2, PTL DEF Spec

------------------------------------------------------------------------------
(***************************************************************************)
(* Without callers' ReadCommitted transactions no column goes negative.    *)
(***************************************************************************)
SnapshotOnly == \A q \in Requests : q.isolation # "ReadCommitted"

\* At the commit the call's own check still holds for the row as it is.
LEMMA CommitAffords ==
  ASSUME SnapshotOnly, RowInv, SeenInv, NEW c \in Calls, pc[c] = "commit", ~fresh[c]
  PROVE  Affords(available[row[c]], locked[row[c]], request[c])
<1>1. Writing(c) /\ request[c] \in Requests
  BY DEF Writing, RowInv, TypeOK
<1>2. Snapshot(c)
  BY <1>1 DEF SnapshotOnly, Snapshot
<1>3. Current(c)
  BY <1>1, <1>2 DEF SeenInv
<1> QED BY <1>1, <1>3 DEF SeenInv

LEMMA NextNonNegative ==
  ASSUME SnapshotOnly
  PROVE  RowInv /\ SeenInv /\ NonNegative /\ [Next]_vars => NonNegative'
<1> SUFFICES ASSUME RowInv, SeenInv, NonNegative, [Next]_vars PROVE NonNegative'
  OBVIOUS
<1>0. TypeOK
  BY DEF RowInv
<1>1. ASSUME NEW c \in Calls, Commit(c) PROVE NonNegative'
  <2> DEFINE r == row[c]
             e == Effect(request[c])
  <2>1. /\ r \in Rows /\ request[c] \in RequestType /\ request[c].amount > 0
        /\ pc[c] = "commit"
    BY <1>0, <1>1, RequestAssumption DEF Commit, TypeOK, RowInv, AmountsPositive, Running
  <2>2. e.available \in Int /\ e.locked \in Int
    BY <2>1, EffectType
  <2>3. /\ available' = [available EXCEPT ![r] = (IF fresh[c] THEN 0 ELSE @) + e.available]
        /\ locked' = [locked EXCEPT ![r] = (IF fresh[c] THEN 0 ELSE @) + e.locked]
    BY <1>1 DEF Commit
  <2>4. (IF fresh[c] THEN 0 ELSE available[r]) + e.available >= 0
        /\ (IF fresh[c] THEN 0 ELSE locked[r]) + e.locked >= 0
    <3>1. CASE fresh[c]
      <4>1. request[c].kind = "credit"
        BY <3>1 DEF RowInv, OnlyCreditsCreate
      <4> QED BY <2>1, <2>2, <3>1, <4>1, CreditAdds
    <3>2. CASE ~fresh[c]
      <4>1. Affords(available[r], locked[r], request[c])
        BY <2>1, <3>2, CommitAffords
      <4>2. available[r] \in Nat /\ locked[r] \in Nat
        BY <1>0, <2>1 DEF TypeOK, NonNegative
      <4> QED BY <2>1, <3>2, <4>1, <4>2, AffordsKeepsNonNegative
    <3> QED BY <3>1, <3>2
  <2> HIDE DEF e
  <2> QED BY <1>0, <2>1, <2>2, <2>3, <2>4 DEF TypeOK, NonNegative
<1>2. CASE UNCHANGED <<available, locked>>
  BY <1>2 DEF NonNegative
<1>3. ASSUME NEW c \in Calls, NEW q \in Requests, Call(c, q) PROVE UNCHANGED <<available, locked>>
  BY <1>3 DEF Call, table
<1>4. ASSUME NEW c \in Calls, Step(c), ~Commit(c) PROVE UNCHANGED <<available, locked>>
  BY <1>4 DEF Step, FindRow, CreateRow, FindNoRow, CreateDuplicate, UpdateRow, Conflict, table
<1>5. ASSUME NEW c \in Calls, Rollback(c) PROVE UNCHANGED <<available, locked>>
  BY <1>5 DEF Rollback, table
<1> QED
  BY <1>1, <1>2, <1>3, <1>4, <1>5 DEF Next, Done, vars

\* With every transaction at RepeatableRead or Serializable no available or locked
\* column is ever negative: a commit in between the check and the decrement makes
\* the decrement fail.
THEOREM NeverNegative == SnapshotOnly => (Spec => []NonNegative)
<1> SUFFICES ASSUME SnapshotOnly PROVE Spec => []NonNegative
  OBVIOUS
<1>1. Init => NonNegative
  BY RequestAssumption DEF Init, NonNegative
<1>2. RowInv /\ SeenInv /\ NonNegative /\ [Next]_vars => NonNegative'
  BY NextNonNegative
<1> QED BY SeenInvariant, <1>1, <1>2, PTL DEF Spec

------------------------------------------------------------------------------
(***************************************************************************)
(* BalancesService implements BalanceLedger.                               *)
(***************************************************************************)

\* What a step of one call does to the outcomes.
LEMMA OutcomeStep ==
  ASSUME TypeOK, NEW c \in Calls, NEW p \in {"idle"} \cup Running \cup Ended,
         pc' = [pc EXCEPT ![c] = p]
  PROVE  /\ p \in Running /\ pc[c] \in Running => Outcome' = Outcome
         /\ p \in Running => Outcome' = [Outcome EXCEPT ![c] = "pending"]
         /\ p \in Ended => Outcome' = [Outcome EXCEPT ![c] = p]
<1> DEFINE Of(s) == CASE s = "idle" -> "none" [] s \in Running -> "pending" [] OTHER -> s
<1>1. Outcome = [d \in Calls |-> Of(pc[d])] /\ Outcome' = [d \in Calls |-> Of(pc'[d])]
  BY DEF Outcome
<1>2. \A d \in Calls : pc'[d] = IF d = c THEN p ELSE pc[d]
  BY DEF TypeOK
<1>3. p \in Ended => Of(p) = p
  BY DEF Running, Ended
<1>4. p \in Running => Of(p) = "pending"
  BY DEF Running
<1>5. pc[c] \in Running => Of(pc[c]) = "pending"
  BY DEF Running
<1> HIDE DEF Of
<1>6. Outcome' = [Outcome EXCEPT ![c] = Of(p)]
  BY <1>1, <1>2
<1>7. pc[c] \in Running => Outcome = [Outcome EXCEPT ![c] = "pending"]
  BY <1>1, <1>5
<1> QED BY <1>3, <1>4, <1>6, <1>7

LEMMA InitImplements == Init => Ledger!LedgerInit
BY DEF Init, Ledger!LedgerInit, Outcome, Running

LEMMA NextImplements ==
  ASSUME SnapshotOnly
  PROVE  RowInv /\ KeyInv /\ SeenInv /\ [Next]_vars
           => [Ledger!LedgerNext]_(Ledger!ledgerVars)
<1> SUFFICES ASSUME RowInv, KeyInv, SeenInv, [Next]_vars
             PROVE  [Ledger!LedgerNext]_(Ledger!ledgerVars)
  OBVIOUS
<1> DEFINE Stutter == UNCHANGED <<account, available, locked, request, Outcome>>
<1>0. TypeOK
  BY DEF RowInv
<1>s. Stutter => [Ledger!LedgerNext]_(Ledger!ledgerVars)
  BY DEF Ledger!ledgerVars
<1>a. \A c \in Calls : pc[c] \in Running => Outcome[c] = "pending"
  BY DEF Outcome, Running
<1>f. ASSUME NEW c \in Calls, Ledger!Fail(c) PROVE Ledger!LedgerNext
  BY <1>f DEF Ledger!LedgerNext
<1>1. ASSUME NEW c \in Calls, NEW q \in Requests, Call(c, q) PROVE Ledger!LedgerNext
  <2>1. Outcome[c] = "none"
    BY <1>1 DEF Call, Outcome, Running
  <2>2. Outcome' = [Outcome EXCEPT ![c] = IF q.amount <= 0 THEN "refused" ELSE "pending"]
    BY <1>0, <1>1, OutcomeStep DEF Call, Running, Ended
  <2>3. Ledger!Submit(c, q)
    BY <1>1, <2>1, <2>2 DEF Call, Ledger!Submit, table
  <2> QED BY <2>3 DEF Ledger!LedgerNext
<1>2. ASSUME NEW c \in Calls, NEW r \in Rows, FindRow(c, r)
      PROVE  Stutter \/ Ledger!LedgerNext
  <2>1. CASE Affords(available[r], locked[r], request[c])
    <3>1. pc' = [pc EXCEPT ![c] = "update"] /\ pc[c] \in Running
      BY <1>2, <2>1 DEF FindRow, Running
    <3>2. Outcome' = Outcome
      BY <1>0, <3>1, OutcomeStep DEF Running
    <3> QED BY <1>2, <3>2 DEF FindRow, table
  <2>2. CASE ~Affords(available[r], locked[r], request[c])
    <3>1. pc' = [pc EXCEPT ![c] = "refused"] /\ pc[c] \in Running
      BY <1>2, <2>2 DEF FindRow, Running
    <3>2. Outcome' = [Outcome EXCEPT ![c] = "refused"]
      BY <1>0, <3>1, OutcomeStep DEF Ended
    <3>3. Ledger!Refuse(c)
      BY <1>2, <1>a, <2>2, <3>1, <3>2 DEF FindRow, Ledger!Refuse, Ledger!RowsOf, table, Ledger!Affords, Affords, Ledger!Effect, Effect
    <3> QED BY <3>3 DEF Ledger!LedgerNext
  <2> QED BY <2>1, <2>2
<1>3. ASSUME NEW c \in Calls, NEW r \in Rows, CreateRow(c, r) PROVE Stutter
  <2>1. Outcome' = Outcome
    BY <1>0, <1>3, OutcomeStep DEF CreateRow, Running
  <2> QED BY <1>3, <2>1 DEF CreateRow, table
<1>4. ASSUME NEW c \in Calls, FindNoRow(c) PROVE Stutter \/ Ledger!LedgerNext
  <2>1. CASE request[c].kind = "credit"
    <3>1. Outcome' = Outcome
      BY <1>0, <1>4, <2>1, OutcomeStep DEF FindNoRow, Running
    <3> QED BY <1>4, <3>1 DEF FindNoRow, table
  <2>2. CASE request[c].kind # "credit"
    <3>1. Outcome' = [Outcome EXCEPT ![c] = "refused"] /\ pc[c] \in Running
      BY <1>0, <1>4, <2>2, OutcomeStep DEF FindNoRow, Running, Ended
    <3>2. Ledger!Refuse(c)
      BY <1>4, <1>a, <2>2, <3>1 DEF FindNoRow, Ledger!Refuse, Ledger!RowsOf, RowsOf, table
    <3> QED BY <3>2 DEF Ledger!LedgerNext
  <2> QED BY <2>1, <2>2
<1>5. ASSUME NEW c \in Calls, CreateDuplicate(c) PROVE Ledger!LedgerNext
  <2>1. Outcome' = [Outcome EXCEPT ![c] = "failed"] /\ pc[c] \in Running
    BY <1>0, <1>5, OutcomeStep DEF CreateDuplicate, Running, Ended
  <2> QED BY <1>5, <1>a, <1>f, <2>1 DEF CreateDuplicate, Ledger!Fail, table
<1>6. ASSUME NEW c \in Calls, UpdateRow(c) PROVE Stutter
  <2>1. Outcome' = Outcome
    BY <1>0, <1>6, OutcomeStep DEF UpdateRow, Running
  <2> QED BY <1>6, <2>1 DEF UpdateRow, table
<1>7. ASSUME NEW c \in Calls, Conflict(c) PROVE Stutter \/ Ledger!LedgerNext
  <2>1. CASE pc' = [pc EXCEPT ![c] = "findFirst"]
    <3>1. Outcome' = Outcome
      BY <1>0, <1>7, <2>1, OutcomeStep DEF Conflict, Running
    <3> QED BY <1>7, <3>1 DEF Conflict, table
  <2>2. CASE pc' = [pc EXCEPT ![c] = "failed"]
    <3>1. Outcome' = [Outcome EXCEPT ![c] = "failed"] /\ pc[c] \in Running
      BY <1>0, <1>7, <2>2, OutcomeStep DEF Conflict, Running, Ended
    <3>2. Ledger!Fail(c)
      BY <1>7, <1>a, <3>1 DEF Conflict, Ledger!Fail, table
    <3> QED BY <1>f, <3>2
  <2> QED BY <1>7, <2>1, <2>2 DEF Conflict
<1>8. ASSUME NEW c \in Calls, Commit(c) PROVE Ledger!LedgerNext
  <2> DEFINE r == row[c]
  <2>1. r \in Rows /\ pc[c] = "commit" /\ pc[c] \in Running /\ Outcome[c] = "pending"
    BY <1>0, <1>8, <1>a DEF Commit, TypeOK, Running
  <2>2. Outcome' = [Outcome EXCEPT ![c] = "applied"]
    BY <1>0, <1>8, OutcomeStep DEF Commit, Ended
  <2>3. CASE fresh[c]
    <3>1. /\ account[r] = None /\ request[c].kind = "credit"
          /\ request[c].account \in CashAccounts \/ RowsOf(request[c].account) = {}
      BY <2>1, <2>3 DEF RowInv, FreshRowIsAbsent, OnlyCreditsCreate, KeyInv, Inserting
    <3>2. /\ available' = [available EXCEPT ![r] = Effect(request[c]).available]
          /\ locked' = [locked EXCEPT ![r] = Effect(request[c]).locked]
      <4>1. Effect(request[c]).available \in Int /\ Effect(request[c]).locked \in Int
        BY <1>0, <2>1, EffectType, RequestAssumption DEF TypeOK
      <4>2. 0 + Effect(request[c]).available = Effect(request[c]).available
            /\ 0 + Effect(request[c]).locked = Effect(request[c]).locked
        BY <4>1
      <4> QED BY <1>8, <2>3, <4>2 DEF Commit
    <3>3. Ledger!OpenRow(c, r)
      BY <1>8, <2>1, <2>2, <3>1, <3>2 DEF Commit, Ledger!OpenRow, Ledger!RowsOf, RowsOf, Ledger!Effect, Effect
    <3> QED BY <2>1, <3>3 DEF Ledger!LedgerNext
  <2>4. CASE ~fresh[c]
    <3>1. account[r] = request[c].account
      BY <2>1, <2>4 DEF RowInv, FoundRowIsTheAccounts
    <3>2. account' = account
      BY <1>0, <1>8, <2>1, <3>1 DEF Commit, TypeOK
    <3>3. Affords(available[r], locked[r], request[c])
      BY <2>1, <2>4, CommitAffords
    <3>4. Ledger!Apply(c, r)
      BY <1>8, <2>1, <2>2, <2>4, <3>1, <3>2, <3>3 DEF Commit, Ledger!Apply, Ledger!Affords, Affords, Ledger!Effect, Effect
    <3> QED BY <2>1, <3>4 DEF Ledger!LedgerNext
  <2> QED BY <2>3, <2>4
<1>9. ASSUME NEW c \in Calls, Rollback(c) PROVE Ledger!LedgerNext
  <2>1. Outcome' = [Outcome EXCEPT ![c] = "failed"]
    BY <1>0, <1>9, OutcomeStep DEF Rollback, Ended
  <2>2. Ledger!Fail(c)
    BY <1>9, <1>a, <2>1 DEF Rollback, Ledger!Fail, table
  <2> QED BY <1>f, <2>2
<1>10. ASSUME UNCHANGED vars PROVE Stutter
  BY <1>10 DEF vars, Outcome
<1> HIDE DEF Stutter
<1> QED
  BY <1>s, <1>1, <1>2, <1>3, <1>4, <1>5, <1>6, <1>7, <1>8, <1>9, <1>10 DEF Next, Step, Done

\* With every transaction at RepeatableRead or Serializable the concurrent calls
\* implement the atomic ledger: one instant, one effect, justified refusals.
THEOREM ImplementsLedger == SnapshotOnly => (Spec => AnsweredAtOneInstant)
<1> SUFFICES ASSUME SnapshotOnly PROVE Spec => AnsweredAtOneInstant
  OBVIOUS
<1>1. RowInv /\ KeyInv /\ SeenInv /\ [Next]_vars => [Ledger!LedgerNext]_(Ledger!ledgerVars)
  BY NextImplements
<1> QED
  BY SeenInvariant, InitImplements, <1>1, PTL DEF Spec, AnsweredAtOneInstant, Ledger!LedgerSpec

------------------------------------------------------------------------------
(***************************************************************************)
(* Every retry is paid for by a commit of another call on the account.     *)
(***************************************************************************)

\* What c owes: its retries so far, and the one that an overtaken snapshot forces.
Owed(c) == attempt[c] + (IF Writing(c) /\ ~Current(c) THEN 1 ELSE 0)

PaidInv ==
  \A c \in Calls : /\ pc[c] = "idle" => attempt[c] = 0
                   /\ pc[c] # "idle" => Owed(c) <= Cardinality(CommittedBefore(c))

LEMMA CommittedFinite ==
  \A c \in Calls : IsFiniteSet(CommittedBefore(c)) /\ Cardinality(CommittedBefore(c)) \in Nat
<1> SUFFICES ASSUME NEW c \in Calls PROVE IsFiniteSet(CommittedBefore(c))
  BY FS_CardinalityType
<1> QED BY FS_Subset, RetriesAssumption DEF CommittedBefore

LEMMA OwedType == TypeOK => \A c \in Calls : Owed(c) \in Nat /\ Owed(c) >= attempt[c]
<1> SUFFICES ASSUME TypeOK, NEW c \in Calls
             PROVE  Owed(c) \in Nat /\ Owed(c) >= attempt[c]
  OBVIOUS
<1>1. attempt[c] \in Nat
  BY RetriesAssumption DEF TypeOK
<1> QED BY <1>1 DEF Owed

\* A step that commits nothing and makes nobody owe more keeps the invariant.
LEMMA PaidUndisturbed ==
  ASSUME TypeOK, TypeOK', PaidInv,
         \A c \in Calls : pc'[c] = "applied" <=> pc[c] = "applied",
         \A c \in Calls : pc[c] # "idle" => pc'[c] # "idle" /\ request'[c] = request[c]
                                            /\ Owed(c)' <= Owed(c),
         \A c \in Calls : pc[c] = "idle" => attempt'[c] = 0 /\ Owed(c)' = 0
  PROVE  PaidInv'
<1> SUFFICES ASSUME NEW c \in Calls
             PROVE  /\ pc'[c] = "idle" => attempt'[c] = 0
                    /\ pc'[c] # "idle" => Owed(c)' <= Cardinality(CommittedBefore(c)')
  BY DEF PaidInv
<1>1. CASE pc[c] = "idle"
  <2>1. CommittedBefore(c)' \subseteq Calls
    BY DEF CommittedBefore
  <2>2. Cardinality(CommittedBefore(c)') \in Nat
    BY <2>1, FS_Subset, FS_CardinalityType, RetriesAssumption
  <2> QED BY <1>1, <2>2
<1>2. CASE pc[c] # "idle"
  <2>1. CommittedBefore(c)' = CommittedBefore(c)
    BY <1>2 DEF CommittedBefore, TypeOK
  <2>2. Owed(c)' <= Owed(c) /\ Owed(c) <= Cardinality(CommittedBefore(c))
    BY <1>2 DEF PaidInv
  <2>3. Owed(c) \in Nat /\ Owed(c)' \in Nat /\ Cardinality(CommittedBefore(c)) \in Nat
    BY OwedType, CommittedFinite DEF TypeOK, Owed
  <2> QED BY <1>2, <2>1, <2>2, <2>3
<1> QED BY <1>1, <1>2

LEMMA InitPaidInv == Init => PaidInv
BY DEF Init, PaidInv

LEMMA NextPaidInv == RowInv /\ KeyInv /\ SeenInv /\ PaidInv /\ [Next]_vars => PaidInv'
<1> SUFFICES ASSUME RowInv, SeenInv, PaidInv, [Next]_vars PROVE PaidInv'
  OBVIOUS
<1>0. TypeOK /\ TypeOK'
  BY NextTypeOK DEF RowInv
<1>n. \A d \in Calls : attempt[d] \in Nat
  BY <1>0, RetriesAssumption DEF TypeOK
<1> DEFINE Same(d) == pc'[d] = pc[d] /\ request'[d] = request[d] /\ Owed(d)' = Owed(d)
\* One call c moves, without committing and without owing more.
<1>q. ASSUME NEW c \in Calls, pc'[c] # "applied", pc[c] # "applied",
             pc'[c] # "idle", pc[c] # "idle" => request'[c] = request[c],
             Owed(c)' <= Owed(c), pc[c] = "idle" => attempt'[c] = 0 /\ Owed(c)' = 0,
             \A d \in Calls \ {c} : Same(d) /\ attempt'[d] = attempt[d]
      PROVE  PaidInv'
  <2>1. \A d \in Calls : pc'[d] = "applied" <=> pc[d] = "applied"
    BY <1>q
  <2>2. \A d \in Calls : pc[d] # "idle" => pc'[d] # "idle" /\ request'[d] = request[d]
                                           /\ Owed(d)' <= Owed(d)
    <3>1. \A d \in Calls : Owed(d) \in Nat
      BY <1>0, OwedType
    <3> QED BY <1>q, <3>1
  <2>3. \A d \in Calls : pc[d] = "idle" => attempt'[d] = 0 /\ Owed(d)' = 0
    <3>1. \A d \in Calls : pc[d] = "idle" => attempt[d] = 0 /\ Owed(d) = 0
      BY <1>n DEF PaidInv, Owed, Writing
    <3> QED BY <1>q, <3>1
  <2> QED BY <1>0, <2>1, <2>2, <2>3, PaidUndisturbed
<1>1. ASSUME NEW c \in Calls, NEW q \in Requests, Call(c, q) PROVE PaidInv'
  <2>1. /\ pc[c] = "idle" /\ pc'[c] \in {"refused", "findFirst"}
        /\ \A d \in Calls \ {c} : pc'[d] = pc[d] /\ request'[d] = request[d]
        /\ UNCHANGED <<version, row, seen, fresh, attempt>>
    BY <1>0, <1>1 DEF Call, TypeOK, table
  <2>2. \A d \in Calls \ {c} : Same(d)
    BY <2>1 DEF Owed, Writing, Current
  <2>3. Owed(c)' = 0 /\ Owed(c) = 0 /\ attempt'[c] = 0
    BY <2>1 DEF Owed, Writing, PaidInv
  <2> QED BY <1>q, <2>1, <2>2, <2>3
<1>2. ASSUME NEW c \in Calls, NEW r \in Rows, FindRow(c, r) PROVE PaidInv'
  <2>1. /\ pc[c] = "findFirst" /\ pc'[c] \in {"update", "refused"}
        /\ row'[c] = r /\ seen'[c].version = version[r]
        /\ \A d \in Calls \ {c} : pc'[d] = pc[d] /\ row'[d] = row[d] /\ seen'[d] = seen[d]
        /\ UNCHANGED <<version, request, fresh, attempt>>
    BY <1>0, <1>2 DEF FindRow, TypeOK, table
  <2>2. \A d \in Calls \ {c} : Same(d)
    BY <2>1 DEF Owed, Writing, Current
  <2>3. Owed(c)' = attempt[c] /\ Owed(c) = attempt[c]
    BY <1>n, <2>1 DEF Owed, Writing, Current
  <2> QED BY <1>n, <1>q, <2>1, <2>2, <2>3
<1>3. ASSUME NEW c \in Calls, NEW r \in Rows, CreateRow(c, r) PROVE PaidInv'
  <2>1. /\ pc[c] = "create" /\ pc'[c] = "update" /\ fresh'[c]
        /\ \A d \in Calls \ {c} : pc'[d] = pc[d] /\ row'[d] = row[d] /\ seen'[d] = seen[d]
                                  /\ fresh'[d] = fresh[d]
        /\ UNCHANGED <<version, request, attempt>>
    BY <1>0, <1>3 DEF CreateRow, TypeOK, table
  <2>2. \A d \in Calls \ {c} : Same(d)
    BY <2>1 DEF Owed, Writing, Current
  <2>3. Owed(c)' = attempt[c] /\ Owed(c) = attempt[c]
    BY <1>n, <2>1 DEF Owed, Writing
  <2> QED BY <1>n, <1>q, <2>1, <2>2, <2>3
<1> DEFINE EndsOrMoves(c) ==
      /\ pc[c] \in Running \ {"commit"} \/ pc'[c] = "failed"
      /\ pc[c] \in Running /\ pc'[c] \notin {"idle", "applied"}
      /\ pc'[c] = "commit" => pc[c] = "update"
      /\ pc'[c] # "update"
      /\ \A d \in Calls \ {c} : pc'[d] = pc[d]
      /\ UNCHANGED <<version, request, row, seen, fresh, attempt>>
<1>e. ASSUME NEW c \in Calls, EndsOrMoves(c) PROVE PaidInv'
  <2>1. \A d \in Calls \ {c} : Same(d)
    BY <1>e DEF Owed, Writing, Current
  <2>2. Writing(c)' => Writing(c)
    BY <1>e DEF Writing
  <2>3. Current(c)' = Current(c)
    BY <1>e DEF Current
  <2>4. Owed(c)' <= Owed(c)
    BY <1>e, <1>n, <2>2, <2>3 DEF Owed
  <2>5. pc[c] \notin {"idle", "applied"}
    BY <1>e DEF Running
  <2> QED BY <1>e, <1>q, <2>1, <2>4, <2>5
<1>4. ASSUME NEW c \in Calls, FindNoRow(c) PROVE PaidInv'
  <2>1. EndsOrMoves(c)
    BY <1>0, <1>4 DEF FindNoRow, TypeOK, Running, table
  <2> QED BY <1>e, <2>1
<1>5. ASSUME NEW c \in Calls, CreateDuplicate(c) PROVE PaidInv'
  <2>1. EndsOrMoves(c)
    BY <1>0, <1>5 DEF CreateDuplicate, TypeOK, Running, table
  <2> QED BY <1>e, <2>1
<1>6. ASSUME NEW c \in Calls, UpdateRow(c) PROVE PaidInv'
  <2>1. EndsOrMoves(c)
    BY <1>0, <1>6 DEF UpdateRow, TypeOK, Running, table
  <2> QED BY <1>e, <2>1
<1>7. ASSUME NEW c \in Calls, Conflict(c) PROVE PaidInv'
  <2>1. CASE pc' = [pc EXCEPT ![c] = "failed"] /\ UNCHANGED attempt
    <3>1. EndsOrMoves(c)
      BY <1>0, <1>7, <2>1 DEF Conflict, TypeOK, Running, table
    <3> QED BY <1>e, <3>1
  <2>2. CASE pc' = [pc EXCEPT ![c] = "findFirst"] /\ attempt' = [attempt EXCEPT ![c] = @ + 1]
    <3>1. /\ pc[c] = "update" /\ pc'[c] = "findFirst" /\ attempt'[c] = attempt[c] + 1
          /\ \A d \in Calls \ {c} : pc'[d] = pc[d] /\ attempt'[d] = attempt[d]
          /\ UNCHANGED <<version, request, row, seen, fresh>>
      BY <1>0, <1>7, <2>2 DEF Conflict, TypeOK, table
    <3>2. ~Current(c)
      BY <1>7 DEF Conflict, Conflicting, Current
    <3>3. ~fresh[c]
      BY <3>1, <3>2 DEF RowInv, FreshRowIsAbsent, Current
    <3>4. Owed(c) = attempt[c] + 1 /\ Owed(c)' = attempt[c] + 1
      BY <1>n, <3>1, <3>2, <3>3 DEF Owed, Writing
    <3>5. \A d \in Calls \ {c} : Same(d)
      BY <3>1 DEF Owed, Writing, Current
    <3> QED BY <1>n, <1>q, <3>1, <3>4, <3>5
  <2> QED BY <1>7, <2>1, <2>2 DEF Conflict
<1>8. ASSUME NEW c \in Calls, Commit(c) PROVE PaidInv'
  <2>1. /\ pc[c] = "commit" /\ row[c] \in Rows /\ pc' = [pc EXCEPT ![c] = "applied"]
        /\ version' = [version EXCEPT ![row[c]] = @ + 1]
        /\ UNCHANGED <<request, row, seen, fresh, attempt>>
    BY <1>0, <1>8 DEF Commit, TypeOK
  <2> SUFFICES ASSUME NEW d \in Calls
               PROVE  /\ pc'[d] = "idle" => attempt'[d] = 0
                      /\ pc'[d] # "idle" => Owed(d)' <= Cardinality(CommittedBefore(d)')
    BY DEF PaidInv
  <2>2. pc'[d] = "idle" => attempt'[d] = 0
    BY <1>0, <2>1 DEF TypeOK, PaidInv
  <2> SUFFICES ASSUME pc'[d] # "idle"
               PROVE  Owed(d)' <= Cardinality(CommittedBefore(d)')
    BY <2>2
  <2>3. pc[d] # "idle" /\ Owed(d) <= Cardinality(CommittedBefore(d))
    BY <1>0, <2>1 DEF TypeOK, PaidInv
  <2>4. /\ Owed(d) \in Nat /\ Owed(d)' \in Nat
        /\ IsFiniteSet(CommittedBefore(d)) /\ Cardinality(CommittedBefore(d)) \in Nat
    BY <1>0, OwedType, CommittedFinite DEF Owed, TypeOK
  <2>5. CommittedBefore(d)' = IF c # d /\ request[c].account = request[d].account
                              THEN CommittedBefore(d) \cup {c} ELSE CommittedBefore(d)
    BY <1>0, <2>1 DEF CommittedBefore, TypeOK
  <2>6. c \notin CommittedBefore(d)
    BY <2>1 DEF CommittedBefore
  <2>7. CASE c # d /\ request[c].account = request[d].account
    <3>1. Cardinality(CommittedBefore(d)') = Cardinality(CommittedBefore(d)) + 1
      BY <2>4, <2>5, <2>6, <2>7, FS_AddElement
    <3>2. Owed(d)' <= Owed(d) + 1
      <4>1. Writing(d)' = Writing(d)
        BY <1>0, <2>1, <2>7 DEF Writing, TypeOK
      <4>2. Owed(d)' <= attempt[d] + 1
        BY <1>n, <2>1 DEF Owed
      <4>3. attempt[d] \in Nat /\ Owed(d) >= attempt[d]
        BY <1>0, <1>n, OwedType
      <4> QED BY <2>4, <4>2, <4>3
    <3> QED BY <2>3, <2>4, <3>1, <3>2
  <2>8. CASE ~(c # d /\ request[c].account = request[d].account)
    <3>1. Owed(d)' <= Owed(d)
      <4>1. CASE c = d
        BY <1>0, <1>n, <2>1, <4>1 DEF Owed, Writing, TypeOK
      <4>2. CASE c # d
        <5>1. Writing(d)' = Writing(d)
          BY <1>0, <2>1, <4>2 DEF Writing, TypeOK
        <5>2. Writing(d) => row[d] # row[c]
          <6> SUFFICES ASSUME Writing(d), row[d] = row[c] PROVE FALSE
            OBVIOUS
          <6>1. account[row[d]] = request[d].account /\ request[d].account \in Accounts
            BY <1>0, <2>3, RequestAssumption
               DEF RowInv, FoundRowIsTheAccounts, Writing, TypeOK, RequestType
          <6>2. ~fresh[c]
            BY <2>1, <6>1, RequestAssumption DEF RowInv, FreshRowIsAbsent
          <6>3. account[row[c]] = request[c].account
            BY <2>1, <6>2 DEF RowInv, FoundRowIsTheAccounts
          <6> QED BY <2>8, <4>2, <6>1, <6>3
        <5>3. Writing(d) => Current(d)' = Current(d)
          BY <1>0, <2>1, <5>2 DEF Current, Writing, TypeOK
        <5>4. (Writing(d) /\ ~Current(d))' <=> (Writing(d) /\ ~Current(d))
          BY <5>1, <5>3
        <5>5. attempt'[d] = attempt[d] /\ attempt[d] \in Nat
          BY <1>n, <2>1
        <5>6. CASE Writing(d) /\ ~Current(d)
          BY <5>4, <5>5, <5>6 DEF Owed
        <5>7. CASE ~(Writing(d) /\ ~Current(d))
          BY <5>4, <5>5, <5>7 DEF Owed
        <5> QED BY <5>6, <5>7
      <4> QED BY <4>1, <4>2
    <3> QED BY <2>3, <2>4, <2>5, <2>8, <3>1
  <2> QED BY <2>7, <2>8
<1>9. ASSUME NEW c \in Calls, Rollback(c) PROVE PaidInv'
  <2>1. EndsOrMoves(c)
    BY <1>0, <1>9 DEF Rollback, TypeOK, Running, table
  <2> QED BY <1>e, <2>1
<1>10. ASSUME UNCHANGED vars PROVE PaidInv'
  <2>1. \A d \in Calls : /\ pc'[d] = pc[d] /\ attempt'[d] = attempt[d]
                         /\ Owed(d)' = Owed(d) /\ CommittedBefore(d)' = CommittedBefore(d)
    BY <1>10 DEF vars, table, Owed, Writing, Current, CommittedBefore
  <2> QED BY <2>1 DEF PaidInv
<1> HIDE DEF Same, EndsOrMoves
<1> QED
  BY <1>1, <1>2, <1>3, <1>4, <1>5, <1>6, <1>7, <1>8, <1>9, <1>10 DEF Next, Step, Done

\* However many calls contend for an account and at whatever isolation level, a
\* call never retries more often than others have committed on that account: with
\* at most MaxRetries rivals the retry loop never gives up.
THEOREM RetriesPaid == Spec => []RetriesArePaidFor
<1>1. RowInv /\ KeyInv /\ SeenInv /\ PaidInv /\ [Next]_vars => PaidInv'
  BY NextPaidInv
<1>2. RowInv /\ PaidInv => RetriesArePaidFor
  <2> SUFFICES ASSUME RowInv, PaidInv, NEW c \in Calls, pc[c] # "idle"
               PROVE  attempt[c] <= Cardinality(CommittedBefore(c))
    BY DEF RetriesArePaidFor
  <2>1. Owed(c) <= Cardinality(CommittedBefore(c)) /\ Owed(c) \in Nat /\ Owed(c) >= attempt[c]
    BY OwedType DEF PaidInv, RowInv
  <2>2. attempt[c] \in Nat /\ Cardinality(CommittedBefore(c)) \in Nat
    BY CommittedFinite, RetriesAssumption DEF RowInv, TypeOK
  <2> QED BY <2>1, <2>2
<1> QED BY SeenInvariant, InitPaidInv, <1>1, <1>2, PTL DEF Spec
------------------------------------------------------------------------------
(***************************************************************************)
(* What the rows hold against what was applied.                            *)
(***************************************************************************)

LEMMA RowsFinite ==
  \A a : IsFiniteSet(RowsOf(a)) /\ IsFiniteSet(OpeningRows(a)) /\ IsFiniteSet(AppliedTo(a))
BY RetriesAssumption, FS_Subset DEF RowsOf, OpeningRows, AppliedTo

\* The sum of an account's opening balances.
LEMMA OpeningInt ==
  \A a : /\ SumFunctionOnSet(OpeningAvailable, OpeningRows(a)) \in Int
         /\ SumFunctionOnSet(OpeningLocked, OpeningRows(a)) \in Int
<1> SUFFICES ASSUME NEW a
             PROVE  /\ SumFunctionOnSet(OpeningAvailable, OpeningRows(a)) \in Int
                    /\ SumFunctionOnSet(OpeningLocked, OpeningRows(a)) \in Int
  OBVIOUS
<1>1. \A r \in OpeningRows(a) : OpeningAvailable[r] \in Int /\ OpeningLocked[r] \in Int
  BY RequestAssumption DEF OpeningRows
<1>2. IsFiniteSet(OpeningRows(a))
  BY RowsFinite
<1>3. SumFunctionOnSet(OpeningAvailable, OpeningRows(a)) \in Int
  BY <1>1, <1>2, SumInt
<1>4. SumFunctionOnSet(OpeningLocked, OpeningRows(a)) \in Int
  BY <1>1, <1>2, SumInt
<1> QED BY <1>3, <1>4

LEMMA InitNothingLost == Init => NothingLost
<1> SUFFICES ASSUME Init, NEW a \in Accounts
             PROVE  /\ SumFunctionOnSet(available, RowsOf(a))
                         = SumFunctionOnSet(OpeningAvailable, OpeningRows(a))
                           + SumFunctionOnSet([c \in AppliedTo(a) |-> Effect(request[c]).available], AppliedTo(a))
                    /\ SumFunctionOnSet(locked, RowsOf(a))
                         = SumFunctionOnSet(OpeningLocked, OpeningRows(a))
                           + SumFunctionOnSet([c \in AppliedTo(a) |-> Effect(request[c]).locked], AppliedTo(a))
  BY DEF NothingLost
<1>1. RowsOf(a) = OpeningRows(a) /\ AppliedTo(a) = {}
  BY DEF Init, RowsOf, OpeningRows, AppliedTo
<1>2. \A w : SumFunctionOnSet(w, AppliedTo(a)) = 0
  BY <1>1, SumEmpty
<1>3. available = OpeningAvailable /\ locked = OpeningLocked
  BY DEF Init
<1> QED BY <1>1, <1>2, <1>3, OpeningInt

\* What a commit leaves in every other row, and what it adds to its own.
LEMMA CommitAdds ==
  ASSUME RowInv, NEW c \in Calls, Commit(c)
  PROVE  LET r == row[c]
             q == request[c]
         IN  /\ r \in Rows /\ q \in RequestType /\ pc[c] = "commit"
             /\ pc' = [pc EXCEPT ![c] = "applied"] /\ UNCHANGED request
             /\ account' = [account EXCEPT ![r] = q.account]
             /\ \A x \in Rows \ {r} : available'[x] = available[x] /\ locked'[x] = locked[x]
             /\ IF fresh[c] THEN account[r] = None /\ available'[r] = 0 + Effect(q).available
                                                   /\ locked'[r] = 0 + Effect(q).locked
                ELSE account[r] = q.account /\ available'[r] = available[r] + Effect(q).available
                                            /\ locked'[r] = locked[r] + Effect(q).locked
<1>1. TypeOK /\ pc[c] = "commit"
  BY DEF RowInv, Commit
<1>2. row[c] \in Rows /\ request[c] \in RequestType
  BY <1>1, RequestAssumption DEF TypeOK
<1>3. /\ pc' = [pc EXCEPT ![c] = "applied"] /\ UNCHANGED request
      /\ account' = [account EXCEPT ![row[c]] = request[c].account]
      /\ available' = [available EXCEPT ![row[c]] = (IF fresh[c] THEN 0 ELSE @) + Effect(request[c]).available]
      /\ locked' = [locked EXCEPT ![row[c]] = (IF fresh[c] THEN 0 ELSE @) + Effect(request[c]).locked]
  BY DEF Commit
<1>4. /\ \A x \in Rows \ {row[c]} : available'[x] = available[x] /\ locked'[x] = locked[x]
      /\ available'[row[c]] = (IF fresh[c] THEN 0 ELSE available[row[c]]) + Effect(request[c]).available
      /\ locked'[row[c]] = (IF fresh[c] THEN 0 ELSE locked[row[c]]) + Effect(request[c]).locked
  BY <1>1, <1>2, <1>3 DEF TypeOK
<1>5. account[row[c]] = IF fresh[c] THEN None ELSE request[c].account
  BY <1>1 DEF RowInv, FreshRowIsAbsent, FoundRowIsTheAccounts
<1> QED BY <1>1, <1>2, <1>3, <1>4, <1>5

LEMMA CommitLosesNothing ==
  ASSUME RowInv, TypeOK', NothingLost, NEW c \in Calls, Commit(c)
  PROVE  NothingLost'
<1> SUFFICES ASSUME NEW a \in Accounts
             PROVE  /\ SumFunctionOnSet(available', RowsOf(a)')
                         = SumFunctionOnSet(OpeningAvailable, OpeningRows(a))
                           + SumFunctionOnSet([d \in AppliedTo(a)' |-> Effect(request'[d]).available], AppliedTo(a)')
                    /\ SumFunctionOnSet(locked', RowsOf(a)')
                         = SumFunctionOnSet(OpeningLocked, OpeningRows(a))
                           + SumFunctionOnSet([d \in AppliedTo(a)' |-> Effect(request'[d]).locked], AppliedTo(a)')
  BY DEF NothingLost, OpeningRows
<1> DEFINE r == row[c]
           S == RowsOf(a)
           T == RowsOf(a)'
           A == AppliedTo(a)
           B == AppliedTo(a)'
           ea == [d \in A |-> Effect(request[d]).available]
           el == [d \in A |-> Effect(request[d]).locked]
           fa == [d \in B |-> Effect(request'[d]).available]
           fl == [d \in B |-> Effect(request'[d]).locked]
<1>1. TypeOK
  BY DEF RowInv
<1>2. /\ r \in Rows /\ request[c] \in RequestType /\ pc[c] = "commit"
      /\ pc' = [pc EXCEPT ![c] = "applied"] /\ UNCHANGED request
      /\ account' = [account EXCEPT ![r] = request[c].account]
      /\ \A x \in Rows \ {r} : available'[x] = available[x] /\ locked'[x] = locked[x]
      /\ IF fresh[c] THEN account[r] = None /\ available'[r] = 0 + Effect(request[c]).available
                                            /\ locked'[r] = 0 + Effect(request[c]).locked
         ELSE account[r] = request[c].account /\ available'[r] = available[r] + Effect(request[c]).available
                                              /\ locked'[r] = locked[r] + Effect(request[c]).locked
  BY CommitAdds
<1>3. /\ S \ {r} = T \ {r} /\ S \subseteq Rows /\ T \subseteq Rows
      /\ r \in T <=> request[c].account = a
      /\ r \in S <=> request[c].account = a /\ ~fresh[c]
  BY <1>1, <1>2, RequestAssumption DEF RowsOf, TypeOK
<1>4. /\ A \ {c} = B \ {c} /\ A \subseteq Calls /\ B \subseteq Calls
      /\ c \in B <=> request[c].account = a
      /\ c \notin A
  BY <1>1, <1>2 DEF AppliedTo, TypeOK
<1>5. \A d \in A \cup B : request[d] \in RequestType
  BY <1>1, <1>2, RequestAssumption DEF AppliedTo, TypeOK
<1>6. /\ \A d \in A : ea[d] \in Int /\ el[d] \in Int
      /\ \A d \in B : fa[d] \in Int /\ fl[d] \in Int
      /\ \A d \in A \ {c} : fa[d] = ea[d] /\ fl[d] = el[d]
      /\ c \in B => fa[c] = Effect(request[c]).available /\ fl[c] = Effect(request[c]).locked
      /\ Effect(request[c]).available \in Int /\ Effect(request[c]).locked \in Int
  BY <1>2, <1>4, <1>5, EffectType
<1>7. \A x \in Rows : available[x] \in Int /\ available'[x] \in Int /\ locked[x] \in Int /\ locked'[x] \in Int
  BY <1>1 DEF TypeOK
<1>8. IsFiniteSet(S) /\ IsFiniteSet(A)
  BY RowsFinite
<1>9. /\ SumFunctionOnSet(available, S) = SumFunctionOnSet(OpeningAvailable, OpeningRows(a)) + SumFunctionOnSet(ea, A)
      /\ SumFunctionOnSet(locked, S) = SumFunctionOnSet(OpeningLocked, OpeningRows(a)) + SumFunctionOnSet(el, A)
  BY DEF NothingLost
<1>10. /\ SumFunctionOnSet(OpeningAvailable, OpeningRows(a)) \in Int
       /\ SumFunctionOnSet(OpeningLocked, OpeningRows(a)) \in Int
  BY OpeningInt
<1>11. /\ (IF r \in T THEN available'[r] ELSE 0) - (IF r \in S THEN available[r] ELSE 0)
            = (IF c \in B THEN fa[c] ELSE 0) - (IF c \in A THEN ea[c] ELSE 0)
       /\ (IF r \in T THEN locked'[r] ELSE 0) - (IF r \in S THEN locked[r] ELSE 0)
            = (IF c \in B THEN fl[c] ELSE 0) - (IF c \in A THEN el[c] ELSE 0)
  <2> HIDE DEF S, T, A, B, ea, el, fa, fl
  <2>1. CASE request[c].account = a /\ fresh[c]
    BY <1>2, <1>3, <1>4, <1>6, <2>1
  <2>2. CASE request[c].account = a /\ ~fresh[c]
    BY <1>2, <1>3, <1>4, <1>6, <1>7, <2>2
  <2>3. CASE request[c].account # a
    BY <1>3, <1>4, <2>3
  <2> QED BY <2>1, <2>2, <2>3
<1> HIDE DEF r, S, T, A, B, ea, el, fa, fl
<1>12. \A x \in S \ {r} : available'[x] = available[x] /\ locked'[x] = locked[x]
  BY <1>2, <1>3
<1>13. /\ SumFunctionOnSet(available, S) \in Int
       /\ SumFunctionOnSet(available', T) = SumFunctionOnSet(available, S) + (IF r \in T THEN available'[r] ELSE 0)
                                              - (IF r \in S THEN available[r] ELSE 0)
  BY <1>3, <1>7, <1>8, <1>12, SumOneDiffers
<1>14. /\ SumFunctionOnSet(locked, S) \in Int
       /\ SumFunctionOnSet(locked', T) = SumFunctionOnSet(locked, S) + (IF r \in T THEN locked'[r] ELSE 0)
                                           - (IF r \in S THEN locked[r] ELSE 0)
  BY <1>3, <1>7, <1>8, <1>12, SumOneDiffers
<1>15. /\ SumFunctionOnSet(ea, A) \in Int
       /\ SumFunctionOnSet(fa, B) = SumFunctionOnSet(ea, A) + (IF c \in B THEN fa[c] ELSE 0)
                                      - (IF c \in A THEN ea[c] ELSE 0)
  BY <1>4, <1>6, <1>8, SumOneDiffers
<1>16. /\ SumFunctionOnSet(el, A) \in Int
       /\ SumFunctionOnSet(fl, B) = SumFunctionOnSet(el, A) + (IF c \in B THEN fl[c] ELSE 0)
                                      - (IF c \in A THEN el[c] ELSE 0)
  BY <1>4, <1>6, <1>8, SumOneDiffers
<1>17. /\ (IF r \in T THEN available'[r] ELSE 0) \in Int /\ (IF r \in S THEN available[r] ELSE 0) \in Int
       /\ (IF r \in T THEN locked'[r] ELSE 0) \in Int /\ (IF r \in S THEN locked[r] ELSE 0) \in Int
       /\ (IF c \in B THEN fa[c] ELSE 0) \in Int /\ (IF c \in A THEN ea[c] ELSE 0) \in Int
       /\ (IF c \in B THEN fl[c] ELSE 0) \in Int /\ (IF c \in A THEN el[c] ELSE 0) \in Int
  BY <1>3, <1>6, <1>7
<1>18. SumFunctionOnSet(available', T) = SumFunctionOnSet(OpeningAvailable, OpeningRows(a)) + SumFunctionOnSet(fa, B)
  BY <1>9, <1>10, <1>11, <1>13, <1>15, <1>17
<1>19. SumFunctionOnSet(locked', T) = SumFunctionOnSet(OpeningLocked, OpeningRows(a)) + SumFunctionOnSet(fl, B)
  BY <1>9, <1>10, <1>11, <1>14, <1>16, <1>17
<1> QED BY <1>18, <1>19 DEF T, A, B, fa, fl

\* A step that commits nothing moves neither side.
LEMMA NothingMoves ==
  ASSUME NothingLost, UNCHANGED table,
         \A c \in Calls : (pc'[c] = "applied") = (pc[c] = "applied"),
         \A c \in Calls : pc[c] = "applied" => request'[c] = request[c]
  PROVE  NothingLost'
<1>1. \A a : RowsOf(a)' = RowsOf(a) /\ AppliedTo(a)' = AppliedTo(a)
  BY DEF RowsOf, AppliedTo, table
<1>2. UNCHANGED <<available, locked>>
  BY DEF table
<1>3. \A a : /\ [c \in AppliedTo(a) |-> Effect(request[c]).available]' = [c \in AppliedTo(a) |-> Effect(request[c]).available]
             /\ [c \in AppliedTo(a) |-> Effect(request[c]).locked]' = [c \in AppliedTo(a) |-> Effect(request[c]).locked]
  <2> SUFFICES ASSUME NEW a
               PROVE  /\ [c \in AppliedTo(a)' |-> Effect(request'[c]).available] = [c \in AppliedTo(a) |-> Effect(request[c]).available]
                      /\ [c \in AppliedTo(a)' |-> Effect(request'[c]).locked] = [c \in AppliedTo(a) |-> Effect(request[c]).locked]
    OBVIOUS
  <2>1. \A c \in AppliedTo(a) : request'[c] = request[c]
    BY DEF AppliedTo
  <2> QED BY <1>1, <2>1
<1> QED BY <1>1, <1>2, <1>3 DEF NothingLost, OpeningRows

LEMMA NextNothingLost == RowInv /\ NothingLost /\ [Next]_vars => NothingLost'
<1> SUFFICES ASSUME RowInv, NothingLost, [Next]_vars PROVE NothingLost'
  OBVIOUS
<1>0. TypeOK /\ TypeOK'
  BY NextTypeOK DEF RowInv
<1>1. ASSUME NEW c \in Calls, NEW q \in Requests, Call(c, q) PROVE NothingLost'
  BY <1>0, <1>1, NothingMoves DEF Call, TypeOK
<1>2. ASSUME NEW c \in Calls, NEW r \in Rows, FindRow(c, r) PROVE NothingLost'
  BY <1>0, <1>2, NothingMoves DEF FindRow, TypeOK
<1>3. ASSUME NEW c \in Calls, NEW r \in Rows, CreateRow(c, r) PROVE NothingLost'
  BY <1>0, <1>3, NothingMoves DEF CreateRow, TypeOK
<1>4. ASSUME NEW c \in Calls, FindNoRow(c) PROVE NothingLost'
  BY <1>0, <1>4, NothingMoves DEF FindNoRow, TypeOK
<1>5. ASSUME NEW c \in Calls, CreateDuplicate(c) PROVE NothingLost'
  BY <1>0, <1>5, NothingMoves DEF CreateDuplicate, TypeOK
<1>6. ASSUME NEW c \in Calls, UpdateRow(c) PROVE NothingLost'
  BY <1>0, <1>6, NothingMoves DEF UpdateRow, TypeOK
<1>7. ASSUME NEW c \in Calls, Conflict(c) PROVE NothingLost'
  <2>1. pc' \in {[pc EXCEPT ![c] = "findFirst"], [pc EXCEPT ![c] = "failed"]}
    BY <1>7 DEF Conflict
  <2>2. pc[c] = "update" /\ UNCHANGED <<table, request>>
    BY <1>7 DEF Conflict
  <2> QED BY <1>0, <2>1, <2>2, NothingMoves DEF TypeOK
<1>8. ASSUME NEW c \in Calls, Commit(c) PROVE NothingLost'
  BY <1>0, <1>8, CommitLosesNothing
<1>9. ASSUME NEW c \in Calls, Rollback(c) PROVE NothingLost'
  BY <1>0, <1>9, NothingMoves DEF Rollback, TypeOK, Running
<1>10. ASSUME UNCHANGED vars PROVE NothingLost'
  BY <1>10, NothingMoves DEF vars, table
<1> QED
  BY <1>1, <1>2, <1>3, <1>4, <1>5, <1>6, <1>7, <1>8, <1>9, <1>10 DEF Next, Step, Done

\* At whatever mixture of isolation levels, and however calls retry and fail, an
\* account's rows hold what they opened with and the effect of every applied call
\* once: no update is lost and none is applied twice.
THEOREM EffectsExactlyOnce == Spec => []NothingLost
<1>1. RowInv /\ NothingLost /\ [Next]_vars => NothingLost'
  BY NextNothingLost
<1> QED BY RowInvariant, InitNothingLost, <1>1, PTL DEF Spec
==============================================================================
