----------------------------- MODULE Payments_proofs -----------------------------
(***************************************************************************)
(* Proofs about payments: whatever users, administrators, runs of the      *)
(* crons, jobs, failures and restarts there are, and however they overlap, *)
(* a withdrawal is paid out a second time only after a payout whose hash   *)
(* was lost, and the money of a transaction moves once unless two actors   *)
(* held it as open at the same time; what is locked is explained by open   *)
(* withdrawals; the scanner passes over no transfer.                       *)
(***************************************************************************)
EXTENDS Payments, Sums, SequenceTheorems, FiniteSetTheorems, TLAPS

------------------------------------------------------------------------------
(***************************************************************************)
(* The invariant                                                           *)
(***************************************************************************)
IsSeq(s) == s \in Seq(Range(s))

\* Of a row the proofs look at the hash and the status.
IsRow(row) == {"hash", "status"} \subseteq DOMAIN row
IsTable(table) == IsSeq(table) /\ \A t \in DOMAIN table : IsRow(table[t])

\* What a request has read is still there; a payout that has a hash keeps one.
RequestOK(q, table) ==
  /\ q.step \in {"admin", "queue", "speedUp", "storeSpeedUp"} => q.id \in DOMAIN table
  /\ q.step \in {"speedUp", "storeSpeedUp"} => table[q.id].hash # 0
  /\ q.step = "storeSpeedUp" => q.hash # 0
  /\ q.step = "sweep" => IsFiniteSet(DOMAIN q.read)

RequestsOK ==
  /\ DOMAIN request = Clients
  /\ \A c \in Clients : RequestOK(request[c], txs)

ProcessorOK ==
  \/ processor = NoPayout
  \/ /\ processor.step \in {"reject", "send", "store", "done"}
     /\ processor.id \in DOMAIN txs
     /\ processor.step = "send" => txs[processor.id].hash = 0
     /\ processor.step = "store" => processor.hash # 0

\* Whatever a run of the check has read it holds once, and read undecided.
CheckOK(q, table) ==
  \/ q = NoCheck
  \/ /\ q.step \in {"count", "finish"}
     /\ q.step = "count" => q = [step |-> "count", todo |-> q.todo]
     /\ \A x \in q.todo : x.id \in DOMAIN table
     /\ \A x, y \in q.todo : x.id = y.id => x = y
     /\ \A x \in q.todo : ~MovesMoney(x.status)
     /\ q.step = "finish" => /\ q.item.id \in DOMAIN table /\ ~MovesMoney(q.item.status)
                             /\ \A x \in q.todo : x.id # q.item.id

ChecksOK ==
  /\ DOMAIN check = Checks
  /\ \A r \in Checks : CheckOK(check[r], txs)

PayTyped ==
  /\ IsTable(txs) /\ IsSeq(chain)
  /\ jobs \in Seq(DOMAIN txs)
  /\ cashRows \subseteq Payers
  /\ sent \in [TxIds -> Nat] /\ broken \in [TxIds -> Nat]
  /\ released \in [TxIds -> Nat] /\ credited \in [TxIds -> Nat]
  /\ contested \in [TxIds -> Nat] /\ overruled \in [TxIds -> Nat]

\* A row without a hash has been paid out as often as a hash was lost, but for
\* the payout whose hash the processor is about to store.
PaidOnce ==
  \A t \in TxIds :
    /\ sent[t] <= 1 + broken[t]
    /\ \/ t \in DOMAIN txs /\ txs[t].hash # 0
       \/ processor.step = "store" /\ processor.id = t
       \/ sent[t] <= broken[t]

\* A row that is not decided has a move less than one that is.
Moves(t) == released[t] + credited[t]
Excused(t) == contested[t] + overruled[t]
Open(t) == t \notin DOMAIN txs \/ ~Decided(t)
SettledOnce ==
  \A t \in TxIds : /\ Moves(t) <= 1 + Excused(t)
                   /\ Open(t) => Moves(t) <= Excused(t)

PayInv ==
  /\ PayTyped /\ RequestsOK /\ ProcessorOK /\ ChecksOK
  /\ PaidOnce /\ SettledOnce

------------------------------------------------------------------------------
(***************************************************************************)
(* Sequences                                                               *)
(***************************************************************************)
LEMMA SeqLength ==
  ASSUME NEW s, IsSeq(s)
  PROVE  Len(s) \in Nat /\ DOMAIN s = 1 .. Len(s)
BY LenProperties DEF IsSeq

LEMMA FunctionIsSeq ==
  ASSUME NEW n \in Nat, NEW s, s = [i \in 1 .. n |-> s[i]]
  PROVE  IsSeq(s) /\ Len(s) = n /\ DOMAIN s = 1 .. n
<1>1. s \in [1 .. n -> Range(s)]
  BY DEF Range
<1> QED BY <1>1, SeqDef, LenProperties DEF IsSeq

LEMMA SeqConcat ==
  ASSUME NEW s, NEW u, NEW w, IsSeq(s), IsSeq(u), w = s \o u
  PROVE  /\ IsSeq(w) /\ Len(w) = Len(s) + Len(u)
         /\ \A i \in DOMAIN s : i \in DOMAIN w /\ w[i] = s[i]
         /\ \A i \in DOMAIN w \ DOMAIN s : \E k \in DOMAIN u : w[i] = u[k]
<1> DEFINE S == Range(s) \cup Range(u)
<1>1. s \in Seq(S) /\ u \in Seq(S)
  BY SeqMonotonic DEF IsSeq
<1>2. /\ w \in Seq(S) /\ Len(w) = Len(s) + Len(u)
      /\ \A i \in 1 .. Len(s) + Len(u) : w[i] = IF i <= Len(s) THEN s[i] ELSE u[i - Len(s)]
  BY <1>1, ConcatProperties
<1>3. /\ Len(s) \in Nat /\ Len(u) \in Nat /\ Len(w) \in Nat
      /\ DOMAIN s = 1 .. Len(s) /\ DOMAIN u = 1 .. Len(u) /\ DOMAIN w = 1 .. Len(w)
      /\ w \in [1 .. Len(w) -> S]
  BY <1>1, <1>2, LenProperties
<1>4. w = [i \in 1 .. Len(w) |-> w[i]]
  BY <1>3
<1>5. IsSeq(w)
  BY <1>3, <1>4, FunctionIsSeq
<1>6. ASSUME NEW i \in DOMAIN s
      PROVE  i \in DOMAIN w /\ w[i] = s[i]
  BY <1>2, <1>3, <1>6
<1>7. ASSUME NEW i \in DOMAIN w \ DOMAIN s
      PROVE  \E k \in DOMAIN u : w[i] = u[k]
  <2>1. i \in 1 .. Len(s) + Len(u) /\ ~(i <= Len(s)) /\ i - Len(s) \in DOMAIN u
    BY <1>2, <1>3, <1>7
  <2> QED BY <2>1, <1>2
<1> QED BY <1>2, <1>5, <1>6, <1>7

LEMMA SeqAppend ==
  ASSUME NEW s, NEW x, NEW w, IsSeq(s), w = Append(s, x)
  PROVE  /\ IsSeq(w) /\ Len(w) = Len(s) + 1
         /\ \A i \in DOMAIN s : i \in DOMAIN w /\ w[i] = s[i]
         /\ \A i \in DOMAIN w \ DOMAIN s : w[i] = x
<1> DEFINE S == Range(s) \cup {x}
<1>1. s \in Seq(S) /\ x \in S
  BY SeqMonotonic DEF IsSeq
<1>2. /\ w \in Seq(S) /\ Len(w) = Len(s) + 1
      /\ \A i \in 1 .. Len(s) : w[i] = s[i]
      /\ w[Len(s) + 1] = x
  BY <1>1, AppendProperties
<1>3. /\ Len(s) \in Nat /\ Len(w) \in Nat
      /\ DOMAIN s = 1 .. Len(s) /\ DOMAIN w = 1 .. Len(w)
      /\ w \in [1 .. Len(w) -> S]
  BY <1>1, <1>2, LenProperties
<1>4. w = [i \in 1 .. Len(w) |-> w[i]]
  BY <1>3
<1>5. IsSeq(w)
  BY <1>3, <1>4, FunctionIsSeq
<1>6. \A i \in DOMAIN s : i \in DOMAIN w /\ w[i] = s[i]
  BY <1>2, <1>3
<1>7. \A i \in DOMAIN w \ DOMAIN s : w[i] = x
  BY <1>2, <1>3
<1> QED BY <1>2, <1>5, <1>6, <1>7

------------------------------------------------------------------------------
(***************************************************************************)
(* Steps of the table                                                      *)
(***************************************************************************)
\* Rows are never lost, and get no hash and lose none.
Kept(old, new) ==
  \A t \in DOMAIN old : t \in DOMAIN new /\ (new[t].hash = 0 <=> old[t].hash = 0)

\* A decided row stays decided.
NotReopened(old, new) ==
  \A t \in DOMAIN old : MovesMoney(old[t].status) => MovesMoney(new[t].status)

LEMMA TableGrows ==
  ASSUME NEW old, NEW rows, NEW new, IsTable(old), IsTable(rows), new = old \o rows
  PROVE  IsTable(new) /\ Kept(old, new) /\ NotReopened(old, new)
<1>1. IsSeq(old) /\ IsSeq(rows)
  BY DEF IsTable
<1>2. /\ IsSeq(new)
      /\ \A i \in DOMAIN old : i \in DOMAIN new /\ new[i] = old[i]
      /\ \A i \in DOMAIN new \ DOMAIN old : \E k \in DOMAIN rows : new[i] = rows[k]
  <2>1. IsSeq(new)
    BY <1>1, SeqConcat
  <2>2. \A i \in DOMAIN old : i \in DOMAIN new /\ new[i] = old[i]
    BY <1>1, SeqConcat
  <2>3. \A i \in DOMAIN new \ DOMAIN old : \E k \in DOMAIN rows : new[i] = rows[k]
    BY <1>1, SeqConcat
  <2> QED BY <2>1, <2>2, <2>3
<1>3. ASSUME NEW t \in DOMAIN new
      PROVE  IsRow(new[t])
  BY <1>2, <1>3 DEF IsTable
<1> QED BY <1>2, <1>3 DEF IsTable, Kept, NotReopened

LEMMA TableAppends ==
  ASSUME NEW old, NEW row, NEW new, IsTable(old), IsRow(row), new = Append(old, row)
  PROVE  /\ IsTable(new) /\ Kept(old, new) /\ NotReopened(old, new)
         /\ Len(old) + 1 \in DOMAIN new
<1>1. IsSeq(old)
  BY DEF IsTable
<1>2. /\ IsSeq(new) /\ Len(new) = Len(old) + 1
      /\ \A i \in DOMAIN old : i \in DOMAIN new /\ new[i] = old[i]
      /\ \A i \in DOMAIN new \ DOMAIN old : new[i] = row
  <2>1. IsSeq(new)
    BY <1>1, SeqAppend
  <2>2. Len(new) = Len(old) + 1
    BY <1>1, SeqAppend
  <2>3. \A i \in DOMAIN old : i \in DOMAIN new /\ new[i] = old[i]
    BY <1>1, SeqAppend
  <2>4. \A i \in DOMAIN new \ DOMAIN old : new[i] = row
    BY <1>1, SeqAppend
  <2> QED BY <2>1, <2>2, <2>3, <2>4
<1>3. ASSUME NEW t \in DOMAIN new
      PROVE  IsRow(new[t])
  BY <1>2, <1>3 DEF IsTable
<1>4. Len(old) + 1 \in DOMAIN new
  BY <1>1, <1>2, SeqLength
<1> QED BY <1>2, <1>3, <1>4 DEF IsTable, Kept, NotReopened

LEMMA TableUpdates ==
  ASSUME NEW old, NEW t, NEW row, IsTable(old), t \in DOMAIN old => IsRow(row)
  PROVE  /\ IsTable([old EXCEPT ![t] = row]) /\ DOMAIN [old EXCEPT ![t] = row] = DOMAIN old
         /\ \A k \in DOMAIN old : [old EXCEPT ![t] = row][k] = IF k = t THEN row ELSE old[k]
<1> DEFINE new == [old EXCEPT ![t] = row]
<1>1. Len(old) \in Nat /\ DOMAIN old = 1 .. Len(old)
  BY SeqLength DEF IsTable
<1>2. DOMAIN new = 1 .. Len(old) /\ \A k \in DOMAIN old : new[k] = IF k = t THEN row ELSE old[k]
  BY <1>1
<1>3. new = [k \in 1 .. Len(old) |-> new[k]]
  BY <1>1
<1> HIDE DEF new
<1>4. IsSeq(new)
  BY <1>1, <1>3, FunctionIsSeq
<1>5. \A k \in DOMAIN new : IsRow(new[k])
  BY <1>1, <1>2 DEF IsTable
<1> QED BY <1>1, <1>2, <1>4, <1>5 DEF IsTable, new

LEMMA NewRow ==
  ASSUME NEW type, NEW user, NEW amount, NEW status, NEW hash, NEW key
  PROVE  IsRow(TxRow(type, user, amount, status, hash, key))
BY DEF IsRow, TxRow

LEMMA SameTable ==
  ASSUME IsTable(txs), UNCHANGED txs
  PROVE  IsTable(txs') /\ Kept(txs, txs') /\ NotReopened(txs, txs')
BY DEF Kept, NotReopened

------------------------------------------------------------------------------
(***************************************************************************)
(* What a step leaves as it is                                             *)
(***************************************************************************)
LEMMA RequestsRest ==
  ASSUME RequestsOK, Kept(txs, txs'), UNCHANGED request
  PROVE  RequestsOK'
BY DEF RequestsOK, RequestOK, Kept

LEMMA RequestMoves ==
  ASSUME RequestsOK, Kept(txs, txs'), NEW c \in Clients, NEW q, RequestOK(q, txs'),
         request' = [request EXCEPT ![c] = q]
  PROVE  RequestsOK'
<1>1. DOMAIN request' = Clients
  BY DEF RequestsOK
<1>2. ASSUME NEW d \in Clients
      PROVE  RequestOK(request'[d], txs')
  <2>1. CASE d = c
    BY <2>1 DEF RequestsOK
  <2>2. CASE d # c
    <3>1. request'[d] = request[d] /\ RequestOK(request[d], txs)
      BY <2>2 DEF RequestsOK
    <3> QED BY <3>1 DEF RequestOK, Kept
  <2> QED BY <2>1, <2>2
<1> QED BY <1>1, <1>2 DEF RequestsOK

LEMMA NoRequestOK ==
  ASSUME NEW table
  PROVE  RequestOK(NoRequest, table)
BY DEF RequestOK, NoRequest

LEMMA ProcessorRests ==
  ASSUME ProcessorOK, Kept(txs, txs'), UNCHANGED processor
  PROVE  ProcessorOK'
BY DEF ProcessorOK, Kept, NoPayout

LEMMA JobsRest ==
  ASSUME NEW s \in Seq(DOMAIN txs), Kept(txs, txs')
  PROVE  s \in Seq(DOMAIN txs')
<1>1. DOMAIN txs \subseteq DOMAIN txs'
  BY DEF Kept
<1> QED BY <1>1, SeqMonotonic

LEMMA ChecksRest ==
  ASSUME ChecksOK, Kept(txs, txs'), UNCHANGED check
  PROVE  ChecksOK'
BY DEF ChecksOK, CheckOK, Kept

LEMMA CheckMoves ==
  ASSUME ChecksOK, Kept(txs, txs'), NEW r \in Checks, NEW q, CheckOK(q, txs'),
         check' = [check EXCEPT ![r] = q]
  PROVE  ChecksOK'
<1>1. DOMAIN check' = Checks
  BY DEF ChecksOK
<1>2. ASSUME NEW d \in Checks
      PROVE  CheckOK(check'[d], txs')
  <2>1. CASE d = r
    BY <2>1 DEF ChecksOK
  <2>2. CASE d # r
    <3>1. check'[d] = check[d] /\ CheckOK(check[d], txs)
      BY <2>2 DEF ChecksOK
    <3> QED BY <3>1 DEF CheckOK, Kept
  <2> QED BY <2>1, <2>2
<1> QED BY <1>1, <1>2 DEF ChecksOK

LEMMA PaidRests ==
  ASSUME PaidOnce, Kept(txs, txs'), UNCHANGED <<sent, broken, processor>>
  PROVE  PaidOnce'
BY DEF PaidOnce, Kept

LEMMA SettledRests ==
  ASSUME SettledOnce, NotReopened(txs, txs'), UNCHANGED txHistory,
         \A t \in DOMAIN txs : t \in DOMAIN txs'
  PROVE  SettledOnce'
<1> SUFFICES ASSUME NEW t \in TxIds
             PROVE  Moves(t)' <= 1 + Excused(t)' /\ (Open(t)' => Moves(t)' <= Excused(t)')
  BY DEF SettledOnce
<1>1. Moves(t)' = Moves(t) /\ Excused(t)' = Excused(t)
  BY DEF Moves, Excused, txHistory
<1>2. Open(t)' => Open(t)
  BY DEF Open, NotReopened, Decided
<1> QED BY <1>1, <1>2 DEF SettledOnce

\* A step of a request, of the chain or of the scanner, which posts nothing.
LEMMA PostsNothing ==
  ASSUME PayInv, IsTable(txs'), Kept(txs, txs'), NotReopened(txs, txs'), IsSeq(chain'),
         cashRows' \subseteq Payers, RequestsOK', jobs' \in Seq(DOMAIN txs'),
         UNCHANGED <<processor, sent, broken, txHistory, check>>
  PROVE  PayInv'
<1>1. PayTyped'
  BY DEF PayInv, PayTyped, txHistory
<1>2. ProcessorOK' /\ ChecksOK' /\ PaidOnce'
  BY ProcessorRests, ChecksRest, PaidRests DEF PayInv
<1>3. SettledOnce'
  BY SettledRests DEF PayInv, Kept
<1> QED BY <1>1, <1>2, <1>3 DEF PayInv

------------------------------------------------------------------------------
(***************************************************************************)
(* Steps that post nothing to what is open                                 *)
(***************************************************************************)
LEMMA TwoRows ==
  ASSUME NEW a, NEW b, IsRow(a), IsRow(b)
  PROVE  IsTable(<<a, b>>)
<1> DEFINE s == <<a, b>>
<1>1. s = [i \in 1 .. 2 |-> s[i]] /\ s[1] = a /\ s[2] = b
  OBVIOUS
<1> HIDE DEF s
<1>2. IsSeq(s) /\ DOMAIN s = 1 .. 2
  BY <1>1, FunctionIsSeq
<1>3. \A i \in DOMAIN s : IsRow(s[i])
  BY <1>1, <1>2
<1> QED BY <1>2, <1>3 DEF IsTable, s

LEMMA CashSteps ==
  ASSUME PayInv, CashNext
  PROVE  PayInv'
<1>1. IsTable(txs) /\ IsSeq(chain) /\ jobs \in Seq(DOMAIN txs) /\ cashRows \subseteq Payers /\ RequestsOK
  BY DEF PayInv, PayTyped
<1>2. UNCHANGED <<chain, jobs, processor, sent, broken, txHistory, check, request>>
  BY DEF CashNext, DepositDemo, ProcessTransfer, withdrawalVars, chainVars, payoutVars
<1>3. cashRows' \subseteq Payers
  BY <1>1 DEF CashNext, DepositDemo, ProcessTransfer
<1>4. IsTable(txs') /\ Kept(txs, txs') /\ NotReopened(txs, txs')
  <2>1. CASE \E u \in Payers, key \in CreditKeys : DepositDemo(u, 1, key)
    <3>1. PICK u \in Payers, key \in CreditKeys : DepositDemo(u, 1, key)
      BY <2>1
    <3> DEFINE row == TxRow("DEPOSIT", u, 1, "COMPLETED", 0, key)
    <3>2. txs' = Append(txs, row) /\ IsRow(row)
      BY <3>1, NewRow DEF DepositDemo
    <3> HIDE DEF row
    <3> QED BY <1>1, <3>2, TableAppends
  <2>2. CASE \E u \in Payers, key \in CreditKeys, v \in Payers : ProcessTransfer(u, v, 1, key)
    <3>1. PICK u \in Payers, key \in CreditKeys, v \in Payers : ProcessTransfer(u, v, 1, key)
      BY <2>2
    <3> DEFINE rows == <<TxRow("TRANSFER", u, 1, "COMPLETED", 0, key),
                         TxRow("TRANSFER", v, 1, "COMPLETED", 0, 0)>>
    <3>2. txs' = txs \o rows
      BY <3>1 DEF ProcessTransfer
    <3>3. IsTable(rows)
      BY NewRow, TwoRows
    <3> HIDE DEF rows
    <3> QED BY <1>1, <3>2, <3>3, TableGrows
  <2> QED BY <2>1, <2>2 DEF CashNext
<1>5. RequestsOK' /\ jobs' \in Seq(DOMAIN txs') /\ IsSeq(chain')
  BY <1>1, <1>2, <1>4, RequestsRest, JobsRest
<1> QED BY <1>2, <1>3, <1>4, <1>5, PostsNothing

\* A request that reads, writes nothing to the table, or ends.
LEMMA OnlyRequest ==
  ASSUME PayInv, NEW c \in Clients, NEW q, RequestOK(q, txs), request' = [request EXCEPT ![c] = q],
         UNCHANGED <<txs, cashRows, jobs, processor, sent, broken, txHistory, check>>,
         IsSeq(chain')
  PROVE  PayInv'
<1>1. IsTable(txs) /\ jobs \in Seq(DOMAIN txs) /\ cashRows \subseteq Payers /\ RequestsOK
  BY DEF PayInv, PayTyped
<1>2. IsTable(txs') /\ Kept(txs, txs') /\ NotReopened(txs, txs')
  BY <1>1, SameTable
<1>3. RequestOK(q, txs')
  OBVIOUS
<1>4. RequestsOK'
  BY <1>1, <1>2, <1>3, RequestMoves
<1> QED BY <1>1, <1>2, <1>4, PostsNothing

LEMMA SweepSteps ==
  ASSUME PayInv, SweepNext
  PROVE  PayInv'
<1>1. IsTable(txs) /\ IsSeq(chain) /\ jobs \in Seq(DOMAIN txs) /\ cashRows \subseteq Payers /\ RequestsOK
  BY DEF PayInv, PayTyped
<1>2. UNCHANGED <<chain, jobs, processor, sent, broken, txHistory, check, cashRows>>
  BY DEF SweepNext, SweepReads, SweepWrites, SweepEnds, withdrawalVars, chainVars, payoutVars, cashTable
<1>3. PICK c \in Clients : SweepReads(c) \/ SweepWrites(c) \/ SweepEnds(c)
  BY DEF SweepNext
<1>4. CASE SweepReads(c)
  <2> DEFINE q == [step |-> "sweep", read |-> [u \in Batch(SweepCursor(c)) |-> cash[u].available]]
  <2>1. Batch(SweepCursor(c)) \subseteq Payers
    BY <1>1 DEF Batch
  <2>2. IsFiniteSet(DOMAIN q.read)
    BY <2>1, FS_Subset, PaymentAssumption
  <2>3. RequestOK(q, txs)
    BY <2>2 DEF RequestOK
  <2>4. request' = [request EXCEPT ![c] = q] /\ UNCHANGED txs
    BY <1>4 DEF SweepReads
  <2> HIDE DEF q
  <2> QED BY <1>1, <1>2, <2>3, <2>4, OnlyRequest
<1>5. CASE SweepEnds(c)
  <2>1. request' = [request EXCEPT ![c] = NoRequest] /\ UNCHANGED txs
    BY <1>5 DEF SweepEnds
  <2> QED BY <1>1, <1>2, <2>1, NoRequestOK, OnlyRequest
<1>6. CASE SweepWrites(c)
  <2> DEFINE read == request[c].read
             n    == Cardinality(DOMAIN read)
  <2>1. n \in Nat
    <3>1. IsFiniteSet(DOMAIN read)
      BY <1>1, <1>6 DEF SweepWrites, RequestsOK, RequestOK
    <3> QED BY <3>1, FS_CardinalityType
  <2>2. PICK users \in InOrder(DOMAIN read) :
          /\ txs' = txs \o [i \in DOMAIN users |->
                              TxRow("TRANSFER", users[i], read[users[i]], "COMPLETED", 0, 0)]
          /\ request' = [request EXCEPT ![c] = [step |-> "swept", cursor |-> users[Len(users)]]]
    BY <1>6 DEF SweepWrites
  <2> DEFINE rows == [i \in DOMAIN users |->
                        TxRow("TRANSFER", users[i], read[users[i]], "COMPLETED", 0, 0)]
             q    == [step |-> "swept", cursor |-> users[Len(users)]]
  <2>3. DOMAIN users = 1 .. n
    BY DEF InOrder
  <2>4. rows = [i \in 1 .. n |-> rows[i]]
    BY <2>3
  <2>5. \A i \in DOMAIN rows : IsRow(rows[i])
    BY NewRow
  <2>6. RequestOK(q, txs')
    BY DEF RequestOK
  <2>7. txs' = txs \o rows /\ request' = [request EXCEPT ![c] = q]
    BY <2>2
  <2> HIDE DEF rows, q, n
  <2>8. IsTable(rows)
    BY <2>1, <2>4, <2>5, FunctionIsSeq DEF IsTable
  <2>9. IsTable(txs') /\ Kept(txs, txs') /\ NotReopened(txs, txs')
    BY <1>1, <2>7, <2>8, TableGrows
  <2>10. RequestsOK' /\ jobs' \in Seq(DOMAIN txs')
    BY <1>1, <1>2, <2>6, <2>7, <2>9, RequestMoves, JobsRest
  <2> QED BY <1>1, <1>2, <2>9, <2>10, PostsNothing
<1> QED BY <1>3, <1>4, <1>5, <1>6

\* Nothing but one row changes.
LEMMA RowChanges ==
  ASSUME IsTable(txs), NEW t, NEW row, txs' = [txs EXCEPT ![t] = row],
         t \in DOMAIN txs => /\ IsRow(row)
                             /\ row.hash = 0 <=> txs[t].hash = 0
                             /\ MovesMoney(txs[t].status) => MovesMoney(row.status)
  PROVE  IsTable(txs') /\ Kept(txs, txs') /\ NotReopened(txs, txs')
<1>1. /\ IsTable(txs') /\ DOMAIN txs' = DOMAIN txs
      /\ \A k \in DOMAIN txs : txs'[k] = IF k = t THEN row ELSE txs[k]
  BY TableUpdates
<1> QED BY <1>1 DEF Kept, NotReopened

\* No request does anything.
LEMMA NoRequestMoves ==
  ASSUME PayInv, IsTable(txs'), Kept(txs, txs'), NotReopened(txs, txs'), IsSeq(chain'),
         UNCHANGED <<cashRows, request, jobs, processor, sent, broken, txHistory, check>>
  PROVE  PayInv'
<1>1. jobs \in Seq(DOMAIN txs) /\ cashRows \subseteq Payers /\ RequestsOK
  BY DEF PayInv, PayTyped
<1>2. RequestsOK' /\ jobs' \in Seq(DOMAIN txs')
  BY <1>1, RequestsRest, JobsRest
<1> QED BY <1>1, <1>2, PostsNothing

LEMMA WithdrawSteps ==
  ASSUME PayInv, WithdrawNext
  PROVE  PayInv'
<1>1. IsTable(txs) /\ IsSeq(chain) /\ jobs \in Seq(DOMAIN txs) /\ cashRows \subseteq Payers /\ RequestsOK
  BY DEF PayInv, PayTyped
<1>2. UNCHANGED <<chain, processor, sent, broken, txHistory, check, cashRows>>
  BY DEF WithdrawNext, CreateWallet, LockWithdrawal, StoreWithdrawal, QueueWithdrawal,
         WithdrawThrows, ledgerVars, withdrawalVars, chainVars, payoutVars, cashTable
<1>3. CASE \E u \in Payers, form \in {"checksum", "lower"} : CreateWallet(u, form)
  <2>1. UNCHANGED <<txs, request, jobs>>
    BY <1>3 DEF CreateWallet, ledgerVars, payoutVars
  <2>2. IsTable(txs') /\ Kept(txs, txs') /\ NotReopened(txs, txs')
    BY <1>1, <2>1, SameTable
  <2> QED BY <1>1, <1>2, <2>1, <2>2, NoRequestMoves
<1>4. ASSUME NEW c \in Clients, NEW w \in WithdrawRequests, LockWithdrawal(c, w)
      PROVE  PayInv'
  <2> DEFINE q == [step |-> "withdraw", asked |-> w]
  <2>1. request' = [request EXCEPT ![c] = q] /\ UNCHANGED <<txs, jobs>>
    BY <1>4 DEF LockWithdrawal, withdrawalVars, payoutVars
  <2>2. RequestOK(q, txs)
    BY DEF RequestOK
  <2> HIDE DEF q
  <2> QED BY <1>1, <1>2, <2>1, <2>2, OnlyRequest
<1>5. ASSUME NEW c \in Clients, StoreWithdrawal(c)
      PROVE  PayInv'
  <2> DEFINE w   == request[c].asked
             row == TxRow("WITHDRAW", w.user, w.amount, "PENDING", 0, w.key)
             q   == [step |-> "queue", id |-> Len(txs) + 1]
  <2>1. /\ txs' = Append(txs, row) /\ request' = [request EXCEPT ![c] = q]
        /\ UNCHANGED jobs
    BY <1>5 DEF StoreWithdrawal, withdrawalVars, payoutVars
  <2>2. IsRow(row)
    BY NewRow
  <2> HIDE DEF row
  <2>3. /\ IsTable(txs') /\ Kept(txs, txs') /\ NotReopened(txs, txs')
        /\ Len(txs) + 1 \in DOMAIN txs'
    BY <1>1, <2>1, <2>2, TableAppends
  <2>4. RequestOK(q, txs')
    BY <2>3 DEF RequestOK
  <2> HIDE DEF q
  <2>5. RequestsOK' /\ jobs' \in Seq(DOMAIN txs')
    BY <1>1, <2>1, <2>3, <2>4, RequestMoves, JobsRest
  <2> QED BY <1>1, <1>2, <2>3, <2>5, PostsNothing
<1>6. ASSUME NEW c \in Clients, QueueWithdrawal(c)
      PROVE  PayInv'
  <2>1. /\ jobs' = Append(jobs, request[c].id) /\ request' = [request EXCEPT ![c] = NoRequest]
        /\ UNCHANGED txs /\ request[c].step = "queue"
    BY <1>6 DEF QueueWithdrawal
  <2>2. request[c].id \in DOMAIN txs
    BY <1>1, <2>1 DEF RequestsOK, RequestOK
  <2>3. IsTable(txs') /\ Kept(txs, txs') /\ NotReopened(txs, txs')
    BY <1>1, <2>1, SameTable
  <2>4. jobs' \in Seq(DOMAIN txs')
    BY <1>1, <2>1, <2>2, AppendProperties
  <2>5. RequestsOK'
    BY <1>1, <2>1, <2>3, NoRequestOK, RequestMoves
  <2> QED BY <1>1, <1>2, <2>3, <2>4, <2>5, PostsNothing
<1>7. ASSUME NEW c \in Clients, WithdrawThrows(c)
      PROVE  PayInv'
  <2>1. request' = [request EXCEPT ![c] = NoRequest] /\ UNCHANGED <<txs, jobs>>
    BY <1>7 DEF WithdrawThrows
  <2> QED BY <1>1, <1>2, <2>1, NoRequestOK, OnlyRequest
<1> QED BY <1>3, <1>4, <1>5, <1>6, <1>7 DEF WithdrawNext

LEMMA SpeedUpStored ==
  ASSUME PayInv, NEW c \in Clients, StoreSpeedUp(c)
  PROVE  /\ IsTable(txs') /\ Kept(txs, txs') /\ NotReopened(txs, txs')
         /\ request' = [request EXCEPT ![c] = NoRequest]
<1> DEFINE t   == request[c].id
           row == [txs[t] EXCEPT !.hash = request[c].hash, !.speedUps = @ + 1]
<1>1. IsTable(txs) /\ RequestsOK
  BY DEF PayInv, PayTyped
<1>2. request[c].step = "storeSpeedUp" /\ t \in DOMAIN txs /\ txs[t].hash # 0 /\ request[c].hash # 0
  BY <1>1 DEF StoreSpeedUp, RequestsOK, RequestOK
<1>3. txs' = [txs EXCEPT ![t] = row] /\ request' = [request EXCEPT ![c] = NoRequest]
  BY <1>2 DEF StoreSpeedUp
<1>4. IsRow(txs[t])
  BY <1>1, <1>2 DEF IsTable
<1>5. IsRow(row) /\ row.hash = request[c].hash /\ row.status = txs[t].status
  BY <1>4 DEF IsRow
<1> HIDE DEF row, t
<1> QED BY <1>1, <1>2, <1>3, <1>5, RowChanges DEF t

LEMMA GasSteps ==
  ASSUME PayInv, GasNext
  PROVE  PayInv'
<1>1. IsTable(txs) /\ IsSeq(chain) /\ jobs \in Seq(DOMAIN txs) /\ cashRows \subseteq Payers /\ RequestsOK
  BY DEF PayInv, PayTyped
<1>2. UNCHANGED <<jobs, processor, sent, broken, txHistory, check, cashRows>>
  BY DEF GasNext, ScanStuck, MarkStuck, StuckCheckThrows, ReadForSpeedUp, ReadForRefund, SpeedUp,
         StoreSpeedUp, Refund, InterventionThrows, ledgerVars, withdrawalVars, payoutVars, cashTable
<1>3. CASE ScanStuck \/ StuckCheckThrows
  <2>1. UNCHANGED <<txs, request, chain>>
    BY <1>3 DEF ScanStuck, StuckCheckThrows, ledgerVars, chainVars
  <2>2. IsTable(txs') /\ Kept(txs, txs') /\ NotReopened(txs, txs')
    BY <1>1, <2>1, SameTable
  <2> QED BY <1>1, <1>2, <2>1, <2>2, NoRequestMoves
<1>4. ASSUME NEW t \in TxIds, MarkStuck(t)
      PROVE  PayInv'
  <2> DEFINE row == [txs[t] EXCEPT !.stuck = TRUE]
  <2>1. txs' = [txs EXCEPT ![t] = row] /\ UNCHANGED <<request, chain>>
    BY <1>4 DEF MarkStuck, chainVars
  <2>2. t \in DOMAIN txs => IsRow(row) /\ row.hash = txs[t].hash /\ row.status = txs[t].status
    BY <1>1 DEF IsTable, IsRow
  <2> HIDE DEF row
  <2>3. IsTable(txs') /\ Kept(txs, txs') /\ NotReopened(txs, txs')
    BY <1>1, <2>1, <2>2, RowChanges
  <2> QED BY <1>1, <1>2, <2>1, <2>3, NoRequestMoves
<1>5. ASSUME NEW c \in Clients, NEW t \in TxIds, ReadForSpeedUp(c, t)
      PROVE  PayInv'
  <2> DEFINE q == [step |-> "speedUp", id |-> t]
  <2>1. request' = [request EXCEPT ![c] = q] /\ UNCHANGED <<txs, chain>>
    BY <1>5 DEF ReadForSpeedUp, withdrawalVars, chainVars
  <2>2. RequestOK(q, txs)
    BY <1>5 DEF ReadForSpeedUp, IsTx, RequestOK
  <2> HIDE DEF q
  <2> QED BY <1>1, <1>2, <2>1, <2>2, OnlyRequest
<1>6. ASSUME NEW c \in Clients, NEW t \in TxIds, ReadForRefund(c, t)
      PROVE  PayInv'
  <2> DEFINE q == [step |-> "refund", hash |-> txs[t].hash]
  <2>1. request' = [request EXCEPT ![c] = q] /\ UNCHANGED <<txs, chain>>
    BY <1>6 DEF ReadForRefund, withdrawalVars, chainVars
  <2>2. RequestOK(q, txs)
    BY DEF RequestOK
  <2> HIDE DEF q
  <2> QED BY <1>1, <1>2, <2>1, <2>2, OnlyRequest
<1>7. ASSUME NEW c \in Clients, SpeedUp(c)
      PROVE  PayInv'
  <2> DEFINE q == [step |-> "storeSpeedUp", id |-> request[c].id, hash |-> Len(chain) + 1]
             x == Outgo("payout", request[c].id, LatestNonce)
  <2>1. /\ request' = [request EXCEPT ![c] = q] /\ UNCHANGED txs
        /\ chain' = Append(chain, x) /\ request[c].step = "speedUp"
    BY <1>7 DEF SpeedUp, OnChain
  <2>2. Len(chain) + 1 # 0
    BY <1>1, SeqLength
  <2>3. RequestOK(q, txs)
    BY <1>1, <2>1, <2>2 DEF RequestsOK, RequestOK
  <2> HIDE DEF q, x
  <2>4. IsSeq(chain')
    BY <1>1, <2>1, SeqAppend
  <2> QED BY <1>2, <2>1, <2>3, <2>4, OnlyRequest
<1>8. ASSUME NEW c \in Clients, StoreSpeedUp(c)
      PROVE  PayInv'
  <2>1. /\ IsTable(txs') /\ Kept(txs, txs') /\ NotReopened(txs, txs')
        /\ request' = [request EXCEPT ![c] = NoRequest]
    BY <1>8, SpeedUpStored
  <2>2. UNCHANGED chain
    BY <1>8 DEF StoreSpeedUp, withdrawalVars, chainVars
  <2>3. RequestsOK' /\ jobs' \in Seq(DOMAIN txs')
    BY <1>1, <1>2, <2>1, NoRequestOK, RequestMoves, JobsRest
  <2> QED BY <1>1, <1>2, <2>1, <2>2, <2>3, PostsNothing
<1>9. ASSUME NEW c \in Clients, Refund(c)
      PROVE  PayInv'
  <2> DEFINE x == Outgo("cancel", 0, chain[request[c].hash].nonce)
  <2>1. /\ request' = [request EXCEPT ![c] = NoRequest] /\ UNCHANGED txs
        /\ chain' = Append(chain, x)
    BY <1>9 DEF Refund, OnChain
  <2> HIDE DEF x
  <2>2. IsSeq(chain')
    BY <1>1, <2>1, SeqAppend
  <2> QED BY <1>2, <2>1, <2>2, NoRequestOK, OnlyRequest
<1>10. ASSUME NEW c \in Clients, InterventionThrows(c)
       PROVE  PayInv'
  <2>1. request' = [request EXCEPT ![c] = NoRequest] /\ UNCHANGED <<txs, chain>>
    BY <1>10 DEF InterventionThrows, withdrawalVars, chainVars
  <2> QED BY <1>1, <1>2, <2>1, NoRequestOK, OnlyRequest
<1> QED BY <1>3, <1>4, <1>5, <1>6, <1>7, <1>8, <1>9, <1>10 DEF GasNext

LEMMA ChainSteps ==
  ASSUME PayInv, MineNext \/ BlockNext \/ ReceiveNext
  PROVE  PayInv'
<1>1. IsTable(txs) /\ IsSeq(chain)
  BY DEF PayInv, PayTyped
<1>2. UNCHANGED <<txs, cashRows, request, jobs, processor, sent, broken, txHistory, check>>
  BY DEF MineNext, Mine, BlockNext, PassBlock, ReceiveNext, Receive, ledgerVars, cashTable, payoutVars
<1>3. IsTable(txs') /\ Kept(txs, txs') /\ NotReopened(txs, txs')
  BY <1>1, <1>2, SameTable
<1>4. IsSeq(chain')
  <2>1. CASE MineNext
    <3>1. Len(chain) \in Nat /\ DOMAIN chain = 1 .. Len(chain)
      BY <1>1, SeqLength
    <3>2. DOMAIN chain' = DOMAIN chain /\ chain' = [k \in DOMAIN chain |-> chain'[k]]
      BY <2>1 DEF MineNext, Mine
    <3> QED BY <3>1, <3>2, FunctionIsSeq
  <2>2. CASE BlockNext
    BY <1>1, <2>2 DEF BlockNext, PassBlock
  <2>3. CASE ReceiveNext
    <3>1. PICK logs \in Transfers : Receive(logs)
      BY <2>3 DEF ReceiveNext
    <3> DEFINE x == [kind |-> "deposit", tx |-> 0, nonce |-> 0, fate |-> "mined",
                     block |-> height + 1, logs |-> logs]
    <3>2. chain' = Append(chain, x)
      BY <3>1 DEF Receive
    <3> HIDE DEF x
    <3> QED BY <1>1, <3>2, SeqAppend
  <2> QED BY <2>1, <2>2, <2>3
<1> QED BY <1>2, <1>3, <1>4, NoRequestMoves

LEMMA ScanSteps ==
  ASSUME PayInv, ScanNext
  PROVE  PayInv'
<1>1. IsTable(txs) /\ IsSeq(chain)
  BY DEF PayInv, PayTyped
<1>2. UNCHANGED <<chain, cashRows, request, jobs, processor, sent, broken, txHistory, check>>
  BY DEF ScanNext, ScanStep, StartScan, ScanTransfer, MoveCursor, ScanTransferFails, ScanThrows,
         ledgerVars, withdrawalVars, chainVars, payoutVars, cashTable
<1>3. IsTable(txs') /\ Kept(txs, txs') /\ NotReopened(txs, txs')
  <2>1. CASE UNCHANGED txs
    BY <1>1, <2>1, SameTable
  <2>2. CASE \E s \in Scans : ScanTransfer(s) /\ txs' # txs
    <3>1. PICK s \in Scans : ScanTransfer(s) /\ txs' # txs
      BY <2>2
    <3> DEFINE l   == FirstLog(scan[s].todo)
               log == chain[l.hash].logs[l.log]
               row == TxRow("DEPOSIT", log.from, log.amount, "PENDING", l.hash, 0)
    <3>2. txs' = Append(txs, row) /\ IsRow(row)
      BY <3>1, NewRow DEF ScanTransfer
    <3> HIDE DEF row
    <3> QED BY <1>1, <3>2, TableAppends
  <2> QED BY <2>1, <2>2 DEF ScanNext, ScanStep, StartScan, MoveCursor, ScanTransferFails, ScanThrows,
                            ledgerVars
<1> QED BY <1>1, <1>2, <1>3, NoRequestMoves

------------------------------------------------------------------------------
(***************************************************************************)
(* Administrators                                                          *)
(***************************************************************************)
\* A counter goes up by one.
LEMMA OneMore ==
  ASSUME NEW f \in [TxIds -> Nat], NEW t
  PROVE  [f EXCEPT ![t] = @ + 1] \in [TxIds -> Nat]
<1>1. CASE t \in TxIds
  <2>1. f[t] + 1 \in Nat
    BY <1>1
  <2> QED BY <2>1
<1>2. CASE t \notin TxIds
  <2>1. [f EXCEPT ![t] = @ + 1] = f
    BY <1>2
  <2> QED BY <2>1
<1> QED BY <1>1, <1>2

\* A move that decides a row is its own, one over a decided row is excused.
LEMMA DecisionSettlesOnce ==
  ASSUME PayInv, NEW c \in Clients, AdminDecides(c)
  PROVE  SettledOnce'
<1> DEFINE t   == request[c].id
           row == [txs[t] EXCEPT !.status = request[c].status]
<1>1. /\ IsTable(txs) /\ RequestsOK /\ SettledOnce
      /\ released \in [TxIds -> Nat] /\ credited \in [TxIds -> Nat]
      /\ contested \in [TxIds -> Nat] /\ overruled \in [TxIds -> Nat]
  BY DEF PayInv, PayTyped
<1>2. AdminPosts(c) /\ request[c].step = "admin"
  BY DEF AdminDecides, AdminPosts
<1>3. t \in DOMAIN txs /\ IsRow(txs[t])
  BY <1>1, <1>2 DEF RequestsOK, RequestOK, IsTable
<1>4. /\ txs' = [txs EXCEPT ![t] = row] /\ credited' = credited /\ contested' = contested
      /\ overruled' = IF Decided(t) THEN [overruled EXCEPT ![t] = @ + 1] ELSE overruled
      /\ MovesMoney(row.status) => released' = [released EXCEPT ![t] = @ + 1]
      /\ ~MovesMoney(row.status) => released' = released
  BY <1>2, <1>3 DEF AdminPosts, IsRow
<1>5. IsRow(row)
  BY <1>3 DEF IsRow
<1> HIDE DEF row
<1>6. /\ DOMAIN txs' = DOMAIN txs
      /\ \A k \in DOMAIN txs : txs'[k] = IF k = t THEN row ELSE txs[k]
  BY <1>1, <1>4, <1>5, TableUpdates
<1> HIDE DEF t
<1> SUFFICES ASSUME NEW k \in TxIds
             PROVE  Moves(k)' <= 1 + Excused(k)' /\ (Open(k)' => Moves(k)' <= Excused(k)')
  BY DEF SettledOnce
<1>7. /\ Moves(k) <= 1 + Excused(k) /\ (Open(k) => Moves(k) <= Excused(k))
      /\ Moves(k) \in Nat /\ Excused(k) \in Nat
  BY <1>1 DEF SettledOnce, Moves, Excused
<1>8. CASE k # t
  <2>1. Moves(k)' = Moves(k) /\ Excused(k)' = Excused(k)
    BY <1>1, <1>4, <1>8 DEF Moves, Excused
  <2>2. Open(k)' => Open(k)
    BY <1>6, <1>8 DEF Open, Decided
  <2> QED BY <1>7, <2>1, <2>2
<1>9. CASE k = t
  <2>1. Open(k)' <=> ~MovesMoney(row.status)
    BY <1>3, <1>6, <1>9 DEF Open, Decided
  <2>2. Moves(k)' = IF MovesMoney(row.status) THEN Moves(k) + 1 ELSE Moves(k)
    BY <1>1, <1>4, <1>9 DEF Moves
  <2>3. Excused(k)' = IF Decided(k) THEN Excused(k) + 1 ELSE Excused(k)
    BY <1>1, <1>4, <1>9 DEF Excused
  <2>4. Open(k) <=> ~Decided(k)
    BY <1>3, <1>9 DEF Open
  <2> QED BY <1>7, <2>1, <2>2, <2>3, <2>4
<1> QED BY <1>8, <1>9

LEMMA AdminSteps ==
  ASSUME PayInv, AdminNext
  PROVE  PayInv'
<1>1. IsTable(txs) /\ IsSeq(chain) /\ jobs \in Seq(DOMAIN txs) /\ cashRows \subseteq Payers /\ RequestsOK
        /\ released \in [TxIds -> Nat] /\ overruled \in [TxIds -> Nat]
  BY DEF PayInv, PayTyped
<1>2. ASSUME NEW c \in Clients, NEW t \in TxIds, NEW status \in AdminStatuses, AdminReads(c, t, status),
             UNCHANGED <<withdrawalVars, depositVars, check>>
      PROVE  PayInv'
  <2> DEFINE q == [step |-> "admin", id |-> t, status |-> status]
  <2>1. /\ request' = [request EXCEPT ![c] = q]
        /\ UNCHANGED <<txs, cashRows, chain, jobs, processor, sent, broken, txHistory, check>>
    BY <1>2 DEF AdminReads, withdrawalVars, chainVars, payoutVars, cashTable
  <2>2. RequestOK(q, txs)
    BY <1>2 DEF AdminReads, IsTx, RequestOK
  <2> HIDE DEF q
  <2> QED BY <1>1, <2>1, <2>2, OnlyRequest
<1>3. ASSUME NEW c \in Clients, AdminThrows(c), UNCHANGED <<withdrawalVars, depositVars, check>>
      PROVE  PayInv'
  <2>1. /\ request' = [request EXCEPT ![c] = NoRequest]
        /\ UNCHANGED <<txs, cashRows, chain, jobs, processor, sent, broken, txHistory, check>>
    BY <1>3 DEF AdminThrows, withdrawalVars, chainVars, payoutVars, cashTable
  <2> QED BY <1>1, <2>1, NoRequestOK, OnlyRequest
<1>4. ASSUME NEW c \in Clients, AdminDecides(c)
      PROVE  PayInv'
  <2> DEFINE t   == request[c].id
             row == [txs[t] EXCEPT !.status = request[c].status]
  <2>1. /\ txs' = [txs EXCEPT ![t] = row] /\ request' = [request EXCEPT ![c] = NoRequest]
        /\ released' \in {released, [released EXCEPT ![t] = @ + 1]}
        /\ overruled' \in {overruled, [overruled EXCEPT ![t] = @ + 1]}
        /\ UNCHANGED <<cashRows, credited, contested, chain, jobs, processor, sent, broken, check>>
    BY <1>4 DEF AdminDecides, AdminPosts, withdrawalVars, chainVars, payoutVars
  <2>2. t \in DOMAIN txs => IsRow(row) /\ row.hash = txs[t].hash
    BY <1>1 DEF IsTable, IsRow
  <2> HIDE DEF row
  <2>3. IsTable(txs') /\ Kept(txs, txs')
    <3>1. /\ IsTable(txs') /\ DOMAIN txs' = DOMAIN txs
          /\ \A k \in DOMAIN txs : txs'[k] = IF k = t THEN row ELSE txs[k]
      BY <1>1, <2>1, <2>2, TableUpdates
    <3> QED BY <2>2, <3>1 DEF Kept
  <2>4. released' \in [TxIds -> Nat] /\ overruled' \in [TxIds -> Nat]
    <3> HIDE DEF t
    <3>1. released' \in [TxIds -> Nat]
      <4>1. released \in [TxIds -> Nat] /\ released' \in {released, [released EXCEPT ![t] = @ + 1]}
        BY <1>1, <2>1
      <4> QED BY <4>1, OneMore
    <3>2. overruled' \in [TxIds -> Nat]
      <4>1. overruled \in [TxIds -> Nat] /\ overruled' \in {overruled, [overruled EXCEPT ![t] = @ + 1]}
        BY <1>1, <2>1
      <4> QED BY <4>1, OneMore
    <3> QED BY <3>1, <3>2
  <2>5. RequestsOK' /\ jobs' \in Seq(DOMAIN txs')
    BY <1>1, <2>1, <2>3, NoRequestOK, RequestMoves, JobsRest
  <2>6. ProcessorOK' /\ ChecksOK' /\ PaidOnce'
    BY <2>1, <2>3, ProcessorRests, ChecksRest, PaidRests DEF PayInv
  <2>7. PayTyped'
    BY <2>1, <2>3, <2>4, <2>5 DEF PayInv, PayTyped
  <2> QED BY <1>4, <2>5, <2>6, <2>7, DecisionSettlesOnce DEF PayInv
<1> QED BY <1>2, <1>3, <1>4 DEF AdminNext

------------------------------------------------------------------------------
(***************************************************************************)
(* The payout processor, and restarts                                      *)
(***************************************************************************)
LEMMA PayoutRests ==
  ASSUME PayInv, IsTable(txs'), Kept(txs, txs'), NotReopened(txs, txs'), IsSeq(chain'),
         jobs' \in Seq(DOMAIN txs'), sent' \in [TxIds -> Nat], broken' \in [TxIds -> Nat],
         ProcessorOK', PaidOnce', UNCHANGED <<cashRows, request, txHistory, check>>
  PROVE  PayInv'
<1>1. PayTyped'
  BY DEF PayInv, PayTyped, txHistory
<1>2. RequestsOK' /\ ChecksOK'
  BY RequestsRest, ChecksRest DEF PayInv
<1>3. SettledOnce'
  BY SettledRests DEF PayInv, Kept
<1> QED BY <1>1, <1>2, <1>3 DEF PayInv

LEMMA ProcessorIdleOK ==
  ASSUME processor' = NoPayout
  PROVE  ProcessorOK'
BY DEF ProcessorOK

\* A payout whose hash was not stored is counted as broken.
LEMMA JobIsLost ==
  ASSUME PayInv, broken' = Unrecorded, processor' = NoPayout, UNCHANGED <<txs, sent>>
  PROVE  broken' \in [TxIds -> Nat] /\ PaidOnce'
<1>1. sent \in [TxIds -> Nat] /\ broken \in [TxIds -> Nat] /\ PaidOnce
  BY DEF PayInv, PayTyped
<1>2. CASE processor.step = "store"
  <2>1. broken' = [broken EXCEPT ![processor.id] = @ + 1]
    BY <1>2 DEF Unrecorded
  <2>2. broken' \in [TxIds -> Nat]
    BY <1>1, <2>1, OneMore
  <2>3. ASSUME NEW t \in TxIds
        PROVE  /\ sent'[t] <= 1 + broken'[t]
               /\ (t \in DOMAIN txs' /\ txs'[t].hash # 0) \/ sent'[t] <= broken'[t]
    <3>1. CASE t = processor.id
      BY <1>1, <2>1, <3>1 DEF PaidOnce
    <3>2. CASE t # processor.id
      BY <1>1, <2>1, <3>2 DEF PaidOnce
    <3> QED BY <3>1, <3>2
  <2> QED BY <2>2, <2>3 DEF PaidOnce
<1>3. CASE processor.step # "store"
  BY <1>1, <1>3 DEF Unrecorded, PaidOnce
<1> QED BY <1>2, <1>3

\* The processor goes on without a broadcast.
LEMMA OnlyProcessor ==
  ASSUME PayInv, IsTable(txs'), Kept(txs, txs'), NotReopened(txs, txs'), jobs' \in Seq(DOMAIN txs'),
         ProcessorOK', processor.step # "store",
         UNCHANGED <<chain, cashRows, request, sent, broken, txHistory, check>>
  PROVE  PayInv'
<1>1. PaidOnce'
  BY DEF PayInv, PaidOnce, Kept
<1>2. IsSeq(chain') /\ sent' \in [TxIds -> Nat] /\ broken' \in [TxIds -> Nat]
  BY DEF PayInv, PayTyped
<1> QED BY <1>1, <1>2, PayoutRests

LEMMA PayoutTaken ==
  ASSUME PayInv, TakePayout, UNCHANGED <<depositVars, check>>
  PROVE  PayInv'
<1> DEFINE t == Head(jobs)
<1>1. IsTable(txs) /\ jobs \in Seq(DOMAIN txs)
  BY DEF PayInv, PayTyped
<1>2. /\ processor = NoPayout /\ jobs # <<>> /\ jobs' = Tail(jobs)
      /\ UNCHANGED <<txs, chain, cashRows, request, sent, broken, txHistory, check>>
  BY DEF TakePayout, ledgerVars, chainVars, cashTable
<1>3. t \in DOMAIN txs /\ jobs' \in Seq(DOMAIN txs)
  BY <1>1, <1>2, HeadTailProperties
<1>4. \/ processor' = NoPayout
      \/ /\ processor' \in {[step |-> "reject", id |-> t], [step |-> "send", id |-> t]}
         /\ txs[t].hash = 0
  BY DEF TakePayout
<1>5. ProcessorOK'
  BY <1>2, <1>3, <1>4 DEF ProcessorOK
<1>6. IsTable(txs') /\ Kept(txs, txs') /\ NotReopened(txs, txs')
  BY <1>1, <1>2, SameTable
<1>7. processor.step # "store"
  BY <1>2 DEF NoPayout
<1> QED BY <1>2, <1>3, <1>5, <1>6, <1>7, OnlyProcessor

LEMMA PayoutRejected ==
  ASSUME PayInv, RejectPayout, UNCHANGED <<depositVars, check>>
  PROVE  PayInv'
<1> DEFINE t   == processor.id
           row == [txs[t] EXCEPT !.status = "FAILED"]
<1>1. IsTable(txs) /\ jobs \in Seq(DOMAIN txs)
  BY DEF PayInv, PayTyped
<1>2. /\ processor.step = "reject" /\ processor' = NoPayout /\ txs' = [txs EXCEPT ![t] = row]
      /\ UNCHANGED <<jobs, chain, cashRows, request, sent, broken, txHistory, check>>
  BY DEF RejectPayout, chainVars, cashTable
<1>3. t \in DOMAIN txs => IsRow(row) /\ row.hash = txs[t].hash /\ MovesMoney(row.status)
  BY <1>1 DEF IsTable, IsRow, MovesMoney
<1> HIDE DEF row
<1>4. IsTable(txs') /\ Kept(txs, txs') /\ NotReopened(txs, txs')
  BY <1>1, <1>2, <1>3, RowChanges
<1>5. jobs' \in Seq(DOMAIN txs') /\ ProcessorOK'
  BY <1>1, <1>2, <1>4, JobsRest, ProcessorIdleOK
<1> QED BY <1>2, <1>4, <1>5, OnlyProcessor

LEMMA PayoutSent ==
  ASSUME PayInv, SendPayout, UNCHANGED <<depositVars, check>>
  PROVE  PayInv'
<1> DEFINE t == processor.id
           x == Outgo("payout", t, PendingNonce)
<1>1. /\ IsTable(txs) /\ IsSeq(chain) /\ jobs \in Seq(DOMAIN txs) /\ PaidOnce /\ ProcessorOK
      /\ sent \in [TxIds -> Nat] /\ broken \in [TxIds -> Nat]
  BY DEF PayInv, PayTyped
<1>2. /\ processor.step = "send" /\ chain' = Append(chain, x)
      /\ processor' = [step |-> "store", id |-> t, hash |-> Len(chain) + 1]
      /\ sent' = [sent EXCEPT ![t] = @ + 1]
      /\ UNCHANGED <<txs, jobs, cashRows, request, broken, txHistory, check>>
  BY DEF SendPayout, OnChain, ledgerVars, cashTable
<1> HIDE DEF x
<1>3. t \in DOMAIN txs /\ txs[t].hash = 0
  BY <1>1, <1>2 DEF ProcessorOK, NoPayout
<1>4. IsSeq(chain') /\ Len(chain) + 1 # 0
  <2>1. IsSeq(chain')
    BY <1>1, <1>2, SeqAppend
  <2>2. Len(chain) \in Nat
    BY <1>1, SeqLength
  <2> QED BY <2>1, <2>2
<1>5. ProcessorOK'
  BY <1>2, <1>3, <1>4 DEF ProcessorOK
<1>6. sent' \in [TxIds -> Nat] /\ broken' \in [TxIds -> Nat]
  BY <1>1, <1>2, OneMore
<1>7. PaidOnce'
  <2> SUFFICES ASSUME NEW k \in TxIds
               PROVE  /\ sent'[k] <= 1 + broken'[k]
                      /\ \/ k \in DOMAIN txs' /\ txs'[k].hash # 0
                         \/ processor'.step = "store" /\ processor'.id = k
                         \/ sent'[k] <= broken'[k]
    BY DEF PaidOnce
  <2>1. CASE k = t
    <3>1. sent[k] <= broken[k] /\ sent'[k] = sent[k] + 1
      BY <1>1, <1>2, <1>3, <2>1 DEF PaidOnce
    <3> QED BY <1>1, <1>2, <2>1, <3>1
  <2>2. CASE k # t
    <3>1. sent'[k] = sent[k] /\ processor.step # "store"
      BY <1>1, <1>2, <2>2
    <3> QED BY <1>1, <1>2, <3>1 DEF PaidOnce
  <2> QED BY <2>1, <2>2
<1>8. IsTable(txs') /\ Kept(txs, txs') /\ NotReopened(txs, txs')
  BY <1>1, <1>2, SameTable
<1>9. jobs' \in Seq(DOMAIN txs')
  BY <1>1, <1>2
<1> QED BY <1>2, <1>4, <1>5, <1>6, <1>7, <1>8, <1>9, PayoutRests

\* From here on the job does nothing with this row.
LEMMA PayoutHashStored ==
  ASSUME PayInv, StorePayoutHash, UNCHANGED <<depositVars, check>>
  PROVE  PayInv'
<1> DEFINE t   == processor.id
           row == [txs[t] EXCEPT !.hash = processor.hash]
<1>1. PayTyped /\ RequestsOK /\ ProcessorOK /\ ChecksOK /\ PaidOnce /\ SettledOnce
  BY DEF PayInv
<1>2. /\ processor.step = "store" /\ processor' = [step |-> "done", id |-> t]
      /\ txs' = [txs EXCEPT ![t] = row]
      /\ UNCHANGED <<jobs, chain, cashRows, request, sent, broken, txHistory, check>>
  BY DEF StorePayoutHash, chainVars, cashTable
<1>3. t \in DOMAIN txs /\ processor.hash # 0
  BY <1>1, <1>2 DEF ProcessorOK, NoPayout
<1>4. IsRow(row) /\ row.hash = processor.hash /\ row.status = txs[t].status
  BY <1>1, <1>3 DEF PayTyped, IsTable, IsRow
<1> HIDE DEF row
<1>5. /\ IsTable(txs') /\ DOMAIN txs' = DOMAIN txs
      /\ \A k \in DOMAIN txs : txs'[k] = IF k = t THEN row ELSE txs[k]
  BY <1>1, <1>2, <1>4, TableUpdates DEF PayTyped
<1>6. \A k \in DOMAIN txs : txs[k].hash # 0 => txs'[k].hash # 0
  BY <1>3, <1>4, <1>5
<1>7. PayTyped'
  BY <1>1, <1>2, <1>5 DEF PayTyped, txHistory
<1>8. RequestsOK'
  BY <1>1, <1>2, <1>5, <1>6 DEF RequestsOK, RequestOK
<1>9. ChecksOK'
  BY <1>1, <1>2, <1>5 DEF ChecksOK, CheckOK
<1>10. ProcessorOK'
  BY <1>2, <1>3, <1>5 DEF ProcessorOK
<1>11. PaidOnce'
  <2> SUFFICES ASSUME NEW k \in TxIds
               PROVE  /\ sent[k] <= 1 + broken[k]
                      /\ (k \in DOMAIN txs' /\ txs'[k].hash # 0) \/ sent[k] <= broken[k]
    BY <1>2 DEF PaidOnce
  <2>1. CASE k = t
    BY <1>1, <1>3, <1>4, <1>5, <2>1 DEF PaidOnce
  <2>2. CASE k # t
    BY <1>1, <1>5, <1>6, <2>2 DEF PaidOnce
  <2> QED BY <2>1, <2>2
<1>12. SettledOnce'
  <2>1. NotReopened(txs, txs') /\ \A k \in DOMAIN txs : k \in DOMAIN txs'
    BY <1>4, <1>5 DEF NotReopened
  <2> QED BY <1>1, <1>2, <2>1, SettledRests
<1> QED BY <1>7, <1>8, <1>9, <1>10, <1>11, <1>12 DEF PayInv

LEMMA PayoutSteps ==
  ASSUME PayInv, PayoutNext
  PROVE  PayInv'
<1>1. IsTable(txs) /\ IsSeq(chain) /\ jobs \in Seq(DOMAIN txs) /\ sent \in [TxIds -> Nat]
  BY DEF PayInv, PayTyped
<1>2. ASSUME CompletePayout, UNCHANGED <<depositVars, check>>
      PROVE  PayInv'
  <2>1. /\ processor.step = "done" /\ processor' = NoPayout
        /\ UNCHANGED <<txs, jobs, chain, cashRows, request, sent, broken, txHistory, check>>
    BY <1>2 DEF CompletePayout, ledgerVars, chainVars, cashTable
  <2>2. IsTable(txs') /\ Kept(txs, txs') /\ NotReopened(txs, txs')
    BY <1>1, <2>1, SameTable
  <2>3. jobs' \in Seq(DOMAIN txs') /\ ProcessorOK'
    BY <1>1, <2>1, ProcessorIdleOK
  <2> QED BY <2>1, <2>2, <2>3, OnlyProcessor
<1>3. ASSUME PayoutThrows, UNCHANGED <<depositVars, check>>
      PROVE  PayInv'
  <2>1. /\ broken' = Unrecorded /\ processor' = NoPayout
        /\ UNCHANGED <<txs, jobs, chain, cashRows, request, sent, txHistory, check>>
    BY <1>3 DEF PayoutThrows, chainVars, cashTable
  <2>2. IsTable(txs') /\ Kept(txs, txs') /\ NotReopened(txs, txs')
    BY <1>1, <2>1, SameTable
  <2>3. jobs' \in Seq(DOMAIN txs') /\ IsSeq(chain') /\ sent' \in [TxIds -> Nat] /\ ProcessorOK'
    BY <1>1, <2>1, ProcessorIdleOK
  <2>4. broken' \in [TxIds -> Nat] /\ PaidOnce'
    BY <2>1, JobIsLost
  <2> QED BY <2>1, <2>2, <2>3, <2>4, PayoutRests
<1> QED BY <1>2, <1>3, PayoutTaken, PayoutRejected, PayoutSent, PayoutHashStored DEF PayoutNext, PayoutStep

------------------------------------------------------------------------------
(***************************************************************************)
(* Runs of the check                                                       *)
(***************************************************************************)
\* A run that reads, counts, gives up or ends.
LEMMA OnlyCheck ==
  ASSUME PayInv, IsTable(txs'), Kept(txs, txs'), NotReopened(txs, txs'),
         NEW r \in Checks, NEW q, CheckOK(q, txs'), check' = [check EXCEPT ![r] = q],
         UNCHANGED <<chain, cashRows, request, jobs, processor, sent, broken, txHistory>>
  PROVE  PayInv'
<1>1. /\ IsSeq(chain) /\ jobs \in Seq(DOMAIN txs) /\ RequestsOK /\ ProcessorOK /\ ChecksOK
      /\ PaidOnce /\ SettledOnce /\ PayTyped
  BY DEF PayInv, PayTyped
<1>2. RequestsOK' /\ ProcessorOK' /\ PaidOnce' /\ jobs' \in Seq(DOMAIN txs')
  BY <1>1, RequestsRest, ProcessorRests, PaidRests, JobsRest
<1>3. ChecksOK'
  BY <1>1, CheckMoves
<1>5. SettledOnce'
  BY <1>1, SettledRests DEF Kept
<1>6. PayTyped'
  BY <1>1, <1>2 DEF PayTyped, txHistory
<1> QED BY <1>2, <1>3, <1>5, <1>6 DEF PayInv

\* What the finished row adds to is counted once, or the row was decided since
\* this run has read it.
LEMMA FinishSettlesOnce ==
  ASSUME PayInv, NEW r \in Checks, Finish(r)
  PROVE  SettledOnce'
<1> DEFINE t   == check[r].item.id
           row == [txs[t] EXCEPT !.status = "COMPLETED"]
<1>1. /\ IsTable(txs) /\ ChecksOK /\ SettledOnce
      /\ released \in [TxIds -> Nat] /\ credited \in [TxIds -> Nat]
      /\ contested \in [TxIds -> Nat] /\ overruled \in [TxIds -> Nat]
  BY DEF PayInv, PayTyped
<1>2. CheckOK(check[r], txs) /\ check[r].step = "finish" /\ check[r] # NoCheck
  BY <1>1 DEF Finish, ChecksOK, NoCheck
<1>3. t \in DOMAIN txs /\ IsRow(txs[t]) /\ ~MovesMoney(check[r].item.status)
  BY <1>1, <1>2 DEF CheckOK, IsTable
<1>4. /\ txs' = [txs EXCEPT ![t] = row] /\ overruled' = overruled
      /\ contested' = IF Decided(t) THEN [contested EXCEPT ![t] = @ + 1] ELSE contested
      /\ \/ released' = [released EXCEPT ![t] = @ + 1] /\ credited' = credited
         \/ released' = released /\ credited' = [credited EXCEPT ![t] = @ + 1]
         \/ released' = released /\ credited' = credited
  BY <1>3 DEF Finish
<1>5. IsRow(row) /\ MovesMoney(row.status)
  BY <1>3 DEF IsRow, MovesMoney
<1> HIDE DEF row
<1>6. /\ DOMAIN txs' = DOMAIN txs
      /\ \A k \in DOMAIN txs : txs'[k] = IF k = t THEN row ELSE txs[k]
  BY <1>1, <1>4, <1>5, TableUpdates
<1> HIDE DEF t
<1> SUFFICES ASSUME NEW k \in TxIds
             PROVE  Moves(k)' <= 1 + Excused(k)' /\ (Open(k)' => Moves(k)' <= Excused(k)')
  BY DEF SettledOnce
<1>7. /\ Moves(k) <= 1 + Excused(k) /\ (Open(k) => Moves(k) <= Excused(k))
      /\ Moves(k) \in Nat /\ Excused(k) \in Nat
  BY <1>1 DEF SettledOnce, Moves, Excused
<1>8. CASE k # t
  <2>1. Moves(k)' = Moves(k) /\ Excused(k)' = Excused(k)
    BY <1>1, <1>4, <1>8 DEF Moves, Excused
  <2>2. Open(k)' => Open(k)
    BY <1>6, <1>8 DEF Open, Decided
  <2> QED BY <1>7, <2>1, <2>2
<1>9. CASE k = t
  <2>1. ~Open(k)'
    BY <1>3, <1>5, <1>6, <1>9 DEF Open, Decided
  <2>2. Moves(k)' \in {Moves(k), Moves(k) + 1}
    BY <1>1, <1>4, <1>9 DEF Moves
  <2>3. Excused(k)' = IF Decided(k) THEN Excused(k) + 1 ELSE Excused(k)
    BY <1>1, <1>4, <1>9 DEF Excused
  <2>4. Open(k) <=> ~Decided(k)
    BY <1>3, <1>9 DEF Open
  <2> QED BY <1>7, <2>1, <2>2, <2>3, <2>4
<1> QED BY <1>8, <1>9

LEMMA CheckSteps ==
  ASSUME PayInv, CheckNext
  PROVE  PayInv'
<1>1. IsTable(txs) /\ IsSeq(chain) /\ jobs \in Seq(DOMAIN txs) /\ ChecksOK /\ PayTyped
  BY DEF PayInv, PayTyped
<1>2. UNCHANGED <<chain, cashRows, request, jobs, processor, sent, broken>>
  BY DEF CheckNext, CheckStep, StartCheck, CountConfirmations, Finish, EndCheck, CheckFails,
         ledgerVars, withdrawalVars, chainVars, payoutVars, cashTable
<1>3. ASSUME NEW r \in Checks, StartCheck(r)
      PROVE  PayInv'
  <2> DEFINE q == [step |-> "count",
                   todo |-> {[id |-> t, hash |-> txs[t].hash, status |-> txs[t].status]
                               : t \in Confirmable}]
  <2>1. check' = [check EXCEPT ![r] = q] /\ UNCHANGED <<txs, txHistory>>
    BY <1>3 DEF StartCheck, ledgerVars
  <2>2. \A x \in q.todo : x.id \in Confirmable /\ ~MovesMoney(x.status)
    BY DEF Confirmable, MovesMoney
  <2>3. \A x, y \in q.todo : x.id = y.id => x = y
    OBVIOUS
  <2>4. CheckOK(q, txs')
    BY <2>1, <2>2, <2>3 DEF CheckOK, Confirmable
  <2> HIDE DEF q
  <2>6. IsTable(txs') /\ Kept(txs, txs') /\ NotReopened(txs, txs')
    BY <1>1, <2>1, SameTable
  <2> QED BY <1>2, <2>1, <2>4, <2>6, OnlyCheck
<1>4. ASSUME NEW r \in Checks, CountConfirmations(r)
      PROVE  PayInv'
  <2>1. PICK x \in check[r].todo :
          /\ txs' = [txs EXCEPT ![x.id].confirmations = Capped(Confirmations(x.hash))]
          /\ check' = [check EXCEPT ![r] =
               IF Confirmations(x.hash) >= Required
               THEN [step |-> "finish", todo |-> check[r].todo \ {x}, item |-> x]
               ELSE [step |-> "count", todo |-> check[r].todo \ {x}]]
    BY <1>4 DEF CountConfirmations
  <2> DEFINE row == [txs[x.id] EXCEPT !.confirmations = Capped(Confirmations(x.hash))]
             q   == IF Confirmations(x.hash) >= Required
                    THEN [step |-> "finish", todo |-> check[r].todo \ {x}, item |-> x]
                    ELSE [step |-> "count", todo |-> check[r].todo \ {x}]
  <2>2. txs' = [txs EXCEPT ![x.id] = row] /\ check' = [check EXCEPT ![r] = q] /\ UNCHANGED txHistory
    BY <1>4, <2>1 DEF CountConfirmations
  <2>3. CheckOK(check[r], txs) /\ check[r].step = "count" /\ check[r] # NoCheck
    BY <1>1, <1>4 DEF CountConfirmations, ChecksOK, NoCheck
  <2>4. IsRow(row) /\ row.hash = txs[x.id].hash /\ row.status = txs[x.id].status
    BY <1>1, <2>3 DEF CheckOK, IsTable, IsRow
  <2> HIDE DEF row
  <2>5. IsTable(txs') /\ Kept(txs, txs') /\ NotReopened(txs, txs')
    BY <1>1, <2>2, <2>4, RowChanges
  <2>6. CheckOK(q, txs)
    BY <2>3 DEF CheckOK
  <2> HIDE DEF q
  <2>8. CheckOK(q, txs')
    BY <2>5, <2>6 DEF CheckOK, Kept
  <2> QED BY <1>2, <2>2, <2>5, <2>8, OnlyCheck
<1>5. ASSUME NEW r \in Checks, Finish(r)
      PROVE  PayInv'
  <2> DEFINE t   == check[r].item.id
             row == [txs[t] EXCEPT !.status = "COMPLETED"]
             q   == [step |-> "count", todo |-> check[r].todo]
  <2>1. /\ txs' = [txs EXCEPT ![t] = row] /\ check' = [check EXCEPT ![r] = q]
        /\ released' \in {released, [released EXCEPT ![t] = @ + 1]}
        /\ credited' \in {credited, [credited EXCEPT ![t] = @ + 1]}
        /\ contested' \in {contested, [contested EXCEPT ![t] = @ + 1]} /\ overruled' = overruled
    BY <1>5 DEF Finish
  <2>2. CheckOK(check[r], txs) /\ check[r].step = "finish" /\ check[r] # NoCheck
    BY <1>1, <1>5 DEF Finish, ChecksOK, NoCheck
  <2>3. t \in DOMAIN txs /\ IsRow(row) /\ row.hash = txs[t].hash /\ MovesMoney(row.status)
    BY <1>1, <2>2 DEF CheckOK, IsTable, IsRow, MovesMoney
  <2>4. CheckOK(q, txs)
    BY <2>2 DEF CheckOK
  <2> HIDE DEF row, q
  <2>5. IsTable(txs') /\ Kept(txs, txs') /\ NotReopened(txs, txs')
    BY <1>1, <2>1, <2>3, RowChanges
  <2>6. CheckOK(q, txs')
    BY <2>4, <2>5 DEF CheckOK, Kept
  <2>7. ChecksOK'
    BY <1>1, <2>1, <2>5, <2>6, CheckMoves
  <2>8. RequestsOK' /\ ProcessorOK' /\ PaidOnce' /\ jobs' \in Seq(DOMAIN txs')
    BY <1>1, <1>2, <2>5, RequestsRest, ProcessorRests, PaidRests, JobsRest DEF PayInv
  <2>9. /\ released' \in [TxIds -> Nat] /\ credited' \in [TxIds -> Nat]
        /\ contested' \in [TxIds -> Nat] /\ overruled' \in [TxIds -> Nat]
    <3> HIDE DEF t
    <3>1. /\ released \in [TxIds -> Nat] /\ credited \in [TxIds -> Nat]
          /\ contested \in [TxIds -> Nat] /\ overruled \in [TxIds -> Nat]
      BY <1>1 DEF PayTyped
    <3>2. released' \in [TxIds -> Nat]
      BY <2>1, <3>1, OneMore
    <3>3. credited' \in [TxIds -> Nat]
      BY <2>1, <3>1, OneMore
    <3>4. contested' \in [TxIds -> Nat]
      BY <2>1, <3>1, OneMore
    <3> QED BY <2>1, <3>1, <3>2, <3>3, <3>4
  <2>10. PayTyped'
    BY <1>1, <1>2, <2>5, <2>8, <2>9 DEF PayTyped
  <2> QED BY <1>5, <2>7, <2>8, <2>10, FinishSettlesOnce DEF PayInv
<1>6. ASSUME NEW r \in Checks, EndCheck(r)
      PROVE  PayInv'
  <2>1. check' = [check EXCEPT ![r] = NoCheck] /\ UNCHANGED <<txs, txHistory>>
    BY <1>6 DEF EndCheck, ledgerVars
  <2>2. CheckOK(NoCheck, txs')
    BY DEF CheckOK
  <2>3. IsTable(txs') /\ Kept(txs, txs') /\ NotReopened(txs, txs')
    BY <1>1, <2>1, SameTable
  <2> QED BY <1>2, <2>1, <2>2, <2>3, OnlyCheck
<1>7. ASSUME NEW r \in Checks, CheckFails(r)
      PROVE  PayInv'
  <2>1. CheckOK(check[r], txs) /\ check[r] # NoCheck /\ UNCHANGED <<txs, txHistory>>
    BY <1>1, <1>7 DEF CheckFails, ChecksOK, NoCheck
  <2>2. IsTable(txs') /\ Kept(txs, txs') /\ NotReopened(txs, txs')
    BY <1>1, <2>1, SameTable
  <2>3. PICK S \in SUBSET check[r].todo : check' = [check EXCEPT ![r] = [step |-> "count", todo |-> S]]
    <3>1. CASE check[r].step = "count"
      <4>1. PICK x \in check[r].todo : check' = [check EXCEPT ![r].todo = @ \ {x}]
        BY <1>7, <3>1 DEF CheckFails
      <4>2. check[r] = [step |-> "count", todo |-> check[r].todo]
        BY <2>1, <3>1 DEF CheckOK
      <4>3. [check[r] EXCEPT !.todo = @ \ {x}] = [step |-> "count", todo |-> check[r].todo \ {x}]
        BY <4>2
      <4>4. check' = [check EXCEPT ![r] = [step |-> "count", todo |-> check[r].todo \ {x}]]
        BY <4>1, <4>3
      <4> QED BY <4>4
    <3>2. CASE check[r].step = "finish"
      BY <1>7, <3>2 DEF CheckFails
    <3> QED BY <1>7, <3>1, <3>2 DEF CheckFails
  <2> DEFINE q == [step |-> "count", todo |-> S]
  <2>4. CheckOK(q, txs')
    BY <2>1 DEF CheckOK
  <2>6. check' = [check EXCEPT ![r] = q]
    BY <2>3
  <2> HIDE DEF q
  <2> QED BY <1>2, <2>1, <2>2, <2>4, <2>6, OnlyCheck
<1> QED BY <1>3, <1>4, <1>5, <1>6, <1>7 DEF CheckNext, CheckStep

------------------------------------------------------------------------------
(***************************************************************************)
(* The specification                                                       *)
(***************************************************************************)
LEMMA RestartStep ==
  ASSUME PayInv, RestartPayments
  PROVE  PayInv'
<1>1. PayTyped /\ RequestsOK /\ ProcessorOK /\ ChecksOK /\ SettledOnce
  BY DEF PayInv
<1>2. /\ request' = [c \in Clients |-> NoRequest] /\ check' = [r \in Checks |-> NoCheck]
      /\ jobs' = IF processor = NoPayout THEN jobs ELSE <<processor.id>> \o jobs
      /\ processor' = NoPayout /\ broken' = Unrecorded
      /\ UNCHANGED <<txs, chain, cashRows, sent, released, credited, contested, overruled>>
  BY DEF RestartPayments, cashTable, txHistory, chainVars
<1>3. jobs' \in Seq(DOMAIN txs)
  <2>1. CASE processor = NoPayout
    BY <1>1, <1>2, <2>1 DEF PayTyped
  <2>2. CASE processor # NoPayout
    <3>1. <<processor.id>> \in Seq(DOMAIN txs)
      BY <1>1, <2>2 DEF ProcessorOK
    <3> QED BY <1>1, <1>2, <2>2, <3>1, ConcatProperties DEF PayTyped
  <2> QED BY <2>1, <2>2
<1>4. broken' \in [TxIds -> Nat] /\ PaidOnce'
  BY <1>2, JobIsLost
<1>5. PayTyped'
  BY <1>1, <1>2, <1>3, <1>4 DEF PayTyped
<1>6. RequestsOK'
  BY <1>2, NoRequestOK DEF RequestsOK
<1>7. ProcessorOK' /\ ChecksOK'
  BY <1>2 DEF ProcessorOK, ChecksOK, CheckOK
<1>8. SettledOnce'
  <2>1. NotReopened(txs, txs') /\ UNCHANGED txHistory /\ \A t \in DOMAIN txs : t \in DOMAIN txs'
    BY <1>2 DEF NotReopened, txHistory
  <2> QED BY <1>1, <2>1, SettledRests
<1> QED BY <1>4, <1>5, <1>6, <1>7, <1>8 DEF PayInv

LEMMA RestingStep ==
  ASSUME PayInv, UNCHANGED payVars
  PROVE  PayInv'
<1>1. /\ UNCHANGED <<txs, cashRows, request, txHistory, chain, jobs>>
      /\ UNCHANGED <<processor, sent, broken, check>>
  BY DEF payVars, ledgerVars, cashTable, txHistory, withdrawalVars, chainVars, payoutVars
<1>2. IsTable(txs) /\ IsSeq(chain)
  BY DEF PayInv, PayTyped
<1>3. IsTable(txs') /\ Kept(txs, txs') /\ NotReopened(txs, txs') /\ IsSeq(chain')
  BY <1>1, <1>2, SameTable
<1> QED BY <1>1, <1>3, NoRequestMoves

LEMMA InitOK ==
  ASSUME PayInit
  PROVE  PayInv
<1>1. /\ txs = <<>> /\ chain = <<>> /\ jobs = <<>> /\ processor = NoPayout
      /\ request = [c \in Clients |-> NoRequest] /\ check = [r \in Checks |-> NoCheck]
      /\ sent = [t \in TxIds |-> 0] /\ broken = [t \in TxIds |-> 0]
      /\ released = [t \in TxIds |-> 0] /\ credited = [t \in TxIds |-> 0]
      /\ contested = [t \in TxIds |-> 0] /\ overruled = [t \in TxIds |-> 0]
      /\ cashRows = OpeningRows
  BY DEF PayInit, LedgerInit, WithdrawalInit
<1>2. IsTable(txs) /\ IsSeq(chain)
  BY <1>1 DEF IsTable, IsSeq
<1>3. PayTyped
  BY <1>1, <1>2, PaymentAssumption DEF PayTyped
<1>4. RequestsOK
  BY <1>1, NoRequestOK DEF RequestsOK
<1>5. ProcessorOK /\ ChecksOK /\ PaidOnce /\ SettledOnce
  BY <1>1 DEF ProcessorOK, ChecksOK, CheckOK, PaidOnce, SettledOnce, Moves, Excused
<1> QED BY <1>3, <1>4, <1>5 DEF PayInv

LEMMA NextKeepsInv ==
  ASSUME PayInv, [PayNext]_payVars
  PROVE  PayInv'
<1>1. CASE PayRest \/ UNCHANGED payVars
  BY <1>1, RestingStep DEF PayRest
<1>2. CASE CashNext \/ SweepNext \/ AdminNext \/ WithdrawNext
  BY <1>2, CashSteps, SweepSteps, AdminSteps, WithdrawSteps
<1>3. CASE PayoutNext \/ GasNext \/ RestartPayments
  BY <1>3, PayoutSteps, GasSteps, RestartStep
<1>4. CASE MineNext \/ BlockNext \/ ReceiveNext \/ ScanNext \/ CheckNext
  BY <1>4, ChainSteps, ScanSteps, CheckSteps
<1> QED BY <1>1, <1>2, <1>3, <1>4 DEF PayNext

LEMMA PaymentsInvariant == PaySpec => []PayInv
<1>1. PayInit => PayInv
  BY InitOK
<1>2. PayInv /\ [PayNext]_payVars => PayInv'
  BY NextKeepsInv
<1> QED BY <1>1, <1>2, PTL DEF PaySpec

\* A withdrawal is paid out a second time only after a payout whose hash was
\* never written to its row: whatever happens to the job, its processor, the
\* row and the backend in between, a stored hash keeps the money from leaving
\* the treasury again by this way.
THEOREM PaidOncePerLoss == PaySpec => []PaidAgainAfterBreak
<1>1. PayInv => PaidAgainAfterBreak
  BY DEF PayInv, PaidOnce, PaidAgainAfterBreak
<1> QED BY <1>1, PaymentsInvariant, PTL

\* The amount of a transaction is posted once. For each further posting a run of
\* TransactionsCron completed a row that was decided after the run had read it as
\* PENDING, or an administrator wrote over a decided row: it is counted, not
\* excused for good, so that neither lets anybody else post the row again. The
\* two writes themselves (the repeated update of an administrator among them) are
\* what the code lets happen; that is not denied here.
THEOREM PostedOnce == PaySpec => []MovedOnce
<1>1. PayInv => MovedOnce
  <2> SUFFICES ASSUME PayInv, NEW t \in TxIds
               PROVE  released[t] + credited[t] <= 1 + contested[t] + overruled[t]
    BY DEF MovedOnce
  <2>1. /\ Moves(t) <= 1 + Excused(t) /\ contested \in [TxIds -> Nat] /\ overruled \in [TxIds -> Nat]
    BY DEF PayInv, PayTyped, SettledOnce
  <2> QED BY <2>1 DEF Moves, Excused
<1> QED BY <1>1, PaymentsInvariant, PTL

------------------------------------------------------------------------------
(***************************************************************************)
(* What is locked: what the rows of the table say of money                 *)
(***************************************************************************)
LogsType == Seq([from : Nat, amount : Nat])

\* A transfer inside the exchange never gets a hash.
RowOK(row) ==
  /\ {"type", "user", "amount", "status", "hash"} \subseteq DOMAIN row
  /\ row.type \in TxTypes /\ row.amount \in Int
  /\ row.type = "TRANSFER" => row.hash = 0

TableOK(table) ==
  IsTable(table) /\ Len(table) <= MaxTxs /\ \A t \in DOMAIN table : RowOK(table[t])

\* What a row says of money it says for ever; only withdrawals change their hash.
Continues(old, new) ==
  \A t \in DOMAIN old :
    /\ t \in DOMAIN new
    /\ new[t].type = old[t].type /\ new[t].user = old[t].user /\ new[t].amount = old[t].amount
    /\ new[t].hash = old[t].hash \/ old[t].type = "WITHDRAW"

\* A request that has locked carries what it was asked for, one that replaces a
\* payout has read a withdrawal.
AskedOK(q, table) ==
  /\ q.step = "withdraw" => q.asked \in WithdrawRequests
  /\ q.step \in {"speedUp", "storeSpeedUp"} => table[q.id].type = "WITHDRAW"
  /\ q.step = "sweep" => \A u \in DOMAIN q.read : q.read[u] \in Int
RequestsAsked == \A c \in Clients : AskedOK(request[c], txs)

PaysWithdrawal == processor # NoPayout => txs[processor.id].type = "WITHDRAW"

\* The cron holds rows that had a hash.
Completes(q, table) ==
  q # NoCheck =>
    /\ \A x \in q.todo : table[x.id].type # "TRANSFER"
    /\ q.step = "finish" => table[q.item.id].type # "TRANSFER"
ChecksComplete == \A r \in Checks : Completes(check[r], txs)

CashRow == [available : Int, locked : Int]
MoneyTyped ==
  /\ cash \in [Payers -> CashRow]
  /\ orphanedCash \in [Payers -> Int]
  /\ \A t \in TxIds : t \notin DOMAIN txs => released[t] = 0

ChainTyped ==
  /\ height \in Nat
  /\ \A i \in DOMAIN chain :
       /\ {"kind", "logs", "block"} \subseteq DOMAIN chain[i]
       /\ chain[i].logs \in LogsType /\ Len(chain[i].logs) <= MaxLogs
       /\ chain[i].logs # <<>> => ~OfTreasury(chain[i]) /\ chain[i].block \in 1 .. height

\* The transfers a scan may still have to look at.
Logs == {l \in [hash : DOMAIN chain, log : 1 .. MaxLogs] : l.log \in DOMAIN chain[l.hash].logs}

ScanOK(q) ==
  \/ q = NoScan
  \/ /\ q = [step |-> "scan", from |-> q.from, to |-> q.to, todo |-> q.todo]
     /\ q.from \in 0 .. height /\ q.to \in q.from .. height /\ q.todo \subseteq Logs
ScansTyped ==
  /\ cursor \in {NoCursor} \cup (0 .. height)
  /\ DOMAIN scan = Scans /\ \A s \in Scans : ScanOK(scan[s])

LedgerInv ==
  /\ PayInv /\ TableOK(txs) /\ RequestsAsked /\ PaysWithdrawal /\ ChecksComplete /\ MoneyTyped
  /\ ChainTyped /\ ScansTyped

\* The sums of LockedIsExplained, over all requests and all rows.
Asks(q, u) == IF q.step = "withdraw" /\ q.asked.user = u THEN q.asked.amount ELSE 0
InFlightOf(requests, u) == [c \in Clients |-> Asks(requests[c], u)]
OwedTo(table, done, u) ==
  [t \in TxIds |-> IF t \in DOMAIN table /\ table[t].user = u
                   THEN table[t].amount * ((IF table[t].type = "WITHDRAW" THEN 1 ELSE 0) - done[t])
                   ELSE 0]
Balanced ==
  \A u \in Payers :
    cash[u].locked = OpeningCash[u].locked + SumFunctionOnSet(InFlightOf(request, u), Clients)
                     + orphanedCash[u] + SumFunctionOnSet(OwedTo(txs, released, u), TxIds)

------------------------------------------------------------------------------
(***************************************************************************)
(* The table                                                               *)
(***************************************************************************)
LEMMA TableDomain ==
  ASSUME NEW table, TableOK(table)
  PROVE  /\ Len(table) \in Nat /\ DOMAIN table = 1 .. Len(table) /\ DOMAIN table \subseteq TxIds
         /\ Len(table) + 1 \notin DOMAIN table
<1>1. Len(table) \in Nat /\ DOMAIN table = 1 .. Len(table)
  BY SeqLength DEF TableOK, IsTable
<1>2. MaxTxs \in Nat /\ Len(table) <= MaxTxs
  BY PaymentAssumption DEF TableOK
<1> QED BY <1>1, <1>2 DEF TxIds

LEMMA NewRowOK ==
  ASSUME NEW type \in TxTypes, NEW user, NEW amount \in Int, NEW status, NEW hash, NEW key,
         type = "TRANSFER" => hash = 0
  PROVE  LET row == TxRow(type, user, amount, status, hash, key)
         IN  RowOK(row) /\ row.type = type /\ row.user = user /\ row.amount = amount /\ row.hash = hash
BY DEF RowOK, TxRow

LEMMA RowAppended ==
  ASSUME NEW old, TableOK(old), NEW row, RowOK(row), Len(old) + 1 <= MaxTxs,
         NEW new, new = Append(old, row)
  PROVE  /\ TableOK(new) /\ Continues(old, new)
         /\ DOMAIN new = DOMAIN old \cup {Len(old) + 1}
         /\ \A t \in DOMAIN old : new[t] = old[t]
         /\ \A t \in DOMAIN new \ DOMAIN old : new[t] = row
<1>1. IsSeq(old) /\ IsTable(old) /\ IsRow(row)
  BY DEF TableOK, IsTable, RowOK, IsRow
<1>2. /\ Len(new) = Len(old) + 1
      /\ \A i \in DOMAIN old : i \in DOMAIN new /\ new[i] = old[i]
      /\ \A i \in DOMAIN new \ DOMAIN old : new[i] = row
  <2>1. Len(new) = Len(old) + 1
    BY <1>1, SeqAppend
  <2>2. \A i \in DOMAIN old : i \in DOMAIN new /\ new[i] = old[i]
    BY <1>1, SeqAppend
  <2>3. \A i \in DOMAIN new \ DOMAIN old : new[i] = row
    BY <1>1, SeqAppend
  <2> QED BY <2>1, <2>2, <2>3
<1>3. IsTable(new)
  BY <1>1, TableAppends
<1>4. /\ Len(old) \in Nat /\ DOMAIN old = 1 .. Len(old)
      /\ DOMAIN new = 1 .. Len(old) + 1
  BY <1>1, <1>2, <1>3, SeqLength DEF IsTable
<1>5. ASSUME NEW t \in DOMAIN new
      PROVE  RowOK(new[t])
  <2>1. CASE t \in DOMAIN old
    BY <1>2, <2>1 DEF TableOK
  <2>2. CASE t \notin DOMAIN old
    BY <1>2, <2>2
  <2> QED BY <2>1, <2>2
<1>6. DOMAIN new = DOMAIN old \cup {Len(old) + 1} /\ Len(old) + 1 \notin DOMAIN old
  BY <1>4
<1>7. TableOK(new)
  BY <1>2, <1>3, <1>5 DEF TableOK
<1> QED BY <1>2, <1>6, <1>7 DEF Continues

LEMMA RowsAppended ==
  ASSUME NEW old, TableOK(old), NEW rows, IsTable(rows), Len(old) + Len(rows) <= MaxTxs,
         \A i \in DOMAIN rows : RowOK(rows[i]), NEW new, new = old \o rows
  PROVE  /\ TableOK(new) /\ Continues(old, new)
         /\ \A t \in DOMAIN new \ DOMAIN old : \E i \in DOMAIN rows : new[t] = rows[i]
<1>1. IsSeq(old) /\ IsTable(old) /\ IsSeq(rows)
  BY DEF TableOK, IsTable
<1>2. /\ Len(new) = Len(old) + Len(rows)
      /\ \A i \in DOMAIN old : i \in DOMAIN new /\ new[i] = old[i]
      /\ \A i \in DOMAIN new \ DOMAIN old : \E k \in DOMAIN rows : new[i] = rows[k]
  <2>1. Len(new) = Len(old) + Len(rows)
    BY <1>1, SeqConcat
  <2>2. \A i \in DOMAIN old : i \in DOMAIN new /\ new[i] = old[i]
    BY <1>1, SeqConcat
  <2>3. \A i \in DOMAIN new \ DOMAIN old : \E k \in DOMAIN rows : new[i] = rows[k]
    BY <1>1, SeqConcat
  <2> QED BY <2>1, <2>2, <2>3
<1>3. IsTable(new)
  BY <1>1, TableGrows
<1>4. ASSUME NEW t \in DOMAIN new
      PROVE  RowOK(new[t])
  <2>1. CASE t \in DOMAIN old
    BY <1>2, <2>1 DEF TableOK
  <2>2. CASE t \notin DOMAIN old
    BY <1>2, <2>2
  <2> QED BY <2>1, <2>2
<1>5. TableOK(new)
  BY <1>2, <1>3, <1>4 DEF TableOK
<1> QED BY <1>2, <1>5 DEF Continues

LEMMA RowWritten ==
  ASSUME NEW old, TableOK(old), NEW t \in DOMAIN old, NEW row, RowOK(row),
         row.type = old[t].type, row.user = old[t].user, row.amount = old[t].amount,
         row.hash = old[t].hash \/ old[t].type = "WITHDRAW",
         NEW new, new = [old EXCEPT ![t] = row]
  PROVE  TableOK(new) /\ Continues(old, new) /\ DOMAIN new = DOMAIN old
<1>1. IsTable(old) /\ IsRow(row)
  BY DEF TableOK, RowOK, IsRow
<1>2. /\ IsTable(new) /\ DOMAIN new = DOMAIN old
      /\ \A k \in DOMAIN old : new[k] = IF k = t THEN row ELSE old[k]
  BY <1>1, TableUpdates
<1>3. Len(new) = Len(old)
  BY <1>1, <1>2, SeqLength DEF IsTable
<1>4. ASSUME NEW k \in DOMAIN new
      PROVE  RowOK(new[k])
  BY <1>2, <1>4 DEF TableOK
<1>5. TableOK(new)
  BY <1>2, <1>3, <1>4 DEF TableOK
<1> QED BY <1>2, <1>5 DEF Continues

LEMMA TableSame ==
  ASSUME TableOK(txs), UNCHANGED txs
  PROVE  TableOK(txs') /\ Continues(txs, txs')
BY DEF Continues

------------------------------------------------------------------------------
(***************************************************************************)
(* What a step leaves as it is                                             *)
(***************************************************************************)
LEMMA LedgerParts ==
  ASSUME LedgerInv
  PROVE  /\ PayInv /\ TableOK(txs) /\ RequestsAsked /\ PaysWithdrawal /\ ChecksComplete
         /\ MoneyTyped /\ ChainTyped /\ ScansTyped
         /\ RequestsOK /\ ProcessorOK /\ ChecksOK /\ cashRows \subseteq Payers
         /\ released \in [TxIds -> Nat] /\ IsSeq(chain)
BY DEF LedgerInv, PayInv, PayTyped

LEMMA AskedRests ==
  ASSUME LedgerInv, Continues(txs, txs'), UNCHANGED request
  PROVE  RequestsAsked'
<1>1. RequestsOK /\ RequestsAsked
  BY LedgerParts
<1> SUFFICES ASSUME NEW c \in Clients PROVE AskedOK(request[c], txs')
  BY DEF RequestsAsked
<1>2. AskedOK(request[c], txs) /\ RequestOK(request[c], txs)
  BY <1>1 DEF RequestsAsked, RequestsOK
<1> QED BY <1>2 DEF AskedOK, RequestOK, Continues

LEMMA AskedMoves ==
  ASSUME LedgerInv, Continues(txs, txs'), NEW c \in Clients, NEW q, AskedOK(q, txs'),
         request' = [request EXCEPT ![c] = q]
  PROVE  RequestsAsked'
<1>1. RequestsOK /\ RequestsAsked
  BY LedgerParts
<1> SUFFICES ASSUME NEW d \in Clients PROVE AskedOK(request'[d], txs')
  BY DEF RequestsAsked
<1>2. AskedOK(request[d], txs) /\ RequestOK(request[d], txs)
  BY <1>1 DEF RequestsAsked, RequestsOK
<1>3. AskedOK(request[d], txs')
  BY <1>2 DEF AskedOK, RequestOK, Continues
<1>4. request'[d] = IF d = c THEN q ELSE request[d]
  BY <1>1 DEF RequestsOK
<1> QED BY <1>3, <1>4

LEMMA PaysRests ==
  ASSUME LedgerInv, Continues(txs, txs'), UNCHANGED processor
  PROVE  PaysWithdrawal'
<1>1. ProcessorOK /\ PaysWithdrawal
  BY LedgerParts
<1> QED BY <1>1 DEF ProcessorOK, PaysWithdrawal, Continues

LEMMA CompletesGoesOn ==
  ASSUME Continues(txs, txs'), NEW q, CheckOK(q, txs), Completes(q, txs)
  PROVE  Completes(q, txs')
BY DEF CheckOK, Completes, Continues

LEMMA CompletesRests ==
  ASSUME LedgerInv, Continues(txs, txs'), UNCHANGED check
  PROVE  ChecksComplete'
<1>1. ChecksOK /\ ChecksComplete
  BY LedgerParts
<1> QED BY <1>1, CompletesGoesOn DEF ChecksOK, ChecksComplete

LEMMA CompletesMoves ==
  ASSUME LedgerInv, Continues(txs, txs'), NEW r \in Checks, NEW q, Completes(q, txs'),
         check' = [check EXCEPT ![r] = q]
  PROVE  ChecksComplete'
<1>1. ChecksOK /\ ChecksComplete
  BY LedgerParts
<1> SUFFICES ASSUME NEW d \in Checks PROVE Completes(check'[d], txs')
  BY DEF ChecksComplete
<1>2. CheckOK(check[d], txs) /\ Completes(check[d], txs)
  BY <1>1 DEF ChecksOK, ChecksComplete
<1>3. Completes(check[d], txs')
  BY <1>2, CompletesGoesOn
<1>4. check'[d] = IF d = r THEN q ELSE check[d]
  BY <1>1 DEF ChecksOK
<1> QED BY <1>3, <1>4

LEMMA MoneyRests ==
  ASSUME LedgerInv, Continues(txs, txs'), UNCHANGED <<cash, orphanedCash, released>>
  PROVE  MoneyTyped'
<1>1. MoneyTyped
  BY LedgerParts
<1> QED BY <1>1 DEF MoneyTyped, Continues

\* The chain only gets longer, and what others sent to it stays where it is.
ChainGoesOn ==
  /\ height' \in Nat /\ height <= height'
  /\ \A i \in DOMAIN chain :
       /\ i \in DOMAIN chain' /\ chain'[i].logs = chain[i].logs
       /\ chain[i].logs # <<>> => chain'[i].block = chain[i].block
  /\ \A i \in DOMAIN chain' \ DOMAIN chain :
       chain'[i].logs # <<>> => height < chain'[i].block

LEMMA ChainSame ==
  ASSUME LedgerInv, UNCHANGED chainVars
  PROVE  ChainTyped' /\ ChainGoesOn
<1>1. ChainTyped /\ UNCHANGED <<chain, height>>
  BY LedgerParts DEF chainVars
<1> QED BY <1>1 DEF ChainTyped, ChainGoesOn

LEMMA ChainAppended ==
  ASSUME LedgerInv, NEW x, chain' = Append(chain, x), height' \in Nat, height <= height',
         {"kind", "logs", "block"} \subseteq DOMAIN x, x.logs \in LogsType, Len(x.logs) <= MaxLogs,
         x.logs # <<>> => x.kind = "deposit" /\ x.block \in height + 1 .. height'
  PROVE  ChainTyped' /\ ChainGoesOn
<1>1. ChainTyped /\ IsSeq(chain)
  BY LedgerParts
<1>2. /\ \A i \in DOMAIN chain : i \in DOMAIN chain' /\ chain'[i] = chain[i]
      /\ \A i \in DOMAIN chain' \ DOMAIN chain : chain'[i] = x
  <2>1. \A i \in DOMAIN chain : i \in DOMAIN chain' /\ chain'[i] = chain[i]
    BY <1>1, SeqAppend
  <2>2. \A i \in DOMAIN chain' \ DOMAIN chain : chain'[i] = x
    BY <1>1, SeqAppend
  <2> QED BY <2>1, <2>2
<1>3. height \in Nat
  BY <1>1 DEF ChainTyped
<1>4. ASSUME NEW i \in DOMAIN chain'
      PROVE  /\ {"kind", "logs", "block"} \subseteq DOMAIN chain'[i]
             /\ chain'[i].logs \in LogsType /\ Len(chain'[i].logs) <= MaxLogs
             /\ chain'[i].logs # <<>> => ~OfTreasury(chain'[i]) /\ chain'[i].block \in 1 .. height'
  <2>1. CASE i \in DOMAIN chain
    BY <1>1, <1>2, <1>3, <2>1 DEF ChainTyped
  <2>2. CASE i \notin DOMAIN chain
    BY <1>2, <1>3, <2>2 DEF OfTreasury
  <2> QED BY <2>1, <2>2
<1>5. ChainTyped'
  BY <1>4 DEF ChainTyped
<1>6. \A i \in DOMAIN chain' \ DOMAIN chain : chain'[i].logs # <<>> => height < chain'[i].block
  BY <1>2, <1>3
<1>7. ChainGoesOn
  BY <1>2, <1>6 DEF ChainGoesOn
<1> QED BY <1>5, <1>7

LEMMA ScanGoesOn ==
  ASSUME LedgerInv, ChainGoesOn, NEW q, ScanOK(q)
  PROVE  ScanOK(q)'
<1>1. height \in Nat /\ height' \in Nat /\ height <= height'
  BY LedgerParts DEF ChainTyped, ChainGoesOn
<1>2. Logs \subseteq Logs'
  BY DEF Logs, ChainGoesOn
<1> QED BY <1>1, <1>2 DEF ScanOK

LEMMA ScansRest ==
  ASSUME LedgerInv, ChainGoesOn, UNCHANGED <<cursor, scan>>
  PROVE  ScansTyped'
<1>1. ScansTyped /\ height \in Nat /\ height' \in Nat /\ height <= height'
  BY LedgerParts DEF ChainTyped, ChainGoesOn
<1>2. \A s \in Scans : ScanOK(scan[s])'
  BY <1>1, ScanGoesOn DEF ScansTyped
<1>3. cursor' \in {NoCursor} \cup (0 .. height')
  BY <1>1 DEF ScansTyped
<1> QED BY <1>1, <1>2, <1>3 DEF ScansTyped

------------------------------------------------------------------------------
(***************************************************************************)
(* Steps that lock and unlock nothing                                      *)
(***************************************************************************)
LEMMA WeightsSame ==
  ASSUME LedgerInv, NEW c \in Clients, NEW q, request' = [request EXCEPT ![c] = q],
         request[c].step # "withdraw", q.step # "withdraw"
  PROVE  \A u : InFlightOf(request', u) = InFlightOf(request, u)
<1>1. \A d \in Clients : request'[d] = IF d = c THEN q ELSE request[d]
  BY LedgerParts DEF RequestsOK
<1> QED BY <1>1 DEF InFlightOf, Asks

LEMMA OwedSame ==
  ASSUME LedgerInv, Continues(txs, txs'), TableOK(txs'), UNCHANGED released,
         \A t \in DOMAIN txs' \ DOMAIN txs : txs'[t].type # "WITHDRAW"
  PROVE  \A u : OwedTo(txs', released', u) = OwedTo(txs, released, u)
<1>1. MoneyTyped /\ DOMAIN txs' \subseteq TxIds /\ released \in [TxIds -> Nat]
  BY LedgerParts, TableDomain
<1> SUFFICES ASSUME NEW u, NEW t \in TxIds
             PROVE  OwedTo(txs', released', u)[t] = OwedTo(txs, released, u)[t]
  BY DEF OwedTo
<1>2. CASE t \in DOMAIN txs
  BY <1>2 DEF OwedTo, Continues
<1>3. CASE t \in DOMAIN txs' \ DOMAIN txs
  <2>1. released[t] = 0 /\ txs'[t].type # "WITHDRAW" /\ txs'[t].amount \in Int
    BY <1>1, <1>3 DEF MoneyTyped, TableOK, RowOK
  <2>2. txs'[t].amount * (0 - 0) = 0
    BY <2>1
  <2> QED BY <1>3, <2>1, <2>2 DEF OwedTo
<1>4. CASE t \notin DOMAIN txs'
  BY <1>4 DEF OwedTo, Continues
<1> QED BY <1>2, <1>3, <1>4

\* What each posting does to a cash row.
LEMMA CreditKeepsLocked ==
  ASSUME NEW row \in CashRow, NEW n \in Int
  PROVE  LET new == CashAfter(row, CashPosting("credit", n, FALSE))
         IN  new \in CashRow /\ new.locked = row.locked
<1> DEFINE q == CashPosting("credit", n, FALSE)
<1>1. q.kind = "credit" /\ q.amount = n /\ q.useLocked = FALSE /\ q.useAvailable = ~FALSE
  BY DEF CashPosting
<1> HIDE DEF q
<1>2. Effect(q) = [available |-> n, locked |-> 0]
  BY <1>1 DEF Effect
<1>3. row.locked \in Int /\ row.available \in Int
  BY DEF CashRow
<1>4. CashAfter(row, q).available \in Int /\ CashAfter(row, q).locked = row.locked
  BY <1>2, <1>3 DEF CashAfter
<1>5. CashAfter(row, q) \in CashRow
  BY <1>2, <1>3 DEF CashAfter, CashRow
<1> QED BY <1>4, <1>5 DEF q

LEMMA DebitKeepsLocked ==
  ASSUME NEW row \in CashRow, NEW n \in Int
  PROVE  LET new == CashAfter(row, CashPosting("debit", n, FALSE))
         IN  new \in CashRow /\ new.locked = row.locked
<1> DEFINE q == CashPosting("debit", n, FALSE)
<1>1. q.kind = "debit" /\ q.amount = n /\ q.useLocked = FALSE /\ q.useAvailable = ~FALSE
  BY DEF CashPosting
<1> HIDE DEF q
<1>2. Effect(q) = [available |-> -n, locked |-> -0]
  BY <1>1 DEF Effect
<1>3. row.locked \in Int /\ row.available \in Int
  BY DEF CashRow
<1>4. CashAfter(row, q).available \in Int /\ CashAfter(row, q).locked = row.locked
  BY <1>2, <1>3 DEF CashAfter
<1>5. CashAfter(row, q) \in CashRow
  BY <1>2, <1>3 DEF CashAfter, CashRow
<1> QED BY <1>4, <1>5 DEF q

LEMMA DebitUnlocks ==
  ASSUME NEW row \in CashRow, NEW n \in Int
  PROVE  LET new == CashAfter(row, CashPosting("debit", n, TRUE))
         IN  new \in CashRow /\ new.locked = row.locked - n
<1> DEFINE q == CashPosting("debit", n, TRUE)
<1>1. q.kind = "debit" /\ q.amount = n /\ q.useLocked = TRUE /\ q.useAvailable = ~TRUE
  BY DEF CashPosting
<1> HIDE DEF q
<1>2. Effect(q) = [available |-> -0, locked |-> -n]
  BY <1>1 DEF Effect
<1>3. row.locked \in Int /\ row.available \in Int
  BY DEF CashRow
<1>4. CashAfter(row, q).available \in Int /\ CashAfter(row, q).locked = row.locked - n
  BY <1>2, <1>3 DEF CashAfter
<1>5. CashAfter(row, q) \in CashRow
  BY <1>2, <1>3 DEF CashAfter, CashRow
<1> QED BY <1>4, <1>5 DEF q

LEMMA LockLocks ==
  ASSUME NEW row \in CashRow, NEW n \in Int
  PROVE  LET new == CashAfter(row, CashPosting("lock", n, FALSE))
         IN  new \in CashRow /\ new.locked = row.locked + n
<1> DEFINE q == CashPosting("lock", n, FALSE)
<1>1. q.kind = "lock" /\ q.amount = n /\ q.useLocked = FALSE /\ q.useAvailable = ~FALSE
  BY DEF CashPosting
<1> HIDE DEF q
<1>2. Effect(q) = [available |-> -n, locked |-> n]
  BY <1>1 DEF Effect
<1>3. row.locked \in Int /\ row.available \in Int
  BY DEF CashRow
<1>4. CashAfter(row, q).available \in Int /\ CashAfter(row, q).locked = row.locked + n
  BY <1>2, <1>3 DEF CashAfter
<1>5. CashAfter(row, q) \in CashRow
  BY <1>2, <1>3 DEF CashAfter, CashRow
<1> QED BY <1>4, <1>5 DEF q

LEMMA UnlockUnlocks ==
  ASSUME NEW row \in CashRow, NEW n \in Int
  PROVE  LET new == CashAfter(row, CashPosting("unlock", n, FALSE))
         IN  new \in CashRow /\ new.locked = row.locked - n
<1> DEFINE q == CashPosting("unlock", n, FALSE)
<1>1. q.kind = "unlock" /\ q.amount = n /\ q.useLocked = FALSE /\ q.useAvailable = ~FALSE
  BY DEF CashPosting
<1> HIDE DEF q
<1>2. Effect(q) = [available |-> n, locked |-> -n]
  BY <1>1 DEF Effect
<1>3. row.locked \in Int /\ row.available \in Int
  BY DEF CashRow
<1>4. CashAfter(row, q).available \in Int /\ CashAfter(row, q).locked = row.locked - n
  BY <1>2, <1>3 DEF CashAfter
<1>5. CashAfter(row, q) \in CashRow
  BY <1>2, <1>3 DEF CashAfter, CashRow
<1> QED BY <1>4, <1>5 DEF q

\* Posting an amount on either side of a row leaves a row.
LEMMA CashRowMoves ==
  ASSUME NEW old \in CashRow, NEW n \in Int
  PROVE  LET more == [old EXCEPT !.available = @ + n]
             less == [old EXCEPT !.locked = @ - n]
         IN  /\ more \in CashRow /\ more.locked = old.locked
             /\ less \in CashRow /\ less.locked = old.locked - n
<1> DEFINE more == [old EXCEPT !.available = @ + n]
           less == [old EXCEPT !.locked = @ - n]
<1>1. more = [available |-> old.available + n, locked |-> old.locked]
  BY DEF CashRow
<1>2. less = [available |-> old.available, locked |-> old.locked - n]
  BY DEF CashRow
<1>3. old.available + n \in Int /\ old.locked \in Int /\ old.available \in Int /\ old.locked - n \in Int
  BY DEF CashRow
<1>4. more \in CashRow /\ more.locked = old.locked
  BY <1>1, <1>3 DEF CashRow
<1>5. less \in CashRow /\ less.locked = old.locked - n
  BY <1>2, <1>3 DEF CashRow
<1> QED BY <1>4, <1>5

\* A posting on one row.
LEMMA RowPosted ==
  ASSUME NEW f, f \in [Payers -> CashRow], NEW u \in Payers, NEW row \in CashRow,
         NEW g, g = [f EXCEPT ![u] = row]
  PROVE  /\ g \in [Payers -> CashRow] /\ g[u].locked = row.locked
         /\ \A v \in Payers \ {u} : g[v].locked = f[v].locked
OBVIOUS

\* What every step does, to be shown of each.
Goes == LedgerInv' /\ Continues(txs, txs') /\ ChainGoesOn /\ (Balanced => Balanced')

LEMMA QuietStep ==
  ASSUME LedgerInv, PayInv', Continues(txs, txs'), TableOK(txs'),
         \A t \in DOMAIN txs' \ DOMAIN txs : txs'[t].type # "WITHDRAW",
         RequestsAsked', PaysWithdrawal', ChecksComplete', ChainTyped', ChainGoesOn, ScansTyped',
         cash' \in [Payers -> CashRow],
         \A u \in Payers : cash'[u].locked = cash[u].locked,
         \A u : InFlightOf(request', u) = InFlightOf(request, u),
         UNCHANGED <<orphanedCash, released>>
  PROVE  Goes
<1>1. MoneyTyped'
  BY LedgerParts DEF MoneyTyped, Continues
<1>2. LedgerInv'
  BY <1>1 DEF LedgerInv
<1>3. \A u : OwedTo(txs', released', u) = OwedTo(txs, released, u)
  BY OwedSame
<1>4. Balanced => Balanced'
  BY <1>3 DEF Balanced
<1> QED BY <1>2, <1>4 DEF Goes

\* No row and no money is written.
LEMMA NoRowStep ==
  ASSUME LedgerInv, PayInv', RequestsAsked', PaysWithdrawal', ChecksComplete',
         ChainTyped', ChainGoesOn, ScansTyped',
         \A u : InFlightOf(request', u) = InFlightOf(request, u),
         UNCHANGED <<txs, cash, orphanedCash, released>>
  PROVE  Goes
<1>1. TableOK(txs') /\ Continues(txs, txs')
  BY LedgerParts, TableSame
<1>2. cash' \in [Payers -> CashRow]
  BY LedgerParts DEF MoneyTyped
<1> QED BY <1>1, <1>2, QuietStep

\* A request that reads or ends and whatever it has sent.
LEMMA RequestStep ==
  ASSUME LedgerInv, PayInv', NEW c \in Clients, NEW q, AskedOK(q, txs),
         request' = [request EXCEPT ![c] = q], request[c].step # "withdraw", q.step # "withdraw",
         ChainTyped', ChainGoesOn,
         UNCHANGED <<txs, processor, check, cursor, scan, cash, orphanedCash, released>>
  PROVE  Goes
<1>1. Continues(txs, txs')
  BY LedgerParts, TableSame
<1>2. AskedOK(q, txs')
  OBVIOUS
<1>3. RequestsAsked' /\ PaysWithdrawal' /\ ChecksComplete' /\ ScansTyped'
  BY <1>1, <1>2, AskedMoves, PaysRests, CompletesRests, ScansRest
<1>4. \A u : InFlightOf(request', u) = InFlightOf(request, u)
  BY WeightsSame
<1> QED BY <1>3, <1>4, NoRowStep

\* Nothing but the processor and the chain moves.
LEMMA ProcessorStep ==
  ASSUME LedgerInv, PayInv', PaysWithdrawal', ChainTyped', ChainGoesOn,
         UNCHANGED <<txs, request, check, cursor, scan, cash, orphanedCash, released>>
  PROVE  Goes
<1>1. Continues(txs, txs')
  BY LedgerParts, TableSame
<1>2. RequestsAsked' /\ ChecksComplete' /\ ScansTyped'
  BY <1>1, AskedRests, CompletesRests, ScansRest
<1> QED BY <1>2, NoRowStep

\* Nothing that any of this is about, but the chain.
LEMMA SilentStep ==
  ASSUME LedgerInv, PayInv', ChainTyped', ChainGoesOn,
         UNCHANGED <<txs, request, processor, check, cursor, scan, cash, orphanedCash, released>>
  PROVE  Goes
<1>1. Continues(txs, txs')
  BY LedgerParts, TableSame
<1>2. PaysWithdrawal'
  BY <1>1, PaysRests
<1> QED BY <1>2, ProcessorStep

\* A row is written, and money that was not locked moves.
LEMMA RowStep ==
  ASSUME LedgerInv, PayInv', NEW t \in DOMAIN txs, NEW row, RowOK(row),
         row.type = txs[t].type, row.user = txs[t].user, row.amount = txs[t].amount,
         row.hash = txs[t].hash \/ txs[t].type = "WITHDRAW",
         txs' = [txs EXCEPT ![t] = row],
         Continues(txs, txs') => RequestsAsked' /\ PaysWithdrawal' /\ ChecksComplete',
         \A u : InFlightOf(request', u) = InFlightOf(request, u),
         cash' \in [Payers -> CashRow], \A u \in Payers : cash'[u].locked = cash[u].locked,
         UNCHANGED <<chainVars, cursor, scan, orphanedCash, released>>
  PROVE  Goes
<1>1. TableOK(txs') /\ Continues(txs, txs') /\ DOMAIN txs' = DOMAIN txs
  BY LedgerParts, RowWritten
<1>2. ChainTyped' /\ ChainGoesOn
  BY ChainSame
<1>3. ScansTyped'
  BY <1>2, ScansRest
<1> QED BY <1>1, <1>2, <1>3, QuietStep

------------------------------------------------------------------------------
(***************************************************************************)
(* Steps that lock and unlock                                              *)
(***************************************************************************)
LEMMA WeightsTyped ==
  ASSUME LedgerInv
  PROVE  /\ \A u : \A c \in Clients : InFlightOf(request, u)[c] \in Int
         /\ \A u : \A t \in TxIds : OwedTo(txs, released, u)[t] \in Int
<1>1. RequestsAsked /\ TableOK(txs) /\ released \in [TxIds -> Nat]
  BY LedgerParts
<1>2. ASSUME NEW u, NEW c \in Clients
      PROVE  InFlightOf(request, u)[c] \in Int
  <2>1. request[c].step = "withdraw" => request[c].asked.amount \in Int
    BY <1>1, WithdrawalAssumption DEF RequestsAsked, AskedOK
  <2> QED BY <2>1 DEF InFlightOf, Asks
<1>3. ASSUME NEW u, NEW t \in TxIds
      PROVE  OwedTo(txs, released, u)[t] \in Int
  <2>1. t \in DOMAIN txs => txs[t].amount \in Int
    BY <1>1 DEF TableOK, RowOK
  <2>2. \A k \in {0, 1} : t \in DOMAIN txs => txs[t].amount * (k - released[t]) \in Int
    BY <1>1, <2>1
  <2> QED BY <2>2 DEF OwedTo
<1> QED BY <1>2, <1>3

LEMMA BoundedTxIds == IsFiniteSet(TxIds) /\ IsFiniteSet(Clients)
BY FS_Interval, PaymentAssumption DEF TxIds

SumsAreInt ==
  \A u : /\ SumFunctionOnSet(InFlightOf(request, u), Clients) \in Int
        /\ SumFunctionOnSet(OwedTo(txs, released, u), TxIds) \in Int

LEMMA SumsTyped == LedgerInv => SumsAreInt
<1> SUFFICES ASSUME LedgerInv, NEW u
             PROVE  /\ SumFunctionOnSet(InFlightOf(request, u), Clients) \in Int
                    /\ SumFunctionOnSet(OwedTo(txs, released, u), TxIds) \in Int
  BY DEF SumsAreInt
<1>1. \A c \in Clients : InFlightOf(request, u)[c] \in Int
  BY WeightsTyped
<1>2. \A t \in TxIds : OwedTo(txs, released, u)[t] \in Int
  BY WeightsTyped
<1>3. SumFunctionOnSet(InFlightOf(request, u), Clients) \in Int
  BY <1>1, BoundedTxIds, SumInt
<1>4. SumFunctionOnSet(OwedTo(txs, released, u), TxIds) \in Int
  BY <1>2, BoundedTxIds, SumInt
<1> QED BY <1>3, <1>4

\* What is locked on one side is explained on the other.
LEMMA BalanceKept ==
  ASSUME LedgerInv, LedgerInv', Continues(txs, txs'), ChainGoesOn,
         \A u \in Payers :
           cash'[u].locked
             = cash[u].locked
               + (SumFunctionOnSet(InFlightOf(request', u), Clients)
                    - SumFunctionOnSet(InFlightOf(request, u), Clients))
               + (orphanedCash'[u] - orphanedCash[u])
               + (SumFunctionOnSet(OwedTo(txs', released', u), TxIds)
                    - SumFunctionOnSet(OwedTo(txs, released, u), TxIds))
  PROVE  Goes
<1> SUFFICES ASSUME Balanced, NEW u \in Payers
             PROVE  cash'[u].locked
                      = OpeningCash[u].locked + SumFunctionOnSet(InFlightOf(request', u), Clients)
                        + orphanedCash'[u] + SumFunctionOnSet(OwedTo(txs', released', u), TxIds)
  BY DEF Goes, Balanced
<1> DEFINE a  == SumFunctionOnSet(InFlightOf(request, u), Clients)
           b  == SumFunctionOnSet(OwedTo(txs, released, u), TxIds)
           a2 == SumFunctionOnSet(InFlightOf(request', u), Clients)
           b2 == SumFunctionOnSet(OwedTo(txs', released', u), TxIds)
<1>1. a \in Int /\ b \in Int
  BY SumsTyped DEF SumsAreInt
<1>2. a2 \in Int /\ b2 \in Int
  <2>1. SumsAreInt'
    BY SumsTyped, PTL
  <2> QED BY <2>1 DEF SumsAreInt
<1>3. MoneyTyped /\ MoneyTyped'
  BY DEF LedgerInv
<1>4. orphanedCash[u] \in Int /\ orphanedCash'[u] \in Int
  BY <1>3 DEF MoneyTyped
<1>5. OpeningCash[u].locked \in Int
  BY PaymentAssumption
<1>6. cash[u].locked = OpeningCash[u].locked + a + orphanedCash[u] + b
  BY DEF Balanced
<1>7. cash'[u].locked = cash[u].locked + (a2 - a) + (orphanedCash'[u] - orphanedCash[u]) + (b2 - b)
  OBVIOUS
<1> HIDE DEF a, b, a2, b2
<1>8. cash'[u].locked = OpeningCash[u].locked + a2 + orphanedCash'[u] + b2
  BY <1>1, <1>2, <1>4, <1>5, <1>6, <1>7
<1> QED BY <1>8 DEF a2, b2

LEMMA InFlightMoves ==
  ASSUME LedgerInv, NEW c \in Clients, NEW q, request' = [request EXCEPT ![c] = q],
         q.step = "withdraw" => q.asked \in WithdrawRequests, NEW u
  PROVE  /\ Asks(q, u) \in Int /\ Asks(request[c], u) \in Int
         /\ SumFunctionOnSet(InFlightOf(request, u), Clients) \in Int
         /\ SumFunctionOnSet(InFlightOf(request', u), Clients)
              = SumFunctionOnSet(InFlightOf(request, u), Clients) + Asks(q, u) - Asks(request[c], u)
<1> DEFINE w == InFlightOf(request, u)
           v == InFlightOf(request', u)
<1>1. \A d \in Clients : request'[d] = IF d = c THEN q ELSE request[d]
  BY LedgerParts DEF RequestsOK
<1>2. Asks(q, u) \in Int
  BY WithdrawalAssumption DEF Asks
<1>3. \A d \in Clients : w[d] \in Int
  BY WeightsTyped
<1>4. w[c] = Asks(request[c], u) /\ v[c] = Asks(q, u)
  BY <1>1 DEF InFlightOf
<1>5. \A d \in Clients \ {c} : v[d] = w[d]
  BY <1>1 DEF InFlightOf
<1>6. IsFiniteSet(Clients) /\ SumFunctionOnSet(w, Clients) \in Int
  BY BoundedTxIds, SumsTyped DEF SumsAreInt
<1> HIDE DEF v, w
<1>7. SumFunctionOnSet(v, Clients) = SumFunctionOnSet(w, Clients) + v[c] - w[c]
  <2>1. \A d \in Clients : v[d] \in Int /\ w[d] \in Int
    BY <1>2, <1>3, <1>4, <1>5
  <2> QED BY <1>5, <1>6, <2>1, SumChange
<1>8. Asks(request[c], u) \in Int
  BY <1>3, <1>4
<1> QED BY <1>2, <1>4, <1>6, <1>7, <1>8 DEF v, w

LEMMA OwedChanges ==
  ASSUME LedgerInv, TableOK(txs'), released' \in [TxIds -> Nat], NEW t \in TxIds, NEW u,
         \A k \in TxIds \ {t} : OwedTo(txs', released', u)[k] = OwedTo(txs, released, u)[k],
         OwedTo(txs', released', u)[t] \in Int
  PROVE  SumFunctionOnSet(OwedTo(txs', released', u), TxIds)
           = SumFunctionOnSet(OwedTo(txs, released, u), TxIds)
             + OwedTo(txs', released', u)[t] - OwedTo(txs, released, u)[t]
<1> DEFINE w == OwedTo(txs, released, u)
           v == OwedTo(txs', released', u)
<1>1. \A k \in TxIds : w[k] \in Int
  BY WeightsTyped
<1>2. \A k \in TxIds \ {t} : v[k] = w[k]
  OBVIOUS
<1>3. v[t] \in Int /\ IsFiniteSet(TxIds)
  BY BoundedTxIds
<1> HIDE DEF v, w
<1>4. \A k \in TxIds : v[k] \in Int /\ w[k] \in Int
  BY <1>1, <1>2, <1>3
<1>5. SumFunctionOnSet(v, TxIds) = SumFunctionOnSet(w, TxIds) + v[t] - w[t]
  BY <1>2, <1>3, <1>4, SumChange
<1> QED BY <1>5 DEF v, w

LEMMA CashGoes ==
  ASSUME LedgerInv, PayInv', CashNext
  PROVE  Goes
<1>1. TableOK(txs) /\ MoneyTyped
  BY LedgerParts
<1>2. UNCHANGED <<chainVars, processor, check, cursor, scan, request, orphanedCash, released>>
  BY DEF CashNext, DepositDemo, ProcessTransfer, withdrawalVars, payoutVars, depositVars, txHistory
<1>3. ChainTyped' /\ ChainGoesOn
  BY <1>2, ChainSame
<1>4. CASE \E u \in Payers, key \in CreditKeys : DepositDemo(u, 1, key)
  <2>1. PICK u \in Payers, key \in CreditKeys : DepositDemo(u, 1, key)
    BY <1>4
  <2> DEFINE row == TxRow("DEPOSIT", u, 1, "COMPLETED", 0, key)
  <2>2. /\ txs' = Append(txs, row) /\ Len(txs) + 1 <= MaxTxs
        /\ cash' = [cash EXCEPT ![u] = CashAfter(@, CashPosting("credit", 1, FALSE))]
    BY <2>1 DEF DepositDemo, Room
  <2>3. RowOK(row) /\ row.type = "DEPOSIT"
    BY NewRowOK DEF TxTypes
  <2> HIDE DEF row
  <2>4. TableOK(txs') /\ Continues(txs, txs') /\ \A t \in DOMAIN txs' \ DOMAIN txs : txs'[t] = row
    <3>1. TableOK(txs') /\ Continues(txs, txs')
      BY <1>1, <2>2, <2>3, RowAppended
    <3>2. \A t \in DOMAIN txs' \ DOMAIN txs : txs'[t] = row
      BY <1>1, <2>2, <2>3, RowAppended
    <3> QED BY <3>1, <3>2
  <2>5. /\ cash' \in [Payers -> CashRow]
        /\ \A v \in Payers : cash'[v].locked = cash[v].locked
    <3>1. cash[u] \in CashRow
      BY <1>1 DEF MoneyTyped
    <3> DEFINE n   == 1
               r == CashAfter(cash[u], CashPosting("credit", n, FALSE))
    <3>0. n \in Int
      OBVIOUS
    <3>2. r \in CashRow /\ r.locked = cash[u].locked
      <4> HIDE DEF n
      <4> QED BY <3>1, <3>0, CreditKeepsLocked
    <3>3. cash' = [cash EXCEPT ![u] = r]
      BY <2>2
    <3> HIDE DEF r
    <3>4. /\ cash' \in [Payers -> CashRow] /\ cash'[u].locked = r.locked
          /\ \A v \in Payers \ {u} : cash'[v].locked = cash[v].locked
      BY <1>1, <3>2, <3>3, RowPosted DEF MoneyTyped
    <3> QED BY <3>2, <3>4
  <2>6. RequestsAsked' /\ PaysWithdrawal' /\ ChecksComplete' /\ ScansTyped'
    BY <1>2, <1>3, <2>4, AskedRests, PaysRests, CompletesRests, ScansRest
  <2> QED BY <1>2, <1>3, <2>3, <2>4, <2>5, <2>6, QuietStep
<1>5. CASE \E u \in Payers, key \in CreditKeys, v \in Payers : ProcessTransfer(u, v, 1, key)
  <2>1. PICK u \in Payers, key \in CreditKeys, v \in Payers : ProcessTransfer(u, v, 1, key)
    BY <1>5
  <2> DEFINE a == TxRow("TRANSFER", u, 1, "COMPLETED", 0, key)
             b == TxRow("TRANSFER", v, 1, "COMPLETED", 0, 0)
             rows == <<a, b>>
  <2>2. /\ txs' = txs \o rows /\ Len(txs) + 2 <= MaxTxs /\ u # v
        /\ cash' = Transferred(u, v, 1)
    BY <2>1 DEF ProcessTransfer, Room
  <2>3. RowOK(a) /\ RowOK(b) /\ a.type = "TRANSFER" /\ b.type = "TRANSFER" /\ IsRow(a) /\ IsRow(b)
    BY NewRowOK, NewRow DEF TxTypes
  <2> HIDE DEF a, b
  <2>4. IsTable(rows) /\ Len(rows) = 2 /\ \A i \in DOMAIN rows : RowOK(rows[i]) /\ rows[i].type = "TRANSFER"
    BY <2>3, TwoRows
  <2> HIDE DEF rows
  <2>5. TableOK(txs') /\ Continues(txs, txs')
        /\ \A t \in DOMAIN txs' \ DOMAIN txs : \E i \in DOMAIN rows : txs'[t] = rows[i]
    <3>1. \A i \in DOMAIN rows : RowOK(rows[i])
      BY <2>4
    <3>2. Len(txs) + Len(rows) <= MaxTxs /\ txs' = txs \o rows /\ IsTable(rows)
      BY <2>2, <2>4
    <3>3. TableOK(txs') /\ Continues(txs, txs')
      BY <1>1, <3>1, <3>2, RowsAppended
    <3>4. \A t \in DOMAIN txs' \ DOMAIN txs : \E i \in DOMAIN rows : txs'[t] = rows[i]
      BY <1>1, <3>1, <3>2, RowsAppended
    <3> QED BY <3>3, <3>4
  <2>6. \A t \in DOMAIN txs' \ DOMAIN txs : txs'[t].type # "WITHDRAW"
    BY <2>4, <2>5
  <2>7. /\ cash' \in [Payers -> CashRow]
        /\ \A x \in Payers : cash'[x].locked = cash[x].locked
    <3>1. cash[u] \in CashRow /\ cash[v] \in CashRow
      BY <1>1 DEF MoneyTyped
    <3> DEFINE n    == 1
               less == CashAfter(cash[u], CashPosting("debit", n, FALSE))
               more == CashAfter(cash[v], CashPosting("credit", n, FALSE))
    <3>0. n \in Int
      OBVIOUS
    <3>2. less \in CashRow /\ less.locked = cash[u].locked
      <4> HIDE DEF n
      <4> QED BY <3>1, <3>0, DebitKeepsLocked
    <3>3. more \in CashRow /\ more.locked = cash[v].locked
      <4> HIDE DEF n
      <4> QED BY <3>1, <3>0, CreditKeepsLocked
    <3>4. cash' = [cash EXCEPT ![u] = less, ![v] = more]
      BY <1>1, <2>2 DEF MoneyTyped, Transferred
    <3> HIDE DEF less, more
    <3>5. \A x \in Payers : cash'[x] = IF x = v THEN more ELSE IF x = u THEN less ELSE cash[x]
      BY <1>1, <3>4 DEF MoneyTyped
    <3>6. DOMAIN cash' = Payers /\ cash' = [x \in Payers |-> cash'[x]]
      BY <1>1, <3>4 DEF MoneyTyped
    <3>7. \A x \in Payers : cash'[x] \in CashRow /\ cash'[x].locked = cash[x].locked
      BY <1>1, <3>2, <3>3, <3>5 DEF MoneyTyped
    <3> QED BY <3>6, <3>7
  <2>8. RequestsAsked' /\ PaysWithdrawal' /\ ChecksComplete' /\ ScansTyped'
    BY <1>2, <1>3, <2>5, AskedRests, PaysRests, CompletesRests, ScansRest
  <2> QED BY <1>2, <1>3, <2>5, <2>6, <2>7, <2>8, QuietStep
<1> QED BY <1>4, <1>5 DEF CashNext

LEMMA SweepGoes ==
  ASSUME LedgerInv, PayInv', SweepNext
  PROVE  Goes
<1>1. TableOK(txs) /\ MoneyTyped /\ cashRows \subseteq Payers /\ RequestsOK /\ RequestsAsked
  BY LedgerParts
<1>2. UNCHANGED <<chainVars, processor, check, cursor, scan, orphanedCash, released>>
  BY DEF SweepNext, SweepReads, SweepWrites, SweepEnds, withdrawalVars, payoutVars, depositVars, txHistory
<1>3. ChainTyped' /\ ChainGoesOn
  BY <1>2, ChainSame
<1>4. PICK c \in Clients : SweepReads(c) \/ SweepWrites(c) \/ SweepEnds(c)
  BY DEF SweepNext
<1>5. CASE SweepReads(c)
  <2> DEFINE q == [step |-> "sweep", read |-> [u \in Batch(SweepCursor(c)) |-> cash[u].available]]
  <2>1. Batch(SweepCursor(c)) \subseteq Payers
    BY <1>1 DEF Batch
  <2>2. AskedOK(q, txs) /\ q.step = "sweep"
    BY <1>1, <2>1 DEF AskedOK, MoneyTyped, CashRow
  <2>3. /\ request' = [request EXCEPT ![c] = q] /\ UNCHANGED <<txs, cash>>
        /\ request[c].step # "withdraw"
    BY <1>5 DEF SweepReads, cashTable
  <2> HIDE DEF q
  <2> QED BY <1>2, <1>3, <2>2, <2>3, RequestStep
<1>6. CASE SweepEnds(c)
  <2>1. /\ request' = [request EXCEPT ![c] = NoRequest] /\ UNCHANGED <<txs, cash>>
        /\ request[c].step # "withdraw"
    BY <1>6 DEF SweepEnds, cashTable
  <2>2. AskedOK(NoRequest, txs) /\ NoRequest.step # "withdraw"
    BY DEF AskedOK, NoRequest
  <2> QED BY <1>2, <1>3, <2>1, <2>2, RequestStep
<1>7. CASE SweepWrites(c)
  <2> DEFINE read == request[c].read
             n    == Cardinality(DOMAIN read)
  <2>1. request[c].step = "sweep" /\ Len(txs) + n <= MaxTxs
    BY <1>7 DEF SweepWrites, Room
  <2>2. n \in Nat /\ \A u \in DOMAIN read : read[u] \in Int
    <3>1. IsFiniteSet(DOMAIN read) /\ \A u \in DOMAIN read : read[u] \in Int
      BY <1>1, <2>1 DEF RequestsOK, RequestOK, RequestsAsked, AskedOK
    <3> QED BY <3>1, FS_CardinalityType
  <2>3. PICK users \in InOrder(DOMAIN read) :
          /\ txs' = txs \o [i \in DOMAIN users |->
                              TxRow("TRANSFER", users[i], read[users[i]], "COMPLETED", 0, 0)]
          /\ request' = [request EXCEPT ![c] = [step |-> "swept", cursor |-> users[Len(users)]]]
    BY <1>7 DEF SweepWrites
  <2> DEFINE rows == [i \in DOMAIN users |->
                        TxRow("TRANSFER", users[i], read[users[i]], "COMPLETED", 0, 0)]
             q    == [step |-> "swept", cursor |-> users[Len(users)]]
  <2>4. DOMAIN users = 1 .. n /\ \A i \in DOMAIN users : users[i] \in DOMAIN read
    BY DEF InOrder
  <2>5. rows = [i \in 1 .. n |-> rows[i]]
    BY <2>4
  <2>6. \A i \in DOMAIN rows : RowOK(rows[i]) /\ rows[i].type = "TRANSFER" /\ IsRow(rows[i])
    <3> SUFFICES ASSUME NEW i \in DOMAIN rows
                 PROVE  RowOK(rows[i]) /\ rows[i].type = "TRANSFER" /\ IsRow(rows[i])
      OBVIOUS
    <3>1. read[users[i]] \in Int
      BY <2>2, <2>4
    <3>2. rows[i] = TxRow("TRANSFER", users[i], read[users[i]], "COMPLETED", 0, 0)
      OBVIOUS
    <3> HIDE DEF rows
    <3> QED BY <3>1, <3>2, NewRowOK, NewRow DEF TxTypes
  <2>7. AskedOK(q, txs') /\ q.step # "withdraw"
    BY DEF AskedOK
  <2>8. txs' = txs \o rows /\ request' = [request EXCEPT ![c] = q]
    BY <2>3
  <2>9. /\ cash' \in [Payers -> CashRow]
        /\ \A x \in Payers : cash'[x].locked = cash[x].locked
    <3>1. \A u \in Payers : cash[u] \in CashRow
      BY <1>1 DEF MoneyTyped
    <3>2. cash' = [u \in Payers |-> IF u \in DOMAIN read THEN [cash[u] EXCEPT !.available = 0]
                                                         ELSE cash[u]]
      BY <1>7 DEF SweepWrites
    <3> QED BY <3>1, <3>2 DEF CashRow
  <2> HIDE DEF rows, q, n
  <2>10. IsTable(rows) /\ Len(rows) = n
    BY <2>2, <2>5, <2>6, FunctionIsSeq DEF IsTable
  <2>11. TableOK(txs') /\ Continues(txs, txs')
         /\ \A t \in DOMAIN txs' \ DOMAIN txs : \E i \in DOMAIN rows : txs'[t] = rows[i]
    <3>1. \A i \in DOMAIN rows : RowOK(rows[i])
      BY <2>6
    <3>2. Len(txs) + Len(rows) <= MaxTxs
      BY <2>1, <2>10
    <3>3. TableOK(txs') /\ Continues(txs, txs')
      BY <1>1, <2>8, <2>10, <3>1, <3>2, RowsAppended
    <3>4. \A t \in DOMAIN txs' \ DOMAIN txs : \E i \in DOMAIN rows : txs'[t] = rows[i]
      BY <1>1, <2>8, <2>10, <3>1, <3>2, RowsAppended
    <3> QED BY <3>3, <3>4
  <2>12. \A t \in DOMAIN txs' \ DOMAIN txs : txs'[t].type # "WITHDRAW"
    BY <2>6, <2>11
  <2>13. RequestsAsked' /\ PaysWithdrawal' /\ ChecksComplete' /\ ScansTyped'
    BY <1>2, <1>3, <2>7, <2>8, <2>11, AskedMoves, PaysRests, CompletesRests, ScansRest
  <2>14. \A u : InFlightOf(request', u) = InFlightOf(request, u)
    BY <2>1, <2>7, <2>8, WeightsSame
  <2> QED BY <1>2, <1>3, <2>9, <2>11, <2>12, <2>13, <2>14, QuietStep
<1> QED BY <1>4, <1>5, <1>6, <1>7

\* The amount of a row leaves the locked column of its user.
LEMMA ReleaseGoes ==
  ASSUME LedgerInv, PayInv', NEW t \in DOMAIN txs, NEW status, txs[t].user \in Payers,
         txs' = [txs EXCEPT ![t].status = status],
         NEW row \in CashRow, row.locked = cash[txs[t].user].locked - txs[t].amount,
         cash' = [cash EXCEPT ![txs[t].user] = row],
         released' = [released EXCEPT ![t] = @ + 1],
         Continues(txs, txs') => RequestsAsked' /\ PaysWithdrawal' /\ ChecksComplete',
         \A u : InFlightOf(request', u) = InFlightOf(request, u),
         UNCHANGED <<chainVars, cursor, scan, orphanedCash>>
  PROVE  Goes
<1> DEFINE new == [txs[t] EXCEPT !.status = status]
<1>1. TableOK(txs) /\ MoneyTyped /\ released \in [TxIds -> Nat] /\ DOMAIN txs \subseteq TxIds
  BY LedgerParts, TableDomain
<1>2. RowOK(txs[t])
  BY <1>1 DEF TableOK
<1>3. /\ RowOK(new) /\ new.type = txs[t].type /\ new.user = txs[t].user
      /\ new.amount = txs[t].amount /\ new.hash = txs[t].hash
  BY <1>2 DEF RowOK
<1>4. txs' = [txs EXCEPT ![t] = new]
  OBVIOUS
<1> HIDE DEF new
<1>5. TableOK(txs') /\ Continues(txs, txs') /\ DOMAIN txs' = DOMAIN txs
  BY <1>1, <1>3, <1>4, RowWritten
<1>6. ChainTyped' /\ ChainGoesOn
  BY ChainSame
<1>7. ScansTyped'
  BY <1>6, ScansRest
<1>8. /\ cash' \in [Payers -> CashRow] /\ cash'[txs[t].user].locked = row.locked
      /\ \A v \in Payers \ {txs[t].user} : cash'[v].locked = cash[v].locked
  BY <1>1, RowPosted DEF MoneyTyped
<1>9. /\ released' \in [TxIds -> Nat] /\ released'[t] = released[t] + 1
      /\ \A k \in TxIds \ {t} : released'[k] = released[k]
  BY <1>1
<1>10. MoneyTyped'
  BY <1>1, <1>5, <1>8, <1>9 DEF MoneyTyped
<1>11. LedgerInv'
  BY <1>5, <1>6, <1>7, <1>10 DEF LedgerInv
<1>12. ASSUME NEW u, NEW k \in TxIds, k # t \/ u # txs[t].user
       PROVE  OwedTo(txs', released', u)[k] = OwedTo(txs, released, u)[k]
  BY <1>5, <1>9, <1>12 DEF OwedTo, Continues
<1>13. ASSUME NEW u \in Payers
       PROVE  cash'[u].locked
                = cash[u].locked
                  + (SumFunctionOnSet(InFlightOf(request', u), Clients)
                       - SumFunctionOnSet(InFlightOf(request, u), Clients))
                  + (orphanedCash'[u] - orphanedCash[u])
                  + (SumFunctionOnSet(OwedTo(txs', released', u), TxIds)
                       - SumFunctionOnSet(OwedTo(txs, released, u), TxIds))
  <2> DEFINE a == SumFunctionOnSet(InFlightOf(request, u), Clients)
             b == SumFunctionOnSet(OwedTo(txs, released, u), TxIds)
             c == SumFunctionOnSet(OwedTo(txs', released', u), TxIds)
  <2>1. a \in Int /\ b \in Int
    BY SumsTyped DEF SumsAreInt
  <2>2. orphanedCash[u] \in Int /\ cash[u].locked \in Int
    BY <1>1 DEF MoneyTyped, CashRow
  <2>3. CASE u # txs[t].user
    <3>1. \A k \in TxIds : OwedTo(txs', released', u)[k] = OwedTo(txs, released, u)[k]
      BY <1>12, <2>3
    <3>2. c = b
      <4>1. OwedTo(txs', released', u) = OwedTo(txs, released, u)
        BY <3>1 DEF OwedTo
      <4> QED BY <4>1
    <3>3. cash'[u].locked = cash[u].locked
      BY <1>8, <2>3
    <3>4. SumFunctionOnSet(InFlightOf(request', u), Clients) = a /\ orphanedCash'[u] = orphanedCash[u]
      OBVIOUS
    <3> HIDE DEF a, b, c
    <3>5. cash'[u].locked = cash[u].locked + (a - a) + (orphanedCash[u] - orphanedCash[u]) + (c - b)
      BY <2>1, <2>2, <3>2, <3>3
    <3> QED BY <3>4, <3>5 DEF a, b, c
  <2>4. CASE u = txs[t].user
    <3>1. t \in TxIds /\ t \in DOMAIN txs' /\ txs'[t].user = u /\ txs'[t].type = txs[t].type
          /\ txs'[t].amount = txs[t].amount /\ txs[t].amount \in Int /\ released[t] \in Nat
      BY <1>1, <1>2, <1>5, <2>4 DEF Continues, RowOK
    <3> DEFINE l == IF txs[t].type = "WITHDRAW" THEN 1 ELSE 0
               n == txs[t].amount
    <3>2. /\ OwedTo(txs', released', u)[t] = n * (l - (released[t] + 1))
          /\ OwedTo(txs, released, u)[t] = n * (l - released[t])
      BY <1>9, <2>4, <3>1 DEF OwedTo
    <3>3. l \in Int /\ n \in Int
      BY <3>1
    <3>4. cash'[u].locked = cash[u].locked - n
      BY <1>8, <2>4
    <3> HIDE DEF l, n
    <3>5. n * (l - (released[t] + 1)) = n * (l - released[t]) - n /\ n * (l - released[t]) \in Int
      BY <3>1, <3>3
    <3>6. \A k \in TxIds \ {t} : OwedTo(txs', released', u)[k] = OwedTo(txs, released, u)[k]
      BY <1>12
    <3>7. c = b + OwedTo(txs', released', u)[t] - OwedTo(txs, released, u)[t]
      <4>1. OwedTo(txs', released', u)[t] \in Int
        BY <3>2, <3>3, <3>5
      <4>2. t \in TxIds /\ TableOK(txs') /\ released' \in [TxIds -> Nat]
        BY <1>5, <1>9, <3>1
      <4> QED BY <3>6, <4>1, <4>2, OwedChanges
    <3>8. SumFunctionOnSet(InFlightOf(request', u), Clients) = a /\ orphanedCash'[u] = orphanedCash[u]
      OBVIOUS
    <3> HIDE DEF a, b, c
    <3>9. c = b - n
      <4> DEFINE x == n * (l - released[t])
      <4>1. c = b + (x - n) - x /\ x \in Int
        BY <3>2, <3>5, <3>7
      <4> HIDE DEF x
      <4> QED BY <2>1, <3>3, <4>1
    <3>10. cash'[u].locked = cash[u].locked + (a - a) + (orphanedCash[u] - orphanedCash[u]) + (c - b)
      BY <2>1, <2>2, <3>3, <3>4, <3>9
    <3> QED BY <3>8, <3>10 DEF a, b, c
  <2> QED BY <2>3, <2>4
<1> QED BY <1>5, <1>6, <1>11, <1>13, BalanceKept

LEMMA AdminGoes ==
  ASSUME LedgerInv, PayInv', AdminNext
  PROVE  Goes
<1>1. TableOK(txs) /\ MoneyTyped /\ RequestsOK /\ cashRows \subseteq Payers
  BY LedgerParts
<1>2. UNCHANGED <<chainVars, processor, check, cursor, scan, orphanedCash>>
  BY DEF AdminNext, AdminDecides, withdrawalVars, payoutVars, depositVars
<1>3. ChainTyped' /\ ChainGoesOn
  BY <1>2, ChainSame
<1>4. AskedOK(NoRequest, txs) /\ NoRequest.step # "withdraw" /\ AskedOK(NoRequest, txs')
  BY DEF AskedOK, NoRequest
<1>5. CASE \E c \in Clients, t \in TxIds, status \in AdminStatuses : AdminReads(c, t, status)
  <2>1. PICK c \in Clients, t \in TxIds, status \in AdminStatuses : AdminReads(c, t, status)
    BY <1>5
  <2> DEFINE q == [step |-> "admin", id |-> t, status |-> status]
  <2>2. AskedOK(q, txs) /\ q.step # "withdraw"
    BY DEF AskedOK
  <2>3. /\ request' = [request EXCEPT ![c] = q] /\ UNCHANGED <<txs, cash, released>>
        /\ request[c].step # "withdraw"
    BY <2>1 DEF AdminReads, cashTable, txHistory, NoRequest
  <2> HIDE DEF q
  <2> QED BY <1>2, <1>3, <2>2, <2>3, RequestStep
<1>6. CASE \E c \in Clients : AdminThrows(c)
  <2>1. PICK c \in Clients : AdminThrows(c)
    BY <1>6
  <2>2. /\ request' = [request EXCEPT ![c] = NoRequest] /\ UNCHANGED <<txs, cash, released>>
        /\ request[c].step # "withdraw"
    BY <2>1 DEF AdminThrows, cashTable, txHistory
  <2> QED BY <1>2, <1>3, <1>4, <2>2, RequestStep
<1>7. CASE \E c \in Clients : AdminDecides(c)
  <2>1. PICK c \in Clients : AdminDecides(c)
    BY <1>7
  <2> DEFINE t      == request[c].id
             status == request[c].status
             u      == txs[t].user
             q      == StatusPosting(status, txs[t].amount)
  <2>2. /\ request[c].step = "admin" /\ txs' = [txs EXCEPT ![t].status = status]
        /\ request' = [request EXCEPT ![c] = NoRequest]
        /\ \/ /\ MovesMoney(status) /\ u \in cashRows
              /\ cash' = [cash EXCEPT ![u] = CashAfter(@, q)]
              /\ released' = [released EXCEPT ![t] = @ + 1]
           \/ UNCHANGED <<cash, released>>
    BY <2>1 DEF AdminDecides, AdminPosts
  <2>3. t \in DOMAIN txs
    BY <1>1, <2>2 DEF RequestsOK, RequestOK
  <2>4. \A v : InFlightOf(request', v) = InFlightOf(request, v)
    BY <1>4, <2>2, WeightsSame
  <2>5. Continues(txs, txs') => RequestsAsked' /\ PaysWithdrawal' /\ ChecksComplete'
    BY <1>2, <1>4, <2>2, AskedMoves, PaysRests, CompletesRests
  <2>6. RowOK(txs[t])
    BY <1>1, <2>3 DEF TableOK
  <2>7. CASE UNCHANGED <<cash, released>>
    <3> DEFINE new == [txs[t] EXCEPT !.status = status]
    <3>1. /\ RowOK(new) /\ new.type = txs[t].type /\ new.user = txs[t].user
          /\ new.amount = txs[t].amount /\ new.hash = txs[t].hash
      BY <2>6 DEF RowOK
    <3>2. txs' = [txs EXCEPT ![t] = new]
      BY <2>2
    <3>3. cash' \in [Payers -> CashRow] /\ \A v \in Payers : cash'[v].locked = cash[v].locked
      BY <1>1, <2>7 DEF MoneyTyped
    <3> HIDE DEF new, t, status
    <3> QED BY <1>2, <2>3, <2>4, <2>5, <2>7, <3>1, <3>2, <3>3, RowStep
  <2>8. ASSUME MovesMoney(status), u \in cashRows, cash' = [cash EXCEPT ![u] = CashAfter(@, q)],
               released' = [released EXCEPT ![t] = @ + 1]
        PROVE  Goes
    <3> DEFINE n   == txs[t].amount
               row == CashAfter(cash[u], q)
    <3>1. cash[u] \in CashRow /\ n \in Int /\ u \in Payers
      BY <1>1, <2>6, <2>8 DEF MoneyTyped, RowOK
    <3>2. row \in CashRow /\ row.locked = cash[u].locked - n
      <4>1. CASE status = "COMPLETED"
        <5>1. q = CashPosting("debit", n, TRUE)
          BY <4>1 DEF StatusPosting
        <5> HIDE DEF n
        <5> QED BY <3>1, <5>1, DebitUnlocks
      <4>2. CASE status # "COMPLETED"
        <5>1. q = CashPosting("unlock", n, FALSE)
          BY <2>8, <4>2 DEF StatusPosting, MovesMoney
        <5> HIDE DEF n
        <5> QED BY <3>1, <5>1, UnlockUnlocks
      <4> QED BY <4>1, <4>2
    <3>3. cash' = [cash EXCEPT ![u] = row]
      BY <2>8
    <3> HIDE DEF row, t, status
    <3> QED BY <1>2, <2>2, <2>3, <2>4, <2>5, <2>8, <3>1, <3>2, <3>3, ReleaseGoes
  <2> QED BY <2>2, <2>7, <2>8
<1> QED BY <1>5, <1>6, <1>7 DEF AdminNext

\* A request that locks, stores or gives up what it has locked.
LEMMA WithdrawGoes ==
  ASSUME LedgerInv, PayInv', WithdrawNext
  PROVE  Goes
<1>1. TableOK(txs) /\ MoneyTyped /\ RequestsOK /\ RequestsAsked /\ cashRows \subseteq Payers
      /\ released \in [TxIds -> Nat]
  BY LedgerParts
<1>2. UNCHANGED <<chainVars, processor, check, cursor, scan, released>>
  BY DEF WithdrawNext, CreateWallet, LockWithdrawal, StoreWithdrawal, QueueWithdrawal,
         WithdrawThrows, withdrawalVars, payoutVars, depositVars, ledgerVars, txHistory
<1>3. ChainTyped' /\ ChainGoesOn
  BY <1>2, ChainSame
<1>4. AskedOK(NoRequest, txs) /\ NoRequest.step # "withdraw" /\ AskedOK(NoRequest, txs')
  BY DEF AskedOK, NoRequest
<1>5. CASE \E u \in Payers, form \in {"checksum", "lower"} : CreateWallet(u, form)
  <2>1. UNCHANGED <<txs, request, cash, orphanedCash>>
    BY <1>5 DEF CreateWallet, ledgerVars, cashTable, payoutVars
  <2> QED BY <1>2, <1>3, <2>1, SilentStep
<1>6. CASE \E c \in Clients : QueueWithdrawal(c)
  <2>1. PICK c \in Clients : QueueWithdrawal(c)
    BY <1>6
  <2>2. /\ request' = [request EXCEPT ![c] = NoRequest] /\ UNCHANGED <<txs, cash, orphanedCash>>
        /\ request[c].step # "withdraw"
    BY <2>1 DEF QueueWithdrawal, cashTable
  <2> QED BY <1>2, <1>3, <1>4, <2>2, RequestStep
<1>7. CASE \E c \in Clients, w \in WithdrawRequests : LockWithdrawal(c, w)
  <2>1. PICK c \in Clients, w \in WithdrawRequests : LockWithdrawal(c, w)
    BY <1>7
  <2> DEFINE q   == [step |-> "withdraw", asked |-> w]
             n   == w.amount
             row == CashAfter(cash[w.user], LockFundsOf(n))
  <2>2. /\ request[c] = NoRequest /\ request' = [request EXCEPT ![c] = q]
        /\ cash' = [cash EXCEPT ![w.user] = row] /\ UNCHANGED <<txs, orphanedCash>>
    BY <2>1 DEF LockWithdrawal, withdrawalVars, payoutVars
  <2>3. w.user \in Payers /\ n \in Int
    BY WithdrawalAssumption
  <2>4. cash[w.user] \in CashRow
    BY <1>1, <2>3 DEF MoneyTyped
  <2>5. row \in CashRow /\ row.locked = cash[w.user].locked + n
    <3> HIDE DEF n
    <3> QED BY <2>3, <2>4, LockLocks DEF LockFundsOf
  <2>6. AskedOK(q, txs') /\ q.step = "withdraw" /\ q.asked = w
    BY DEF AskedOK
  <2> HIDE DEF q, row
  <2>7. /\ cash' \in [Payers -> CashRow] /\ cash'[w.user].locked = row.locked
        /\ \A v \in Payers \ {w.user} : cash'[v].locked = cash[v].locked
    BY <1>1, <2>2, <2>3, <2>5, RowPosted DEF MoneyTyped
  <2>8. TableOK(txs') /\ Continues(txs, txs')
    BY <1>1, <2>2, TableSame
  <2>9. RequestsAsked' /\ PaysWithdrawal' /\ ChecksComplete' /\ ScansTyped'
    BY <1>2, <1>3, <2>2, <2>6, <2>8, AskedMoves, PaysRests, CompletesRests, ScansRest
  <2>10. MoneyTyped'
    BY <1>1, <1>2, <2>2, <2>7 DEF MoneyTyped
  <2>11. LedgerInv'
    BY <1>3, <2>8, <2>9, <2>10 DEF LedgerInv
  <2>12. ASSUME NEW u \in Payers
         PROVE  cash'[u].locked
                  = cash[u].locked
                    + (SumFunctionOnSet(InFlightOf(request', u), Clients)
                         - SumFunctionOnSet(InFlightOf(request, u), Clients))
                    + (orphanedCash'[u] - orphanedCash[u])
                    + (SumFunctionOnSet(OwedTo(txs', released', u), TxIds)
                         - SumFunctionOnSet(OwedTo(txs, released, u), TxIds))
    <3> DEFINE a  == SumFunctionOnSet(InFlightOf(request, u), Clients)
               a2 == SumFunctionOnSet(InFlightOf(request', u), Clients)
               b  == SumFunctionOnSet(OwedTo(txs, released, u), TxIds)
               m  == IF u = w.user THEN n ELSE 0
    <3>1. Asks(q, u) = m /\ Asks(request[c], u) = 0
      BY <2>2, <2>6, <1>4 DEF Asks
    <3>2. q.step = "withdraw" => q.asked \in WithdrawRequests
      BY <2>6
    <3>3. a \in Int /\ a2 = a + Asks(q, u) - Asks(request[c], u)
      BY <2>2, <3>2, InFlightMoves
    <3>4. b \in Int
      BY SumsTyped DEF SumsAreInt
    <3>5. cash[u].locked \in Int /\ orphanedCash[u] \in Int /\ m \in Int
      BY <1>1, <2>3 DEF MoneyTyped, CashRow
    <3>6. cash'[u].locked = cash[u].locked + m
      <4>1. CASE u = w.user
        BY <2>5, <2>7, <4>1
      <4>2. CASE u # w.user
        BY <2>7, <3>5, <4>2
      <4> QED BY <4>1, <4>2
    <3>7. SumFunctionOnSet(OwedTo(txs', released', u), TxIds) = b /\ orphanedCash'[u] = orphanedCash[u]
      BY <1>2, <2>2
    <3> HIDE DEF a, a2, b, m
    <3>8. a2 = a + m
      BY <3>1, <3>3, <3>5
    <3>9. cash'[u].locked = cash[u].locked + (a2 - a) + (orphanedCash[u] - orphanedCash[u]) + (b - b)
      BY <3>3, <3>4, <3>5, <3>6, <3>8
    <3> QED BY <3>7, <3>9 DEF a, a2, b
  <2> QED BY <1>3, <2>8, <2>11, <2>12, BalanceKept
<1>8. CASE \E c \in Clients : StoreWithdrawal(c)
  <2>1. PICK c \in Clients : StoreWithdrawal(c)
    BY <1>8
  <2> DEFINE w   == request[c].asked
             q   == [step |-> "queue", id |-> Len(txs) + 1]
             row == TxRow("WITHDRAW", w.user, w.amount, "PENDING", 0, w.key)
             t   == Len(txs) + 1
  <2>2. /\ request[c].step = "withdraw" /\ request' = [request EXCEPT ![c] = q]
        /\ txs' = Append(txs, row) /\ Len(txs) + 1 <= MaxTxs /\ UNCHANGED <<cash, orphanedCash>>
    BY <2>1 DEF StoreWithdrawal, Room, cashTable, withdrawalVars, payoutVars
  <2>3. w.user \in Payers /\ w.amount \in Int
    BY <1>1, <2>2, WithdrawalAssumption DEF RequestsAsked, AskedOK
  <2>4. RowOK(row) /\ row.type = "WITHDRAW" /\ row.user = w.user /\ row.amount = w.amount
    BY <2>3, NewRowOK DEF TxTypes
  <2>5. AskedOK(q, txs') /\ q.step # "withdraw"
    BY DEF AskedOK
  <2> HIDE DEF q, row
  <2>6. TableOK(txs') /\ Continues(txs, txs')
    BY <1>1, <2>2, <2>4, RowAppended
  <2>7. DOMAIN txs' = DOMAIN txs \cup {t}
    BY <1>1, <2>2, <2>4, RowAppended
  <2>8. \A k \in DOMAIN txs : txs'[k] = txs[k]
    BY <1>1, <2>2, <2>4, RowAppended
  <2>9. t \notin DOMAIN txs
    BY <1>1, TableDomain
  <2>10. txs'[t] = row
    <3>1. \A k \in DOMAIN txs' \ DOMAIN txs : txs'[k] = row
      BY <1>1, <2>2, <2>4, RowAppended
    <3> QED BY <2>7, <2>9, <3>1
  <2>11. t \in TxIds
    BY <2>6, <2>7, TableDomain
  <2> HIDE DEF t, w
  <2>12. RequestsAsked' /\ PaysWithdrawal' /\ ChecksComplete' /\ ScansTyped'
    BY <1>2, <1>3, <2>2, <2>5, <2>6, AskedMoves, PaysRests, CompletesRests, ScansRest
  <2>13. MoneyTyped'
    BY <1>1, <1>2, <2>2, <2>7 DEF MoneyTyped
  <2>14. LedgerInv'
    BY <1>3, <2>6, <2>12, <2>13 DEF LedgerInv
  <2>15. ASSUME NEW u \in Payers
         PROVE  cash'[u].locked
                  = cash[u].locked
                    + (SumFunctionOnSet(InFlightOf(request', u), Clients)
                         - SumFunctionOnSet(InFlightOf(request, u), Clients))
                    + (orphanedCash'[u] - orphanedCash[u])
                    + (SumFunctionOnSet(OwedTo(txs', released', u), TxIds)
                         - SumFunctionOnSet(OwedTo(txs, released, u), TxIds))
    <3> DEFINE a  == SumFunctionOnSet(InFlightOf(request, u), Clients)
               a2 == SumFunctionOnSet(InFlightOf(request', u), Clients)
               b  == SumFunctionOnSet(OwedTo(txs, released, u), TxIds)
               b2 == SumFunctionOnSet(OwedTo(txs', released', u), TxIds)
               m  == IF u = w.user THEN w.amount ELSE 0
    <3>1. Asks(q, u) = 0 /\ Asks(request[c], u) = m
      BY <2>2, <2>5 DEF Asks, w
    <3>2. q.step = "withdraw" => q.asked \in WithdrawRequests
      BY <2>5
    <3>3. a \in Int /\ a2 = a + Asks(q, u) - Asks(request[c], u)
      BY <2>2, <3>2, InFlightMoves
    <3>4. b \in Int
      BY SumsTyped DEF SumsAreInt
    <3>5. cash[u].locked \in Int /\ orphanedCash[u] \in Int /\ m \in Int
      BY <1>1, <2>3 DEF MoneyTyped, CashRow
    <3>6. released[t] = 0 /\ released'[t] = 0
      BY <1>1, <1>2, <2>9, <2>11 DEF MoneyTyped
    <3>7. OwedTo(txs, released, u)[t] = 0
      BY <2>9, <2>11 DEF OwedTo
    <3>8. OwedTo(txs', released', u)[t] = m
      <4>1. OwedTo(txs', released', u)[t]
              = IF u = w.user THEN w.amount * (1 - 0) ELSE 0
        BY <2>4, <2>7, <2>10, <2>11, <3>6 DEF OwedTo
      <4>2. w.amount * (1 - 0) = w.amount
        BY <2>3
      <4> QED BY <4>1, <4>2
    <3>9. \A k \in TxIds \ {t} : OwedTo(txs', released', u)[k] = OwedTo(txs, released, u)[k]
      BY <1>2, <2>7, <2>8 DEF OwedTo
    <3>10. b2 = b + OwedTo(txs', released', u)[t] - OwedTo(txs, released, u)[t]
      <4>1. released' \in [TxIds -> Nat] /\ OwedTo(txs', released', u)[t] \in Int
        BY <1>1, <1>2, <3>5, <3>8
      <4> HIDE DEF m
      <4> QED BY <2>6, <2>11, <3>9, <4>1, OwedChanges
    <3>11. cash'[u].locked = cash[u].locked /\ orphanedCash'[u] = orphanedCash[u]
      BY <2>2
    <3> HIDE DEF a, a2, b, b2, m
    <3>12. a2 = a - m /\ b2 = b + m
      BY <3>1, <3>3, <3>4, <3>5, <3>7, <3>8, <3>10
    <3>13. cash[u].locked = cash[u].locked + (a2 - a) + (orphanedCash[u] - orphanedCash[u]) + (b2 - b)
      BY <3>3, <3>4, <3>5, <3>12
    <3> QED BY <3>11, <3>13 DEF a, a2, b, b2
  <2> QED BY <1>3, <2>6, <2>14, <2>15, BalanceKept
<1>9. CASE \E c \in Clients : WithdrawThrows(c)
  <2>1. PICK c \in Clients : WithdrawThrows(c)
    BY <1>9
  <2>2. /\ request[c].step \in {"withdraw", "queue"} /\ request' = [request EXCEPT ![c] = NoRequest]
        /\ UNCHANGED <<txs, cash>>
        /\ orphanedCash' = IF request[c].step = "withdraw"
                           THEN [orphanedCash EXCEPT ![request[c].asked.user] = @ + request[c].asked.amount]
                           ELSE orphanedCash
    BY <2>1 DEF WithdrawThrows, cashTable
  <2>3. CASE request[c].step # "withdraw"
    BY <1>2, <1>3, <1>4, <2>2, <2>3, RequestStep
  <2>4. CASE request[c].step = "withdraw"
    <3> DEFINE w == request[c].asked
    <3>1. w.user \in Payers /\ w.amount \in Int
      BY <1>1, <2>4, WithdrawalAssumption DEF RequestsAsked, AskedOK
    <3>2. orphanedCash' = [orphanedCash EXCEPT ![w.user] = @ + w.amount]
      BY <2>2, <2>4
    <3>3. TableOK(txs') /\ Continues(txs, txs')
      BY <1>1, <2>2, TableSame
    <3>4. RequestsAsked' /\ PaysWithdrawal' /\ ChecksComplete' /\ ScansTyped'
      BY <1>2, <1>3, <1>4, <2>2, <3>3, AskedMoves, PaysRests, CompletesRests, ScansRest
    <3> HIDE DEF w
    <3>5. MoneyTyped'
      <4>1. orphanedCash \in [Payers -> Int]
        BY <1>1 DEF MoneyTyped
      <4>2. orphanedCash' \in [Payers -> Int]
        BY <3>1, <3>2, <4>1
      <4> QED BY <1>1, <1>2, <2>2, <4>2 DEF MoneyTyped
    <3>6. LedgerInv'
      BY <1>3, <3>3, <3>4, <3>5 DEF LedgerInv
    <3>7. ASSUME NEW u \in Payers
          PROVE  cash'[u].locked
                   = cash[u].locked
                     + (SumFunctionOnSet(InFlightOf(request', u), Clients)
                          - SumFunctionOnSet(InFlightOf(request, u), Clients))
                     + (orphanedCash'[u] - orphanedCash[u])
                     + (SumFunctionOnSet(OwedTo(txs', released', u), TxIds)
                          - SumFunctionOnSet(OwedTo(txs, released, u), TxIds))
      <4> DEFINE a  == SumFunctionOnSet(InFlightOf(request, u), Clients)
                 a2 == SumFunctionOnSet(InFlightOf(request', u), Clients)
                 b  == SumFunctionOnSet(OwedTo(txs, released, u), TxIds)
                 m  == IF u = w.user THEN w.amount ELSE 0
      <4>1. Asks(NoRequest, u) = 0 /\ Asks(request[c], u) = m
        BY <2>4, <1>4 DEF Asks, w
      <4>2. NoRequest.step = "withdraw" => NoRequest.asked \in WithdrawRequests
        BY <1>4
      <4>3. a \in Int /\ a2 = a + Asks(NoRequest, u) - Asks(request[c], u)
        BY <2>2, <4>2, InFlightMoves
      <4>4. b \in Int
        BY SumsTyped DEF SumsAreInt
      <4>5. cash[u].locked \in Int /\ orphanedCash[u] \in Int /\ m \in Int
        BY <1>1, <3>1 DEF MoneyTyped, CashRow
      <4>6. orphanedCash'[u] = orphanedCash[u] + m
        BY <1>1, <3>1, <3>2, <4>5 DEF MoneyTyped
      <4>7. cash'[u].locked = cash[u].locked
            /\ SumFunctionOnSet(OwedTo(txs', released', u), TxIds) = b
        BY <1>2, <2>2
      <4> HIDE DEF a, a2, b, m
      <4>8. a2 = a - m
        BY <4>1, <4>3, <4>5
      <4>9. cash[u].locked = cash[u].locked + (a2 - a) + (orphanedCash'[u] - orphanedCash[u]) + (b - b)
        BY <4>3, <4>4, <4>5, <4>6, <4>8
      <4> QED BY <4>7, <4>9 DEF a, a2, b
    <3> QED BY <1>3, <3>3, <3>6, <3>7, BalanceKept
  <2> QED BY <2>3, <2>4
<1> QED BY <1>5, <1>6, <1>7, <1>8, <1>9 DEF WithdrawNext

------------------------------------------------------------------------------
(***************************************************************************)
(* Payouts, the chain, and who replaces payouts on it                      *)
(***************************************************************************)
LEMMA PayoutGoes ==
  ASSUME LedgerInv, PayInv', PayoutNext
  PROVE  Goes
<1>1. TableOK(txs) /\ MoneyTyped /\ ProcessorOK /\ PaysWithdrawal /\ DepositAssumption
  BY LedgerParts, DepositAssumption
<1>2. UNCHANGED <<request, check, cursor, scan, cash, orphanedCash, released>>
  BY DEF PayoutNext, PayoutStep, TakePayout, RejectPayout, SendPayout, StorePayoutHash,
         CompletePayout, PayoutThrows, ledgerVars, cashTable, txHistory, depositVars
<1>3. cash' \in [Payers -> CashRow] /\ \A u \in Payers : cash'[u].locked = cash[u].locked
  BY <1>1, <1>2 DEF MoneyTyped
<1>4. CASE TakePayout
  <2>1. UNCHANGED <<txs, chainVars>>
    BY <1>4 DEF TakePayout, ledgerVars
  <2>2. PaysWithdrawal'
    BY <1>4, <2>1 DEF TakePayout, PaysWithdrawal, NoPayout
  <2>3. ChainTyped' /\ ChainGoesOn
    BY <2>1, ChainSame
  <2> QED BY <1>2, <2>1, <2>2, <2>3, ProcessorStep
<1>5. CASE RejectPayout \/ StorePayoutHash
  <2> DEFINE t   == processor.id
             new == IF RejectPayout THEN [txs[t] EXCEPT !.status = "FAILED"]
                                    ELSE [txs[t] EXCEPT !.hash = processor.hash]
  <2>1. processor.step \in {"reject", "store"} /\ UNCHANGED chainVars
    BY <1>5 DEF RejectPayout, StorePayoutHash
  <2>2. t \in DOMAIN txs /\ txs[t].type = "WITHDRAW"
    BY <1>1, <2>1 DEF ProcessorOK, PaysWithdrawal, NoPayout
  <2>3. txs' = [txs EXCEPT ![t] = new]
    BY <1>5 DEF RejectPayout, StorePayoutHash
  <2>4. RowOK(txs[t])
    BY <1>1, <2>2 DEF TableOK
  <2>5. RowOK(new) /\ new.type = txs[t].type /\ new.user = txs[t].user /\ new.amount = txs[t].amount
    BY <2>2, <2>4 DEF RowOK
  <2>6. Continues(txs, txs') => PaysWithdrawal'
    <3>1. processor' = NoPayout \/ processor' = [step |-> "done", id |-> t]
      BY <1>5 DEF RejectPayout, StorePayoutHash
    <3> QED BY <2>2, <3>1 DEF PaysWithdrawal, Continues
  <2>7. Continues(txs, txs') => RequestsAsked' /\ ChecksComplete'
    BY <1>2, AskedRests, CompletesRests
  <2>8. \A u : InFlightOf(request', u) = InFlightOf(request, u)
    BY <1>2
  <2> HIDE DEF new, t
  <2>9. Continues(txs, txs') => RequestsAsked' /\ PaysWithdrawal' /\ ChecksComplete'
    BY <2>6, <2>7
  <2> QED BY <1>2, <1>3, <2>1, <2>2, <2>3, <2>5, <2>8, <2>9, RowStep
<1>6. CASE SendPayout
  <2> DEFINE x == Outgo("payout", processor.id, PendingNonce)
  <2>1. chain' = Append(chain, x) /\ height' = height /\ UNCHANGED txs
    BY <1>6 DEF SendPayout, OnChain, ledgerVars
  <2>2. /\ {"kind", "logs", "block"} \subseteq DOMAIN x /\ x.logs = <<>>
    BY DEF Outgo
  <2>3. <<>> \in LogsType /\ Len(<<>>) <= MaxLogs
    BY DepositAssumption DEF LogsType
  <2>4. height' \in Nat /\ height <= height'
    BY <2>1, LedgerParts DEF ChainTyped
  <2> HIDE DEF x
  <2>5. ChainTyped' /\ ChainGoesOn
    BY <2>1, <2>2, <2>3, <2>4, ChainAppended
  <2>6. processor.step = "send" /\ processor'.id = processor.id
    BY <1>6 DEF SendPayout
  <2>7. PaysWithdrawal'
    BY <1>1, <2>1, <2>6 DEF PaysWithdrawal, NoPayout
  <2> QED BY <1>2, <2>1, <2>5, <2>7, ProcessorStep
<1>7. CASE CompletePayout \/ PayoutThrows
  <2>1. processor' = NoPayout /\ UNCHANGED <<txs, chainVars>>
    BY <1>7 DEF CompletePayout, PayoutThrows, ledgerVars
  <2>2. PaysWithdrawal'
    BY <2>1 DEF PaysWithdrawal
  <2>3. ChainTyped' /\ ChainGoesOn
    BY <2>1, ChainSame
  <2> QED BY <1>2, <2>1, <2>2, <2>3, ProcessorStep
<1> QED BY <1>4, <1>5, <1>6, <1>7 DEF PayoutNext, PayoutStep

LEMMA GasGoes ==
  ASSUME LedgerInv, PayInv', GasNext
  PROVE  Goes
<1>1. TableOK(txs) /\ MoneyTyped /\ RequestsOK /\ RequestsAsked
  BY LedgerParts
<1>2. UNCHANGED <<processor, check, cursor, scan, cash, orphanedCash, released>>
  BY DEF GasNext, ScanStuck, MarkStuck, StuckCheckThrows, ReadForSpeedUp, ReadForRefund, SpeedUp,
         StoreSpeedUp, Refund, InterventionThrows, ledgerVars, cashTable, txHistory, withdrawalVars,
         payoutVars, depositVars
<1>3. cash' \in [Payers -> CashRow] /\ \A u \in Payers : cash'[u].locked = cash[u].locked
  BY <1>1, <1>2 DEF MoneyTyped
<1>4. AskedOK(NoRequest, txs) /\ NoRequest.step # "withdraw" /\ AskedOK(NoRequest, txs')
  BY DEF AskedOK, NoRequest
<1>5. <<>> \in LogsType /\ Len(<<>>) <= MaxLogs
  BY DepositAssumption DEF LogsType
<1>6. CASE ScanStuck \/ \E t \in TxIds : StuckCheckThrows
  <2>1. UNCHANGED <<txs, request, chainVars>>
    BY <1>6 DEF ScanStuck, StuckCheckThrows, ledgerVars
  <2>2. ChainTyped' /\ ChainGoesOn
    BY <2>1, ChainSame
  <2> QED BY <1>2, <2>1, <2>2, SilentStep
<1>7. CASE \E t \in TxIds : MarkStuck(t)
  <2>1. PICK t \in TxIds : MarkStuck(t)
    BY <1>7
  <2> DEFINE new == [txs[t] EXCEPT !.stuck = TRUE]
  <2>2. txs' = [txs EXCEPT ![t] = new] /\ UNCHANGED <<request, chainVars>>
    BY <2>1 DEF MarkStuck
  <2>3. CASE t \in DOMAIN txs
    <3>1. RowOK(txs[t])
      BY <1>1, <2>3 DEF TableOK
    <3>2. /\ RowOK(new) /\ new.type = txs[t].type /\ new.user = txs[t].user
          /\ new.amount = txs[t].amount /\ new.hash = txs[t].hash
      BY <3>1 DEF RowOK
    <3>3. Continues(txs, txs') => RequestsAsked' /\ PaysWithdrawal' /\ ChecksComplete'
      BY <1>2, <2>2, AskedRests, PaysRests, CompletesRests
    <3>4. \A u : InFlightOf(request', u) = InFlightOf(request, u)
      BY <2>2
    <3> HIDE DEF new
    <3> QED BY <1>2, <1>3, <2>2, <2>3, <3>2, <3>3, <3>4, RowStep
  <2>4. CASE t \notin DOMAIN txs
    <3>1. txs' = txs
      <4>1. txs \in [1 .. Len(txs) -> Range(txs)]
        BY <1>1, LenProperties DEF TableOK, IsTable, IsSeq
      <4> QED BY <2>2, <2>4, <4>1
    <3>2. ChainTyped' /\ ChainGoesOn
      BY <2>2, ChainSame
    <3> QED BY <1>2, <2>2, <3>1, <3>2, SilentStep
  <2> QED BY <2>3, <2>4
<1>8. CASE \E c \in Clients, t \in TxIds : ReadForSpeedUp(c, t)
  <2>1. PICK c \in Clients, t \in TxIds : ReadForSpeedUp(c, t)
    BY <1>8
  <2> DEFINE q == [step |-> "speedUp", id |-> t]
  <2>2. /\ request' = [request EXCEPT ![c] = q] /\ UNCHANGED <<txs, chainVars>>
        /\ request[c].step # "withdraw" /\ txs[t].type = "WITHDRAW"
    BY <2>1 DEF ReadForSpeedUp, NoRequest, withdrawalVars
  <2>3. AskedOK(q, txs) /\ q.step # "withdraw"
    BY <2>2 DEF AskedOK
  <2>4. ChainTyped' /\ ChainGoesOn
    BY <2>2, ChainSame
  <2> HIDE DEF q
  <2> QED BY <1>2, <2>2, <2>3, <2>4, RequestStep
<1>9. CASE \E c \in Clients, t \in TxIds : ReadForRefund(c, t)
  <2>1. PICK c \in Clients, t \in TxIds : ReadForRefund(c, t)
    BY <1>9
  <2> DEFINE q == [step |-> "refund", hash |-> txs[t].hash]
  <2>2. /\ request' = [request EXCEPT ![c] = q] /\ UNCHANGED <<txs, chainVars>>
        /\ request[c].step # "withdraw"
    BY <2>1 DEF ReadForRefund, NoRequest, withdrawalVars
  <2>3. AskedOK(q, txs) /\ q.step # "withdraw"
    BY DEF AskedOK
  <2>4. ChainTyped' /\ ChainGoesOn
    BY <2>2, ChainSame
  <2> HIDE DEF q
  <2> QED BY <1>2, <2>2, <2>3, <2>4, RequestStep
<1>10. CASE \E c \in Clients : SpeedUp(c)
  <2>1. PICK c \in Clients : SpeedUp(c)
    BY <1>10
  <2> DEFINE x == Outgo("payout", request[c].id, LatestNonce)
             q == [step |-> "storeSpeedUp", id |-> request[c].id, hash |-> Len(chain) + 1]
  <2>2. /\ request[c].step = "speedUp" /\ request' = [request EXCEPT ![c] = q] /\ UNCHANGED txs
        /\ chain' = Append(chain, x) /\ height' = height
    BY <2>1 DEF SpeedUp, OnChain
  <2>3. {"kind", "logs", "block"} \subseteq DOMAIN x /\ x.logs = <<>>
    BY DEF Outgo
  <2>4. height' \in Nat /\ height <= height'
    BY <2>2, LedgerParts DEF ChainTyped
  <2>5. AskedOK(q, txs) /\ q.step # "withdraw"
    BY <1>1, <2>2 DEF AskedOK, RequestsAsked
  <2> HIDE DEF x, q
  <2>6. ChainTyped' /\ ChainGoesOn
    BY <1>5, <2>2, <2>3, <2>4, ChainAppended
  <2>7. request[c].step # "withdraw"
    BY <2>2
  <2> QED BY <1>2, <2>2, <2>5, <2>6, <2>7, RequestStep
<1>11. CASE \E c \in Clients : StoreSpeedUp(c)
  <2>1. PICK c \in Clients : StoreSpeedUp(c)
    BY <1>11
  <2> DEFINE t   == request[c].id
             new == [txs[t] EXCEPT !.hash = request[c].hash, !.speedUps = @ + 1]
  <2>2. /\ request[c].step = "storeSpeedUp" /\ request' = [request EXCEPT ![c] = NoRequest]
        /\ txs' = [txs EXCEPT ![t].hash = request[c].hash, ![t].speedUps = @ + 1]
        /\ UNCHANGED chainVars
    BY <2>1 DEF StoreSpeedUp, withdrawalVars
  <2>3. t \in DOMAIN txs /\ txs[t].type = "WITHDRAW"
    BY <1>1, <2>2 DEF RequestsOK, RequestOK, RequestsAsked, AskedOK
  <2>4. RowOK(txs[t])
    BY <1>1, <2>3 DEF TableOK
  <2>5. RowOK(new) /\ new.type = txs[t].type /\ new.user = txs[t].user /\ new.amount = txs[t].amount
    BY <2>3, <2>4 DEF RowOK
  <2>6. txs' = [txs EXCEPT ![t] = new]
    BY <2>2, <2>3
  <2>7. Continues(txs, txs') => RequestsAsked' /\ PaysWithdrawal' /\ ChecksComplete'
    BY <1>2, <1>4, <2>2, AskedMoves, PaysRests, CompletesRests
  <2>8. \A u : InFlightOf(request', u) = InFlightOf(request, u)
    BY <1>4, <2>2, WeightsSame
  <2> HIDE DEF new, t
  <2> QED BY <1>2, <1>3, <2>2, <2>3, <2>5, <2>6, <2>7, <2>8, RowStep
<1>12. CASE \E c \in Clients : Refund(c)
  <2>1. PICK c \in Clients : Refund(c)
    BY <1>12
  <2> DEFINE x == Outgo("cancel", 0, chain[request[c].hash].nonce)
  <2>2. /\ request[c].step # "withdraw" /\ request' = [request EXCEPT ![c] = NoRequest]
        /\ UNCHANGED txs /\ chain' = Append(chain, x) /\ height' = height
    BY <2>1 DEF Refund, OnChain
  <2>3. {"kind", "logs", "block"} \subseteq DOMAIN x /\ x.logs = <<>>
    BY DEF Outgo
  <2>4. height' \in Nat /\ height <= height'
    BY <2>2, LedgerParts DEF ChainTyped
  <2> HIDE DEF x
  <2>5. ChainTyped' /\ ChainGoesOn
    BY <1>5, <2>2, <2>3, <2>4, ChainAppended
  <2> QED BY <1>2, <1>4, <2>2, <2>5, RequestStep
<1>13. CASE \E c \in Clients : InterventionThrows(c)
  <2>1. PICK c \in Clients : InterventionThrows(c)
    BY <1>13
  <2>2. /\ request[c].step # "withdraw" /\ request' = [request EXCEPT ![c] = NoRequest]
        /\ UNCHANGED <<txs, chainVars>>
    BY <2>1 DEF InterventionThrows, withdrawalVars
  <2>3. ChainTyped' /\ ChainGoesOn
    BY <2>2, ChainSame
  <2> QED BY <1>2, <1>4, <2>2, <2>3, RequestStep
<1> QED BY <1>6, <1>7, <1>8, <1>9, <1>10, <1>11, <1>12, <1>13 DEF GasNext

\* A block with a payout; a payout has no transfers to the treasury in it.
LEMMA MineGoes ==
  ASSUME LedgerInv, PayInv', MineNext
  PROVE  Goes
<1>1. ChainTyped
  BY LedgerParts
<1>2. PICK i \in 1 .. MaxChain, fate \in {"mined", "reverted"} : Mine(i, fate)
  BY DEF MineNext
<1>3. UNCHANGED <<txs, request, processor, check, cursor, scan, cash, orphanedCash, released>>
  BY <1>2 DEF MineNext, Mine, ledgerVars, cashTable, txHistory, payoutVars, depositVars
<1>4. /\ i \in DOMAIN chain /\ OfTreasury(chain[i]) /\ height' = height + 1
      /\ chain' = [k \in DOMAIN chain |->
           CASE k = i -> [chain[i] EXCEPT !.fate = fate, !.block = height + 1]
             [] k # i /\ k \in Outgoing /\ chain[k].nonce = chain[i].nonce
                  -> [chain[k] EXCEPT !.fate = "dropped"]
             [] OTHER -> chain[k]]
  BY <1>2 DEF Mine, Outgoing
<1>5. height \in Nat /\ height' \in Nat /\ height <= height'
  BY <1>1, <1>4 DEF ChainTyped
<1>6. DOMAIN chain' = DOMAIN chain
  BY <1>4
<1>7. ASSUME NEW k \in DOMAIN chain
      PROVE  /\ {"kind", "logs", "block"} \subseteq DOMAIN chain'[k]
             /\ chain'[k].logs = chain[k].logs /\ chain'[k].kind = chain[k].kind
             /\ chain[k].logs # <<>> => chain'[k].block = chain[k].block
  <2>1. {"kind", "logs", "block"} \subseteq DOMAIN chain[k]
    BY <1>1 DEF ChainTyped
  <2>2. CASE k = i
    <3>1. chain'[k] = [chain[k] EXCEPT !.fate = fate, !.block = height + 1]
      BY <1>4, <2>2
    <3>2. chain[k].logs = <<>>
      BY <1>1, <1>4, <2>2 DEF ChainTyped
    <3> QED BY <2>1, <3>1, <3>2
  <2>3. CASE k # i /\ k \in Outgoing /\ chain[k].nonce = chain[i].nonce
    <3>1. chain'[k] = [chain[k] EXCEPT !.fate = "dropped"]
      BY <1>4, <2>3
    <3> QED BY <2>1, <3>1
  <2>4. CASE k # i /\ ~(k \in Outgoing /\ chain[k].nonce = chain[i].nonce)
    <3>1. chain'[k] = chain[k]
      BY <1>4, <2>4
    <3> QED BY <2>1, <3>1
  <2> QED BY <2>2, <2>3, <2>4
<1>8. ChainTyped'
  <2> SUFFICES ASSUME NEW k \in DOMAIN chain
               PROVE  /\ {"kind", "logs", "block"} \subseteq DOMAIN chain'[k]
                      /\ chain'[k].logs \in LogsType /\ Len(chain'[k].logs) <= MaxLogs
                      /\ chain'[k].logs # <<>> =>
                           ~OfTreasury(chain'[k]) /\ chain'[k].block \in 1 .. height'
    BY <1>5, <1>6 DEF ChainTyped
  <2>1. /\ chain[k].logs \in LogsType /\ Len(chain[k].logs) <= MaxLogs
        /\ chain[k].logs # <<>> => ~OfTreasury(chain[k]) /\ chain[k].block \in 1 .. height
    BY <1>1 DEF ChainTyped
  <2>2. OfTreasury(chain'[k]) <=> OfTreasury(chain[k])
    BY <1>7 DEF OfTreasury
  <2> QED BY <1>5, <1>7, <2>1, <2>2
<1>9. ChainGoesOn
  BY <1>5, <1>6, <1>7 DEF ChainGoesOn
<1> QED BY <1>3, <1>8, <1>9, SilentStep

LEMMA ChainGoes ==
  ASSUME LedgerInv, PayInv', BlockNext \/ ReceiveNext
  PROVE  Goes
<1>1. ChainTyped /\ height \in Nat
  BY LedgerParts DEF ChainTyped
<1>2. UNCHANGED <<txs, request, processor, check, cursor, scan, cash, orphanedCash, released>>
  BY DEF BlockNext, PassBlock, ReceiveNext, Receive, ledgerVars, cashTable, txHistory, payoutVars,
         depositVars
<1>3. CASE BlockNext
  <2>1. height' = height + 1 /\ chain' = chain
    BY <1>3 DEF BlockNext, PassBlock
  <2>2. ChainGoesOn
    BY <1>1, <2>1 DEF ChainGoesOn
  <2>3. ChainTyped'
    <3> SUFFICES ASSUME NEW k \in DOMAIN chain, chain[k].logs # <<>>
                 PROVE  chain[k].block \in 1 .. height'
      BY <1>1, <2>1 DEF ChainTyped
    <3>1. chain[k].block \in 1 .. height
      BY <1>1 DEF ChainTyped
    <3> QED BY <1>1, <2>1, <3>1
  <2> QED BY <1>2, <2>2, <2>3, SilentStep
<1>4. CASE ReceiveNext
  <2>1. PICK logs \in Transfers : Receive(logs)
    BY <1>4 DEF ReceiveNext
  <2> DEFINE x == [kind |-> "deposit", tx |-> 0, nonce |-> 0, fate |-> "mined",
                   block |-> height + 1, logs |-> logs]
  <2>2. chain' = Append(chain, x) /\ height' = height + 1
    BY <2>1 DEF Receive
  <2>3. {"kind", "logs", "block"} \subseteq DOMAIN x /\ x.kind = "deposit" /\ x.logs = logs
        /\ x.block = height + 1
    OBVIOUS
  <2> HIDE DEF x
  <2>4. logs \in LogsType /\ Len(logs) <= MaxLogs
    BY DepositAssumption DEF LogsType
  <2>5. height' \in Nat /\ height <= height' /\ x.block \in height + 1 .. height'
    BY <1>1, <2>2, <2>3
  <2>6. x.logs \in LogsType /\ Len(x.logs) <= MaxLogs
        /\ (x.logs # <<>> => x.kind = "deposit" /\ x.block \in height + 1 .. height')
    BY <2>3, <2>4, <2>5
  <2>7. ChainTyped' /\ ChainGoesOn
    BY <2>2, <2>3, <2>5, <2>6, ChainAppended
  <2> QED BY <1>2, <2>7, SilentStep
<1> QED BY <1>3, <1>4

------------------------------------------------------------------------------
(***************************************************************************)
(* Scans                                                                   *)
(***************************************************************************)
\* There is a first transfer in what a scan has read.
LEMMA FirstLogIs ==
  ASSUME LedgerInv, NEW S, S \subseteq Logs, S # {}
  PROVE  FirstLog(S) \in S
<1>1. IsSeq(chain)
  BY LedgerParts
<1>2. DOMAIN chain \subseteq Nat
  BY <1>1, SeqLength
<1>3. \A l \in S : l.hash \in Nat /\ l.log \in Nat
  BY <1>2, DepositAssumption DEF Logs
<1> DEFINE H == {l.hash : l \in S}
<1>4. H \subseteq Nat /\ H # {}
  BY <1>3
<1>5. PICK h \in H : \A y \in H : h <= y
  BY <1>4, LeastNatural
<1> DEFINE L == {l.log : l \in {k \in S : k.hash = h}}
<1>6. L \subseteq Nat /\ L # {}
  BY <1>3, <1>5
<1>7. PICK n \in L : \A y \in L : n <= y
  BY <1>6, LeastNatural
<1>8. PICK l \in S : l.hash = h /\ l.log = n
  BY <1>7
<1>9. \A k \in S : l.hash < k.hash \/ (l.hash = k.hash /\ l.log <= k.log)
  <2> SUFFICES ASSUME NEW k \in S
               PROVE  l.hash < k.hash \/ (l.hash = k.hash /\ l.log <= k.log)
    OBVIOUS
  <2>1. k.hash \in H /\ h <= k.hash
    BY <1>5
  <2>2. k.hash = h => n <= k.log
    BY <1>7
  <2> QED BY <1>3, <1>8, <2>1, <2>2
<1> QED BY <1>9 DEF FirstLog

LEMMA ScansMove ==
  ASSUME LedgerInv, ChainGoesOn, NEW s \in Scans, NEW q, ScanOK(q)', scan' = [scan EXCEPT ![s] = q],
         cursor' \in {NoCursor} \cup (0 .. height')
  PROVE  ScansTyped'
<1>1. ScansTyped
  BY LedgerParts
<1>2. ASSUME NEW r \in Scans
      PROVE  ScanOK(scan[r])'
  <2>1. scan'[r] = IF r = s THEN q ELSE scan[r]
    BY <1>1 DEF ScansTyped
  <2>2. ScanOK(scan[r])
    BY <1>1 DEF ScansTyped
  <2> QED BY <2>1, <2>2, ScanGoesOn
<1> QED BY <1>1, <1>2 DEF ScansTyped

LEMMA ScanningGoes ==
  ASSUME LedgerInv, PayInv', ScanNext
  PROVE  Goes
<1>1. /\ TableOK(txs) /\ MoneyTyped /\ ChainTyped /\ ScansTyped /\ height \in Nat
  BY LedgerParts DEF ChainTyped
<1>2. UNCHANGED <<chainVars, request, processor, check, cash, orphanedCash, released>>
  BY DEF ScanNext, ScanStep, StartScan, ScanTransfer, ScanTransferFails, MoveCursor, ScanThrows,
         ledgerVars, cashTable, txHistory, withdrawalVars, payoutVars
<1>3. ChainTyped' /\ ChainGoesOn /\ height' = height
  BY <1>2, ChainSame DEF chainVars
<1>4. cash' \in [Payers -> CashRow] /\ \A u \in Payers : cash'[u].locked = cash[u].locked
  BY <1>1, <1>2 DEF MoneyTyped
<1>5. \A u : InFlightOf(request', u) = InFlightOf(request, u)
  BY <1>2
<1>6. cursor \in {NoCursor} \cup (0 .. height')
  BY <1>1, <1>3 DEF ScansTyped
<1>7. \A q : ScanOK(q) => ScanOK(q)'
  BY <1>3, ScanGoesOn
<1>8. ScanOK(NoScan)'
  BY DEF ScanOK
<1>9. ASSUME ScansTyped', UNCHANGED txs
      PROVE  Goes
  <2>1. Continues(txs, txs')
    BY <1>1, <1>9, TableSame
  <2>2. RequestsAsked' /\ PaysWithdrawal' /\ ChecksComplete'
    BY <1>2, <2>1, AskedRests, PaysRests, CompletesRests
  <2> QED BY <1>2, <1>3, <1>5, <1>9, <2>2, NoRowStep
<1>10. PICK s \in Scans : \/ StartScan(s) \/ ScanTransfer(s) \/ MoveCursor(s)
                          \/ ScanTransferFails(s) \/ ScanThrows(s)
  BY DEF ScanNext, ScanStep
<1>11. CASE StartScan(s)
  <2> DEFINE to   == Smallest(height, LastScanned + 1 + BlockRange)
             todo == {l \in LogsIn(LastScanned + 1, to) : l.log \in DOMAIN chain[l.hash].logs}
  <2>0. PICK q : q = [step |-> "scan", from |-> LastScanned, to |-> to, todo |-> todo]
    OBVIOUS
  <2>1. LastScanned < height /\ scan' = [scan EXCEPT ![s] = q] /\ UNCHANGED <<txs, cursor>>
    BY <1>11, <2>0 DEF StartScan, ledgerVars
  <2>2. LastScanned \in 0 .. height
    BY <1>1, DepositAssumption DEF ScansTyped, LastScanned, Largest, NoCursor
  <2>3. to \in LastScanned .. height
    BY <1>1, <2>1, <2>2, DepositAssumption DEF Smallest
  <2>4. todo \subseteq Logs
    BY DEF LogsIn, Logs
  <2> HIDE DEF to, todo
  <2>5. ScanOK(q)
    BY <2>0, <2>2, <2>3, <2>4 DEF ScanOK
  <2>6. ScanOK(q)'
    BY <1>7, <2>5
  <2>7. ScansTyped'
    BY <1>3, <1>6, <2>1, <2>6, ScansMove
  <2> QED BY <1>9, <2>1, <2>7
<1>12. CASE MoveCursor(s)
  <2>1. scan[s].step = "scan" /\ cursor' = scan[s].to /\ scan' = [scan EXCEPT ![s] = NoScan]
        /\ UNCHANGED txs
    BY <1>12 DEF MoveCursor, ledgerVars
  <2>2. scan[s].to \in 0 .. height
    BY <1>1, <2>1 DEF ScansTyped, ScanOK, NoScan
  <2>3. ScansTyped'
    BY <1>3, <1>8, <2>1, <2>2, ScansMove
  <2> QED BY <1>9, <2>1, <2>3
<1>13. CASE ScanThrows(s)
  <2>1. scan' = [scan EXCEPT ![s] = NoScan] /\ UNCHANGED <<txs, cursor>>
    BY <1>13 DEF ScanThrows
  <2>2. ScansTyped'
    BY <1>3, <1>6, <1>8, <2>1, ScansMove
  <2> QED BY <1>9, <2>1, <2>2
<1>14. CASE ScanTransfer(s) \/ ScanTransferFails(s)
  <2> DEFINE l == FirstLog(scan[s].todo)
  <2>0. PICK q : q = [scan[s] EXCEPT !.todo = @ \ {l}]
    OBVIOUS
  <2>1. scan[s].step = "scan" /\ scan[s].todo # {} /\ scan' = [scan EXCEPT ![s] = q] /\ UNCHANGED cursor
    BY <1>14, <2>0 DEF ScanTransfer, ScanTransferFails, NextScanned
  <2>2. ScanOK(scan[s]) /\ scan[s].todo \subseteq Logs
    BY <1>1, <2>1 DEF ScansTyped, ScanOK, NoScan
  <2>3. l \in Logs
    BY <2>1, <2>2, FirstLogIs
  <2> HIDE DEF l
  <2>4. ScanOK(q)
    BY <2>0, <2>1, <2>2 DEF ScanOK, NoScan
  <2>5. ScansTyped'
    <3>1. ScanOK(q)'
      BY <1>7, <2>4
    <3> QED BY <1>3, <1>6, <2>1, <3>1, ScansMove
  <2>6. CASE UNCHANGED txs
    BY <1>9, <2>5, <2>6
  <2> DEFINE log == chain[l.hash].logs[l.log]
             row == TxRow("DEPOSIT", log.from, log.amount, "PENDING", l.hash, 0)
  <2>7. CASE Len(txs) + 1 <= MaxTxs /\ txs' = Append(txs, row)
    <3>1. log.amount \in Int
      <4>1. /\ chain[l.hash].logs \in Seq([from : Nat, amount : Nat])
            /\ l.log \in DOMAIN chain[l.hash].logs
        BY <1>1, <2>3 DEF ChainTyped, LogsType, Logs
      <4>2. log \in [from : Nat, amount : Nat]
        <5> DEFINE logs == chain[l.hash].logs
        <5>1. logs \in [1 .. Len(logs) -> [from : Nat, amount : Nat]]
          BY <4>1, LenProperties
        <5>2. l.log \in DOMAIN logs
          BY <4>1
        <5> HIDE DEF logs
        <5> QED BY <5>1, <5>2 DEF logs
      <4> QED BY <4>2
    <3> HIDE DEF log
    <3>2. RowOK(row) /\ row.type = "DEPOSIT"
      BY <3>1, NewRowOK DEF TxTypes
    <3> HIDE DEF row
    <3>3. TableOK(txs') /\ Continues(txs, txs')
      BY <1>1, <2>7, <3>2, RowAppended
    <3>4. \A t \in DOMAIN txs' \ DOMAIN txs : txs'[t] = row
      BY <1>1, <2>7, <3>2, RowAppended
    <3>5. RequestsAsked' /\ PaysWithdrawal' /\ ChecksComplete'
      BY <1>2, <3>3, AskedRests, PaysRests, CompletesRests
    <3>6. \A t \in DOMAIN txs' \ DOMAIN txs : txs'[t].type # "WITHDRAW"
      BY <3>2, <3>4
    <3> QED BY <1>2, <1>3, <1>4, <1>5, <2>5, <3>3, <3>5, <3>6, QuietStep
  <2> QED BY <1>14, <2>6, <2>7 DEF ScanTransfer, ScanTransferFails, Room, l
<1> QED BY <1>10, <1>11, <1>12, <1>13, <1>14

------------------------------------------------------------------------------
(***************************************************************************)
(* The check of what is deep enough, and restarts                          *)
(***************************************************************************)
LEMMA CheckingGoes ==
  ASSUME LedgerInv, PayInv', CheckNext
  PROVE  Goes
<1>1. TableOK(txs) /\ MoneyTyped /\ ChecksOK /\ ChecksComplete /\ cashRows \subseteq Payers
  BY LedgerParts
<1>2. UNCHANGED <<chainVars, request, processor, cursor, scan, orphanedCash>>
  BY DEF CheckNext, CheckStep, StartCheck, CountConfirmations, Finish, EndCheck, CheckFails,
         ledgerVars, withdrawalVars, payoutVars, depositVars
<1>3. ChainTyped' /\ ChainGoesOn
  BY <1>2, ChainSame
<1>4. ScansTyped'
  BY <1>2, <1>3, ScansRest
<1>5. \A u : InFlightOf(request', u) = InFlightOf(request, u)
  BY <1>2
<1>6. ASSUME NEW r \in Checks, NEW q, Completes(q, txs), check' = [check EXCEPT ![r] = q],
             UNCHANGED <<txs, cash, released>>
      PROVE  Goes
  <2>1. Continues(txs, txs') /\ Completes(q, txs')
    BY <1>1, <1>6, TableSame
  <2>2. RequestsAsked' /\ PaysWithdrawal' /\ ChecksComplete'
    BY <1>2, <1>6, <2>1, AskedRests, PaysRests, CompletesMoves
  <2> QED BY <1>2, <1>3, <1>4, <1>5, <1>6, <2>2, NoRowStep
<1>7. PICK r \in Checks : \/ StartCheck(r) \/ CountConfirmations(r) \/ Finish(r) \/ EndCheck(r)
                          \/ CheckFails(r)
  BY DEF CheckNext, CheckStep
<1>8. CheckOK(check[r], txs) /\ Completes(check[r], txs)
  BY <1>1 DEF ChecksOK, ChecksComplete
<1>9. CASE StartCheck(r)
  <2> DEFINE q == [step |-> "count",
                   todo |-> {[id |-> t, hash |-> txs[t].hash, status |-> txs[t].status]
                               : t \in Confirmable}]
  <2>1. check' = [check EXCEPT ![r] = q] /\ UNCHANGED <<txs, cash, released>>
    BY <1>9 DEF StartCheck, ledgerVars, cashTable, txHistory
  <2>2. \A t \in Confirmable : txs[t].type # "TRANSFER"
    BY <1>1 DEF Confirmable, TableOK, RowOK
  <2>3. Completes(q, txs)
    BY <2>2 DEF Completes
  <2> HIDE DEF q
  <2> QED BY <1>6, <2>1, <2>3
<1>10. CASE EndCheck(r)
  <2>1. check' = [check EXCEPT ![r] = NoCheck] /\ UNCHANGED <<txs, cash, released>>
    BY <1>10 DEF EndCheck, ledgerVars, cashTable, txHistory
  <2>2. Completes(NoCheck, txs)
    BY DEF Completes
  <2> QED BY <1>6, <2>1, <2>2
<1>11. CASE CheckFails(r)
  <2>1. UNCHANGED <<txs, cash, released>>
    BY <1>11 DEF CheckFails, cashTable, txHistory
  <2>2. CASE check[r].step = "count" /\ \E x \in check[r].todo : check' = [check EXCEPT ![r].todo = @ \ {x}]
    <3>1. PICK x \in check[r].todo : check' = [check EXCEPT ![r].todo = @ \ {x}]
      BY <2>2
    <3> DEFINE q == [check[r] EXCEPT !.todo = @ \ {x}]
    <3>2. check' = [check EXCEPT ![r] = q]
      BY <3>1
    <3>3. check[r] # NoCheck /\ check[r] = [step |-> "count", todo |-> check[r].todo]
      BY <1>8, <2>2 DEF CheckOK, NoCheck
    <3>4. q = [step |-> "count", todo |-> check[r].todo \ {x}]
      BY <3>3
    <3> HIDE DEF q
    <3>5. Completes(q, txs)
      BY <1>8, <3>3, <3>4 DEF Completes
    <3> QED BY <1>6, <2>1, <3>2, <3>5
  <2>3. CASE check[r].step = "finish" /\ check' = [check EXCEPT ![r] = [step |-> "count", todo |-> check[r].todo]]
    <3> DEFINE q == [step |-> "count", todo |-> check[r].todo]
    <3>1. Completes(q, txs)
      BY <1>8, <2>3 DEF Completes, NoCheck
    <3>2. check' = [check EXCEPT ![r] = q]
      BY <2>3
    <3> HIDE DEF q
    <3> QED BY <1>6, <2>1, <3>1, <3>2
  <2> QED BY <1>11, <2>2, <2>3 DEF CheckFails
<1>12. CASE CountConfirmations(r)
  <2>1. PICK x \in check[r].todo :
          /\ txs' = [txs EXCEPT ![x.id].confirmations = Capped(Confirmations(x.hash))]
          /\ check' = [check EXCEPT ![r] =
               IF Confirmations(x.hash) >= Required
               THEN [step |-> "finish", todo |-> check[r].todo \ {x}, item |-> x]
               ELSE [step |-> "count", todo |-> check[r].todo \ {x}]]
    BY <1>12 DEF CountConfirmations
  <2> DEFINE q   == IF Confirmations(x.hash) >= Required
                    THEN [step |-> "finish", todo |-> check[r].todo \ {x}, item |-> x]
                    ELSE [step |-> "count", todo |-> check[r].todo \ {x}]
             new == [txs[x.id] EXCEPT !.confirmations = Capped(Confirmations(x.hash))]
  <2>2. check[r].step = "count" /\ UNCHANGED <<cash, released>>
    BY <1>12 DEF CountConfirmations, cashTable, txHistory
  <2>3. check[r] # NoCheck
    BY <2>2 DEF NoCheck
  <2>4. x.id \in DOMAIN txs
    BY <1>8, <2>3 DEF CheckOK
  <2>5. txs' = [txs EXCEPT ![x.id] = new] /\ check' = [check EXCEPT ![r] = q]
    BY <2>1
  <2>6. Completes(q, txs)
    BY <1>8, <2>3 DEF Completes
  <2>7. RowOK(txs[x.id])
    BY <1>1, <2>4 DEF TableOK
  <2>8. /\ RowOK(new) /\ new.type = txs[x.id].type /\ new.user = txs[x.id].user
        /\ new.amount = txs[x.id].amount /\ new.hash = txs[x.id].hash
    BY <2>7 DEF RowOK
  <2>9. Continues(txs, txs') => Completes(q, txs')
    <3>1. \A y \in check[r].todo : y.id \in DOMAIN txs
      BY <1>8, <2>3 DEF CheckOK
    <3>2. \A y \in q.todo : y.id \in DOMAIN txs
      BY <3>1
    <3>3. q.step = "finish" => q.item.id \in DOMAIN txs
      BY <2>4
    <3> HIDE DEF q
    <3> QED BY <2>6, <3>2, <3>3 DEF Completes, Continues
  <2> HIDE DEF q, new
  <2>10. Continues(txs, txs') => RequestsAsked' /\ PaysWithdrawal' /\ ChecksComplete'
    BY <1>2, <2>5, <2>9, AskedRests, PaysRests, CompletesMoves
  <2>11. cash' \in [Payers -> CashRow] /\ \A u \in Payers : cash'[u].locked = cash[u].locked
    BY <1>1, <2>2 DEF MoneyTyped
  <2> QED BY <1>2, <1>5, <2>2, <2>4, <2>5, <2>8, <2>10, <2>11, RowStep
<1>13. CASE Finish(r)
  <2> DEFINE t   == check[r].item.id
             u   == txs[t].user
             new == [txs[t] EXCEPT !.status = "COMPLETED"]
             q   == [step |-> "count", todo |-> check[r].todo]
  <2>1. /\ check[r].step = "finish" /\ txs' = [txs EXCEPT ![t].status = "COMPLETED"]
        /\ cash' = Completed(txs[t]) /\ check' = [check EXCEPT ![r] = q]
        /\ released' = IF txs[t].type = "WITHDRAW" /\ u \in cashRows
                       THEN [released EXCEPT ![t] = @ + 1] ELSE released
    BY <1>13 DEF Finish
  <2>2. check[r] # NoCheck
    BY <2>1 DEF NoCheck
  <2>3. t \in DOMAIN txs /\ txs[t].type # "TRANSFER"
    BY <1>8, <2>1, <2>2 DEF CheckOK, Completes
  <2>4. RowOK(txs[t])
    BY <1>1, <2>3 DEF TableOK
  <2>5. /\ RowOK(new) /\ new.type = txs[t].type /\ new.user = txs[t].user
        /\ new.amount = txs[t].amount /\ new.hash = txs[t].hash
    BY <2>4 DEF RowOK
  <2>6. Continues(txs, txs') => Completes(q, txs')
    <3>1. \A y \in check[r].todo : y.id \in DOMAIN txs /\ txs[y.id].type # "TRANSFER"
      BY <1>8, <2>1, <2>2 DEF CheckOK, Completes
    <3> QED BY <3>1 DEF Completes, Continues
  <2>7. txs' = [txs EXCEPT ![t] = new]
    BY <2>1
  <2> HIDE DEF q
  <2>8. Continues(txs, txs') => RequestsAsked' /\ PaysWithdrawal' /\ ChecksComplete'
    BY <1>2, <2>1, <2>6, AskedRests, PaysRests, CompletesMoves
  <2>9. CASE u \notin cashRows \/ txs[t].type = "DEPOSIT"
    <3>1. cash' \in [Payers -> CashRow] /\ \A v \in Payers : cash'[v].locked = cash[v].locked
      <4>1. CASE u \notin cashRows
        BY <1>1, <2>1, <4>1 DEF MoneyTyped, Completed
      <4>2. CASE u \in cashRows /\ txs[t].type = "DEPOSIT"
        <5> DEFINE row == [cash[u] EXCEPT !.available = @ + txs[t].amount]
        <5>1. cash' = [cash EXCEPT ![u] = row]
          BY <2>1, <4>2 DEF Completed
        <5>2. cash[u] \in CashRow /\ txs[t].amount \in Int /\ u \in Payers
          BY <1>1, <2>4, <4>2 DEF MoneyTyped, RowOK
        <5>3. row \in CashRow /\ row.locked = cash[u].locked
          BY <5>2, CashRowMoves
        <5> HIDE DEF row
        <5>4. /\ cash' \in [Payers -> CashRow] /\ cash'[u].locked = row.locked
              /\ \A v \in Payers \ {u} : cash'[v].locked = cash[v].locked
          BY <1>1, <5>1, <5>2, <5>3, RowPosted DEF MoneyTyped
        <5> QED BY <5>3, <5>4
      <4> QED BY <2>9, <4>1, <4>2
    <3>2. UNCHANGED released
      BY <2>1, <2>9
    <3> HIDE DEF new, t
    <3> QED BY <1>2, <1>5, <2>3, <2>5, <2>7, <2>8, <3>1, <3>2, RowStep
  <2>10. CASE u \in cashRows /\ txs[t].type # "DEPOSIT"
    <3> DEFINE row == [cash[u] EXCEPT !.locked = @ - txs[t].amount]
    <3>1. cash' = [cash EXCEPT ![u] = row]
      BY <2>1, <2>10 DEF Completed
    <3>2. cash[u] \in CashRow /\ txs[t].amount \in Int /\ u \in Payers
      BY <1>1, <2>4, <2>10 DEF MoneyTyped, RowOK
    <3>3. row \in CashRow /\ row.locked = cash[u].locked - txs[t].amount
      BY <3>2, CashRowMoves
    <3>4. txs[t].type = "WITHDRAW"
      BY <2>3, <2>4, <2>10 DEF RowOK, TxTypes
    <3>5. released' = [released EXCEPT ![t] = @ + 1]
      BY <2>1, <2>10, <3>4
    <3> HIDE DEF row, new, t
    <3> QED BY <1>2, <1>5, <2>1, <2>3, <2>8, <3>1, <3>2, <3>3, <3>5, ReleaseGoes
  <2> QED BY <2>9, <2>10
<1> QED BY <1>7, <1>9, <1>10, <1>11, <1>12, <1>13

\* What requests have locked is summed over those that have locked, or over all.
LEMMA InFlightIs ==
  LedgerInv => \A u : LockedInFlight(u) = SumFunctionOnSet(InFlightOf(request, u), Clients)
<1> SUFFICES ASSUME LedgerInv, NEW u
             PROVE  LockedInFlight(u) = SumFunctionOnSet(InFlightOf(request, u), Clients)
  OBVIOUS
<1> DEFINE v == InFlightOf(request, u)
           S == Withdrawing(u)
           w == [c \in S |-> request[c].asked.amount]
<1>1. \A c \in Clients : v[c] \in Int
  BY WeightsTyped
<1>2. S \subseteq Clients
  BY DEF Withdrawing
<1>3. \A c \in S : w[c] = v[c]
  BY <1>2 DEF InFlightOf, Asks, Withdrawing
<1>4. \A c \in Clients \ S : v[c] = 0
  BY DEF InFlightOf, Asks, Withdrawing
<1>5. LockedInFlight(u) = SumFunctionOnSet(w, S)
  BY DEF LockedInFlight
<1> HIDE DEF v, w, S
<1>6. SumFunctionOnSet(w, S) = SumFunctionOnSet(v, Clients)
  BY <1>1, <1>2, <1>3, <1>4, BoundedTxIds, SumRestricted
<1> QED BY <1>5, <1>6 DEF v

LEMMA UnreleasedIs ==
  LedgerInv => \A u : Unreleased(u) = SumFunctionOnSet(OwedTo(txs, released, u), TxIds)
<1> SUFFICES ASSUME LedgerInv, NEW u
             PROVE  Unreleased(u) = SumFunctionOnSet(OwedTo(txs, released, u), TxIds)
  OBVIOUS
<1> DEFINE v == OwedTo(txs, released, u)
           S == RowsOf(u)
           w == [t \in S |-> txs[t].amount * (Locks(t) - released[t])]
<1>1. \A t \in TxIds : v[t] \in Int
  BY WeightsTyped
<1>2. S \subseteq TxIds
  BY LedgerParts, TableDomain DEF RowsOf
<1>3. \A t \in S : w[t] = v[t]
  BY <1>2 DEF OwedTo, Locks, RowsOf
<1>4. \A t \in TxIds \ S : v[t] = 0
  BY DEF OwedTo, RowsOf
<1>5. Unreleased(u) = SumFunctionOnSet(w, S)
  BY DEF Unreleased
<1> HIDE DEF v, w, S
<1>6. SumFunctionOnSet(w, S) = SumFunctionOnSet(v, TxIds)
  BY <1>1, <1>2, <1>3, <1>4, BoundedTxIds, SumRestricted
<1> QED BY <1>5, <1>6 DEF v

LEMMA LockedIs == LedgerInv => (LockedIsExplained <=> Balanced)
<1> SUFFICES ASSUME LedgerInv
             PROVE  LockedIsExplained <=> Balanced
  OBVIOUS
<1>1. ASSUME NEW u \in Payers
      PROVE  OpeningCash[u].locked + LockedInFlight(u) + orphanedCash[u] + Unreleased(u)
               = OpeningCash[u].locked + SumFunctionOnSet(InFlightOf(request, u), Clients)
                 + orphanedCash[u] + SumFunctionOnSet(OwedTo(txs, released, u), TxIds)
  <2>1. LockedInFlight(u) = SumFunctionOnSet(InFlightOf(request, u), Clients)
    BY InFlightIs
  <2>2. Unreleased(u) = SumFunctionOnSet(OwedTo(txs, released, u), TxIds)
    BY UnreleasedIs
  <2> QED BY <2>1, <2>2
<1> QED BY <1>1 DEF LockedIsExplained, Balanced

\* What requests had locked is orphaned.
LEMMA RestartGoes ==
  ASSUME LedgerInv, PayInv', RestartPayments
  PROVE  Goes
<1>1. TableOK(txs) /\ MoneyTyped /\ ScansTyped
  BY LedgerParts
<1>2. /\ request' = [c \in Clients |-> NoRequest] /\ check' = [r \in Checks |-> NoCheck]
      /\ scan' = [s \in Scans |-> NoScan] /\ processor' = NoPayout
      /\ orphanedCash' = [u \in Payers |-> orphanedCash[u] + LockedInFlight(u)]
      /\ UNCHANGED <<txs, cash, released, chainVars, cursor>>
  BY DEF RestartPayments, cashTable, txHistory
<1>3. ChainTyped' /\ ChainGoesOn /\ height' = height
  BY <1>2, ChainSame DEF chainVars
<1>4. TableOK(txs') /\ Continues(txs, txs')
  BY <1>1, <1>2, TableSame
<1>5. RequestsAsked' /\ PaysWithdrawal' /\ ChecksComplete'
  BY <1>2 DEF RequestsAsked, AskedOK, NoRequest, PaysWithdrawal, ChecksComplete, Completes
<1>6. ScansTyped'
  BY <1>1, <1>2, <1>3 DEF ScansTyped, ScanOK
<1>7. \A u \in Payers : LockedInFlight(u) \in Int
  BY InFlightIs, SumsTyped DEF SumsAreInt
<1>8. MoneyTyped'
  <2>1. orphanedCash \in [Payers -> Int]
    BY <1>1 DEF MoneyTyped
  <2>2. orphanedCash' \in [Payers -> Int]
    BY <1>2, <1>7, <2>1
  <2> QED BY <1>1, <1>2, <2>2 DEF MoneyTyped
<1>9. LedgerInv'
  BY <1>3, <1>4, <1>5, <1>6, <1>8 DEF LedgerInv
<1>10. ASSUME NEW u \in Payers
       PROVE  cash'[u].locked
                = cash[u].locked
                  + (SumFunctionOnSet(InFlightOf(request', u), Clients)
                       - SumFunctionOnSet(InFlightOf(request, u), Clients))
                  + (orphanedCash'[u] - orphanedCash[u])
                  + (SumFunctionOnSet(OwedTo(txs', released', u), TxIds)
                       - SumFunctionOnSet(OwedTo(txs, released, u), TxIds))
  <2> DEFINE a  == SumFunctionOnSet(InFlightOf(request, u), Clients)
             a2 == SumFunctionOnSet(InFlightOf(request', u), Clients)
             b  == SumFunctionOnSet(OwedTo(txs, released, u), TxIds)
  <2>1. a \in Int /\ b \in Int
    BY SumsTyped DEF SumsAreInt
  <2>2. a2 = 0
    <3>1. \A c \in Clients : InFlightOf(request', u)[c] = 0
      BY <1>2 DEF InFlightOf, Asks, NoRequest
    <3> QED BY <3>1, BoundedTxIds, SumZero
  <2>3. orphanedCash'[u] = orphanedCash[u] + a
    BY <1>2, InFlightIs
  <2>4. orphanedCash[u] \in Int /\ cash[u].locked \in Int
    BY <1>1 DEF MoneyTyped, CashRow
  <2>5. cash'[u].locked = cash[u].locked /\ SumFunctionOnSet(OwedTo(txs', released', u), TxIds) = b
    BY <1>2
  <2> HIDE DEF a, a2, b
  <2>6. cash[u].locked = cash[u].locked + (a2 - a) + (orphanedCash'[u] - orphanedCash[u]) + (b - b)
    BY <2>1, <2>2, <2>3, <2>4
  <2> QED BY <2>5, <2>6 DEF a, a2, b
<1> QED BY <1>3, <1>4, <1>9, <1>10, BalanceKept

LEMMA RestingGoes ==
  ASSUME LedgerInv, PayInv', UNCHANGED payVars
  PROVE  Goes
<1>1. UNCHANGED <<txs, request, processor, check, cursor, scan, cash, orphanedCash, released, chainVars>>
  BY DEF payVars, ledgerVars, cashTable, txHistory, withdrawalVars, payoutVars, depositVars
<1>2. ChainTyped' /\ ChainGoesOn
  BY <1>1, ChainSame
<1> QED BY <1>1, <1>2, SilentStep

LEMMA LedgerStart ==
  ASSUME PayInit
  PROVE  LedgerInv /\ Balanced
<1>1. /\ txs = <<>> /\ chain = <<>> /\ height = 0 /\ cash = OpeningCash /\ cursor = NoCursor
      /\ request = [c \in Clients |-> NoRequest] /\ check = [r \in Checks |-> NoCheck]
      /\ scan = [s \in Scans |-> NoScan] /\ processor = NoPayout
      /\ orphanedCash = [u \in Payers |-> 0] /\ released = [t \in TxIds |-> 0]
  BY DEF PayInit, LedgerInit, WithdrawalInit, DepositInit
<1>2. TableOK(txs)
  <2>1. IsTable(txs)
    BY InitOK DEF PayInv, PayTyped
  <2>2. Len(txs) = 0 /\ DOMAIN txs = {} /\ MaxTxs \in Nat
    BY <1>1, PaymentAssumption
  <2> QED BY <2>1, <2>2 DEF TableOK
<1>3. RequestsAsked /\ PaysWithdrawal /\ ChecksComplete
  BY <1>1 DEF RequestsAsked, AskedOK, NoRequest, PaysWithdrawal, ChecksComplete, Completes
<1>4. MoneyTyped
  BY <1>1, PaymentAssumption DEF MoneyTyped, CashRow
<1>5. ChainTyped /\ ScansTyped
  BY <1>1 DEF ChainTyped, ScansTyped, ScanOK
<1>6. LedgerInv
  BY <1>2, <1>3, <1>4, <1>5, InitOK DEF LedgerInv
<1>7. ASSUME NEW u \in Payers
      PROVE  cash[u].locked = OpeningCash[u].locked + SumFunctionOnSet(InFlightOf(request, u), Clients)
                              + orphanedCash[u] + SumFunctionOnSet(OwedTo(txs, released, u), TxIds)
  <2>1. \A c \in Clients : InFlightOf(request, u)[c] = 0
    BY <1>1 DEF InFlightOf, Asks, NoRequest
  <2>2. SumFunctionOnSet(InFlightOf(request, u), Clients) = 0
    BY <2>1, BoundedTxIds, SumZero
  <2>3. \A t \in TxIds : OwedTo(txs, released, u)[t] = 0
    BY <1>1 DEF OwedTo
  <2>4. SumFunctionOnSet(OwedTo(txs, released, u), TxIds) = 0
    BY <2>3, BoundedTxIds, SumZero
  <2>5. OpeningCash[u].locked \in Int /\ cash[u].locked = OpeningCash[u].locked /\ orphanedCash[u] = 0
    BY <1>1, PaymentAssumption
  <2> QED BY <2>2, <2>4, <2>5
<1> QED BY <1>6, <1>7 DEF Balanced

LEMMA EveryStepGoes ==
  ASSUME LedgerInv, [PayNext]_payVars
  PROVE  Goes
<1>1. PayInv'
  BY LedgerParts, NextKeepsInv
<1>2. CASE CashNext
  BY <1>1, <1>2, CashGoes
<1>3. CASE SweepNext
  BY <1>1, <1>3, SweepGoes
<1>4. CASE AdminNext
  BY <1>1, <1>4, AdminGoes
<1>5. CASE WithdrawNext
  BY <1>1, <1>5, WithdrawGoes
<1>6. CASE PayoutNext
  BY <1>1, <1>6, PayoutGoes
<1>7. CASE GasNext
  BY <1>1, <1>7, GasGoes
<1>8. CASE MineNext
  BY <1>1, <1>8, MineGoes
<1>9. CASE BlockNext \/ ReceiveNext
  BY <1>1, <1>9, ChainGoes
<1>10. CASE ScanNext
  BY <1>1, <1>10, ScanningGoes
<1>11. CASE CheckNext
  BY <1>1, <1>11, CheckingGoes
<1>12. CASE RestartPayments
  BY <1>1, <1>12, RestartGoes
<1>13. CASE PayRest \/ UNCHANGED payVars
  BY <1>1, <1>13, RestingGoes DEF PayRest
<1> QED BY <1>2, <1>3, <1>4, <1>5, <1>6, <1>7, <1>8, <1>9, <1>10, <1>11, <1>12, <1>13 DEF PayNext

LEMMA LedgerInvariant == PaySpec => [](LedgerInv /\ Balanced)
<1>1. PayInit => LedgerInv /\ Balanced
  BY LedgerStart
<1>2. LedgerInv /\ Balanced /\ [PayNext]_payVars => LedgerInv' /\ Balanced'
  BY EveryStepGoes DEF Goes
<1> QED BY <1>1, <1>2, PTL DEF PaySpec

\* What a user has locked is explained to the cent by the withdrawals that are
\* open and by what was locked for one and never stored, for any number of
\* users, requests, runs, failures and restarts.
THEOREM LockedAlwaysExplained == PaySpec => []LockedIsExplained
<1>1. LedgerInv /\ Balanced => LockedIsExplained
  BY LockedIs
<1> QED BY <1>1, LedgerInvariant, PTL
------------------------------------------------------------------------------
\* What was scanned: once the first scan is through, everything up to the cursor.
InLog(i) == chain[i].logs # <<>>
Seen(i) == Registered(i) \/ i \in missed
SeenUpTo(b) == \A i \in DOMAIN chain : InLog(i) /\ chain[i].block <= b => Seen(i)

\* The chain is no longer than FirstRange blocks until a first run has ended.
FromStart == cursor = NoCursor => height <= FirstRange

ScanGoes(q) ==
  q # NoScan =>
    /\ cursor = NoCursor => q.from = 0
    /\ SeenUpTo(q.from)
    /\ \A i \in DOMAIN chain :
         InLog(i) /\ chain[i].block \in q.from .. q.to => Seen(i) \/ \E l \in q.todo : l.hash = i

CoverInv ==
  /\ cursor # NoCursor => scanStart = 0 /\ SeenUpTo(cursor)
  /\ \A s \in Scans : ScanGoes(scan[s])

\* What is said of a scan, and of one transaction for it.
Expected(q, i) == Seen(i) \/ \E l \in q.todo : l.hash = i

LEMMA SeenGoesOn ==
  ASSUME Continues(txs, txs'), missed \subseteq missed', NEW i, Seen(i)
  PROVE  Seen(i)'
<1>1. CASE Registered(i)
  <2>1. PICK t \in DOMAIN txs : txs[t].hash = i /\ txs[t].type = "DEPOSIT"
    BY <1>1 DEF Registered
  <2>2. t \in DOMAIN txs' /\ txs'[t].hash = i /\ txs'[t].type = "DEPOSIT"
    BY <2>1 DEF Continues
  <2> QED BY <2>2 DEF Seen, Registered
<1>2. CASE i \in missed
  BY <1>2 DEF Seen
<1> QED BY <1>1, <1>2 DEF Seen

\* What is in the blocks up to one that was there is what was in them.
LEMMA LoggedBefore ==
  ASSUME LedgerInv, LedgerInv', ChainGoesOn, NEW b \in Int, b <= height,
         NEW i \in DOMAIN chain', InLog(i)', chain'[i].block <= b
  PROVE  i \in DOMAIN chain /\ InLog(i) /\ chain'[i].block = chain[i].block
<1>1. height \in Nat /\ ChainTyped'
  BY LedgerParts DEF ChainTyped, LedgerInv
<1>2. CASE i \in DOMAIN chain
  BY <1>2 DEF ChainGoesOn, InLog
<1>3. CASE i \notin DOMAIN chain
  <2>1. height < chain'[i].block
    BY <1>3 DEF ChainGoesOn, InLog
  <2>2. chain'[i].block \in Int
    BY <1>1 DEF ChainTyped, InLog
  <2> QED BY <1>1, <2>1, <2>2
<1> QED BY <1>2, <1>3

LEMMA SeenUpToGoesOn ==
  ASSUME LedgerInv, LedgerInv', Continues(txs, txs'), ChainGoesOn, missed \subseteq missed',
         NEW b \in Int, b <= height, SeenUpTo(b)
  PROVE  SeenUpTo(b)'
<1> SUFFICES ASSUME NEW i \in DOMAIN chain', InLog(i)', chain'[i].block <= b
             PROVE  Seen(i)'
  BY DEF SeenUpTo
<1>1. i \in DOMAIN chain /\ InLog(i) /\ chain[i].block <= b
  BY LoggedBefore
<1>2. Seen(i)
  BY <1>1 DEF SeenUpTo
<1> QED BY <1>2, SeenGoesOn

LEMMA ScanIs ==
  ASSUME LedgerInv, NEW s \in Scans
  PROVE  /\ ScanOK(scan[s])
         /\ scan[s] # NoScan => /\ scan[s].from \in Int /\ scan[s].to \in Int
                                /\ 0 <= scan[s].from /\ scan[s].from <= scan[s].to /\ scan[s].to <= height
<1>1. height \in Nat /\ ScanOK(scan[s])
  BY LedgerParts DEF ChainTyped, ScansTyped
<1> QED BY <1>1 DEF ScanOK

\* A scan that another step leaves alone.
LEMMA ScanLeft ==
  ASSUME LedgerInv, LedgerInv', Continues(txs, txs'), ChainGoesOn, missed \subseteq missed',
         cursor' = NoCursor => cursor = NoCursor,
         NEW s \in Scans, ScanGoes(scan[s]), scan'[s] = scan[s]
  PROVE  ScanGoes(scan[s])'
<1> SUFFICES ASSUME scan[s] # NoScan
             PROVE  ScanGoes(scan[s])'
  BY DEF ScanGoes
<1> PICK q : q = scan[s]
  OBVIOUS
<1>1. q.from \in Int /\ q.to \in Int /\ 0 <= q.from /\ q.from <= q.to /\ q.to <= height /\ height \in Int
  BY ScanIs, LedgerParts DEF ChainTyped
<1>2. /\ cursor = NoCursor => q.from = 0
      /\ SeenUpTo(q.from)
      /\ \A i \in DOMAIN chain : InLog(i) /\ chain[i].block \in q.from .. q.to => Expected(q, i)
  BY DEF ScanGoes, Expected
<1>3. SeenUpTo(q.from)'
  BY <1>1, <1>2, SeenUpToGoesOn
<1>4. ASSUME NEW i \in DOMAIN chain', InLog(i)', chain'[i].block \in q.from .. q.to
      PROVE  Seen(i)' \/ \E l \in q.todo : l.hash = i
  <2>1. chain'[i].block <= q.to
    BY <1>1, <1>4
  <2>2. i \in DOMAIN chain /\ InLog(i) /\ chain'[i].block = chain[i].block
    BY <1>1, <1>4, <2>1, LoggedBefore
  <2>3. Expected(q, i)
    BY <1>2, <1>4, <2>2
  <2> QED BY <2>3, SeenGoesOn DEF Expected
<1>5. ScanGoes(q)'
  BY <1>2, <1>3, <1>4 DEF ScanGoes
<1> QED BY <1>5

\* A step that scans nothing.
LEMMA CoverRests ==
  ASSUME LedgerInv, LedgerInv', Continues(txs, txs'), ChainGoesOn, CoverInv,
         UNCHANGED <<cursor, scanStart, missed>>,
         \A s \in Scans : scan'[s] \in {scan[s], NoScan}
  PROVE  CoverInv'
<1>1. cursor' # NoCursor => scanStart' = 0 /\ SeenUpTo(cursor)'
  <2> SUFFICES ASSUME cursor # NoCursor
               PROVE  scanStart = 0 /\ SeenUpTo(cursor)'
    OBVIOUS
  <2> PICK b : b = cursor
    OBVIOUS
  <2>1. b \in Int /\ b <= height /\ SeenUpTo(b) /\ scanStart = 0
    BY LedgerParts DEF CoverInv, ScansTyped, ChainTyped
  <2>2. SeenUpTo(b)'
    BY <2>1, SeenUpToGoesOn
  <2> QED BY <2>1, <2>2
<1>2. ASSUME NEW s \in Scans
      PROVE  ScanGoes(scan[s])'
  <2>1. CASE scan'[s] = scan[s]
    BY <2>1, ScanLeft DEF CoverInv
  <2>2. CASE scan'[s] = NoScan
    BY <2>2 DEF ScanGoes
  <2> QED BY <2>1, <2>2
<1> QED BY <1>1, <1>2 DEF CoverInv

LEMMA StartCovers ==
  ASSUME LedgerInv, LedgerInv', Continues(txs, txs'), ChainGoesOn, CoverInv, FromStart,
         NEW s \in Scans, StartScan(s)
  PROVE  CoverInv'
<1> DEFINE to   == Smallest(height, LastScanned + 1 + BlockRange)
           todo == {l \in LogsIn(LastScanned + 1, to) : l.log \in DOMAIN chain[l.hash].logs}
<1> PICK q : q = [step |-> "scan", from |-> LastScanned, to |-> to, todo |-> todo]
  OBVIOUS
<1>1. /\ scan' = [scan EXCEPT ![s] = q] /\ LastScanned < height
      /\ UNCHANGED <<txs, chainVars, cursor, scanStart, missed>>
  BY DEF StartScan, ledgerVars, withdrawalVars
<1>2. /\ ScansTyped /\ ChainTyped /\ height \in Nat /\ cursor \in {NoCursor} \cup (0 .. height)
  BY LedgerParts DEF ChainTyped, ScansTyped
<1>3. LastScanned \in 0 .. height /\ (cursor = NoCursor => LastScanned = 0)
      /\ (cursor # NoCursor => LastScanned = cursor)
  BY <1>2, DepositAssumption DEF LastScanned, Largest, NoCursor, FromStart
<1>4. to \in Int
  BY <1>2, <1>3, DepositAssumption DEF Smallest
<1>5. SeenUpTo(q.from)
  <2>1. CASE cursor = NoCursor
    <3>1. q.from = 0
      BY <1>3, <2>1
    <3>2. \A i \in DOMAIN chain : InLog(i) => chain[i].block \in 1 .. height
      BY <1>2 DEF ChainTyped, InLog
    <3> QED BY <1>2, <3>1, <3>2 DEF SeenUpTo
  <2>2. CASE cursor # NoCursor
    BY <1>3, <2>2 DEF CoverInv
  <2> QED BY <2>1, <2>2
<1>6. ASSUME NEW i \in DOMAIN chain, InLog(i), chain[i].block \in q.from .. q.to
      PROVE  Expected(q, i)
  <2>1. CASE chain[i].block = LastScanned
    BY <1>5, <1>6, <1>3, <2>1 DEF SeenUpTo, Expected
  <2>2. CASE chain[i].block # LastScanned
    <3>1. chain[i].block \in LastScanned + 1 .. to
      BY <1>3, <1>4, <1>6, <2>2
    <3>2. chain[i].logs \in LogsType /\ Len(chain[i].logs) <= MaxLogs /\ chain[i].logs # <<>>
      BY <1>2, <1>6 DEF ChainTyped, InLog
    <3>3. 1 \in DOMAIN chain[i].logs /\ 1 \in 1 .. MaxLogs
      <4> DEFINE logs == chain[i].logs
      <4>1. logs \in Seq([from : Nat, amount : Nat]) /\ logs # <<>> /\ Len(logs) <= MaxLogs
        BY <3>2 DEF LogsType
      <4> HIDE DEF logs
      <4>2. Len(logs) \in Nat /\ DOMAIN logs = 1 .. Len(logs) /\ Len(logs) # 0
        BY <4>1, LenProperties, EmptySeq
      <4>3. 1 \in DOMAIN logs /\ 1 \in 1 .. MaxLogs
        BY <4>1, <4>2, DepositAssumption
      <4> QED BY <4>3 DEF logs
    <3> DEFINE l == [hash |-> i, log |-> 1]
    <3>4. l \in LogsIn(LastScanned + 1, to)
      BY <3>1, <3>3 DEF LogsIn
    <3>5. l \in q.todo /\ l.hash = i
      BY <3>3, <3>4
    <3> QED BY <3>5 DEF Expected
  <2> QED BY <2>1, <2>2
<1>7. ScanGoes(q)
  <2>1. cursor = NoCursor => q.from = 0
    BY <1>3
  <2> QED BY <1>5, <1>6, <2>1 DEF ScanGoes, Expected
<1>8. cursor' = cursor /\ chain' = chain /\ txs' = txs /\ missed' = missed
  BY <1>1 DEF chainVars
<1>9. ScanGoes(q)'
  BY <1>7, <1>8 DEF ScanGoes, SeenUpTo, InLog, Seen, Registered
<1>10. ASSUME NEW r \in Scans
       PROVE  ScanGoes(scan[r])'
  <2>1. scan'[r] = IF r = s THEN q ELSE scan[r]
    BY <1>1, <1>2 DEF ScansTyped
  <2>2. CASE r = s
    BY <1>9, <2>1, <2>2
  <2>3. CASE r # s
    BY <1>8, <2>1, <2>3, ScanLeft DEF CoverInv
  <2> QED BY <2>2, <2>3
<1>11. cursor' # NoCursor => scanStart' = 0 /\ SeenUpTo(cursor)'
  <2>1. cursor # NoCursor => scanStart = 0 /\ SeenUpTo(cursor)
    BY DEF CoverInv
  <2> QED BY <1>1, <1>8, <2>1 DEF SeenUpTo, InLog, Seen, Registered
<1> QED BY <1>10, <1>11 DEF CoverInv

\* One transfer is stored, passed over or lost.
LEMMA TransferCovers ==
  ASSUME LedgerInv, LedgerInv', Continues(txs, txs'), ChainGoesOn, CoverInv,
         NEW s \in Scans, ScanTransfer(s) \/ ScanTransferFails(s)
  PROVE  CoverInv'
<1> PICK l : l = FirstLog(scan[s].todo)
  OBVIOUS
<1> PICK q : q = [scan[s] EXCEPT !.todo = @ \ {l}]
  OBVIOUS
<1> PICK p : p = scan[s]
  OBVIOUS
<1>1. /\ scan[s].step = "scan" /\ scan' = [scan EXCEPT ![s] = q]
      /\ UNCHANGED <<chainVars, cursor, scanStart>> /\ missed \subseteq missed'
  BY DEF ScanTransfer, ScanTransferFails, NextScanned, withdrawalVars
<1>2. chain' = chain /\ cursor' = cursor /\ scanStart' = scanStart
  BY <1>1 DEF chainVars
<1>3. Seen(l.hash)'
  <2>1. CASE ScanTransferFails(s)
    BY <2>1 DEF ScanTransferFails, Seen
  <2>2. CASE ScanTransfer(s)
    <3> DEFINE log == chain[l.hash].logs[l.log]
               row == TxRow("DEPOSIT", log.from, log.amount, "PENDING", l.hash, 0)
    <3>1. CASE SenderOf(log) = {}
      BY <2>2, <3>1 DEF ScanTransfer, Seen
    <3>2. CASE Registered(l.hash)
      BY <1>1, <3>2, SeenGoesOn DEF Seen
    <3>3. CASE SenderOf(log) # {} /\ ~Registered(l.hash)
      <4>1. txs' = Append(txs, row)
        BY <2>2, <3>3 DEF ScanTransfer
      <4>2. row.hash = l.hash /\ row.type = "DEPOSIT"
        BY DEF TxRow
      <4>3. IsSeq(txs)
        BY LedgerParts DEF TableOK, IsTable
      <4>4. Len(txs) \in Nat /\ DOMAIN txs = 1 .. Len(txs)
        BY <4>3, SeqLength
      <4> HIDE DEF row
      <4>5. Len(txs) + 1 \in DOMAIN txs' /\ txs'[Len(txs) + 1] = row
        <5>1. IsSeq(txs') /\ Len(txs') = Len(txs) + 1
          BY <4>1, <4>3, SeqAppend
        <5>2. \A i \in DOMAIN txs' \ DOMAIN txs : txs'[i] = row
          BY <4>1, <4>3, SeqAppend
        <5>3. DOMAIN txs' = 1 .. Len(txs) + 1
          BY <5>1, SeqLength
        <5> QED BY <4>4, <5>2, <5>3
      <4>6. Registered(l.hash)'
        BY <1>2, <4>2, <4>5 DEF Registered
      <4> QED BY <4>6 DEF Seen
    <3> QED BY <3>1, <3>2, <3>3
  <2> QED BY <2>1, <2>2
<1>4. /\ p # NoScan /\ q # NoScan /\ q.from = p.from /\ q.to = p.to /\ q.todo = p.todo \ {l}
      /\ p.from \in Int /\ p.from <= p.to /\ p.to <= height /\ p.to \in Int /\ height \in Int
  <2>1. p # NoScan
    BY <1>1 DEF NoScan
  <2>2. /\ p = [step |-> "scan", from |-> p.from, to |-> p.to, todo |-> p.todo]
        /\ p.from \in Int /\ p.to \in Int /\ p.from <= p.to /\ p.to <= height
    BY <2>1, ScanIs DEF ScanOK
  <2>3. q = [step |-> "scan", from |-> p.from, to |-> p.to, todo |-> p.todo \ {l}]
    BY <2>2
  <2>4. q # NoScan
    BY <2>3 DEF NoScan
  <2>5. height \in Int
    BY LedgerParts DEF ChainTyped
  <2> QED BY <2>1, <2>2, <2>3, <2>4, <2>5
<1>5. /\ cursor = NoCursor => p.from = 0
      /\ SeenUpTo(p.from)
      /\ \A i \in DOMAIN chain : InLog(i) /\ chain[i].block \in p.from .. p.to => Expected(p, i)
  BY <1>4 DEF CoverInv, ScanGoes, Expected
<1>6. SeenUpTo(q.from)'
  BY <1>1, <1>4, <1>5, SeenUpToGoesOn
<1>7. ASSUME NEW i \in DOMAIN chain', InLog(i)', chain'[i].block \in q.from .. q.to
      PROVE  Seen(i)' \/ \E k \in q.todo : k.hash = i
  <2>1. i \in DOMAIN chain /\ InLog(i) /\ chain[i].block \in p.from .. p.to
    BY <1>2, <1>4, <1>7 DEF InLog
  <2>2. CASE Seen(i)
    BY <1>1, <2>2, SeenGoesOn
  <2>3. CASE \E k \in p.todo : k.hash = i
    BY <1>3, <1>4, <2>3
  <2> QED BY <1>5, <2>1, <2>2, <2>3 DEF Expected
<1>8. ScanGoes(q)'
  BY <1>2, <1>4, <1>5, <1>6, <1>7 DEF ScanGoes
<1>9. ASSUME NEW r \in Scans
      PROVE  ScanGoes(scan[r])'
  <2>1. scan'[r] = IF r = s THEN q ELSE scan[r]
    BY <1>1, LedgerParts DEF ScansTyped
  <2>2. CASE r = s
    BY <1>8, <2>1, <2>2
  <2>3. CASE r # s
    BY <1>1, <1>2, <2>1, <2>3, ScanLeft DEF CoverInv
  <2> QED BY <2>2, <2>3
<1>10. cursor' # NoCursor => scanStart' = 0 /\ SeenUpTo(cursor)'
  <2> SUFFICES ASSUME cursor # NoCursor
               PROVE  scanStart = 0 /\ SeenUpTo(cursor)'
    BY <1>2
  <2> PICK b : b = cursor
    OBVIOUS
  <2>1. b \in Int /\ b <= height /\ SeenUpTo(b) /\ scanStart = 0
    BY LedgerParts DEF CoverInv, ScansTyped, ChainTyped
  <2>2. SeenUpTo(b)'
    BY <1>1, <2>1, SeenUpToGoesOn
  <2> QED BY <1>2, <2>1, <2>2
<1> QED BY <1>9, <1>10 DEF CoverInv

\* The cursor moves to the end of what one run has read.
LEMMA CursorCovers ==
  ASSUME LedgerInv, LedgerInv', Continues(txs, txs'), ChainGoesOn, CoverInv,
         NEW s \in Scans, MoveCursor(s)
  PROVE  CoverInv'
<1> PICK p : p = scan[s]
  OBVIOUS
<1>1. /\ p.step = "scan" /\ p.todo = {} /\ cursor' = p.to
      /\ scanStart' = IF cursor = NoCursor THEN p.from ELSE Smallest(scanStart, p.from)
      /\ scan' = [scan EXCEPT ![s] = NoScan] /\ missed' = missed
  BY DEF MoveCursor
<1>2. p # NoScan
  BY <1>1 DEF NoScan
<1>3. /\ p.from \in Int /\ p.to \in Int /\ 0 <= p.from /\ p.from <= p.to /\ p.to <= height
      /\ height \in Int
  BY <1>2, ScanIs, LedgerParts DEF ChainTyped
<1>4. /\ cursor = NoCursor => p.from = 0
      /\ SeenUpTo(p.from)
      /\ \A i \in DOMAIN chain : InLog(i) /\ chain[i].block \in p.from .. p.to => Seen(i)
  BY <1>1, <1>2 DEF CoverInv, ScanGoes
<1>5. SeenUpTo(p.to)
  <2> SUFFICES ASSUME NEW i \in DOMAIN chain, InLog(i), chain[i].block <= p.to
               PROVE  Seen(i)
    BY DEF SeenUpTo
  <2>1. chain[i].block \in Int
    BY LedgerParts DEF ChainTyped, InLog
  <2> QED BY <1>3, <1>4, <2>1 DEF SeenUpTo
<1>6. SeenUpTo(p.to)'
  BY <1>1, <1>3, <1>5, SeenUpToGoesOn
<1>7. scanStart' = 0
  <2>1. CASE cursor = NoCursor
    BY <1>1, <1>4, <2>1
  <2>2. CASE cursor # NoCursor
    <3>1. scanStart = 0
      BY <2>2 DEF CoverInv
    <3> QED BY <1>1, <1>3, <2>2, <3>1 DEF Smallest
  <2> QED BY <2>1, <2>2
<1>8. SeenUpTo(cursor)'
  BY <1>1, <1>6
<1>9. cursor' # NoCursor
  BY <1>1, <1>3 DEF NoCursor
<1>10. ASSUME NEW r \in Scans
       PROVE  ScanGoes(scan[r])'
  <2>1. scan'[r] = IF r = s THEN NoScan ELSE scan[r]
    BY <1>1, LedgerParts DEF ScansTyped
  <2>2. CASE r = s
    BY <2>1, <2>2 DEF ScanGoes
  <2>3. CASE r # s
    BY <1>1, <1>9, <2>1, <2>3, ScanLeft DEF CoverInv
  <2> QED BY <2>2, <2>3
<1> QED BY <1>7, <1>8, <1>10 DEF CoverInv

LEMMA CoverGoes ==
  ASSUME LedgerInv, CoverInv, FromStart, [PayNext]_payVars
  PROVE  CoverInv'
<1>1. LedgerInv' /\ Continues(txs, txs') /\ ChainGoesOn
  BY EveryStepGoes DEF Goes
<1>2. CASE \/ CashNext \/ SweepNext \/ AdminNext \/ WithdrawNext \/ PayoutNext \/ GasNext \/ MineNext
           \/ PayRest \/ UNCHANGED payVars
  <2>1. UNCHANGED <<cursor, scan, scanStart, missed>>
    BY <1>2 DEF CashNext, SweepNext, AdminNext, AdminDecides, WithdrawNext, PayoutNext, PayoutStep,
                GasNext, MineNext, PayRest, payVars, depositVars
  <2> QED BY <1>1, <2>1, CoverRests
<1>3. CASE BlockNext \/ ReceiveNext \/ CheckNext
  <2>1. UNCHANGED <<cursor, scan, scanStart, missed>>
    BY <1>3 DEF BlockNext, PassBlock, ReceiveNext, Receive, CheckNext, CheckStep, StartCheck,
                CountConfirmations, Finish, EndCheck, CheckFails, depositVars
  <2> QED BY <1>1, <2>1, CoverRests
<1>4. CASE RestartPayments
  <2>1. UNCHANGED <<cursor, scanStart, missed>> /\ scan' = [s \in Scans |-> NoScan]
    BY <1>4 DEF RestartPayments
  <2>2. \A s \in Scans : scan'[s] \in {scan[s], NoScan}
    BY <2>1
  <2> QED BY <1>1, <2>1, <2>2, CoverRests
<1>5. CASE ScanNext
  <2>1. PICK s \in Scans : \/ StartScan(s) \/ ScanTransfer(s) \/ MoveCursor(s)
                          \/ ScanTransferFails(s) \/ ScanThrows(s)
    BY <1>5 DEF ScanNext, ScanStep
  <2>2. CASE ScanThrows(s)
    <3>1. UNCHANGED <<cursor, scanStart, missed>> /\ scan' = [scan EXCEPT ![s] = NoScan]
      BY <2>2 DEF ScanThrows
    <3>2. \A r \in Scans : scan'[r] \in {scan[r], NoScan}
      BY <3>1, LedgerParts DEF ScansTyped
    <3> QED BY <1>1, <3>1, <3>2, CoverRests
  <2> QED BY <1>1, <2>1, <2>2, StartCovers, TransferCovers, CursorCovers
<1> QED BY <1>2, <1>3, <1>4, <1>5 DEF PayNext

\* The scanner never passes over a transfer: whatever runs overlap, fail and
\* are cut off by restarts, each transaction in the blocks up to the cursor is
\* a deposit in the table or one that a run could not store or whose sender it
\* did not know, if the chain is no longer than FirstRange blocks while no run
\* has ended (a second run would otherwise begin later than the first one).
THEOREM ScanMissesNothing == PaySpec /\ []FromStart => []ScannedIsRegistered
<1>1. PayInit => CoverInv
  BY DEF PayInit, DepositInit, CoverInv, ScanGoes
<1>2. LedgerInv /\ CoverInv /\ FromStart /\ [PayNext]_payVars => CoverInv'
  BY CoverGoes
<1>3. LedgerInv /\ CoverInv => ScannedIsRegistered
  <2> SUFFICES ASSUME LedgerInv, CoverInv, NEW i \in DOMAIN chain, chain[i].logs # <<>>,
                      scanStart < chain[i].block, chain[i].block <= cursor
               PROVE  Registered(i) \/ i \in missed
    BY DEF ScannedIsRegistered
  <2>1. chain[i].block \in Nat \ {0}
    BY LedgerParts DEF ChainTyped
  <2>2. cursor # NoCursor
    BY <2>1 DEF NoCursor
  <2>3. SeenUpTo(cursor)
    BY <2>2 DEF CoverInv
  <2> QED BY <2>3 DEF SeenUpTo, InLog, Seen
<1> QED BY <1>1, <1>2, <1>3, LedgerInvariant, PTL DEF PaySpec
==============================================================================
