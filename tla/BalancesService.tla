--------------------------- MODULE BalancesService ---------------------------
(***************************************************************************)
(* src/modules/balances/services/balances.service.ts on PostgreSQL: calls  *)
(* of updateBalance and transferBetweenAvailableAndLocked running          *)
(* concurrently, each one a transaction of the statements findFirst,       *)
(* create (a credit to an account without a row), update, commit.          *)
(*                                                                         *)
(* The database is modelled from its documented behaviour: an update waits *)
(* for the transaction that holds the row; at RepeatableRead and           *)
(* Serializable it then aborts with a write conflict when the row was      *)
(* changed after the transaction's snapshot, at ReadCommitted it goes on   *)
(* with the row as it is now; increments and decrements are relative to    *)
(* that row.  A row that is inserted is seen by nobody before the commit,  *)
(* and a second insert for the same unique key waits for it.               *)
(***************************************************************************)
EXTENDS BalanceRequests, FiniteSets, Functions

CONSTANT MaxRetries  \* BALANCE_TX_RETRIES

ASSUME RetriesAssumption == MaxRetries \in Nat /\ IsFiniteSet(Calls) /\ IsFiniteSet(Rows)

VARIABLES
  account,    \* account[r]: whose committed row r is, None while it does not exist
  available,
  locked,
  version,    \* version[r]: how often a commit has written row r
  request,
  pc,         \* the statement each call executes next, or how it ended
  row,        \* the row findFirst or create returned
  seen,       \* the columns and the version of it that the call has read
  fresh,      \* fresh[c]: the call inserts its row, nobody else sees it yet
  attempt     \* the counter of the retry loop

table == <<account, available, locked, version>>
vars == <<account, available, locked, version, request, pc, row, seen, fresh, attempt>>

Running == {"findFirst", "create", "update", "commit"}
Ended == {"applied", "refused", "failed"}

RowsOf(a) == {r \in Rows : account[r] = a}

\* The transaction of c works on the snapshot it started with.
Snapshot(c) == request[c].isolation # "ReadCommitted"

\* The rows c has updated or inserted and not committed yet.
HeldBy(c) == IF pc[c] = "commit" \/ (fresh[c] /\ pc[c] = "update") THEN {row[c]} ELSE {}

Init ==
  /\ account = OpeningAccount
  /\ available = OpeningAvailable
  /\ locked = OpeningLocked
  /\ version = [r \in Rows |-> 0]
  /\ request = [c \in Calls |-> None]
  /\ pc = [c \in Calls |-> "idle"]
  /\ row = [c \in Calls |-> None]
  /\ seen = [c \in Calls |-> [available |-> 0, locked |-> 0, version |-> 0]]
  /\ fresh = [c \in Calls |-> FALSE]
  /\ attempt = [c \in Calls |-> 0]

(***************************************************************************)
(* The call is made; an amount that is not positive is thrown back at once.*)
(***************************************************************************)
Call(c, q) ==
  /\ pc[c] = "idle"
  /\ request' = [request EXCEPT ![c] = q]
  /\ pc' = [pc EXCEPT ![c] = IF q.amount <= 0 THEN "refused" ELSE "findFirst"]
  /\ UNCHANGED <<table, row, seen, fresh, attempt>>

(***************************************************************************)
(* findFirst has no orderBy: it returns any row of the account.  The       *)
(* sufficiency check reads nothing but that result.                        *)
(***************************************************************************)
FindRow(c, r) ==
  /\ pc[c] = "findFirst"
  /\ account[r] = request[c].account
  /\ row' = [row EXCEPT ![c] = r]
  /\ seen' = [seen EXCEPT ![c] = [available |-> available[r], locked |-> locked[r],
                                  version |-> version[r]]]
  /\ pc' = [pc EXCEPT ![c] = IF Affords(available[r], locked[r], request[c])
                             THEN "update" ELSE "refused"]
  /\ UNCHANGED <<table, request, fresh, attempt>>

FindNoRow(c) ==
  /\ pc[c] = "findFirst"
  /\ RowsOf(request[c].account) = {}
  /\ pc' = [pc EXCEPT ![c] = IF request[c].kind = "credit" THEN "create" ELSE "refused"]
  /\ UNCHANGED <<table, request, row, seen, fresh, attempt>>

(***************************************************************************)
(* balance.create.  The key (userId, assetId) is unique except where       *)
(* assetId is null; a violation is thrown and is not among the messages    *)
(* the loop retries.                                                       *)
(***************************************************************************)
KeyUnchecked(c) == FALSE

KeyTaken(c) ==
  request[c].account \notin CashAccounts /\ RowsOf(request[c].account) # {}

KeyAwaited(c) ==
  /\ request[c].account \notin CashAccounts
  /\ \E d \in Calls \ {c} : fresh[d] /\ pc[d] \in Running
                            /\ request[d].account = request[c].account

CreateRow(c, r) ==
  /\ pc[c] = "create"
  /\ ~KeyTaken(c) /\ ~KeyAwaited(c)
  /\ account[r] = None
  /\ \A d \in Calls : r \notin HeldBy(d)
  /\ row' = [row EXCEPT ![c] = r]
  /\ seen' = [seen EXCEPT ![c] = [available |-> 0, locked |-> 0, version |-> version[r]]]
  /\ fresh' = [fresh EXCEPT ![c] = TRUE]
  /\ pc' = [pc EXCEPT ![c] = "update"]
  /\ UNCHANGED <<table, request, attempt>>

CreateDuplicate(c) ==
  /\ pc[c] = "create"
  /\ KeyTaken(c)
  /\ pc' = [pc EXCEPT ![c] = "failed"]
  /\ UNCHANGED <<table, request, row, seen, fresh, attempt>>

(***************************************************************************)
(* balance.update: waits while another transaction holds the row.          *)
(***************************************************************************)
RowFree(c) == \A d \in Calls \ {c} : row[c] \notin HeldBy(d)

ConflictUnseen(c) == FALSE
Conflicting(c) == Snapshot(c) /\ version[row[c]] # seen[c].version

UpdateRow(c) ==
  /\ pc[c] = "update"
  /\ RowFree(c)
  /\ ~Conflicting(c)
  /\ pc' = [pc EXCEPT ![c] = "commit"]
  /\ UNCHANGED <<table, request, row, seen, fresh, attempt>>

ConflictUnbounded(c) ==
  /\ pc[c] = "update" /\ RowFree(c) /\ Conflicting(c)
  /\ pc' = [pc EXCEPT ![c] = "findFirst"]
  /\ attempt' = [attempt EXCEPT ![c] = @ + 1]
  /\ UNCHANGED <<table, request, row, seen, fresh>>

ConflictNotReadAgain(c) ==
  /\ pc[c] = "update" /\ RowFree(c) /\ Conflicting(c)
  /\ attempt[c] < MaxRetries
  /\ attempt' = [attempt EXCEPT ![c] = @ + 1]
  /\ UNCHANGED <<table, request, pc, row, seen, fresh>>

ConflictNotCounted(c) ==
  /\ pc[c] = "update" /\ RowFree(c) /\ Conflicting(c)
  /\ UNCHANGED vars

(***************************************************************************)
(* The conflict rolls the transaction back.  The own transaction is tried  *)
(* again from findFirst, after a backoff, up to MaxRetries times.          *)
(***************************************************************************)
Conflict(c) ==
  /\ pc[c] = "update"
  /\ RowFree(c)
  /\ Conflicting(c)
  /\ IF request[c].isolation = "own" /\ attempt[c] < MaxRetries
     THEN /\ pc' = [pc EXCEPT ![c] = "findFirst"]
          /\ attempt' = [attempt EXCEPT ![c] = @ + 1]
     ELSE /\ pc' = [pc EXCEPT ![c] = "failed"]
          /\ UNCHANGED attempt
  /\ UNCHANGED <<table, request, row, seen, fresh>>

CommitSeen(c) ==
  LET e == Effect(request[c])
      r == row[c]
  IN /\ pc[c] = "commit"
     /\ account' = [account EXCEPT ![r] = request[c].account]
     /\ available' = [available EXCEPT ![r] = seen[c].available + e.available]
     /\ locked' = [locked EXCEPT ![r] = seen[c].locked + e.locked]
     /\ version' = [version EXCEPT ![r] = @ + 1]
     /\ pc' = [pc EXCEPT ![c] = "applied"]
     /\ UNCHANGED <<request, row, seen, fresh, attempt>>

Commit(c) ==
  LET e == Effect(request[c])
      r == row[c]
  IN /\ pc[c] = "commit"
     /\ account' = [account EXCEPT ![r] = request[c].account]
     /\ available' = [available EXCEPT ![r] = (IF fresh[c] THEN 0 ELSE @) + e.available]
     /\ locked' = [locked EXCEPT ![r] = (IF fresh[c] THEN 0 ELSE @) + e.locked]
     /\ version' = [version EXCEPT ![r] = @ + 1]
     /\ pc' = [pc EXCEPT ![c] = "applied"]
     /\ UNCHANGED <<request, row, seen, fresh, attempt>>

(***************************************************************************)
(* The process dies, the connection is lost, the interactive transaction   *)
(* times out or the caller's later statements throw: the database rolls    *)
(* the transaction back, and none of these is a message the loop retries.  *)
(***************************************************************************)
Rollback(c) ==
  /\ pc[c] \in Running
  /\ pc' = [pc EXCEPT ![c] = "failed"]
  /\ UNCHANGED <<table, request, row, seen, fresh, attempt>>

Step(c) ==
  \/ \E r \in Rows : FindRow(c, r) \/ CreateRow(c, r)
  \/ FindNoRow(c)
  \/ CreateDuplicate(c)
  \/ UpdateRow(c)
  \/ Conflict(c)
  \/ Commit(c)

\* Every call has ended; a state without a successor is then one where calls
\* wait for each other.
Done ==
  /\ \A c \in Calls : pc[c] \in Ended
  /\ UNCHANGED vars

Next ==
  \/ \E c \in Calls :
       \/ \E q \in Requests : Call(c, q)
       \/ Step(c)
       \/ Rollback(c)
  \/ Done

(***************************************************************************)
(* Node's event loop and the database serve every statement that can run.  *)
(* Nothing obliges anybody to make a call, or a transaction to fail.       *)
(***************************************************************************)
Spec == Init /\ [][Next]_vars
FairSpec == Spec /\ \A c \in Calls : WF_vars(Step(c))

------------------------------------------------------------------------------

\* The state has the shape the table and the methods' local variables give it;
\* the retry counter never passes BALANCE_TX_RETRIES.
TypeOK ==
  /\ account \in [Rows -> Accounts \cup {None}]
  /\ available \in [Rows -> Int]
  /\ locked \in [Rows -> Int]
  /\ version \in [Rows -> Nat]
  /\ request \in [Calls -> Requests \cup {None}]
  /\ pc \in [Calls -> {"idle"} \cup Running \cup Ended]
  /\ row \in [Calls -> Rows \cup {None}]
  /\ seen \in [Calls -> [available : Int, locked : Int, version : Nat]]
  /\ fresh \in [Calls -> BOOLEAN]
  /\ attempt \in [Calls -> 0 .. MaxRetries]
  /\ \A c \in Calls : pc[c] # "idle" => request[c] \in Requests
  /\ \A c \in Calls : pc[c] \in {"update", "commit", "applied"} => row[c] \in Rows

\* No column of a wallet is ever negative, although the check and the decrement
\* are separate statements and other calls commit between them.
NonNegative == \A r \in Rows : available[r] >= 0 /\ locked[r] >= 0

\* Every applied call, and no other, has left its effect on its account, exactly
\* once: no update is lost, none is applied again by a retry, none half.
AppliedTo(a) == {c \in Calls : pc[c] = "applied" /\ request[c].account = a}
OpeningRows(a) == {r \in Rows : OpeningAccount[r] = a}
NothingLost ==
  \A a \in Accounts :
    /\ SumFunctionOnSet(available, RowsOf(a))
         = SumFunctionOnSet(OpeningAvailable, OpeningRows(a))
           + SumFunctionOnSet([c \in AppliedTo(a) |-> Effect(request[c]).available], AppliedTo(a))
    /\ SumFunctionOnSet(locked, RowsOf(a))
         = SumFunctionOnSet(OpeningLocked, OpeningRows(a))
           + SumFunctionOnSet([c \in AppliedTo(a) |-> Effect(request[c]).locked], AppliedTo(a))

\* A call is tried again only because others got through: each of its retries is
\* paid for by another call that committed on the same account.  With at most
\* MaxRetries other calls on an account no conflict is ever reported to a caller.
CommittedBefore(c) ==
  {d \in Calls \ {c} : pc[d] = "applied" /\ request[d].account = request[c].account}
RetriesArePaidFor ==
  \A c \in Calls : pc[c] # "idle" => attempt[c] <= Cardinality(CommittedBefore(c))

\* @@unique([userId, assetId]): racing credits never open two rows for an asset
\* account.
OneRowPerAsset ==
  \A r, s \in Rows : account[r] = account[s] /\ account[r] \in Accounts \ CashAccounts => r = s

\* The same key as schema.prisma states it, for every account: a user has one
\* wallet per asset and one for cash.
OneRowPerAccount ==
  \A r, s \in Rows : account[r] = account[s] /\ account[r] \in Accounts => r = s

\* Every call that is made ends: locks are released, retries are bounded.
EveryCallEnds == \A c \in Calls : pc[c] = "findFirst" ~> pc[c] \in Ended

(***************************************************************************)
(* The calls implement the promise of BalanceLedger: each one takes effect *)
(* or is refused at one instant.                                           *)
(***************************************************************************)
Outcome ==
  [c \in Calls |-> CASE pc[c] = "idle" -> "none"
                    [] pc[c] \in Running -> "pending"
                    [] OTHER -> pc[c]]

Ledger == INSTANCE BalanceLedger WITH outcome <- Outcome

\* A caller that gets an answer gets the one an atomic ledger would give: money
\* was there at the instant it was taken, and a refusal is justified by a
\* balance that was really too small at that instant.
AnsweredAtOneInstant == Ledger!LedgerSpec
==============================================================================
