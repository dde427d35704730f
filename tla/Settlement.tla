----------------------------- MODULE Settlement -----------------------------
(***************************************************************************)
(* SettlementService.processSettlements, started by cron every five        *)
(* minutes whether or not the run before has ended.  A run reads unsettled *)
(* trades and then, asset by asset, marks them, submits them to the chain  *)
(* and unlocks what the matching engine has paid into locked columns; each *)
(* of its database accesses and chain calls is a step.  The chain call     *)
(* returns when the batch is broadcast; nothing here waits for its receipt *)
(* and so the chain's state is no part of the model, only how often a      *)
(* trade was broadcast.                                                    *)
(***************************************************************************)
EXTENDS BalanceEffects, FiniteSets

CONSTANTS
  Trades, Users, Assets,
  Slots,        \* runs of the cron job in progress at a time
  trade,        \* trade[t]: asset, buyer, seller, quantity and price
  Contracted,   \* assets with a contractAddress
  Linked,       \* users with a walletAddress
  Take,         \* how many trades a run reads
  SlowPhases,   \* where a run may be when five minutes have passed
  StuckPhases,  \* where a run may be when thirty minutes have passed
  MaxFaults,    \* bound: failing database accesses and restarts
  MaxCount,     \* bound: the counters stop here
  None, OpeningAvailable, OpeningLocked

Accounts == Users \X (Assets \cup {"cash"})

Phases == {"idle", "groups", "reject", "mark", "submit", "unlock", "catch"}

ASSUME SettlementAssumption ==
  /\ IsFiniteSet(Trades) /\ IsFiniteSet(Slots)
  /\ trade \in [Trades -> [asset : Assets, buyer : Users, seller : Users,
                           quantity : Nat \ {0}, price : Nat \ {0}]]
  /\ \A t \in Trades : trade[t].buyer # trade[t].seller
  /\ "cash" \notin Assets
  /\ Contracted \subseteq Assets /\ Linked \subseteq Users
  /\ SlowPhases \subseteq Phases /\ StuckPhases \subseteq SlowPhases
  /\ Take \in Nat /\ MaxFaults \in Nat /\ MaxCount \in Nat \ {0}
  /\ None \notin Trades
  /\ OpeningAvailable \in [Accounts -> Nat] /\ OpeningLocked \in [Accounts -> Nat]

VARIABLES
  status,      \* settlementStatus, "none" before the trade is made
  stale,       \* trades whose updatedAt is more than thirty minutes ago
  available, locked,
  run,         \* what each run carries
  faults,
  submitted,   \* history: how often a trade was broadcast
  delivered,   \* history: how often the buyer's tokens were unlocked for it
  paid,        \* history: how often the seller's cash was unlocked for it
  broken       \* history: how often a run left its group without settling it

money == <<available, locked>>
history == <<submitted, delivered, paid, broken>>
vars == <<status, stale, money, run, faults, history>>

\* A run that has yet to reach group, or to choose one among the trades todo.
Run(phase, todo, group) ==
  [phase |-> phase, todo |-> todo, group |-> group, left |-> {}, half |-> None]

NoRun == Run("idle", {}, {})

Zero == [t \in Trades |-> 0]

Init ==
  /\ status = [t \in Trades |-> "none"]
  /\ stale = {}
  /\ available = OpeningAvailable
  /\ locked = OpeningLocked
  /\ run = [r \in Slots |-> NoRun]
  /\ faults = 0
  /\ submitted = Zero /\ delivered = Zero /\ paid = Zero /\ broken = Zero

Count(counter, T) ==
  [t \in Trades |-> IF t \in T /\ counter[t] < MaxCount THEN counter[t] + 1 ELSE counter[t]]

\* trade.updateMany on the trades T, whatever their status is by now.
UpdateMany(T, s) ==
  /\ status' = [t \in Trades |-> IF t \in T THEN s ELSE status[t]]
  /\ stale' = stale \ T

Eligible(T) == {t \in T : trade[t].buyer \in Linked /\ trade[t].seller \in Linked}

TokenOf(t) == <<trade[t].buyer, trade[t].asset>>
CashOf(t) == <<trade[t].seller, "cash">>
QuoteAmount(t) == trade[t].quantity * trade[t].price

\* The matching engine commits a trade: both proceeds are locked.
Match(t) ==
  /\ status[t] = "none"
  /\ status' = [status EXCEPT ![t] = "PENDING"]
  /\ locked' = [locked EXCEPT ![TokenOf(t)] = @ + trade[t].quantity,
                              ![CashOf(t)] = @ + QuoteAmount(t)]
  /\ UNCHANGED <<stale, available, run, faults, history>>

\* Time passes only while every run in progress is where it may take that long.
TimePasses(phases) == \A r \in Slots : run[r].phase \in phases \cup {"idle"}

Age(t) ==
  /\ status[t] = "PROCESSING" /\ t \notin stale
  /\ TimePasses(StuckPhases)
  /\ stale' = stale \cup {t}
  /\ UNCHANGED <<status, money, run, faults, history>>

------------------------------------------------------------------------------
(***************************************************************************)
(* One run                                                                 *)
(***************************************************************************)
UnsettledButPending ==
  {t \in Trades : \/ status[t] = "FAILED"
                  \/ status[t] = "PROCESSING" /\ t \in stale}

Unsettled ==
  {t \in Trades : \/ status[t] \in {"PENDING", "FAILED"}
                  \/ status[t] = "PROCESSING" /\ t \in stale}

\* findMany has no orderBy: any Take of them.
Fetch(r, T) ==
  /\ run[r] = NoRun
  /\ TimePasses(SlowPhases)
  /\ T \subseteq Unsettled /\ T # {}
  /\ Cardinality(T) <= Take
  /\ Cardinality(T) = Take \/ T = Unsettled
  /\ run' = [run EXCEPT ![r] = Run("groups", T, {})]
  /\ UNCHANGED <<status, stale, money, faults, history>>

NextGroup(r, a) ==
  LET trades == {t \in run[r].todo : trade[t].asset = a}
      others == run[r].todo \ trades
  IN  /\ run[r].phase = "groups"
      /\ trades # {}
      /\ run' = [run EXCEPT ![r] = IF a \in Contracted THEN Run("reject", others, trades)
                                                       ELSE Run("groups", others, {})]
      /\ UNCHANGED <<status, stale, money, faults, history>>

EndRun(r) ==
  /\ run[r].phase = "groups" /\ run[r].todo = {}
  /\ run' = [run EXCEPT ![r] = NoRun]
  /\ UNCHANGED <<status, stale, money, faults, history>>

\* The group is left, the run goes on with the next one.
GroupEnds(r) ==
  run' = [run EXCEPT ![r] = Run("groups", run[r].todo, {})]

RejectMissingWallets(r) ==
  /\ run[r].phase = "reject"
  /\ UpdateMany(run[r].group \ Eligible(run[r].group), "REJECTED")
  /\ IF Eligible(run[r].group) = {}
     THEN GroupEnds(r)
     ELSE run' = [run EXCEPT ![r].phase = "mark"]
  /\ UNCHANGED <<money, faults, history>>

MarkProcessing(r) ==
  /\ run[r].phase = "mark"
  /\ UpdateMany(Eligible(run[r].group), "PROCESSING")
  /\ run' = [run EXCEPT ![r].phase = "submit"]
  /\ UNCHANGED <<money, faults, history>>

Submit(r) ==
  /\ run[r].phase = "submit"
  /\ submitted' = Count(submitted, Eligible(run[r].group))
  /\ run' = [run EXCEPT ![r].phase = "unlock", ![r].left = Eligible(run[r].group)]
  /\ UNCHANGED <<status, stale, money, faults, delivered, paid, broken>>

SubmitIgnoresErrors(r, sent) ==
  /\ run[r].phase = "submit"
  /\ submitted' = IF sent THEN Count(submitted, Eligible(run[r].group)) ELSE submitted
  /\ run' = [run EXCEPT ![r].phase = "unlock", ![r].left = Eligible(run[r].group)]
  /\ UNCHANGED <<status, stale, money, faults, delivered, paid, broken>>

\* The node answers with an error, or the answer to a broadcast batch is lost.
SubmitThrows(r, sent) ==
  /\ run[r].phase = "submit"
  /\ submitted' = IF sent THEN Count(submitted, Eligible(run[r].group)) ELSE submitted
  /\ run' = [run EXCEPT ![r].phase = "catch"]
  /\ UNCHANGED <<status, stale, money, faults, delivered, paid, broken>>

\* transferBetweenAvailableAndLocked in a transaction of its own.
Request(n) == [kind |-> "unlock", amount |-> n, useAvailable |-> FALSE, useLocked |-> FALSE]
UnlockableUnchecked(a, n) == TRUE
Unlockable(a, n) == Affords(available[a], locked[a], Request(n))
Unlock(a, n) ==
  /\ available' = [available EXCEPT ![a] = @ + Effect(Request(n)).available]
  /\ locked' = [locked EXCEPT ![a] = @ + Effect(Request(n)).locked]

UnlockTokens(r, t) ==
  /\ run[r].phase = "unlock" /\ run[r].half = None /\ t \in run[r].left
  /\ Unlockable(TokenOf(t), trade[t].quantity)
  /\ Unlock(TokenOf(t), trade[t].quantity)
  /\ delivered' = Count(delivered, {t})
  /\ run' = [run EXCEPT ![r].half = t, ![r].left = @ \ {t}]
  /\ UNCHANGED <<status, stale, faults, submitted, paid, broken>>

UnlockCash(r) ==
  LET t == run[r].half
  IN  /\ run[r].phase = "unlock" /\ t # None
      /\ Unlockable(CashOf(t), QuoteAmount(t))
      /\ Unlock(CashOf(t), QuoteAmount(t))
      /\ paid' = Count(paid, {t})
      /\ run' = [run EXCEPT ![r].half = None]
      /\ UNCHANGED <<status, stale, faults, submitted, delivered, broken>>

\* "Insufficient locked balance": an earlier attempt has unlocked it already.
UnlockThrows(r) ==
  /\ run[r].phase = "unlock"
  /\ \/ /\ run[r].half # None
        /\ ~Unlockable(CashOf(run[r].half), QuoteAmount(run[r].half))
     \/ /\ run[r].half = None
        /\ \E t \in run[r].left : ~Unlockable(TokenOf(t), trade[t].quantity)
  /\ run' = [run EXCEPT ![r].phase = "catch"]
  /\ UNCHANGED <<status, stale, money, faults, history>>

Unlocked(r) == run[r].phase = "unlock" /\ run[r].left = {} /\ run[r].half = None

MarkGroupSettled(r) ==
  /\ Unlocked(r)
  /\ UpdateMany(run[r].group, "SETTLED")
  /\ GroupEnds(r)
  /\ UNCHANGED <<money, faults, history>>

MarkNothing(r) ==
  /\ Unlocked(r)
  /\ GroupEnds(r)
  /\ UNCHANGED <<status, stale, money, faults, history>>

MarkSettled(r) ==
  /\ Unlocked(r)
  /\ UpdateMany(Eligible(run[r].group), "SETTLED")
  /\ GroupEnds(r)
  /\ UNCHANGED <<money, faults, history>>

\* The whole group, also the trades that were rejected or unlocked.
MarkFailed(r) ==
  /\ run[r].phase = "catch"
  /\ UpdateMany(run[r].group, "FAILED")
  /\ broken' = Count(broken, run[r].group)
  /\ GroupEnds(r)
  /\ UNCHANGED <<money, faults, submitted, delivered, paid>>

\* A database access of the run fails; in the catch block this ends the run.
DatabaseFails(r) ==
  /\ faults < MaxFaults
  /\ faults' = faults + 1
  /\ run[r].phase \in {"reject", "mark", "unlock", "catch"}
  /\ IF run[r].phase = "catch"
     THEN run' = [run EXCEPT ![r] = NoRun] /\ broken' = Count(broken, run[r].group)
     ELSE run' = [run EXCEPT ![r].phase = "catch"] /\ UNCHANGED broken
  /\ UNCHANGED <<status, stale, money, submitted, delivered, paid>>

Restart ==
  /\ faults < MaxFaults
  /\ faults' = faults + 1
  /\ \E r \in Slots : run[r] # NoRun
  /\ run' = [r \in Slots |-> NoRun]
  /\ broken' = Count(broken, UNION {run[r].group : r \in Slots})
  /\ UNCHANGED <<status, stale, money, submitted, delivered, paid>>

------------------------------------------------------------------------------
RunStep(r) ==
  \/ \E a \in Assets : NextGroup(r, a)
  \/ EndRun(r)
  \/ RejectMissingWallets(r) \/ MarkProcessing(r)
  \/ Submit(r) \/ \E sent \in BOOLEAN : SubmitThrows(r, sent)
  \/ \E t \in Trades : UnlockTokens(r, t)
  \/ UnlockCash(r) \/ UnlockThrows(r)
  \/ MarkSettled(r) \/ MarkFailed(r)

StartRun == \E r \in Slots, T \in SUBSET Trades : Fetch(r, T)

\* Everything is settled or rejected; a run would return at once.
Rest == Unsettled = {} /\ (\A r \in Slots : run[r] = NoRun) /\ UNCHANGED vars

Next ==
  \/ \E t \in Trades : Match(t) \/ Age(t)
  \/ StartRun
  \/ \E r \in Slots : RunStep(r) \/ DatabaseFails(r)
  \/ Restart
  \/ Rest

Spec == Init /\ [][Next]_vars

(***************************************************************************)
(* The scheduler starts a run every five minutes, a started run executes   *)
(* its next statement, an RPC call returns or times out.                   *)
(***************************************************************************)
FairSpec == Spec /\ WF_vars(StartRun) /\ \A r \in Slots : WF_vars(RunStep(r))

------------------------------------------------------------------------------
Statuses == {"none", "PENDING", "PROCESSING", "FAILED", "SETTLED", "REJECTED"}

RunType ==
  [phase : Phases, todo : SUBSET Trades, group : SUBSET Trades, left : SUBSET Trades,
   half : Trades \cup {None}]

\* The variables have the shape of the rows and of a run's local variables; no
\* column goes below zero, however often a trade is unlocked.
TypeOK ==
  /\ status \in [Trades -> Statuses] /\ stale \subseteq Trades
  /\ available \in [Accounts -> Nat] /\ locked \in [Accounts -> Nat]
  /\ run \in [Slots -> RunType]
  /\ faults \in 0 .. MaxFaults
  /\ submitted \in [Trades -> 0 .. MaxCount] /\ delivered \in [Trades -> 0 .. MaxCount]
  /\ paid \in [Trades -> 0 .. MaxCount] /\ broken \in [Trades -> 0 .. MaxCount]

\* The tokens of a trade are unlocked for the buyer at most once for each time
\* the trade was broadcast, and the seller's cash at most once for each time the
\* buyer's tokens were: with overlapping runs, failures in the middle of a group
\* and retries nobody is given something for a batch that never left.
UnlockedForABroadcast ==
  \A t \in Trades : paid[t] <= delivered[t] /\ delivered[t] <= submitted[t]

\* A trade that says SETTLED was broadcast and unlocked for both sides, and both
\* have a wallet, also when an overlapping run has failed or rejected it before.
SettledIsComplete ==
  \A t \in Trades : status[t] = "SETTLED" =>
    trade[t].buyer \in Linked /\ trade[t].seller \in Linked /\ paid[t] > 0

\* As long as runs do not overlap, a trade is broadcast again only because a run
\* broke off after broadcasting it; a settled one never is.
BroadcastAgainAfterFailure ==
  (\A r, s \in Slots : r = s) => \A t \in Trades : submitted[t] <= 1 + broken[t]

\* A trade that waits is taken up by some run, as long as a run can read all
\* unsettled ones: failures of other trades or of the run do not hide it.
EveryTradeIsTaken ==
  \A t \in Trades :
    trade[t].asset \in Contracted => (status[t] = "PENDING" ~> status[t] # "PENDING")

\* "Lock status to prevent duplicate pickup in the next cron run": a run does not
\* submit a trade that another run has marked and is still working on.
Working(r) == IF run[r].phase \in {"submit", "unlock"} THEN Eligible(run[r].group) ELSE {}
OnePickup == \A r, s \in Slots : r # s => Working(r) \cap Working(s) = {}
==============================================================================
