# TLA+ models of PropX-Exchange

PropX-Exchange is a NestJS backend for tokenised real-world assets: users hold
cash and asset tokens in a custodial ledger (table `Balance`), trade the tokens
on an order book, and the backend settles trades, pays withdrawals, dividends
and redemptions, and mirrors parts of it on an EVM chain.  These modules model
the parts of the backend where concurrent requests, jobs and failures meet the
users' money.  Paths below are relative to the repository.

## 1. Inventory

| Component | State it keeps | Operations that change it | Talks to |
|---|---|---|---|
| Balances (`src/modules/balances`) | `Balance(userId, assetId, available, locked)`; `assetId` null is cash | `updateBalance`, `transferBetweenAvailableAndLocked`, each in a transaction of its own (RepeatableRead, retried) or in the caller's | called by orders, matching, settlement, payments, dividends, redemption |
| Trading ledger (`orders/services/trading-ledger.service.ts`) | none | `lockOrderFunds`, `unlockOrderRemainder`, `settleMatch`, `refundBuyerPriceImprovement` | Balances |
| Orders (`orders.service.ts`) | `Order`, unique idempotency key | `createOrder`, `updateOrder`, `cancelOrder`, `bulkCancelOrders` | Trading ledger, the matching queue |
| Order matching (`order-matching.service.ts`) | a BullMQ queue and worker per asset (concurrency 1 per process), `Order`, `Trade` | `queueOrder`, `matchOrder` | Trading ledger, market data |
| Settlement (`settlement.service.ts`, `EscrowMarketplace.sol`) | `Trade.status` | cron `handleCron`: reads 100 trades, groups them by asset, sends a batch to the chain, unlocks both sides | blockchain adapter, Balances |
| Payments (`payment/`) | `Transaction`, queue `transaction-processing` | `processWithdrawal`, transfers, demo deposits, an administrator's status, the sweep, the payout processor, the ten second cron, speed-up and refund of a stuck payout | blockchain adapter, Balances |
| Deposit scanner | block cursor in `SystemConfig`, `Transaction` | one scan per minute, stores ERC-20 transfers to the treasury | RPC node, Payments' cron completes what it stored |
| Dividends (`dividends/`) | `DividendDistribution`, `DividendClaim`, Merkle root | distributions, the snapshot of holders, the tree job, claims in cash, late interest | Balances, `DividendDistributor.sol`, Commissions |
| Commissions | `CommissionReward` | reward job | Balances |
| DAO (`dao/`) | `DaoProposal`, `DaoVotingSnapshot`, `ProposalVote` | create, snapshot, vote, count, execute | `DaoGovernance.sol` |
| KYC and multisig | `KycRecord`, `User.kycStatus`, `MultiSigProposal` | submit, approve, reject, whitelist job, approvals of proposals | `KycRegistry.sol` |
| Onboarding, redemption, liquidation (`assets/`, `onboarding/`) | `Asset`, `OnboardingRequest`, `RedemptionRequest`, queue `asset-blockchain` | create, approve, mint, tokenise, redeem, burn, pay out | multisig, token factory, Balances |
| Authentication | refresh token hash on user and session, OTP, nonces and challenges in Redis | codes, registration, logins, `refresh`, logout | mail, Redis |
| Market data, market maker | candles in Redis and database, list of pending trades | `recordTrade`, the sync cron, charts and tickers, made-up trades | called by matching; none of the money |
| Realtime, catalogue reads, posts, support, news, users, notifications | rows | plain create, read, update, delete | mail, image store |

How they interact: an HTTP handler awaits one database statement at a time, so
every handler and job interleaves with all others between two awaits.  Jobs go
through BullMQ, which retries what throws and runs again what was active when a
process died.  Cron handlers do not wait for their previous run.  The chain is
called synchronously and its receipts are often not awaited.

What is hard, and what makes each component correct:

- *Balances*: check and decrement are two statements.  No column below zero, no
  effect lost or doubled by the retry loop, one row per account.
- *Orders and matching*: the funds are locked before the order is stored,
  cancellation and repricing read before they write, a job reads the book
  outside the transaction that writes absolute fills, jobs fail at every point
  and are retried, the process restarts.  Money conserved; what is locked is
  what is pledged; fills in price-time order, never more than
  asked for; every queued order is decided.
- *Settlement*: the chain and the database cannot be updated together; runs
  overlap.  Delivered before unlocked, unlocked no more often than delivered.
- *Payments*: a payout is broadcast before it is recorded; cron, administrator,
  refund and processor race.  The money of a transaction moves once, a payout is
  repeated only after its hash was lost, what is locked is what the rows say,
  what the chain has confirmed is completed.
- *Deposit scanner*: a cursor is advanced past what may have failed.  It never
  passes a transfer without a row or a known reason.
- *Dividends*: paging through holders while they trade, runs that overlap and
  restart.  Claims add up to no more than the amount, are credited once,
  rewarded once, and their proofs verify on chain.
- *DAO*: pages of a snapshot, votes near the deadline, a count of two sums.
  Voting power is what was held; a result follows from the votes counted; what
  was executed on chain is final.
- *KYC and multisig*: approvals are a read-modify-write of a list; rejection
  races the whitelist job.  Nobody is approved and nothing minted without the
  required number of different administrators.
- *Onboarding, redemption, liquidation*: a transaction is sent, stored and
  queued in three steps, jobs are retried, holders are paid one by one.  An open
  asset has a mined contract of its own, who redeems holds everything, a liquidation
  burns no more often than its job is tried.
- *Authentication*: several rows per login, two refreshes of one token.  The
  latest session refreshes, after a logout none does, a code works once.
- *Market data*: cache, list and table are written one after the other.  Each
  holds the trades that were recorded.

`PROJECT.json` lists the hazards at their lines with the properties that watch them.

The database: `prisma/schema.prisma` (`provider = "postgresql"`) and
`src/prisma/prisma.service.ts` (`PrismaPg`) are PostgreSQL and so are the models.
The guides, `docker-compose.yml`, `prisma/seed.ts` and the migrations still
describe MariaDB; the difference matters, because InnoDB's repeatable read does
not abort a conflicting update, and the results on isolated calls below rest on
PostgreSQL doing so.

## 2. Modules and how they correspond to the code

`PROJECT.json` maps every definition to the lines it stands for.

| Module | Code | State and actions |
|---|---|---|
| `BalanceEffects` | `balances.service.ts`, validation and arithmetic of both methods | pure: what a request adds to the two columns, when a wallet affords it |
| `BalanceRequests` | the parameters of the two methods | constants and types the next two share |
| `BalanceLedger` | what callers rely on | abstract: each call is applied or refused at one instant |
| `BalancesService` | `updateBalance`, `transferBetweenAvailableAndLocked`, retry loop, PostgreSQL row locks and snapshots | rows of `Balance`; per call its statement (`pc`), the row and columns read, the retry counter.  Actions: call, `findFirst`, create, update, conflict and retry, commit, rollback |
| `TradingLedger` | `trading-ledger.service.ts`, without the commission jobs and history rows of `settleMatch` | pure: the wallets after each of its four operations, with `ok = FALSE` once a posting throws |
| `SpotTrading` | `orders.service.ts`, `order-matching.service.ts`, BullMQ | `Order` rows, wallets, what each handler and job carries across an await, wait list, delayed jobs, the open transaction.  One action per database access of a handler and per phase of `matchOrder` |
| `Settlement` | `settlement.service.ts` | settlement status and age of trades, the four columns they touch, what each run carries.  One action per statement and chain call |
| `Transactions` | `payment.service.ts` without withdrawals, `payment-ledger.service.ts` | `Transaction` rows, cash rows, what each request carries.  Demo deposits, transfers, an administrator's decision (read, then post and write), the sweep |
| `Withdrawals` | `processWithdrawal`, `transaction-processing.processor.ts`, `gas-spike.service.ts` | the queue, its processor, the chain with nonces and blocks, stuck rows.  Lock, store, queue; broadcast, store the hash; replace |
| `Deposits` | `deposit-scanner.cron.ts` | the cursor and what each overlapping scan carries.  Range, lookup, create, advance |
| `Payments` | `transactions.cron.ts`, restarts | what each run of the cron carries; puts the three above together |
| `MerkleTree` | tree and proof of `dividends.service.ts`, `merkle-tree.processor.ts`, verification of the contract | pure: layers, proofs, verification |
| `Dividends` | `dividends.service.ts`, the tree processor, `commissions.processor.ts`, `DividendDistributor.sol` | distributions, claims, overlapping snapshot runs, claim requests, commission jobs and their workers (look, then create), the contract |
| `DaoGovernance` | `DaoGovernance.sol` | the contract's storage and the clock; one action per function |
| `DaoService` | `dao.service.ts`, `dao-governance.cron.ts` | proposals, voting power, votes, requests and overlapping cron runs, on `DaoGovernance` |
| `Multisig` | `multisig.service.ts` | proposals, and desks: administrators' requests between two statements |
| `Kyc` | `kyc.service.ts`, `kyc-approval.processor.ts`, the registry | record status, registry, queue and worker, on `Multisig` |
| `AssetLifecycle` | `assets.service.ts`, `onboarding.service.ts`, `redeem.service.ts`, `corporate-actions.service.ts`, `asset-blockchain.processor.ts` | assets, requests, redemptions, the chain of token transactions, queue and worker, on `Kyc` |
| `Sessions` | `auth.service.ts`, `token.service.ts`, `otp.service.ts`, `mfa.service.ts`, `web3-auth.service.ts`, `auth.controller.ts`, the clean-up cron | accounts, tokens, sessions, codes, nonces, challenges; a request is a chain of statements |
| `MarketData` | `market-data.service.ts`, `market-maker.service.ts` | list, cache and table of candles; `recordTrade`s and crons command by command; charts and tickers as operators |
| `Sums` | | the laws of the sums that the accounting properties are made of, proved |
| `*_proofs` | | theorems, section 5; `Snapshots_proofs` is about `DaoService`, `Dividends` and `MerkleTree`, `Requests_proofs` about `Sessions` and `MarketData` |
| `MC*` | | instances for TLC; `MCCustody` composes `Payments`, `Dividends` and `DaoService`, `MCGovernance` composes `AssetLifecycle`, `Sessions`, `DaoService` and `MarketData` |

`TradingLedger` extends `BalanceEffects`, so that both levels of the ledger use
one definition of a posting; `SpotTrading` extends `TradingLedger`, `Settlement`
extends `BalanceEffects`.  `Transactions` extends
`BalanceEffects` too and is extended in turn by `Withdrawals`, `Deposits` and
`Payments`; `Multisig` by `Kyc` and `AssetLifecycle`; `MerkleTree` by
`Dividends`; `DaoGovernance` by `DaoService`.  `BalancesService` shows what a
posting may do when others run at the same time; `SpotTrading` and `Settlement` take a transaction
as one step where it writes, and let everything happen between a read outside
a transaction and the write that uses it.

Abstractions worth knowing:

- In `SpotTrading` the writes of a matching transaction are collected in `txn`
  and become visible when it commits.  Other writers wait for it.  Those that
  touch none of its rows would not wait in the database; they commute with it,
  so nothing is lost by letting them wait.
- An order's number is its `createdAt`.  One asset, one market.
- A request that is refused before it writes anything is no step.
- The book a job has read is a set of snapshots; `First` picks the next one in
  the order the query returns them.
- Quantities are integers: the code computes with Decimal at the scale of the
  columns, and only `maxTotalCost / quantity` and the affordable quantity of a
  MARKET BUY divide.  The model admits requests where the first division is
  exact and rounds the second down.
- In `Settlement` the chain is how often a trade was broadcast: the code awaits
  no receipt, so no later step depends on what the chain did.  A submission may
  throw with the batch sent or not sent.
- In `Withdrawals` the chain is the sequence of transactions the treasury sends or
  receives, each with a nonce and, once mined, a block; two with one nonce
  exclude each other, and confirmations are counted from the block.
- In `MerkleTree` the hash of a sorted pair is the set of the two: hashes do not
  collide and the order of a pair does not matter.
- In `AssetLifecycle` the tokens of one asset are followed (asset 1); a
  redemption leaves the live orders of its user to `SpotTrading`.  The payouts of a
  liquidation are one step that throws (`PayoutThrows`): the first of them names the
  cash row by a key with a null and its transaction rolls back.
- In `Sessions` a token is what is signed: user, device, second.  Two tokens of one
  second are equal, as in the code.
- In `MarketData` a candle is the fold of its trades; the minute stands for the
  smallest resolution.  Made-up trades, of the demo cron and the market maker, have
  any price: what they are derived from (order book, valuations) is left out.
- History variables (`sent`, `released`, `contested`, `overruled`, `overlapped`, `counted`, ...)
  record what a property needs to know about the past.  No guard reads them.
- The database is modelled from its documented behaviour, Redis and BullMQ from
  what the code uses of them; both are marked external in the map.

## 3. What the runs check

| Run | Question | Instance |
|---|---|---|
| `balances_isolated` | do concurrent calls in snapshot transactions behave as an atomic ledger? (refinement, no negative column, one row per account) | 3 calls of 8 kinds on a cash and an asset wallet, one retry |
| `balances_mixed` | is any effect lost or doubled with ReadCommitted callers among them, is every retry owed to another commit, does every call end? | 3 calls of 5 kinds, two retries |
| `balances_transfers` | *violated*: no negative column with ReadCommitted callers | 3 debits of the whole balance |
| `trading_matching` | locked money accounted for, fills in price-time order, no crossing orders forgotten | 3 orders of 3 users, one handler, one worker, one retry, failures anywhere |
| `trading_requests` | money conserved, fills counted, every job ends, with repricing, cancelling, a restart, failures | 2 orders, one handler, one worker, a request sent twice with one key |
| `trading_repriced` | *violated*: a cancellation unlocks the remainder only | 2 orders |
| `trading_priority` | *violated*: price-time order holds for partially filled orders | 4 orders |
| `settlement_overlap` | nothing is unlocked more often than it was broadcast, what says SETTLED is complete whatever the other run has failed or rejected | 3 trades of one asset, one of them of a user without a wallet, 2 overlapping runs, one database failure or restart, any number of chain failures |
| `settlement_alone` | a second broadcast follows a broken run, every trade is taken | 3 trades of two assets, a user without a wallet, runs that do not overlap |
| `settlement_pickup` | *violated*: no trade is worked on by two runs | 2 trades of two assets, the chain slower than five minutes, no failures |
| `custody` | is money moved once, are deposits found, dividends and rewards paid once and provably, is what is due done in the end? | 13 scenes, below; 241 thousand states |
| `governance` | is what happened what those who may decide decided, over lost approvals, failures and restarts? | 12 scenes, below; 835 thousand states up to symmetry |

The two large runs compose components that share no table their properties are
about.  The product of all of them would only interleave independent steps, so
that a behaviour of `MCCustody` and `MCGovernance` is a *scene*: some component
moves, with a part of its next-state relation, while the others rest in their
initial state.  Between them the scenes have every action, and each hazard is in
a scene together with all actors that take part in it:

- `custody`: `cash` (demo deposits, transfers, the sweep), `locks` (two requests at
  once around a withdrawal, its row and its job), `payout` (the processor, the
  chain, two cron runs, an administrator, restarts), `gas` (speed-up, refund and
  the processor on one nonce), `deposit` (the scanner with one transfer or two in a
  transaction, failures, restarts, two cron runs), `scans` (two overlapping runs of
  the scanner), `snapshot` (two runs, batches
  of two of three holders, tokens that move), `walks` (two distributions),
  `claim` (two claims, the commission jobs and two workers), `chain` (roots and claims on
  chain), `interest`, `ballot` (two cron runs of the DAO over pages of two of
  three holders), `blocked` (an asset nobody holds).
- `governance`: `kyc` and `mint` (three of three administrators at two desks),
  `onboarding`, `redeem`, `liquidate`, `codes`, `mail` and `wallet` (two requests
  of two users with two devices), `contract`, `vote` (two requests and two cron
  runs), `market` (one `recordTrade` at a time, two crons, two trades in two minutes) and
  `cache` (two `recordTrade`s in three minutes, of which the ticker shows two).
  `liquidate` has two liquidations, whose jobs take turns and retry.
  `redeem`, `mail` and `vote` begin in a state that the actions of their component
  lead to: an approved user, a user with an account, a proposal after its snapshot.

Desks, requests, devices and backends are named by the same two model values in
`governance`; no component looks at which one it is, so that exchanging the two
everywhere is a symmetry (`Symmetric`, `SharedNames`).  No liveness is checked in
that run.

Why the bounds are enough.  Amounts 1 and 2 and prices 1 and 2 give partial
fills, price improvement, a taker that walks two makers, a MARKET BUY that runs
out of budget, and money reserved for another purpose that a wrong unlock would
release (`Reserved`, `Pledges`).  Three calls on one wallet are the least where
a call conflicts twice.  Three orders are the least where priority among makers
shows; the fourth in `trading_priority` makes the partial fill.  Two settlement
runs and a group of three trades are the least where one run is half way through
the group of the other and one of its trades is rejected: two trades go to the
chain, the third has a user without a wallet (`Linked`, which does not change during
a run of TLC).  `settlement_overlap` counts its states up to the exchange of the two
runs (`Exchangeable`: no action looks at which one it is) and up to the history
variable `broken` (`WithoutBroken`: no action reads it and no invariant of this run
mentions it).  `MaxOrders`, `MaxCrashes`, `MaxFaults` cut off further
orders, restarts and failures; `MaxAttempts = 2` stands for the three attempts
of BullMQ, so that one retry and the exhaustion of retries both occur;
`MaxCount = 2` saturates the history counters of settlement, where 2 means "again".
`MaxLiquidations = 2` and `MaxTokenTxs = 4` leave room for three burns: of one liquidation in
two attempts and after a restart, or of two whose jobs take turns.  In `custody` and `governance` two actors of each kind meet,
one failure may strike at any statement (`MaxFailures`, `MaxDivFailures`,
`MaxDaoFailures`, `MaxSigFailures`, `MaxAuthFailures`, `MaxMarketFailures`), and one
reassignment of tokens may fall into any gap (`MaxMoves`, `MaxDaoMoves`,
`MaxTokenMoves`); three holders and pages of two give a full and a partial page; one
proposal with three approvals gives lost and repeated approvals.  The bounds on rows,
blocks and submissions cut off repetitions of the same story.  One is a condition:
`MaxHeight` is not above `FirstRange` in `custody`.  A scan that finds no cursor starts
100 blocks before the tip; if two of them overlap and more than 100 blocks pass
between their starts, the one that ends last leaves a gap, and with `MaxHeight = 4`
`ScannedIsRegistered` is violated.  The run asserts it where the first scan does
not take that long.
`SlowPhases` and `StuckPhases` say where a run may still be when five or thirty
minutes have passed, and so how far runs may overlap: everywhere in the passing
runs, only in the chain call in `settlement_pickup`.

Deadlock is checked in every run: `Done` and `Rest` are the states in which the
system may stop, and a state in which calls wait for each other is an error.  In
`custody` and `governance`, whose components lock nothing across statements, every
state may rest.

Fairness.  `BalancesService`: a statement that can run does run (Node's event
loop, the database); nobody has to call and nothing has to fail.
`SpotTrading`: a worker runs its job on, BullMQ promotes delayed jobs; clients
and failures owe nothing.  `Settlement`: cron fires every five minutes, so that a
run is started whenever the model has a free slot for one and trades to fetch; a
started run executes its next statement, and the RPC call returns or times out.
`CustodyFairness`: the payout processor runs its job on; the ten second cron, the
scanner, the snapshot runs and the DAO cron are started by the scheduler and
execute their next statement; mining, users, administrators and failures owe
nothing.  All weak: each is enabled until it is taken.  `governance` needs none.

### Findings

1. `NonNegative` fails for callers whose transaction is ReadCommitted
   (`balances.service.ts:72`): the check reads, the decrement is relative, two
   pass together.
2. `CancellationUnlocksTheRemainder` fails after a repricing
   (`orders.service.ts:228`): the lock is not adjusted, the unlock uses the new price.
3. `LiveOrderFirst` fails (`order-matching.service.ts:158`): the rest of a
   partially filled order is never offered again.
4. `OnePickup` fails (`settlement.service.ts:127`): trades of later groups are
   still PENDING while an earlier group waits for the chain.

Four more properties are stated in the modules because the properties that hold make
an exception for just these cases.  They are false of the code, though no line of
the repository promises them in so many words; their configurations are kept beside
the runs above, and TLC finds each violated within seconds.

| Property | Configuration, module | What happens |
|---|---|---|
| `FilledStaysFilled` | `MCSpotTrading_cancelled.cfg`, `MCSpotTrading` | a cancellation that has read its order before it was filled writes CANCELLED over FILLED, and unlocks a remainder that is no longer there (`orders.service.ts:261`) |
| `NoDuplicateCommission` | `MCCustody_commissions.cfg`, `MCCustody` | two workers look for the reward of a claim, find none, and both create one (`commissions.processor.ts:72`) |
| `StatusUpdateOnce` | `MCCustody_decisions.cfg`, `MCCustody` | a status update that is sent twice moves the amount twice; its idempotency key is never read (`payment.service.ts:225`) |
| `RedeemedIsHeld` | `MCGovernance_redeemed.cfg`, `MCGovernance` | tokens traded between the check and the transaction of a redemption are written back to the one who sold them (`redeem.service.ts:148`) |

What the models show beside them, where no line of the repository says otherwise:

- *Settlement.*  A trade whose first leg was unlocked before a failure is submitted
  again every five minutes and can never be unlocked completely, because its
  locked tokens are gone.
- *Matching* relies on one worker per asset: it writes fills computed from rows read
  before the transaction; with `Workers = {w1, w2}`, two backend processes,
  `FilledIsExecuted` fails.  A job that has read an order before it is cancelled or
  repriced may still fill it, at the price it has read.
- *Payments.*  A status set by an administrator ignores the one there is, the sweep
  writes zero over what it has read, a payout that reverts counts as confirmed, an
  account without wallet makes its withdrawal FAILED and leaves it locked.
  `speedUp` and `processRefund` have no caller; a refund replaces the payout and
  its database part always throws.
- *Deposits.*  Addresses stored in lower case are never matched; the second of two
  transfers in one transaction has the hash of the first and is passed over.
- *Dividends.*  The tree job writes its audit entry for a performer that is no user,
  so that the root is never published by it; `distributeYield` stores a distribution
  and then always throws; claims in cash and on chain do not know of each other; a
  commission is queued before its claim commits; nobody calls
  `processInterestPayments`, which writes over what it read.
- *DAO.*  The audit entry ends each cron run after the first proposal; an asset
  nobody holds blocks all counts; a run lost between two pages leaves the later
  holders without power; an overlapping count writes over EXECUTED; the id on chain
  is a random number of the backend.
- *KYC and multisig.*  `approveKyc` and `approveAsset` always throw after making their
  proposal; a proposal approved through the other route is used up; two approvals at
  once lose one, or execute twice; a whitelist job that fails rejects whatever the
  record has become.
- *Assets.*  Whether the liquidation's burn is mined is asked right after sending,
  each retry burns again, and the payout names the cash row by a key with a null,
  which the client refuses, so that nobody is paid and the asset never becomes
  CLOSED; a redemption's burn that is not mined at the one look
  stays PROCESSING_LEGAL; a tokenisation that failed after sending makes a second token.
- *Authentication.*  A login without a device id can never refresh, a login from a
  second device invalidates the first, two refreshes of one token leave one of
  the new pairs dead, deleting a code removes a newer one as well.
- *Market data.*  Two `recordTrade`s read one candle and write it twice; the cron pops
  the trades before it writes them; `isProcessing` is per process; a `recordTrade`
  that throws makes the matching job retry after its commit and the remaining
  trades are never recorded.

## 4. Deeper and shallower properties

`TypeOK` of each module states types and the few relations a reader needs to
trust the rest (a job number is that of a stored order; a transaction belongs
to a worker that is matching).  The others relate several pieces of state or
several steps: the refinement `AnsweredAtOneInstant`, the accounting
`LockedIsAccountedFor` and `ValueConserved`, the counting `FilledIsExecuted`,
`UnlockedForABroadcast`, `BroadcastAgainAfterFailure` and `RetriesArePaidFor`,
the order `BestOrderFirst`, and the liveness `EveryCallEnds`, `EveryJobEnds`,
`EveryTradeIsTaken`.

The properties of `custody` and `governance` say what survives all races and
failures, and name what breaks the rest.  Their exceptions are of three kinds.

- Counted.  `MovedOnce` allows one further move of a row for each write of two
  kinds, and neither excuses more than itself: a run of the ten second cron that
  completes a row decided since the run had read it (`contested`), and an
  administrator who writes over a decided row (`overruled`).  The second needs no
  interleaving: one administrator, alone, can do it, since
  `adminUpdateWithdrawStatus` checks nothing.  That this should not be is
  `StatusUpdateOnce`, which is false.  `PaidAgainAfterBreak` counts lost hashes
  so, `BurntPerAttempt` attempts and restarts, `BroadcastAgainAfterFailure` broken runs.
- A row in which an interleaving or a failure has happened: a claim for
  which two workers had found no reward at a time (`foundTwice`, `RewardedOnce`), a
  proposal one approval of which was written over another (`overlapped`,
  `NothingWithoutThree`), a distribution or snapshot during which tokens moved
  (`unsettled`, `moved`), a proposal whose status was written over a change
  (`raced`, `PassedByMajority`), a code replaced while a request had accepted it
  (`replaced`, `RegisteredOnce`), a user with crossed pairs or half a pair
  (`crossed`, `SessionsHold`), a candle two writers were in or one gave up in
  (`mixed`, `broken`, `CandlesHoldTrades`).
  What happens to such a row is the hazard itself, and the property does not catch
  it: it shows that nothing else leads there, and that other rows do not suffer.
- Known deviations of the code that are part of what is accounted: money that a failed
  request leaves locked (`orphanedCash`), an asset nobody holds (`Blocked`), an asset
  that an administrator's update has opened (`forced`).

`PROJECT.json` says at each hazard what the properties named there do not catch.

## 5. What is proved

Every invariant of a passing run is a theorem too.  The theorems hold for every value of the constants,
under the named assumptions
(`RequestAssumption`, `RetriesAssumption`, `TradingAssumption`,
`SettlementAssumption`, `ContractAssumption`, `DaoAssumption`, `DividendAssumption`,
`MultisigAssumption`, `AssetAssumption`, `PaymentAssumption`, `WithdrawalAssumption`,
`DepositAssumption`, `SessionsAssumption`, `MarketAssumption`).  They say that
amounts and bounds are naturals, that the marks of an absent token or device are no token
and no device, that the sets of users, rows, clients, calls, handlers, workers, backends, trades and runs are
finite, that prices and quantities are positive and no two candles a trade is in have one length, and how a system looks that is started: the open assets have contracts, each
of a mint of its own (`AssetAssumption`); the balances of an asset come from its tokenised supply, so that they add up to
no more (`DividendAssumption`).  A theorem that needs
more says so in its statement: `OneWorker`, `CreateOnly`, `SnapshotOnly`, `FromStart`.

**Sums.**  Most of the accounting is about `SumFunctionOnSet`, which the community
modules define as a recursive function that picks the elements by CHOOSE.  Its laws
(`SumRemove`, `SumAdd`, `SumChange`, `SumPlus`, `SumMonotonic`, `SumMoved`, `SumScaled`, ...)
cannot be had from the induction theorems of the library, which take an operator; they are proved by
least counterexample.  `LeastNatural` takes a least element out of a set of naturals,
`Climb` turns that into "a set that holds 0 and n + 1 with n holds every natural", and
the set is that of the sizes for which a law holds.  `SumsExist` shows so that the
recursion has a solution, and `SumEquation` unfolds it.

**BalancesService.**  `TypeCorrect`.  `AssetWalletUnique`: the invariant `KeyInv`
says that a call about to insert holds the key.  `NeverNegative` needs that all
transactions are snapshots (`SnapshotOnly`): `SeenInv` says that a call whose
row has kept the version it read has read the columns as they are, so a commit
that passes the check affords the decrement.  `ImplementsLedger`: the same
invariants map each commit or refusal to the one step of `BalanceLedger` and
every other step to a stutter.  `RetriesPaid`: `PaidInv` counts, for each call,
the commits of others it has conflicted with.
`EffectsExactlyOnce`: `NothingLost` is inductive with the types. Only a commit changes a row or the
set of calls that were applied, it adds to its own row what it adds to the sum of
the effects (`CommitAdds`), and a conflict or a roll back leaves both alone.

**SpotTrading.**  `FilledExecuted`, for one worker per asset (`OneWorker`): `Inv`
says that from the moment a job has read the taker and the book until its
transaction ends, none of these orders has a fill in the table, no order is in
the book twice and none is the taker, and that in the open transaction the
taker's fill is what has been taken so far and the makers still in the book
have none.  So a fill computed from the old rows is right.  The division in
`MatchableQuantity` needs a lemma (`DivisionBound`): a MARKET BUY takes no more
than the maker has and never spends more than its budget.

The other five theorems rest on `Typed`, `TypeOK` made inductive: it gives the rows, the queue,
each request and each phase of a job their shape, and holds for any number of workers.
`TradingTypes` adds `PlaceInv`, that the job of an order is in one place only and has attempts left.
`TradingConservesValue`: `ValueInv` says of the wallets, and of those in the open
transaction, that each kind of money adds up to what there was; every operation of the ledger moves a
unit between two columns or two users (`SumMoved`).  It holds for any number of
workers and is what remains true when two backend processes match one asset.  The
others are about one worker and users that only create orders; `OneWorker`,
`CreateOnly`, `Typed`, `PlaceInv`, `Inv` and `AgreedInv` together are their `Base`.
`AgreedInv` says that the rows a job has read are the rows in the table, but for the fills
of its own transaction; with repricing or cancelling it is no invariant.
`LockedAccountedFor`: `LockedInv` says the same of the open transaction as of the
tables, and there one more term appears, `Slack`: a MARKET BUY that has paid less
than its average keeps the difference locked until its job ends.  `WroteInv` says
what the transaction has changed of the rows: those of its fills and of its taker.
`TradesInTurn`: by `TurnInv` an open order of another user within the limit, and
older than the taker, is in the book the job has read or has been filled from it, and
the fills so far come before all that is left, only the last of them being
incomplete.  `BookIsUncrossed`: by `UncrossedInv` of two open orders that cross the
later one has given up or has its job somewhere, in the queue, in backoff or with
a worker; a job that ends and leaves an order open has gone through its book
(`TurnInv`), so that the order crosses none that is older.

**Settlement.**  `SettlementTypeCorrect`, which includes that no column goes
below zero.  `SettledComplete`: `CompleteInv` gives each phase the shape of its
run and says that a trade a run no longer has left was paid.
`UnlockedAfterBroadcast`: `CountInv` keeps, for each trade, the broadcasts equal
to at least its unlocks plus the runs that are still to unlock it; the counters
saturate, and the invariant is stated so that it survives that.
`NoNeedlessBroadcast`: `BroadcastInv`, for runs that do not overlap, relates the
status of a trade and the phase of the run to the broadcasts not yet broken.

**DaoService.**  `ExecutedIsFinal`: nothing the contract's owner sends, through the
backend or past it, at whatever time, changes an executed proposal or the split
of a token without one.  `ContractTyped` is the invariant; the actions of the
contract are finality lemmas of their own (`CreationIsFinal`, `VoteIsFinal`, ...),
and those of the backend call them or leave the contract alone (`ContractRests`).
What makes it true is that new ids are above all that were given out, that votes end
where execution begins, and that `executed` is set with the split.

`PassedHadMajority`, from `DaoInv`.  The two sums of a count are read one after the other while votes
come in, so that what a run compares is no state there ever was.  But votes are only
added, and never change: the first sum is at most the votes for the proposal there are when the
second one is read, and the run keeps this bound (`RunsOK`).  What it passes has
therefore a majority among the votes of the second reading, which are those counted (`CountsOK`).
`RequestsOK` says that a vote carries the power of its snapshot.  `SnapshotTakesAll`, from `WholeInv`:
a run that is reading the pages has stored the power of every holder up to its cursor
(`ReadTo`), what it has not read is what the table holds (`Current`), unless tokens
moved, and the last page is the one that is not full.

**Dividends.**  Three invariants that need little of each other.  `DividendsFit`, from `WalkInv`: as long
as a distribution is in some run's hands or left with claims, and no token moved
meanwhile, each claim there is equals the share of what its holder holds, and so does each row
of a batch about to be inserted (`SharesInv`); overlapping runs write the same, and
`skipDuplicates` writes nothing where there is a claim.  A share is rounded down:
`SharesFit` multiplies by the supply to show that all of them add up to at most
the amount (`SumScaled`, `SumMonotonic`).  When tokens move, what was begun becomes
`unsettled` and the rest has no claims that this could change; that claims and runs are only of
distributions that were stored (`KnownInv`) makes a new one begin with none.
`DividendsAreCredited`, from `CreditInv`: the amount a request carries is still that of
the claim it read, whatever was inserted or claimed since, and the update that asks for
PENDING lets one request through.  `ClaimRewardedOnce`, from `RewardInv`: a worker that is about to
create the reward of a claim not in `foundTwice` is the only one, and there is no reward yet (`CreatorsAlone`).
`EveryProofVerifies` needs no invariant but is about trees of any size.  The layers, the places on the
way up and the hashes of a verification are recursive functions, of which TLA+ says only that they are
*a* function that satisfies the recursion, if there is one: `LayersExist`, `PlacesExist` and
`HashesExist` show that there is, one argument more at a time (`Climb`, as in `Sums`).  `LayersAre`
says what k turns of `buildMerkleTree` leave (`Tower`): each layer is the one above the one before, and
a top of more than one hash has lost at least one per turn, so that as many turns as leaves end in a
single root.  `OneUp` is the step of the code's two halves that have to agree, an element alone
included: the pair of the hash at a place and its sibling is the hash at half the place in the next
layer.  So the hash after k siblings is the ancestor in layer k + 1, and the last is the root
(`MerkleProofsVerify`).  `ClaimPlace`: as many claimants come before a claim as its place says, and no
two have one place.

**AssetLifecycle.**  `ApprovedByAdministrators`, for every number of desks,
administrators and required approvals.  `LifecycleInv` says, of the proposals, that
the names in a row, or in the list a request is about to write, are different, and
how many they are for each status (`RowOK`, `ApprovesOK`; `Threshold` is two when
one approval is required, since the proposer's is never counted by itself); of the
requests past an EXECUTED answer, that it was counted (`HasExecuted`); of records
and their jobs, that the user has an executed proposal (`Backed`) and is in the
registry before the record is read; and of each proposal no approval of which was
written over another, that at most one request acts on it or has minted (`Once`).
The last is inductive because a request that writes the next name on a row that was
not executed finds nobody acting on it.  `OthersRest` takes care of the many steps
that have nothing to do with proposals.

`LiquidationsBurnPerAttempt`, from `BurnsOK`: a liquidation has one job, in the queue or with the worker
(`Fits`), whose attempts left are at most the burns the property still allows (`Room`), one
more as long as the worker is past its burn; a restart gives the job back with that one
attempt not counted, and so counts the burn as `lost`.  That only the job of a liquidation is ever
between those steps needs `JobsOK` of the next theorem.  `OpenAssetsHaveContracts`, from `MintedInv`: between the sending of a mint and
the row that has its contract, requests, jobs and rows say in turn whose it is (`Named`), and no two of
them say different things (`NamesOK`); a contract in a row is that of a mined mint, and what is
open has one (`AssetsOK`).  `MintedInv` is inductive together with `LifecycleInv`, which knows
the requests.

**Payments.**  `PaidOncePerLoss` and `PostedOnce`, from one invariant, `PayInv`.  A row
without a hash has been paid out as often as a hash was lost, but for the payout
whose hash the processor holds and has not stored (`PaidOnce`); a job that is about
to broadcast has a row without a hash (`ProcessorOK`), which stays so because only a
request that saw a hash replaces it (`RequestOK`), rows are never lost and lose no
hash (`Kept`), and there is one processor.  A row moved at most once more than is
excused (`contested` and `overruled` together), and a row that is open has one move
less (`SettledOnce`): a run holds a row once and has read it undecided (`CheckOK`), a step that
posts closes the row, and one that posts to a row already closed is counted.  Most steps append a row or change another
column (`TableAppends`, `RowChanges`) and post nothing (`PostsNothing`).

`LockedAlwaysExplained`: `LedgerInv` adds the shapes of rows, requests, chain and scans (`TableOK`,
`RequestsAsked`, `MoneyTyped`, `ChainTyped`, `ScansTyped`), that the processor pays withdrawals
(`PaysWithdrawal`) and that a check posts what the row says (`ChecksComplete`).  `Balanced` states
the property with sums over all requests and all row numbers, so that each step
changes at most one term of each; what a step changes is one lemma, `Goes`, that
the steps cite.  `ScanMissesNothing`, from `CoverInv`: what lies before the cursor, or before where
a scan began, is registered or accounted for (`SeenUpTo`), and what lies in its
range too, or is still on the scan's list.  It needs the condition that
the run's bound `MaxHeight` stands for, and states it as a formula: `[]FromStart`, that the tip is no
further than the first range while no scan has ended.  Without it two first scans
that overlap may begin at different blocks, and the theorem is false (section 3).

**Sessions.**  `LoginsHold` and `OneRegistration`, from `SessionsInv`.  No two rows hold
one code, a code that nobody has replaced is counted at most once and then is in no
row, and what a request is about to delete is the code of the row, if there is one,
or was replaced (`CodesOK`).  Only the request that created an account makes its cash
row, and there is one (`CashOK`).  Of a user that is not `crossed` one request at a
time stores a pair, and between its two writes the row holds this pair or nothing
(`PairsOK`): this is what makes "the row and the session agree" inductive.  A user
that logged out has an empty row and no request that could lead to a pair
(`LogoutOK`); a refresh needs a token in the row.  The steps of a login only carry the
request on (`LoginGoesOn`), those of a code leave accounts and tokens alone.

**MarketData.**  `CandlesHold`, from `MarketInv`.  First the laws of the lists: what is selected of a
list (`Among`) and the loop that makes a candle of a group (`GroupCandle`) are recursive functions on its prefixes,
and what holds of every list is climbed to, one trade at a time (`ListClimb`, with `Climb` of `Sums`).
Selecting goes through appending and joining (`TradesInLaws`), the loop makes the candle that the
property states (`GroupCandleIs`), and the candle of two lists in a row is the two candles merged
(`CandleConcat`), which rests on `Merged` being associative (`MergedAgain`): that is why it does not
matter in which portions the cron takes the trades.
`RowsInv` says, of a candle no two crons held and none gave up in, that its trades are in order those of
its row, those in the one cron's hands, those in the list; and that the row the cron has read is
still there when it writes.  `CacheInv` says, of a candle no two calls were in, that the cached one is
up to date or lacks the trade of the one call that has it still to write.  Both are
about undisturbed candles.  That a cached candle never counts too much holds of all of them, and needs
`BoundInv`: a candle that is cached, or was read and is about to be written, and all that the calls in
progress have still to add to it, are no more than what there was.  A write adds a trade and
takes it off what is to come, a lost write only loses.  `KnownTrades` is for the
chart, which shows the row when nothing is cached: without trades there is no row either.
For the ticker every trade of the day is in one candle of a minute (`DayIs`), so that the sum over the
minutes grows by each trade's quantity (`DayVolume`), and the highest of the highs is a price of the day's trades.

Only model-checked: the liveness properties (`EveryCallEnds`, `EveryJobEnds`, `EveryTradeIsTaken`,
`ConfirmedIsSettled`, `SnapshotIsTaken`, `EndedIsDecided`), which need ENABLED and fairness, beyond the
provers used here.

## 6. Not modelled, and the plan

Not modelled, for want of a protocol: posts, support, news, notifications, the
realtime gateway, profile updates, catalogue queries, configuration and start-up,
seeds, document uploads.  Of the modelled parts these operations are left out:
password change and TOTP set-up (one statement each), `generateClaimSignature` (signs
what it reads), the removal of a wallet from the registry (nothing calls it), the
bot's balances at start-up (no order uses them), the volume bought in a candle and
price bands, reference prices and valuation snapshots (only made-up trades use them), the
commission jobs and history rows of `settleMatch`, the amounts a liquidation would
pay (it never does), fee estimation and the encoding of calls in the blockchain adapter, the
on-chain life of a settlement batch in `EscrowMarketplace.sol` (nobody reads it).

What is left to do, in this order:

1. `MatchingLocks`: transactions of two markets that lock the cash rows of shared
   users in opposite orders, which `SpotTrading`, of one asset, has only as failures.
2. The composition of `AssetLifecycle` and `SpotTrading` where a redemption cancels
   live orders without unlocking what they pledge.
3. The composition of `SpotTrading` and `MarketData`: which trades of a matching job
   are never recorded when it throws after its commit.
4. The commission jobs of trades: they are queued before the match commits, so that a
   match that is rolled back is rewarded and one that is retried is rewarded again.
