------------------------------- MODULE Dividends -------------------------------
(***************************************************************************)
(* Dividends of one asset and the commissions they trigger.  An            *)
(* administrator creates a distribution; a run of processSnapshots, one a  *)
(* minute and not waiting for the one before, walks over the balances in   *)
(* batches and stores a claim for each holder; a user claims in cash, or   *)
(* on chain with a proof against the root that was published.  A claim in  *)
(* cash queues a commission for the user's referrer.                       *)
(***************************************************************************)
EXTENDS Naturals, Sequences, FiniteSetsExt, Functions, MerkleTree

CONSTANTS
  Holders,        \* users, numbered in the order of their Balance rows
  Supply,         \* totalSupply of the asset
  Totals,         \* totalAmount of the distributions, in the order of creation
  OpeningHoldings,\* available + locked of each holder
  SnapshotBatch,  \* SNAPSHOT_BATCH_SIZE
  SnapshotRuns,   \* runs of the cron that may overlap
  ClaimClients,   \* claim requests in progress at a time
  Referred,       \* users with a referrer
  CommissionWorkers, \* workers of queue commissions, one to a backend
  CommissionAttempts,
  MaxMoves,       \* bound: trades between holders, links of a wallet, config changes
  MaxDivFailures  \* bound: failures of the database or the queue, restarts

ASSUME DividendAssumption ==
  /\ Holders \subseteq Nat /\ IsFiniteSet(Holders) /\ Supply \in Nat \ {0}
  /\ Totals \in Seq(Nat)
  /\ OpeningHoldings \in [Holders -> Nat]
  /\ SumFunctionOnSet(OpeningHoldings, Holders) <= Supply
  /\ SnapshotBatch \in Nat \ {0} /\ CommissionAttempts \in Nat \ {0}
  /\ Referred \subseteq Holders

DistIds == DOMAIN Totals

VARIABLES
  holdings,       \* what each holder has of the asset
  wallets,        \* users that have a wallet address
  distributions,  \* table DividendDistribution
  claims,         \* table DividendClaim, by its unique key
  snapshot,       \* what each run of processSnapshots carries
  treeJobs,       \* queue merkle-tree
  claiming,       \* what each claim request carries
  paid,           \* cash credited for dividends, with its Transaction row
  commissions,    \* queue commissions
  rewards,        \* table CommissionReward: the claim each is for
  working,        \* what each worker of the queue commissions carries
  commissionOn,   \* CommissionConfig of YIELD: active with a positive rate
  distributor,    \* the contract: roots, who claimed, its tokens
  interest,       \* the asset's percentages and its late payments
  moves, divFailures,
  unsettled,      \* history: distributions during whose snapshot holdings moved
  foundTwice           \* history: claims for which two workers had found no reward at a time

divVars == <<holdings, wallets, distributions, claims, snapshot, treeJobs, claiming, paid,
             commissions, rewards, working, commissionOn, distributor, interest, moves, divFailures,
             unsettled, foundTwice>>

NoClaim == [amount |-> 0, status |-> "NONE"]
NoRun == [step |-> "idle"]
NoClaiming == [step |-> "idle"]
NoWork == [step |-> "idle"]

DivInit ==
  /\ holdings = OpeningHoldings
  /\ wallets \in SUBSET Holders
  /\ distributions = <<>>
  /\ claims = [d \in DistIds |-> [u \in Holders |-> NoClaim]]
  /\ snapshot = [r \in SnapshotRuns |-> NoRun]
  /\ treeJobs = <<>> /\ claiming = [c \in ClaimClients |-> NoClaiming]
  /\ paid = [u \in Holders |-> 0]
  /\ commissions = <<>> /\ rewards = <<>> /\ commissionOn = TRUE
  /\ working = [w \in CommissionWorkers |-> NoWork] /\ foundTwice = {}
  /\ distributor = [roots |-> <<>>, claimed |-> {}, tokens |-> 0]
  /\ interest = [late |-> 0, retained |-> 8, released |-> 0, read |-> 8]
  /\ moves = 0 /\ divFailures = 0 /\ unsettled = {}

DivFail == divFailures < MaxDivFailures /\ divFailures' = divFailures + 1
Move == moves < MaxMoves /\ moves' = moves + 1
IsDist(d) == d \in DOMAIN distributions
HasClaim(d, u) == claims[d][u] # NoClaim

------------------------------------------------------------------------------
(***************************************************************************)
(* createDistribution, with a snapshotDate that may still be to come       *)
(***************************************************************************)
CreateDistribution(due) ==
  /\ Len(distributions) < Len(Totals)
  /\ distributions' = Append(distributions, [status |-> "PENDING", due |-> due])
  /\ UNCHANGED <<holdings, wallets, claims, snapshot, treeJobs, claiming, paid, commissions, rewards,
                 working, foundTwice, commissionOn, distributor, interest, moves, divFailures,
                 unsettled>>

\* CorporateActionService.distributeYield: the distribution is stored, then the
\* audit entry of its performer 'SYSTEM', who is no user, is refused.
DistributeYield == CreateDistribution(TRUE)

SnapshotDateComes(d) ==
  /\ IsDist(d) /\ ~distributions[d].due
  /\ distributions' = [distributions EXCEPT ![d].due = TRUE]
  /\ UNCHANGED <<holdings, wallets, claims, snapshot, treeJobs, claiming, paid, commissions, rewards,
                 working, foundTwice, commissionOn, distributor, interest, moves, divFailures,
                 unsettled>>

\* A trade moves tokens from one holder to another, in the middle of a snapshot or not.
InSnapshot == {d \in DistIds : \E r \in SnapshotRuns :
                 snapshot[r] # NoRun /\ d \in {snapshot[r].dist} \cup snapshot[r].todo}

\* Also distributions whose claims were begun by a run that failed.
Begun == {d \in DOMAIN distributions :
            distributions[d].status = "PENDING" /\ \E u \in Holders : HasClaim(d, u)}

HoldingMoves(u, v) ==
  /\ Move /\ u # v /\ holdings[u] > 0
  /\ holdings' = [holdings EXCEPT ![u] = @ - 1, ![v] = @ + 1]
  /\ unsettled' = unsettled \cup InSnapshot \cup Begun
  /\ UNCHANGED <<wallets, distributions, claims, snapshot, treeJobs, claiming, paid, commissions,
                 rewards, working, foundTwice, commissionOn, distributor, interest, divFailures>>

LinkWallet(u) ==
  /\ Move /\ u \notin wallets
  /\ wallets' = wallets \cup {u}
  /\ UNCHANGED <<holdings, distributions, claims, snapshot, treeJobs, claiming, paid, commissions,
                 rewards, working, foundTwice, commissionOn, distributor, interest, divFailures,
                 unsettled>>

------------------------------------------------------------------------------
\* Mutant: a distribution that has claims already is passed over.
DueUntouched ==
  {d \in DOMAIN distributions : /\ distributions[d].status = "PENDING" /\ distributions[d].due
                                /\ \A u \in Holders : ~HasClaim(d, u)}

(***************************************************************************)
(* processSnapshots: the pending distributions are read once; for each,    *)
(* batches of balances are read and their claims inserted, skipping those  *)
(* that exist; then the status is set and the job of the tree queued.      *)
(***************************************************************************)
Due == {d \in DOMAIN distributions : distributions[d].status = "PENDING" /\ distributions[d].due}

snapshotUnchanged == <<holdings, wallets, claiming, paid, commissions, rewards, working,
                       foundTwice, commissionOn, distributor, interest, moves>>

Walk(d, todo) ==
  [step |-> "read", dist |-> d, todo |-> todo, after |-> 0, rows |-> {}, count |-> 0]

StartSnapshots(r) ==
  /\ snapshot[r] = NoRun
  /\ \E d \in Due : snapshot' = [snapshot EXCEPT ![r] = Walk(d, Due \ {d})]
  /\ UNCHANGED <<snapshotUnchanged, distributions, claims, treeJobs, divFailures, unsettled>>

Rows(after) ==
  LET left == {u \in Holders : u > after /\ holdings[u] > 0}
  IN  {u \in left : Cardinality({v \in left : v < u}) < SnapshotBatch}

Share(d, u) == (Totals[d] * holdings[u]) \div Supply

\* Of a batch, the shares that are not zero.
ReadBatch(r) ==
  LET run == snapshot[r]
      S   == Rows(run.after)
  IN  /\ run.step = "read" /\ S # {}
      /\ snapshot' = [snapshot EXCEPT ![r] =
           [run EXCEPT !.step = "insert", !.after = Max(S),
                       !.rows = {<<u, Share(run.dist, u)>> : u \in {v \in S : Share(run.dist, v) > 0}}]]
      /\ UNCHANGED <<snapshotUnchanged, distributions, claims, treeJobs, divFailures, unsettled>>

\* Mutant: the share of a claim that is there is added to it.
WithClaimsAdded(d, rows) ==
  [u \in Holders |->
     IF \E row \in rows : row[1] = u
     THEN [amount |-> claims[d][u].amount + (CHOOSE row \in rows : row[1] = u)[2],
           status |-> "PENDING"]
     ELSE claims[d][u]]

WithClaims(d, rows) ==
  [u \in Holders |->
     IF ~HasClaim(d, u) /\ \E row \in rows : row[1] = u
     THEN [amount |-> (CHOOSE row \in rows : row[1] = u)[2], status |-> "PENDING"]
     ELSE claims[d][u]]

InsertClaims(r) ==
  LET run == snapshot[r]
  IN  /\ run.step = "insert"
      /\ claims' = [claims EXCEPT ![run.dist] = WithClaims(run.dist, run.rows)]
      /\ snapshot' = [snapshot EXCEPT ![r] =
           [run EXCEPT !.step = "read", !.rows = {}, !.count = @ + Cardinality(run.rows)]]
      /\ UNCHANGED <<snapshotUnchanged, distributions, treeJobs, divFailures, unsettled>>

EndOfWalk(r) == snapshot[r].step = "read" /\ Rows(snapshot[r].after) = {}

SetDistributionStatus(r) ==
  LET run == snapshot[r]
  IN  /\ EndOfWalk(r)
      /\ distributions' = [distributions EXCEPT ![run.dist].status =
                             IF run.count > 0 THEN "READY_FOR_CLAIM" ELSE "COMPLETED"]
      /\ snapshot' = [snapshot EXCEPT ![r].step = "queue"]
      /\ UNCHANGED <<snapshotUnchanged, claims, treeJobs, divFailures, unsettled>>

\* On with the next of the distributions the run has read.
NextWalk(r) ==
  IF snapshot[r].todo = {} THEN snapshot' = [snapshot EXCEPT ![r] = NoRun]
  ELSE \E d \in snapshot[r].todo :
         snapshot' = [snapshot EXCEPT ![r] = Walk(d, snapshot[r].todo \ {d})]

QueueTree(r) ==
  /\ snapshot[r].step = "queue"
  /\ treeJobs' = Append(treeJobs, snapshot[r].dist)
  /\ NextWalk(r)
  /\ UNCHANGED <<snapshotUnchanged, distributions, claims, divFailures, unsettled>>

\* An error is logged and the run goes on with the next distribution.
WalkThrows(r) ==
  /\ snapshot[r] # NoRun /\ DivFail
  /\ NextWalk(r)
  /\ UNCHANGED <<snapshotUnchanged, distributions, claims, treeJobs, unsettled>>

\* MerkleTreeProcessor.process: the audit log that publishes the root names a
\* performer "SYSTEM_WORKER" that is no user, so that the job always fails.
BuildTree ==
  /\ treeJobs # <<>> /\ treeJobs' = Tail(treeJobs)
  /\ UNCHANGED <<holdings, wallets, distributions, claims, snapshot, claiming, paid, commissions,
                 rewards, working, foundTwice, commissionOn, distributor, interest, moves, divFailures,
                 unsettled>>

------------------------------------------------------------------------------
(***************************************************************************)
(* claimDividend: one transaction that reads the claim, marks it if it is  *)
(* still PENDING, credits the amount, and queues the commission before it  *)
(* commits.                                                                *)
(***************************************************************************)
claimUnchanged == <<holdings, wallets, distributions, snapshot, treeJobs, rewards, working,
                    foundTwice, commissionOn, distributor, interest, moves, unsettled>>

ReadClaim(c, d, u) ==
  /\ claiming[c] = NoClaiming
  /\ HasClaim(d, u) /\ claims[d][u].status # "CLAIMED"
  /\ claiming' = [claiming EXCEPT ![c] =
       [step |-> "claim", dist |-> d, user |-> u, amount |-> claims[d][u].amount]]
  /\ UNCHANGED <<claimUnchanged, claims, paid, commissions, divFailures>>

\* Mutant: the update does not ask for the status.
StillThere(d, u) == HasClaim(d, u)

StillPending(d, u) == claims[d][u].status = "PENDING"

YieldJob(d, u) == [dist |-> d, user |-> u, left |-> CommissionAttempts]

PostClaim(c) ==
  LET q == claiming[c]
  IN  /\ q.step = "claim" /\ StillPending(q.dist, q.user)
      /\ claims' = [claims EXCEPT ![q.dist][q.user].status = "CLAIMED"]
      /\ paid' = [paid EXCEPT ![q.user] = @ + q.amount]
      /\ commissions' = Append(commissions, YieldJob(q.dist, q.user))
      /\ claiming' = [claiming EXCEPT ![c] = NoClaiming]
      /\ UNCHANGED <<claimUnchanged, divFailures>>

ClaimRefused(c) ==
  /\ claiming[c].step = "claim" /\ ~StillPending(claiming[c].dist, claiming[c].user)
  /\ claiming' = [claiming EXCEPT ![c] = NoClaiming]
  /\ UNCHANGED <<claimUnchanged, claims, paid, commissions, divFailures>>

\* The transaction rolls back, after its commission was queued or before.
ClaimRollsBack(c) ==
  LET q == claiming[c]
  IN  /\ q.step = "claim" /\ StillPending(q.dist, q.user) /\ DivFail
      /\ commissions' \in {commissions, Append(commissions, YieldJob(q.dist, q.user))}
      /\ claiming' = [claiming EXCEPT ![c] = NoClaiming]
      /\ UNCHANGED <<claimUnchanged, claims, paid>>

------------------------------------------------------------------------------
(***************************************************************************)
(* CommissionsProcessor.process.  Each backend has a worker that takes one  *)
(* job at a time; a job is tried CommissionAttempts times.  Its            *)
(* transaction reads the user and the config, looks for a reward of the    *)
(* same event, and creates one; no key keeps a second one out.             *)
(***************************************************************************)
commissionUnchanged == <<holdings, wallets, distributions, claims, snapshot, treeJobs, claiming,
                         paid, distributor, interest, unsettled>>

Pays(job) == job.user \in Referred /\ commissionOn

\* The worker takes the job, its transaction reads the user and the config.
TakeCommission(w) ==
  LET job == Head(commissions)
  IN  /\ working[w] = NoWork /\ commissions # <<>>
      /\ commissions' = Tail(commissions)
      /\ working' = IF Pays(job)
                    THEN [working EXCEPT ![w] = [step |-> "find", job |-> job, held |-> TRUE]]
                    ELSE working
      /\ UNCHANGED <<commissionUnchanged, rewards, commissionOn, moves, divFailures, foundTwice>>

\* Mutant: the rewards of the event are not looked up.
NeverRewarded(job) == FALSE

Rewarded(job) == \E i \in DOMAIN rewards : rewards[i].dist = job.dist /\ rewards[i].user = job.user

\* Another worker has found no reward of the claim and will create one.
FoundNone(w, job) ==
  \E v \in CommissionWorkers \ {w} :
    /\ working[v].step = "create"
    /\ working[v].job.dist = job.dist /\ working[v].job.user = job.user

FindReward(w) ==
  LET job == working[w].job
  IN  /\ working[w].step = "find"
      /\ working' = IF Rewarded(job) THEN [working EXCEPT ![w] = NoWork]
                                     ELSE [working EXCEPT ![w].step = "create"]
      /\ foundTwice' = IF ~Rewarded(job) /\ FoundNone(w, job)
                  THEN foundTwice \cup {<<job.dist, job.user>>} ELSE foundTwice
      /\ UNCHANGED <<commissionUnchanged, commissions, rewards, commissionOn, moves, divFailures>>

RewardsWith(job) == Append(rewards, [dist |-> job.dist, user |-> job.user])

CreateReward(w) ==
  /\ working[w].step = "create"
  /\ rewards' = RewardsWith(working[w].job)
  /\ working' = [working EXCEPT ![w] = NoWork]
  /\ UNCHANGED <<commissionUnchanged, commissions, commissionOn, moves, divFailures, foundTwice>>

\* The job is tried again later, whether its transaction committed or not;
\* BullMQ lets only the worker that holds the job's lock say so.
CommissionThrows(w) ==
  LET q == working[w]
  IN  /\ q # NoWork /\ DivFail
      /\ \/ rewards' = rewards
         \/ q.step = "create" /\ rewards' = RewardsWith(q.job)
      /\ commissions' = IF q.held /\ q.job.left > 1
                        THEN Append(commissions, [q.job EXCEPT !.left = @ - 1]) ELSE commissions
      /\ working' = [working EXCEPT ![w] = NoWork]
      /\ UNCHANGED <<commissionUnchanged, commissionOn, moves, foundTwice>>

\* The job's lock runs out and the job goes back to the queue.  Its worker is
\* gone, before or after the commit, or was too slow to renew the lock and goes on.
\* (BullMQ gives up a job that stalls a second time; here it may run once more.)
CommissionStalls(w) ==
  LET q == working[w]
  IN  /\ q # NoWork /\ q.held /\ DivFail
      /\ commissions' = Append(commissions, q.job)
      /\ \/ working' = [working EXCEPT ![w].held = FALSE] /\ rewards' = rewards
         \/ working' = [working EXCEPT ![w] = NoWork] /\ rewards' = rewards
         \/ /\ q.step = "create" /\ rewards' = RewardsWith(q.job)
            /\ working' = [working EXCEPT ![w] = NoWork]
      /\ UNCHANGED <<commissionUnchanged, commissionOn, moves, foundTwice>>

UpdateConfig ==
  /\ Move /\ commissionOn' = ~commissionOn
  /\ UNCHANGED <<commissionUnchanged, commissions, rewards, working, foundTwice, divFailures>>

------------------------------------------------------------------------------
(***************************************************************************)
(* DividendDistributor.  The owner publishes the root getClaimProof gives; *)
(* a user without a wallet has the leaf of the zero address.               *)
(***************************************************************************)
Claimants(d) == {u \in Holders : HasClaim(d, u)}

\* The claims by user, as findMany returns them.
ClaimOrder(d) == [i \in 1 .. Cardinality(Claimants(d)) |->
  CHOOSE u \in Claimants(d) : Cardinality({v \in Claimants(d) : v < u}) = i - 1]

ZeroAddress == 0
HashLeaf(d, u) == <<IF u \in wallets THEN u ELSE ZeroAddress, claims[d][u].amount>>
Leaves(d) == [i \in DOMAIN ClaimOrder(d) |-> HashLeaf(d, ClaimOrder(d)[i])]

\* getClaimProof for a user's claim.
ClaimProof(d, u) ==
  MerkleProof(Leaves(d), CHOOSE i \in DOMAIN ClaimOrder(d) : ClaimOrder(d)[i] = u)

PublishedRoot(d) == [leaves |-> Len(Leaves(d)), root |-> MerkleRoot(Leaves(d))]

\* A proof from a tree over more leaves does not lead to the root.
ProofAccepted(d, u) ==
  /\ distributor.roots[d].leaves = Len(Leaves(d))
  /\ Verifies(ClaimProof(d, u), distributor.roots[d].root, HashLeaf(d, u))

distributorUnchanged == <<holdings, wallets, distributions, claims, snapshot, treeJobs, claiming,
                          paid, commissions, rewards, working, foundTwice, commissionOn, interest, moves,
                          divFailures, unsettled>>

ChainCreate(d) ==
  /\ IsDist(d) /\ Claimants(d) # {} /\ distributions[d].status = "READY_FOR_CLAIM"
  /\ d \notin DOMAIN distributor.roots
  /\ distributor' = [distributor EXCEPT
       !.roots = [e \in DOMAIN @ \cup {d} |-> IF e = d THEN PublishedRoot(d) ELSE @[e]],
       !.tokens = @ + Totals[d]]
  /\ UNCHANGED distributorUnchanged

ChainClaim(d, u) ==
  /\ d \in DOMAIN distributor.roots /\ HasClaim(d, u) /\ u \in wallets
  /\ <<d, u>> \notin distributor.claimed
  /\ ProofAccepted(d, u)
  /\ distributor.tokens >= claims[d][u].amount
  /\ distributor' = [distributor EXCEPT !.claimed = @ \cup {<<d, u>>},
                                        !.tokens = @ - claims[d][u].amount]
  /\ UNCHANGED distributorUnchanged

------------------------------------------------------------------------------
(***************************************************************************)
(* processInterestPayments, which nothing calls yet: every late payment of *)
(* a run moves half of what was retained when the run read the asset.      *)
(***************************************************************************)
interestUnchanged == <<holdings, wallets, distributions, claims, snapshot, treeJobs, claiming,
                       paid, commissions, rewards, working, foundTwice, commissionOn, distributor,
                       divFailures, unsettled>>

ReadLatePayments(n) ==
  /\ Move /\ interest.late = 0
  /\ interest' = [interest EXCEPT !.late = n, !.read = interest.retained]
  /\ UNCHANGED interestUnchanged

Penalty == interest.read \div 2

ApplyPenalty ==
  /\ interest.late > 0
  /\ interest' = [interest EXCEPT !.late = @ - 1, !.retained = interest.read - Penalty,
                                  !.released = 8 - interest.read + Penalty]
  /\ UNCHANGED <<interestUnchanged, moves>>

------------------------------------------------------------------------------
\* A backend restarts: runs and requests are gone, and so is the transaction of
\* a claim; queues are kept by Redis.  (A worker of the commissions that is gone
\* is CommissionStalls.)
RestartDividends ==
  /\ DivFail
  /\ snapshot' = [r \in SnapshotRuns |-> NoRun]
  /\ claiming' = [c \in ClaimClients |-> NoClaiming]
  /\ UNCHANGED <<holdings, wallets, distributions, claims, treeJobs, paid, commissions, rewards,
                 working, foundTwice, commissionOn, distributor, interest, moves, unsettled>>

SnapshotStep(r) ==
  \/ StartSnapshots(r) \/ ReadBatch(r) \/ InsertClaims(r)
  \/ SetDistributionStatus(r) \/ QueueTree(r)

SnapshotNext ==
  \/ \E due \in BOOLEAN : CreateDistribution(due)
  \/ DistributeYield
  \/ \E d \in DistIds : SnapshotDateComes(d)
  \/ \E u, v \in Holders : HoldingMoves(u, v)
  \/ \E r \in SnapshotRuns : SnapshotStep(r) \/ WalkThrows(r)
  \/ BuildTree
  \/ RestartDividends

ClaimNext ==
  \E c \in ClaimClients :
    \/ \E d \in DistIds, u \in Holders : ReadClaim(c, d, u)
    \/ PostClaim(c) \/ ClaimRefused(c) \/ ClaimRollsBack(c)

ChainNext ==
  \/ \E u \in Holders : LinkWallet(u)
  \/ \E d \in DistIds : ChainCreate(d) \/ \E u \in Holders : ChainClaim(d, u)

CommissionNext ==
  \/ \E w \in CommissionWorkers :
       \/ TakeCommission(w) \/ FindReward(w) \/ CreateReward(w)
       \/ CommissionThrows(w) \/ CommissionStalls(w)
  \/ UpdateConfig

InterestNext == ApplyPenalty \/ \E n \in 1 .. 2 : ReadLatePayments(n)

DivRest ==
  /\ \A r \in SnapshotRuns : snapshot[r] = NoRun
  /\ Due = {} /\ commissions = <<>> /\ treeJobs = <<>>
  /\ \A w \in CommissionWorkers : working[w] = NoWork
  /\ UNCHANGED divVars

DivNext ==
  SnapshotNext \/ ClaimNext \/ ChainNext \/ CommissionNext \/ InterestNext \/ DivRest

\* The cron starts a run every minute, and a run that was started goes on.
DivFairness == \A r \in SnapshotRuns : WF_divVars(SnapshotStep(r))
DivSpec == DivInit /\ [][DivNext]_divVars /\ DivFairness

------------------------------------------------------------------------------
(***************************************************************************)
(* Properties                                                              *)
(***************************************************************************)
Claimed(d) == SumFunctionOnSet([u \in Holders |-> claims[d][u].amount], Holders)

\* The claims of a distribution never add up to more than its amount, whatever
\* batches, overlapping runs and runs after a failure they come from, unless
\* tokens changed hands while its snapshot was to be taken.
ClaimsFitTotal == \A d \in DistIds \ unsettled : Claimed(d) <= Totals[d]

\* The cash a user got for dividends is the sum of the claims that are marked
\* as claimed: none is credited twice by two requests, none is marked and lost.
ClaimedIsCredited ==
  \A u \in Holders :
    paid[u] = SumFunctionOnSet([d \in DistIds |-> IF claims[d][u].status = "CLAIMED"
                                                  THEN claims[d][u].amount ELSE 0], DistIds)

SameClaim(i, k) == rewards[i].dist = rewards[k].dist /\ rewards[i].user = rewards[k].user

\* A claim is rewarded to the referrer once, though it may queue several jobs
\* when its transaction rolls back, each job may run several times, and a job
\* that stalled may run at two workers, unless two workers at a time had found no
\* reward of that claim.
RewardedOnce ==
  \A i, k \in DOMAIN rewards :
    SameClaim(i, k) /\ <<rewards[i].dist, rewards[i].user>> \notin foundTwice => i = k

\* The lookup is there to "prevent duplicate commission for the same sourceTxId
\* and eventType": no claim has two rewards.
NoDuplicateCommission == \A i, k \in DOMAIN rewards : SameClaim(i, k) => i = k

\* Every claim's proof leads from its leaf to the root of its distribution's
\* tree, so that DividendDistributor pays what the backend promised.
ProofsVerify ==
  \A d \in DistIds : \A u \in Claimants(d) :
    Verifies(ClaimProof(d, u), MerkleRoot(Leaves(d)), HashLeaf(d, u))

\* A distribution whose date has come gets its claims, though runs fail: the
\* next run takes it up again.
SnapshotIsTaken ==
  \A d \in DistIds : (IsDist(d) /\ distributions[d].due)
                     ~> (IsDist(d) /\ distributions[d].status # "PENDING")
==============================================================================
