---------------------------- MODULE AssetLifecycle ----------------------------
(***************************************************************************)
(* An asset from its creation or onboarding to its redemption or           *)
(* liquidation.  Requests send a transaction to the token factory or the   *)
(* token, store it, and queue a job; the processor of "asset-blockchain"   *)
(* (concurrency 1) finishes when the chain has answered.                   *)
(*                                                                         *)
(* A transaction's hash is its place in tokenChain, 0 is null; a contract  *)
(* is the hash of the transaction that made it.                            *)
(***************************************************************************)
EXTENDS Kyc

CONSTANTS
  TokenHolders,    \* users that hold tokens of asset 1
  TotalSupply,     \* of asset 1, all of it held by TokenHolders
  OpeningAssets,   \* assets there are at first
  OpeningTokens,   \* available and locked of each holder
  MaxAssets, MaxRequests, MaxTokenTxs, MaxRedemptions, MaxTokenMoves, MaxLiquidations, \* bounds
  OnboardingDecisions, RedemptionDecisions,  \* statuses administrators set
  AssetAttempts    \* attempts of the jobs that say so

OnboardingStatuses == {"PENDING", "APPRAISING", "APPROVED", "REJECTED", "PROCESSING", "TOKENIZED"}
RedemptionStatuses == {"PENDING", "PROCESSING_LEGAL", "COMPLETED", "REJECTED"}

ASSUME AssetAssumption ==
  /\ IsFiniteSet(TokenHolders) /\ TokenHolders \subseteq Applicants
  /\ AssetAttempts \in Nat \ {0}
  /\ OpeningAssets \in Seq([active : BOOLEAN, trading : {"OPEN", "PAUSED", "CLOSED"},
                            txHash : Nat, contract : Nat])
  /\ \A x \in DOMAIN OpeningAssets :
       /\ OpeningAssets[x].contract \in 0 .. Len(OpeningAssets)
       /\ OpeningAssets[x].active /\ OpeningAssets[x].trading = "OPEN"
            => OpeningAssets[x].contract # 0
       /\ \A y \in DOMAIN OpeningAssets \ {x} :
            OpeningAssets[x].contract # 0 => OpeningAssets[y].contract # OpeningAssets[x].contract
  /\ OpeningTokens \in [TokenHolders -> [available : Nat, locked : Nat]]
  /\ MaxLiquidations \in Nat
  /\ OnboardingDecisions \subseteq OnboardingStatuses
  /\ RedemptionDecisions \subseteq RedemptionStatuses

VARIABLES
  assets, onboardings, redemptions,  \* tables
  tokenChain,   \* what was sent to the token factory and the tokens
  tokens,       \* balances of asset 1
  assetJobs,    \* queue asset-blockchain
  assetWorker,  \* what the processor's job carries
  tokenMoves,   \* counts TokensMove
  liquidations, \* counts LiquidateAsset, and numbers the liquidations
  forced,       \* history: assets an administrator has activated by an update
  burns, lost   \* history: of each liquidation, burns that were sent, and restarts between a
                \* burn and the end of the job

assetTables == <<assets, onboardings, redemptions>>
assetQueue == <<assetJobs, assetWorker>>
assetBounds == <<tokenMoves, liquidations>>
burnHistory == <<burns, lost>>
assetVars == <<assetTables, tokenChain, tokens, assetQueue, assetBounds, forced, burnHistory>>
deskUnchanged == <<proposals, sigFailures, sigHistory, kycVars>>

AssetRow(active, trading, hash, contract) ==
  [active |-> active, trading |-> trading, txHash |-> hash, contract |-> contract]

AssetInit ==
  /\ assets = OpeningAssets /\ onboardings = <<>> /\ redemptions = <<>>
  /\ tokenChain = [i \in DOMAIN OpeningAssets |-> [kind |-> "mint", proposal |-> 0, fate |-> "mined"]]
  /\ tokens = OpeningTokens
  /\ assetJobs = <<>> /\ assetWorker = Idle
  /\ tokenMoves = 0 /\ liquidations = 0 /\ forced = {}
  /\ burns = [n \in 1 .. MaxLiquidations |-> 0] /\ lost = burns

IsAsset(x) == x \in DOMAIN assets
Goes(k, next) == desk' = [desk EXCEPT ![k] = next]

Send(kind, p) ==
  /\ Len(tokenChain) < MaxTokenTxs
  /\ tokenChain' = Append(tokenChain, [kind |-> kind, proposal |-> p, fate |-> "pending"])

MineToken(i, fate) ==
  /\ i \in DOMAIN tokenChain /\ tokenChain[i].fate = "pending"
  /\ fate \in {"mined", "reverted"}
  /\ tokenChain' = [tokenChain EXCEPT ![i].fate = fate]
  /\ UNCHANGED <<sigVars, kycVars, assetTables, tokens, assetQueue, assetBounds, forced, burnHistory>>

AssetJob(name, about, hash, request, left) ==
  [name |-> name, about |-> about, hash |-> hash, request |-> request, left |-> left]

Queue(job) == assetJobs' = Append(assetJobs, job) /\ UNCHANGED assetWorker

------------------------------------------------------------------------------
(***************************************************************************)
(* AssetsService: createAsset, reviewOnboarding, updateAsset, approveAsset *)
(* (whose approve always throws after the proposal is made, as in Kyc),    *)
(* and what approveMintProposal does once the proposal is executed         *)
(***************************************************************************)
catalogueUnchanged == <<sigVars, kycVars, onboardings, redemptions, tokenChain, tokens,
                        assetQueue, assetBounds, burnHistory>>

CreateAsset ==
  /\ Len(assets) < MaxAssets
  /\ assets' = Append(assets, AssetRow(FALSE, "OPEN", 0, 0))
  /\ UNCHANGED <<catalogueUnchanged, forced>>

\* A rejected asset gets the trading status back that was read.
ReadForReview(k, x, approved) ==
  /\ Free(k) /\ IsAsset(x)
  /\ Goes(k, [step |-> "review", asset |-> x,
              trading |-> IF approved THEN "PAUSED" ELSE assets[x].trading])
  /\ UNCHANGED <<deskUnchanged, assetVars>>

ReviewOnboarding(k) ==
  LET q == desk[k]
  IN  /\ q.step = "review"
      /\ assets' = [assets EXCEPT ![q.asset].active = FALSE, ![q.asset].trading = q.trading]
      /\ Leaves(k)
      /\ UNCHANGED <<deskUnchanged, onboardings, redemptions, tokenChain, tokens, assetQueue,
                     assetBounds, forced, burnHistory>>

UpdateAsset(x, active) ==
  /\ IsAsset(x)
  /\ assets' = [assets EXCEPT ![x].active = active]
  /\ forced' = forced \cup {x}
  /\ UNCHANGED catalogueUnchanged

ApproveAsset(k, x, admin) ==
  /\ Free(k) /\ IsAsset(x) /\ ProposalRoom
  /\ proposals' = Proposed("MINT", x, admin)
  /\ UNCHANGED <<desk, sigFailures, sigHistory, kycVars, assetVars>>

\* A proposal of another type has no asset in its payload: nothing is minted.
SendMint(k) ==
  LET p == desk[k].proposal
  IN  /\ desk[k].step = "executed" /\ desk[k].route = "mint"
      /\ IF proposals[p].type = "MINT"
         THEN /\ Send("mint", p)
              /\ Goes(k, [step |-> "storeMint", asset |-> proposals[p].about,
                          hash |-> Len(tokenChain) + 1])
         ELSE Leaves(k) /\ UNCHANGED tokenChain
      /\ UNCHANGED <<deskUnchanged, assetTables, tokens, assetQueue, assetBounds, forced, burnHistory>>

StoreMint(k) ==
  LET q == desk[k]
  IN  /\ q.step = "storeMint"
      /\ assets' = [assets EXCEPT ![q.asset].txHash = q.hash, ![q.asset].active = FALSE,
                                  ![q.asset].trading = "PAUSED"]
      /\ Goes(k, [step |-> "queueMint", asset |-> q.asset, hash |-> q.hash])
      /\ UNCHANGED <<deskUnchanged, onboardings, redemptions, tokenChain, tokens, assetQueue,
                     assetBounds, forced, burnHistory>>

QueueMint(k) ==
  /\ desk[k].step = "queueMint"
  /\ Queue(AssetJob("finalize-mint", desk[k].asset, desk[k].hash, 0, AssetAttempts))
  /\ Leaves(k)
  /\ UNCHANGED <<deskUnchanged, assetTables, tokenChain, tokens, assetBounds, forced, burnHistory>>

------------------------------------------------------------------------------
(***************************************************************************)
(* OnboardingService: createRequest, updateStatus, tokenize.  The job      *)
(* tokenize queues has no attempts option.                                 *)
(***************************************************************************)
CreateRequest ==
  /\ Len(onboardings) < MaxRequests
  /\ onboardings' = Append(onboardings, "PENDING")
  /\ UNCHANGED <<sigVars, kycVars, assets, redemptions, tokenChain, tokens, assetQueue,
                 assetBounds, forced, burnHistory>>

ReadRequest(k, r, status) ==
  /\ Free(k) /\ r \in DOMAIN onboardings /\ onboardings[r] # "TOKENIZED"
  /\ Goes(k, [step |-> "decide", request |-> r, status |-> status])
  /\ UNCHANGED <<deskUnchanged, assetVars>>

UpdateStatus(k) ==
  /\ desk[k].step = "decide"
  /\ onboardings' = [onboardings EXCEPT ![desk[k].request] = desk[k].status]
  /\ Leaves(k)
  /\ UNCHANGED <<deskUnchanged, assets, redemptions, tokenChain, tokens, assetQueue,
                 assetBounds, forced, burnHistory>>

ReadApproved(k, r) ==
  /\ Free(k) /\ r \in DOMAIN onboardings /\ onboardings[r] = "APPROVED"
  /\ Goes(k, [step |-> "tokenize", request |-> r])
  /\ UNCHANGED <<deskUnchanged, assetVars>>

SendTokenize(k) ==
  /\ desk[k].step = "tokenize"
  /\ Send("mint", 0)
  /\ Goes(k, [step |-> "storeAsset", request |-> desk[k].request, hash |-> Len(tokenChain) + 1])
  /\ UNCHANGED <<deskUnchanged, assetTables, tokens, assetQueue, assetBounds, forced, burnHistory>>

StoreTokenized(k) ==
  LET q == desk[k]
  IN  /\ q.step = "storeAsset" /\ Len(assets) < MaxAssets
      /\ assets' = Append(assets, AssetRow(FALSE, "PAUSED", q.hash, 0))
      /\ onboardings' = [onboardings EXCEPT ![q.request] = "PROCESSING"]
      /\ Goes(k, [step |-> "queueAsset", request |-> q.request, asset |-> Len(assets) + 1,
                  hash |-> q.hash])
      /\ UNCHANGED <<deskUnchanged, redemptions, tokenChain, tokens, assetQueue, assetBounds, forced, burnHistory>>

QueueTokenized(k) ==
  LET q == desk[k]
  IN  /\ q.step = "queueAsset"
      /\ Queue(AssetJob("finalize-mint", q.asset, q.hash, q.request, 1))
      /\ Leaves(k)
      /\ UNCHANGED <<deskUnchanged, assetTables, tokenChain, tokens, assetBounds, forced, burnHistory>>

------------------------------------------------------------------------------
(***************************************************************************)
(* RedeemService.  Asset, user and balance are read before the transaction *)
(* that pauses the asset and locks what was read as available.  (The       *)
(* orders it cancels are those of SpotTrading.)                            *)
(***************************************************************************)
MayRedeem(u) ==
  /\ kyc[u] = "APPROVED"
  /\ IsAsset(1) /\ assets[1].active /\ assets[1].trading = "OPEN"
  /\ tokens[u].available >= TotalSupply

ReadForRedeem(k, u) ==
  /\ Free(k) /\ MayRedeem(u)
  /\ Goes(k, [step |-> "redeem", user |-> u, read |-> tokens[u]])
  /\ UNCHANGED <<deskUnchanged, assetVars>>

RequestRedeem(k) ==
  LET q == desk[k]
  IN  /\ q.step = "redeem" /\ Len(redemptions) < MaxRedemptions
      /\ assets' = [assets EXCEPT ![1].active = FALSE, ![1].trading = "PAUSED"]
      /\ tokens' = [tokens EXCEPT ![q.user] =
                      [available |-> 0, locked |-> q.read.locked + q.read.available]]
      /\ redemptions' = Append(redemptions, [user |-> q.user, status |-> "PENDING", burn |-> 0])
      /\ Leaves(k)
      /\ UNCHANGED <<deskUnchanged, onboardings, tokenChain, assetQueue, assetBounds, forced, burnHistory>>

ReadRedemption(k, d, status) ==
  /\ Free(k) /\ d \in DOMAIN redemptions /\ redemptions[d].status # "COMPLETED"
  /\ Goes(k, [step |-> "decideRedemption", redemption |-> d, status |-> status])
  /\ UNCHANGED <<deskUnchanged, assetVars>>

UpdateRedemptionStatus(k) ==
  /\ desk[k].step = "decideRedemption"
  /\ redemptions' = [redemptions EXCEPT ![desk[k].redemption].status = desk[k].status]
  /\ Leaves(k)
  /\ UNCHANGED <<deskUnchanged, assets, onboardings, tokenChain, tokens, assetQueue,
                 assetBounds, forced, burnHistory>>

ReadForComplete(k, d) ==
  /\ Free(k) /\ d \in DOMAIN redemptions /\ redemptions[d].status = "PROCESSING_LEGAL"
  /\ assets[1].contract # 0
  /\ Goes(k, [step |-> "burn", redemption |-> d])
  /\ UNCHANGED <<deskUnchanged, assetVars>>

SendRedemptionBurn(k) ==
  /\ desk[k].step = "burn"
  /\ Send("burn", 0)
  /\ Goes(k, [step |-> "storeBurn", redemption |-> desk[k].redemption, hash |-> Len(tokenChain) + 1])
  /\ UNCHANGED <<deskUnchanged, assetTables, tokens, assetQueue, assetBounds, forced, burnHistory>>

StoreBurn(k) ==
  LET q == desk[k]
  IN  /\ q.step = "storeBurn"
      /\ redemptions' = [redemptions EXCEPT ![q.redemption].status = "PROCESSING_LEGAL",
                                            ![q.redemption].burn = q.hash]
      /\ assets' = [assets EXCEPT ![1].active = FALSE, ![1].trading = "PAUSED"]
      /\ Goes(k, [step |-> "queueBurn", redemption |-> q.redemption, hash |-> q.hash])
      /\ UNCHANGED <<deskUnchanged, onboardings, tokenChain, tokens, assetQueue, assetBounds, forced, burnHistory>>

QueueBurn(k) ==
  LET q == desk[k]
  IN  /\ q.step = "queueBurn"
      /\ Queue(AssetJob("finalize-redemption-burn", q.redemption, q.hash, 0, AssetAttempts))
      /\ Leaves(k)
      /\ UNCHANGED <<deskUnchanged, assetTables, tokenChain, tokens, assetBounds, forced, burnHistory>>

------------------------------------------------------------------------------
\* CorporateActionService.liquidateAsset.
Holding(u) == tokens[u].available + tokens[u].locked
Holding1 == {u \in TokenHolders : Holding(u) > 0}

LiquidateAsset ==
  /\ IsAsset(1) /\ Holding1 # {}
  /\ liquidations < MaxLiquidations /\ liquidations' = liquidations + 1
  /\ Queue(AssetJob("liquidation-burn", 1, 0, liquidations', AssetAttempts))
  /\ UNCHANGED <<sigVars, kycVars, assetTables, tokenChain, tokens, tokenMoves, forced, burnHistory>>

\* Matching moves tokens; jobs queued before the asset was paused still do.
TokensMove(u, v) ==
  /\ tokenMoves < MaxTokenMoves /\ tokenMoves' = tokenMoves + 1
  /\ u # v /\ tokens[u].available > 0
  /\ tokens' = [tokens EXCEPT ![u].available = @ - 1, ![v].available = @ + 1]
  /\ UNCHANGED <<sigVars, kycVars, assetTables, tokenChain, assetQueue, liquidations, forced, burnHistory>>

------------------------------------------------------------------------------
(***************************************************************************)
(* AssetBlockchainProcessor                                                *)
(***************************************************************************)
workerUnchanged == <<sigVars, kycVars, assetBounds, forced, burnHistory>>
Works(next) == assetWorker' = next /\ UNCHANGED assetJobs
\* Mutant: the status of the receipt is not looked at.
HasReceipt(hash) == hash # 0 /\ tokenChain[hash].fate # "pending"

Mined(hash) == hash # 0 /\ tokenChain[hash].fate = "mined"

TakeAssetJob ==
  /\ assetWorker = Idle /\ assetJobs # <<>>
  /\ assetWorker' = [step |-> Head(assetJobs).name, job |-> Head(assetJobs)]
  /\ assetJobs' = Tail(assetJobs)
  /\ UNCHANGED <<workerUnchanged, assetTables, tokenChain, tokens>>

\* waitForTokenizeReceipt waits; the rest is one transaction.
FinalizeMint ==
  LET job == assetWorker.job
  IN  /\ assetWorker.step = "finalize-mint" /\ Mined(job.hash)
      /\ assets' = [assets EXCEPT ![job.about].active = TRUE, ![job.about].trading = "OPEN",
                                  ![job.about].contract = job.hash]
      /\ onboardings' = IF job.request = 0 THEN onboardings
                        ELSE [onboardings EXCEPT ![job.request] = "TOKENIZED"]
      /\ Works(Idle)
      /\ UNCHANGED <<workerUnchanged, redemptions, tokenChain, tokens>>

\* isTransactionSuccessful is asked once: a burn that is not mined yet counts as failed.
FinalizeRedemptionBurn ==
  LET job == assetWorker.job
  IN  /\ assetWorker.step = "finalize-redemption-burn"
      /\ redemptions' = [redemptions EXCEPT ![job.about].status =
                           IF Mined(job.hash) THEN "COMPLETED" ELSE "PROCESSING_LEGAL"]
      /\ Works(Idle)
      /\ UNCHANGED <<workerUnchanged, assets, onboardings, tokenChain, tokens>>

(***************************************************************************)
(* processLiquidationBurn: burn, pause, look once whether the burn is      *)
(* mined, then pay the holdings.  The first payout always throws and rolls *)
(* back: it names the cash row by a key with a null in it, which the       *)
(* database client refuses.  So nobody is paid, the asset is never CLOSED, *)
(* and each attempt of the job starts with a burn of its own.              *)
(***************************************************************************)
SendLiquidationBurn ==
  /\ assetWorker.step = "liquidation-burn" /\ assets[assetWorker.job.about].contract # 0
  /\ Send("burn", 0)
  /\ burns' = [burns EXCEPT ![assetWorker.job.request] = @ + 1]
  /\ Works([step |-> "pause", job |-> assetWorker.job, hash |-> Len(tokenChain) + 1])
  /\ UNCHANGED <<sigVars, kycVars, assetBounds, forced, lost, assetTables, tokens>>

PauseLiquidated ==
  /\ assetWorker.step = "pause"
  /\ assets' = [assets EXCEPT ![1].active = FALSE, ![1].trading = "PAUSED"]
  /\ Works([assetWorker EXCEPT !.step = "look"])
  /\ UNCHANGED <<workerUnchanged, onboardings, redemptions, tokenChain, tokens>>

LookAtBurn ==
  /\ assetWorker.step = "look" /\ Mined(assetWorker.hash)
  /\ Works([assetWorker EXCEPT !.step = "pay"])
  /\ UNCHANGED <<workerUnchanged, assetTables, tokenChain, tokens>>

\* There is a holding: liquidateAsset has asked for one, and none is given up since.
PayoutThrows == assetWorker.step = "pay" /\ Holding1 # {}

\* What makes a job throw: a reverted mint, a burn that is not mined, a token
\* without contract, and a payout.
JobFails ==
  CASE assetWorker.step = "finalize-mint"    -> tokenChain[assetWorker.job.hash].fate = "reverted"
    [] assetWorker.step = "liquidation-burn" -> assets[1].contract = 0
    [] assetWorker.step = "look"             -> ~Mined(assetWorker.hash)
    [] OTHER                                 -> PayoutThrows

\* Mutant: an attempt that has failed is not counted.
RetriedUncounted(job) == Append(assetJobs, job)

RetriedJobs(job) ==
  IF job.left = 1 THEN assetJobs ELSE Append(assetJobs, [job EXCEPT !.left = @ - 1])

throwUnchanged == <<proposals, desk, sigHistory, kycVars, assetBounds, forced, burns, assetTables,
                    tokenChain, tokens>>

AssetJobThrows ==
  /\ assetWorker # Idle
  /\ \/ JobFails /\ UNCHANGED sigFailures
     \/ SigFail
  /\ assetJobs' = RetriedJobs(assetWorker.job)
  /\ assetWorker' = Idle
  /\ UNCHANGED <<throwUnchanged, lost>>

\* The backend of the processor restarts: its job stalls and is run again,
\* which takes no attempt.
HasBurnt == assetWorker.step \in {"pause", "look", "pay"}

AssetWorkerRestarts ==
  /\ assetWorker # Idle /\ SigFail
  /\ assetJobs' = <<assetWorker.job>> \o assetJobs
  /\ assetWorker' = Idle
  /\ lost' = IF HasBurnt THEN [lost EXCEPT ![assetWorker.job.request] = @ + 1] ELSE lost
  /\ UNCHANGED throwUnchanged

------------------------------------------------------------------------------
CatalogueNext ==
  \E x \in DOMAIN assets :
    \/ \E b \in BOOLEAN : UpdateAsset(x, b) \/ \E k \in Desks : ReadForReview(k, x, b)
    \/ \E k \in Desks, admin \in Admins : ApproveAsset(k, x, admin)

MintStep(k) == SendMint(k) \/ StoreMint(k) \/ QueueMint(k)

OnboardingNext ==
  \/ CreateRequest
  \/ \E k \in Desks :
       \/ \E r \in DOMAIN onboardings :
            ReadApproved(k, r) \/ \E status \in OnboardingDecisions : ReadRequest(k, r, status)
       \/ UpdateStatus(k) \/ SendTokenize(k) \/ StoreTokenized(k) \/ QueueTokenized(k)

RedeemNext ==
  \E k \in Desks :
    \/ \E u \in TokenHolders : ReadForRedeem(k, u)
    \/ \E d \in DOMAIN redemptions :
         ReadForComplete(k, d) \/ \E status \in RedemptionDecisions : ReadRedemption(k, d, status)
    \/ RequestRedeem(k) \/ UpdateRedemptionStatus(k)
    \/ SendRedemptionBurn(k) \/ StoreBurn(k) \/ QueueBurn(k)

LiquidationNext == LiquidateAsset \/ \E u, v \in TokenHolders : TokensMove(u, v)

TokenChainNext == \E i \in DOMAIN tokenChain, fate \in {"mined", "reverted"} : MineToken(i, fate)

AssetWorkerStep ==
  \/ TakeAssetJob \/ FinalizeMint \/ FinalizeRedemptionBurn
  \/ SendLiquidationBurn \/ PauseLiquidated \/ LookAtBurn

AssetWorkerNext == AssetWorkerStep \/ AssetJobThrows \/ AssetWorkerRestarts

WithoutAssets(A) == A /\ UNCHANGED assetVars

AssetNext ==
  \/ CreateAsset \/ CatalogueNext \/ (\E k \in Desks : ReviewOnboarding(k) \/ MintStep(k))
  \/ OnboardingNext \/ RedeemNext \/ LiquidationNext \/ TokenChainNext \/ AssetWorkerNext
  \/ WithoutAssets(KycNext) \/ WithoutAssets(SigNext)

lifecycleVars == <<sigVars, kycVars, assetVars>>
LifecycleInit == SigInit /\ KycInit /\ AssetInit
LifecycleSpec == LifecycleInit /\ [][AssetNext]_lifecycleVars

------------------------------------------------------------------------------
\* A liquidation burns once in each attempt of its job, and once more only for a
\* restart that met the job between its burn and its end: however many
\* liquidations of the asset take turns in the queue, and although no attempt
\* ever gets as far as paying what the burns took out of circulation.
BurntPerAttempt == \A n \in 1 .. liquidations : burns[n] <= AssetAttempts + lost[n]

\* "You must hold 100% of total supply in available balance to request full
\* redeem" (redeem.service.ts:118): whoever gets a redemption request holds all
\* tokens as it is made.
RedeemedIsHeld ==
  [][\A d \in DOMAIN redemptions' \ DOMAIN redemptions :
       tokens[redemptions'[d].user].available >= TotalSupply]_lifecycleVars

\* A token minted for a proposal has behind it as many different administrators
\* as required; and a proposal mints one token, however many approvals follow
\* and routes they take, unless an approval was written over another.
MintsOf(p) == {i \in DOMAIN tokenChain : tokenChain[i].kind = "mint" /\ tokenChain[i].proposal = p}

MintedByThree ==
  \A p \in ProposalIds :
    MintsOf(p) # {} =>
      ApprovedByEnough(p) /\ (Cardinality(MintsOf(p)) <= 1 \/ p \in overlapped)

\* Nothing is whitelisted and nothing minted without its administrators.
NothingWithoutThree == ApprovedByThree /\ MintedByThree

MinedMints == {i \in DOMAIN tokenChain : tokenChain[i].kind = "mint" /\ tokenChain[i].fate = "mined"}

\* An asset that is open for trading, and was not set so by an administrator,
\* has a contract that a mined mint has made for it alone.
OpenHasMinedContract ==
  \A x \in DOMAIN assets \ forced :
    assets[x].active /\ assets[x].trading = "OPEN" =>
      /\ assets[x].contract \in MinedMints
      /\ \A y \in DOMAIN assets \ {x} : assets[y].contract # assets[x].contract
==============================================================================
