----------------------------- MODULE MCGovernance -----------------------------
(***************************************************************************)
(* What administrators, holders and members decide: proposals that need    *)
(* several administrators, the life of an asset, DAO proposals, and the    *)
(* accounts and sessions of those who act.  As in MCCustody a behaviour is *)
(* a scene of one component while the others rest; some scenes start from  *)
(* a state that another one, or the component alone, can reach.            *)
(***************************************************************************)
EXTENDS AssetLifecycle, Sessions, DaoService, MarketData, TLC

CONSTANT Scenes

VARIABLE scene

governanceVars == <<scene, lifecycleVars, authVars, daoVars, marketVars>>

\* Values of the constants
OpenAsset == <<AssetRow(TRUE, "OPEN", 0, 1)>>
AllTokensOfOne == [u \in TokenHolders |-> [available |-> IF u = 1 THEN TotalSupply ELSE 0, locked |-> 0]]
UnevenHoldings == [x \in DaoAssets |-> [h \in DaoHolders |-> IF h = 2 THEN 6 ELSE 1]]
EqualWeights == [v \in Voters |-> 1]
OneThenTwo == <<1, 2>>

\* The components use the same two names for what they run side by side (desks,
\* requests, backends, and devices), and only that they differ matters, so that
\* one exchange of the names is a symmetry of all of them.
Symmetric == Permutations(Admins) \cup Permutations(Desks)

ASSUME SharedNames ==
  Desks = Gadgets /\ Desks = AuthRequests /\ Desks = DaoRequests /\ Desks = DaoCrons
  /\ Desks = Publishers /\ Desks = Syncers

------------------------------------------------------------------------------
\* User 1 has been approved by some administrators, and may redeem.
ApprovedUser ==
  /\ \E by \in [1 .. RequiredApprovals -> Admins] :
       /\ IsInjective(by)
       /\ proposals = <<[type |-> "KYC", about |-> 1, status |-> "EXECUTED", approvals |-> by]>>
       /\ executions = [p \in ProposalIds |-> IF p = 1 THEN <<Range(by)>> ELSE <<>>]
  /\ kyc = [u \in Applicants |-> IF u = 1 THEN "APPROVED" ELSE "NONE"]
  /\ walletOf = {1} /\ registry = {1} /\ reviewed = {1}
  /\ desk = [k \in Desks |-> Idle] /\ sigFailures = 0 /\ overlapped = {}
  /\ kycJobs = <<>> /\ kycWorker = Idle /\ submits = 0

NoDecisions == SigInit /\ KycInit /\ walletOf = {2}

\* A proposal about the tokens of asset 1 has its snapshot.
VotesOpen ==
  /\ ContractInit
  /\ daoProposals = <<[asset |-> 1, snapshotAt |-> 0, endAt |-> 1, status |-> "ACTIVE",
                       kind |-> "INCREASE", chainId |-> 1]>>
  /\ holding = DaoHoldings
  /\ powers = [p \in DaoIds |-> DaoHoldings[1]] /\ held = [p \in {1} |-> DaoHoldings[1]]
  /\ votes = [p \in DaoIds |-> NoFunction]
  /\ daoRequest = [r \in DaoRequests |-> DaoIdle] /\ daoCron = [c \in DaoCrons |-> DaoIdle]
  /\ daoMoves = 0 /\ daoFailures = 0
  /\ moved = {} /\ counted = NoFunction /\ raced = {} /\ daoExecuted = [p \in DaoIds |-> 0]

------------------------------------------------------------------------------
DeskThrowsOnly == WithoutAssets(UNCHANGED kycVars /\ \E k \in Desks : DeskThrows(k))

\* Only the scene of liquidations needs MaxTokenTxs transactions; and what is
\* reviewed is the asset that is created there, not the one that is open.
FewTokenTxs == Len(tokenChain') < MaxTokenTxs

LifeScene ==
  \/ scene = "kyc" /\ (\/ WithoutAssets(KycNext) \/ WithoutAssets(SigNext)
                       \/ \E k \in Desks : SendMint(k))
  \/ scene = "mint" /\ (\/ CreateAsset \/ CatalogueNext \/ WithoutAssets(SigNext)
                        \/ (\E k \in Desks : ReviewOnboarding(k) \/ MintStep(k)
                                             \/ WithoutAssets(QueueWhitelist(k)))
                        \/ TokenChainNext \/ AssetWorkerNext) /\ forced' \subseteq {1} /\ FewTokenTxs
                     /\ \A k \in Desks : desk'[k].step = "review" => desk'[k].asset = 2
  \/ scene = "onboarding" /\ (OnboardingNext \/ DeskThrowsOnly \/ TokenChainNext \/ AssetWorkerNext)
  \/ scene = "redeem" /\ (\/ RedeemNext \/ DeskThrowsOnly \/ TokenChainNext \/ AssetWorkerNext
                          \/ \E u, v \in TokenHolders : TokensMove(u, v)) /\ FewTokenTxs
  \/ scene = "liquidate" /\ (LiquidationNext \/ TokenChainNext \/ AssetWorkerNext)

AuthScene ==
  \/ scene = "codes" /\ (OtpNext \/ LoginBy(1, {NoDevice}) \/ AccountStep \/ IssueStep \/ AuthThrows)
  \/ scene = "mail" /\ (LoginBy(1, Devices) \/ IssueStep \/ RotationNext \/ NextSecond)
  \/ scene = "wallet" /\ (LoginBy(2, Devices) \/ AccountStep \/ IssueStep \/ AuthThrows)

DaoScene ==
  \/ scene = "contract" /\ (Tick \/ OwnerNext) /\ UNCHANGED backend
  \/ scene = "vote" /\ (RequestNext \/ CronNext \/ (Tick /\ UNCHANGED backend))

\* The scene of the crons has one trade recorded at a time, in two minutes; that
\* of the cache has two, in LastMinute + 1 minutes, of which a ticker shows some.
OneRecorded == Cardinality({w \in Publishers : publisher'[w] # MarketIdle}) <= 1

MarketScene ==
  \/ scene = "market" /\ (SyncNext \/ (RecordNext /\ OneRecorded)) /\ minute' <= 1
  \/ scene = "cache" /\ RecordNext

GovernanceInit ==
  /\ scene \in Scenes
  /\ AssetInit /\ IF scene = "redeem" THEN ApprovedUser ELSE NoDecisions
  /\ AuthInitWith(IF scene = "mail" THEN {1} ELSE {})
  /\ now = 0 /\ IF scene = "vote" THEN VotesOpen ELSE DaoInit
  /\ MarketInit

GovernanceNext ==
  /\ \/ LifeScene /\ UNCHANGED <<authVars, daoVars, marketVars>>
     \/ AuthScene /\ UNCHANGED <<lifecycleVars, daoVars, marketVars>>
     \/ DaoScene /\ UNCHANGED <<lifecycleVars, authVars, marketVars>>
     \/ MarketScene /\ UNCHANGED <<lifecycleVars, authVars, daoVars>>
     \/ UNCHANGED <<lifecycleVars, authVars, daoVars, marketVars>>
  /\ UNCHANGED scene

GovernanceSpec == GovernanceInit /\ [][GovernanceNext]_governanceVars
==============================================================================
