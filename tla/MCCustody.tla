------------------------------ MODULE MCCustody ------------------------------
(***************************************************************************)
(* Money that leaves and enters the exchange: Payments and Dividends, and  *)
(* the cron of DaoService.  The components share no table that their       *)
(* properties are about, so that a behaviour is a scene of one of them     *)
(* while the others rest in their initial states.  A scene is a part of    *)
(* the component's next-state relation; between them they have all of it.  *)
(***************************************************************************)
EXTENDS Payments, Dividends, DaoService

CONSTANT Scenes

VARIABLE scene

custodyVars == <<scene, payVars, divVars, daoVars>>

\* Values of the constants
PayerCash == [u \in Payers |-> IF u = 1 THEN [available |-> 2, locked |-> 1]
                               ELSE [available |-> 0, locked |-> 0]]
OneWithdrawal == {[user |-> 1, amount |-> 1, key |-> 1]}
UsdtLogs == {<<[from |-> 1, amount |-> 1]>>, <<[from |-> 0, amount |-> 1], [from |-> 1, amount |-> 1]>>}
Dividends4And3 == <<4, 3>>
OneEach == [u \in Holders |-> 1]
FirstAssetHeld == [x \in DaoAssets |-> [h \in DaoHolders |->
                     IF x = 2 THEN 0 ELSE IF h = 2 THEN 2 ELSE 1]]
EqualWeights == [v \in Voters |-> 1]

\* Who acts where one of a kind is enough
FirstClient == CHOOSE c \in Clients : TRUE
FirstCheck == CHOOSE r \in Checks : TRUE
FirstScan == CHOOSE s \in Scans : TRUE
FirstRun == CHOOSE r \in SnapshotRuns : TRUE
TakeFirstSnapshot == CreateDistribution(TRUE) \/ SnapshotStep(FirstRun) \/ BuildTree

NoReopening ==
  \A c \in Clients : request'[c].step = "admin" => request'[c].status # "PENDING"
OneScan == \A s \in Scans \ {FirstScan} : scan'[s] = NoScan
OneClient == \A c \in Clients \ {FirstClient} : request'[c] = NoRequest

PayScene ==
  \/ scene = "cash" /\ (CashNext \/ SweepNext)
  \/ scene = "locks" /\ (WithdrawNext \/ AdminNext \/ PayoutNext)
  \/ scene = "payout" /\ (AdminNext \/ WithdrawNext \/ PayoutNext \/ MineNext \/ BlockNext
                            \/ CheckNext \/ RestartPayments) /\ NoReopening
  \/ scene = "gas" /\ (WithdrawNext \/ PayoutNext \/ GasNext \/ MineNext \/ BlockNext
                         \/ CheckStep(FirstCheck))
  \/ scene = "deposit" /\ (ReceiveNext \/ BlockNext \/ ScanNext \/ CheckNext \/ RestartPayments) /\ OneScan
  \/ scene = "scans" /\ (ReceiveNext \/ BlockNext \/ ScanNext \/ CheckStep(FirstCheck))

DivScene ==
  \/ scene = "snapshot" /\ SnapshotNext
  \/ scene = "walks" /\ (TakeFirstSnapshot \/ WalkThrows(FirstRun))
  \/ scene = "claim" /\ (TakeFirstSnapshot \/ ClaimNext \/ CommissionNext)
  \/ scene = "chain" /\ (TakeFirstSnapshot \/ ChainNext)
  \/ scene = "interest" /\ InterestNext

OneDividend == Len(distributions') <= 1

\* Proposals whose snapshot is due at once.
Propose(x) == \E end \in 1 .. MaxTime : CreateProposal(x, 0, end, "GENERAL", 1)
DaoCronNext == CronNext \/ (Tick /\ UNCHANGED backend)

DaoScene ==
  \/ scene = "ballot" /\ (\/ DaoCronNext
                          \/ Len(daoProposals) = 0 /\ Propose(1)
                          \/ \E from, to \in DaoHolders : DaoMove(1, from, to))
  \/ scene = "blocked" /\ (\/ Tick /\ UNCHANGED backend
                           \/ Propose(1) \/ Propose(2)
                           \/ \E c \in DaoCrons : CronStep(c))

CustodyInit ==
  /\ scene \in Scenes
  /\ PayInit /\ linked[2] = "checksum" /\ (linked[1] = NoWallet => scene \in {"cash", "locks"})
  /\ DivInit /\ wallets = {1, 2}
  /\ DaoInit

CustodyNext ==
  /\ \/ PayScene /\ (scene = "locks" \/ OneClient) /\ UNCHANGED <<divVars, daoVars>>
     \/ DivScene /\ (scene = "walks" \/ OneDividend) /\ UNCHANGED <<payVars, daoVars>>
     \/ DaoScene /\ UNCHANGED <<payVars, divVars>>
     \/ UNCHANGED <<payVars, divVars, daoVars>>
  /\ UNCHANGED scene

\* The fairness of the components, in the scenes that have the steps.
CustodyFairness ==
  /\ WF_payVars(scene \in {"locks", "payout", "gas"} /\ PayoutStep)
  /\ WF_payVars(scene \in {"gas", "scans"} /\ CheckStep(FirstCheck))
  /\ \A r \in Checks : WF_payVars(scene \in {"payout", "deposit"} /\ CheckStep(r))
  /\ WF_payVars(scene = "deposit" /\ ScanStep(FirstScan))
  /\ \A s \in Scans : WF_payVars(scene = "scans" /\ ScanStep(s))
  /\ \A r \in SnapshotRuns : WF_divVars(scene = "snapshot" /\ SnapshotStep(r))
  /\ WF_divVars(scene \in {"walks", "claim", "chain"} /\ SnapshotStep(FirstRun))
  /\ \A c \in DaoCrons : WF_daoVars(scene \in {"ballot", "blocked"} /\ CronStep(c))

CustodySpec == CustodyInit /\ [][CustodyNext]_custodyVars /\ CustodyFairness
==============================================================================
