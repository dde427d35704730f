--------------------------------- MODULE Kyc ----------------------------------
(***************************************************************************)
(* KYC: a user submits a record, an administrator starts its approval,     *)
(* which proposes to whitelist the wallet; once the proposal is executed,  *)
(* a job whitelists the wallet on chain and then approves the record if it *)
(* still is APPROVING.                                                     *)
(***************************************************************************)
EXTENDS Multisig

CONSTANTS
  Applicants,  \* users
  MaxSubmits   \* bound: submissions

VARIABLES
  kyc,         \* KycRecord.status and User.kycStatus, written together
  walletOf,    \* applicants with a wallet address
  registry,    \* wallets the identity registry has whitelisted
  kycJobs,     \* queue kyc-approval
  kycWorker,   \* what the processor's job carries
  submits,
  reviewed     \* history: applicants an administrator has started to approve

kycVars == <<kyc, walletOf, registry, kycJobs, kycWorker, submits, reviewed>>

KycStatuses == {"NONE", "PENDING", "APPROVING", "APPROVED", "REJECTED"}
Nobody == 0

KycInit ==
  /\ kyc = [u \in Applicants |-> "NONE"]
  /\ walletOf \in SUBSET Applicants
  /\ registry = {} /\ kycJobs = <<>> /\ kycWorker = Idle
  /\ submits = 0 /\ reviewed = {}

HasRecord(u) == kyc[u] # "NONE"
SetKyc(u, status) == kyc' = [kyc EXCEPT ![u] = status]

------------------------------------------------------------------------------
\* KycService.submitKyc, whatever the status is.
SubmitKyc(u) ==
  /\ submits < MaxSubmits /\ submits' = submits + 1
  /\ SetKyc(u, "PENDING")
  /\ UNCHANGED <<sigVars, walletOf, registry, kycJobs, kycWorker, reviewed>>

LinkKycWallet(u) ==
  /\ u \notin walletOf /\ walletOf' = walletOf \cup {u}
  /\ UNCHANGED <<sigVars, kyc, registry, kycJobs, kycWorker, submits, reviewed>>

(***************************************************************************)
(* approveKyc: the record is APPROVING, then the proposal is made.  The    *)
(* approve that follows always throws, since the proposer's approval is in *)
(* the proposal already.                                                   *)
(***************************************************************************)
ApproveKyc(k, u, admin) ==
  /\ Free(k) /\ u \in walletOf /\ HasRecord(u)
  /\ SetKyc(u, "APPROVING")
  /\ desk' = [desk EXCEPT ![k] = [step |-> "propose", user |-> u, admin |-> admin]]
  /\ reviewed' = reviewed \cup {u}
  /\ UNCHANGED <<proposals, sigFailures, sigHistory, walletOf, registry, kycJobs, kycWorker, submits>>

ProposeWhitelist(k) ==
  /\ desk[k].step = "propose" /\ ProposalRoom
  /\ proposals' = Proposed("KYC", desk[k].user, desk[k].admin)
  /\ Leaves(k)
  /\ UNCHANGED <<sigFailures, sigHistory, kycVars>>

\* approveKycWhitelistProposal once executed; a proposal of another type has
\* no user in its payload.
QueueWhitelist(k) ==
  /\ desk[k].step = "executed" /\ desk[k].route = "kyc"
  /\ LET p == proposals[desk[k].proposal]
     IN  kycJobs' = Append(kycJobs, IF p.type = "KYC" THEN p.about ELSE Nobody)
  /\ Leaves(k)
  /\ UNCHANGED <<proposals, sigFailures, sigHistory, kyc, walletOf, registry, kycWorker, submits, reviewed>>

RejectKyc(u) ==
  /\ HasRecord(u)
  /\ SetKyc(u, "REJECTED")
  /\ UNCHANGED <<sigVars, walletOf, registry, kycJobs, kycWorker, submits, reviewed>>

------------------------------------------------------------------------------
(***************************************************************************)
(* KycApprovalProcessor.process; no attempts option, so that a job that    *)
(* throws is not run again                                                 *)
(***************************************************************************)
jobUnchanged == <<sigVars, walletOf, submits, reviewed>>

TakeKycJob ==
  /\ kycWorker = Idle /\ kycJobs # <<>>
  /\ kycWorker' = IF Head(kycJobs) = Nobody THEN Idle
                  ELSE [step |-> "whitelist", user |-> Head(kycJobs)]
  /\ kycJobs' = Tail(kycJobs)
  /\ UNCHANGED <<jobUnchanged, kyc, registry>>

Whitelist ==
  /\ kycWorker.step = "whitelist"
  /\ registry' = registry \cup {kycWorker.user}
  /\ kycWorker' = [kycWorker EXCEPT !.step = "read"]
  /\ UNCHANGED <<jobUnchanged, kyc, kycJobs>>

\* The node refuses, or the receipt never comes although the wallet is listed:
\* the record is REJECTED, whatever it has become.
WhitelistFails ==
  /\ kycWorker.step = "whitelist" /\ SigFail
  /\ registry' \in {registry, registry \cup {kycWorker.user}}
  /\ SetKyc(kycWorker.user, "REJECTED")
  /\ kycWorker' = Idle
  /\ UNCHANGED <<proposals, desk, sigHistory, walletOf, kycJobs, submits, reviewed>>

ReadKycRecord ==
  /\ kycWorker.step = "read"
  /\ kycWorker' = IF kyc[kycWorker.user] = "APPROVING" THEN [kycWorker EXCEPT !.step = "finish"]
                  ELSE Idle
  /\ UNCHANGED <<jobUnchanged, kyc, registry, kycJobs>>

FinishKyc ==
  /\ kycWorker.step = "finish"
  /\ SetKyc(kycWorker.user, "APPROVED")
  /\ kycWorker' = Idle
  /\ UNCHANGED <<jobUnchanged, registry, kycJobs>>

\* The backend of the processor restarts: its job stalls and is run again.
KycWorkerRestarts ==
  /\ kycWorker # Idle /\ SigFail
  /\ kycJobs' = <<kycWorker.user>> \o kycJobs
  /\ kycWorker' = Idle
  /\ UNCHANGED <<proposals, desk, sigHistory, kyc, walletOf, registry, submits, reviewed>>

KycWorkerStep == TakeKycJob \/ Whitelist \/ ReadKycRecord \/ FinishKyc

KycNext ==
  \/ \E u \in Applicants :
       \/ SubmitKyc(u) \/ LinkKycWallet(u) \/ RejectKyc(u)
       \/ \E k \in Desks, admin \in Admins : ApproveKyc(k, u, admin)
  \/ \E k \in Desks : ProposeWhitelist(k) \/ QueueWhitelist(k)
  \/ KycWorkerStep \/ WhitelistFails \/ KycWorkerRestarts

SigNext ==
  /\ \E k \in Desks :
       \/ \E p \in ProposalIds, admin \in Admins, route \in {"kyc", "mint"} :
            ReadProposal(k, p, admin, route)
       \/ WriteApproval(k) \/ DeskThrows(k)
  /\ UNCHANGED kycVars

\* An approved user's wallet is in the registry, and so it came there: an
\* administrator started the approval and as many different administrators as
\* required approved the proposal about this user.
ApprovedByThree ==
  \A u \in Applicants :
    kyc[u] = "APPROVED" =>
      /\ u \in registry /\ u \in reviewed
      /\ \E p \in DOMAIN proposals :
           proposals[p].type = "KYC" /\ proposals[p].about = u /\ ApprovedByEnough(p)
==============================================================================
