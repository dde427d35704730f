------------------------------- MODULE Multisig -------------------------------
(***************************************************************************)
(* MultiSigService: proposals that run when enough administrators have     *)
(* approved them.  approve reads the row and later writes what it read     *)
(* with one more name.  A desk is one request of an administrator in       *)
(* progress; what it does once its proposal is EXECUTED is up to Kyc and   *)
(* AssetLifecycle.                                                         *)
(***************************************************************************)
EXTENDS Naturals, Sequences, FiniteSets

CONSTANTS
  Admins,             \* users with the role ADMIN
  Desks,              \* requests of administrators in progress at a time
  RequiredApprovals,  \* requiredApprovals
  MaxProposals,       \* bound
  MaxSigFailures      \* bound: failures of the database, Redis or the node, restarts

ASSUME MultisigAssumption ==
  /\ IsFiniteSet(Admins) /\ RequiredApprovals \in Nat \ {0}
  /\ MaxProposals \in Nat /\ MaxSigFailures \in Nat

VARIABLES
  proposals,   \* table MultiSigProposal
  desk,        \* what each request carries
  sigFailures,
  executions,  \* history: whose approvals each EXECUTED answer counted
  overlapped   \* history: proposals of which an approval was written over another

sigHistory == <<executions, overlapped>>
sigVars == <<proposals, desk, sigFailures, sigHistory>>

ProposalIds == 1 .. MaxProposals
IsProposal(p) == p \in DOMAIN proposals
Idle == [step |-> "idle"]

SigInit ==
  /\ proposals = <<>> /\ desk = [k \in Desks |-> Idle] /\ sigFailures = 0
  /\ executions = [p \in ProposalIds |-> <<>>] /\ overlapped = {}

SigFail == sigFailures < MaxSigFailures /\ sigFailures' = sigFailures + 1

Free(k) == desk[k] = Idle
Leaves(k) == desk' = [desk EXCEPT ![k] = Idle]

\* createProposal: the proposer's approval is its first.
Proposed(type, about, admin) ==
  Append(proposals, [type |-> type, about |-> about, status |-> "PENDING", approvals |-> <<admin>>])

ProposalRoom == Len(proposals) < MaxProposals

Approvers(approvals) == {approvals[i] : i \in DOMAIN approvals}

\* Mutant: an administrator may approve again.
MayApproveAgain(p, admin) == proposals[p].status # "EXECUTED"

\* What approve checks of the row it reads.
MayApprove(p, admin) ==
  /\ proposals[p].status # "EXECUTED"
  /\ admin \notin Approvers(proposals[p].approvals)

\* route: which of approveMintProposal and approveKycWhitelistProposal is called.
ReadProposal(k, p, admin, route) ==
  /\ Free(k) /\ IsProposal(p) /\ MayApprove(p, admin)
  /\ desk' = [desk EXCEPT ![k] = [step |-> "approve", proposal |-> p, route |-> route,
                                  next |-> Append(proposals[p].approvals, admin)]]
  /\ UNCHANGED <<proposals, sigFailures, sigHistory>>

Enough(approvals) == Len(approvals) >= RequiredApprovals

WithApprovals(row, next) ==
  [type |-> row.type, about |-> row.about, approvals |-> next,
   status |-> IF Enough(next) THEN "EXECUTED" ELSE "PENDING"]

\* The proposal is written; when it is executed the desk goes on.
WriteApproval(k) ==
  LET p    == desk[k].proposal
      next == desk[k].next
  IN  /\ desk[k].step = "approve"
      /\ proposals' = [proposals EXCEPT ![p] = WithApprovals(@, next)]
      /\ overlapped' = IF \E a \in Admins : next = Append(proposals[p].approvals, a) THEN overlapped
                       ELSE overlapped \cup {p}
      /\ IF Enough(next)
         THEN /\ executions' = [executions EXCEPT ![p] = Append(@, Approvers(next))]
              /\ desk' = [desk EXCEPT ![k] = [step |-> "executed", proposal |-> p,
                                              route |-> desk[k].route]]
         ELSE /\ UNCHANGED executions
              /\ Leaves(k)
      /\ UNCHANGED sigFailures

\* A request fails, or its administrator's backend restarts, between two steps.
DeskThrows(k) ==
  /\ ~Free(k) /\ SigFail
  /\ Leaves(k)
  /\ UNCHANGED <<proposals, sigHistory>>

------------------------------------------------------------------------------
ApprovedByEnough(p) ==
  /\ executions[p] # <<>>
  /\ \A i \in DOMAIN executions[p] : Cardinality(executions[p][i]) >= RequiredApprovals
==============================================================================
