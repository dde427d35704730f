------------------------- MODULE AssetLifecycle_proofs -------------------------
(***************************************************************************)
(* Proofs about the proposals of administrators and the assets they lead   *)
(* to, for any number of administrators, requests, proposals, users,       *)
(* assets, failures and restarts: nobody is approved and no token minted   *)
(* without the required number of different administrators; an asset that  *)
(* is open has the contract of a mint of its own; and a liquidation burns  *)
(* no more often than its job has attempts and restarts.                   *)
(***************************************************************************)
EXTENDS AssetLifecycle, SequenceTheorems, FiniteSetTheorems, TLAPS

------------------------------------------------------------------------------
(***************************************************************************)
(* The invariant                                                           *)
(***************************************************************************)
\* The number of approvals that executes a proposal: the proposer's is one,
\* and the next one is counted.
Threshold == IF RequiredApprovals = 1 THEN 2 ELSE RequiredApprovals

IsSeq(s) == s \in Seq(Range(s))
Distinct(s) == s \in Seq(Admins) /\ IsInjective(s)

\* What is counted by an EXECUTED answer.
Counted == {S \in SUBSET Admins : Cardinality(S) >= RequiredApprovals}

\* Of different administrators; as many as the status says.
RowOK(row) ==
  /\ Distinct(row.approvals)
  /\ row.status = "EXECUTED" => Len(row.approvals) >= Threshold
  /\ row.status # "EXECUTED" => 1 <= Len(row.approvals) /\ Len(row.approvals) < Threshold
  /\ row.type = "KYC" => row.about \in Applicants \cap reviewed

ProposalsOK ==
  /\ IsSeq(proposals) /\ Len(proposals) <= MaxProposals
  /\ \A p \in DOMAIN proposals : RowOK(proposals[p])

ExecutionsOK ==
  /\ executions = [p \in ProposalIds |-> executions[p]]
  /\ \A p \in ProposalIds : executions[p] \in Seq(Counted)

\* A request that writes its approval, goes on with an executed proposal, or
\* makes one.
ApprovesOK(q) ==
  q.step = "approve" =>
    /\ q.proposal \in DOMAIN proposals
    /\ Distinct(q.next) /\ 2 <= Len(q.next) /\ Len(q.next) <= Threshold
HasExecuted(q) ==
  q.step = "executed" => q.proposal \in DOMAIN proposals /\ executions[q.proposal] # <<>>
ProposesOK(q) ==
  q.step = "propose" => q.user \in Applicants \cap reviewed /\ q.admin \in Admins

DesksOK ==
  /\ desk = [k \in Desks |-> desk[k]]
  /\ \A k \in Desks : ApprovesOK(desk[k]) /\ HasExecuted(desk[k]) /\ ProposesOK(desk[k])

\* Users with an executed proposal about them.
Backed ==
  {u \in Applicants \cap reviewed :
     \E p \in DOMAIN proposals :
       proposals[p].type = "KYC" /\ proposals[p].about = u /\ executions[p] # <<>>}

KycWorkerOK ==
  \/ kycWorker = Idle
  \/ /\ kycWorker \in [step : {"whitelist", "read", "finish"}, user : Backed]
     /\ kycWorker.step # "whitelist" => kycWorker.user \in registry

KycOK ==
  /\ kyc = [u \in Applicants |-> kyc[u]]
  /\ kycJobs \in Seq(Backed \cup {Nobody})
  /\ KycWorkerOK
  /\ \A u \in Applicants : kyc[u] = "APPROVED" => u \in registry \cap Backed

Sent == [kind : {"mint", "burn"}, proposal : ProposalIds \cup {0}, fate : {"pending", "mined", "reverted"}]

\* As long as no approval was written over another: while the proposal is not
\* executed nobody acts on it; then one request does, which mints once.
Executing(k, p) == desk[k].step = "executed" /\ desk[k].proposal = p
Once(p) ==
  /\ \A k \in Desks : Executing(k, p) => proposals[p].status = "EXECUTED" /\ MintsOf(p) = {}
  /\ \A k, j \in Desks : Executing(k, p) /\ Executing(j, p) => k = j
  /\ MintsOf(p) # {} => p \in DOMAIN proposals /\ proposals[p].status = "EXECUTED"
  /\ \A i, j \in MintsOf(p) : i = j

MintsOK ==
  /\ tokenChain \in Seq(Sent)
  /\ \A p \in ProposalIds :
       /\ MintsOf(p) # {} => executions[p] # <<>>
       /\ p \in overlapped \/ Once(p)

LifecycleInv == ProposalsOK /\ ExecutionsOK /\ DesksOK /\ KycOK /\ MintsOK

------------------------------------------------------------------------------
(***************************************************************************)
(* Sequences                                                               *)
(***************************************************************************)
LEMMA Interval ==
  ASSUME NEW n \in Nat
  PROVE  IsFiniteSet(1 .. n) /\ Cardinality(1 .. n) = n
BY FS_Interval

LEMMA DistinctCounted ==
  ASSUME NEW s, Distinct(s)
  PROVE  Approvers(s) \in SUBSET Admins /\ Cardinality(Approvers(s)) = Len(s)
<1>0. Approvers(s) = Range(s)
  BY DEF Approvers, Range
<1>1. s \in [1 .. Len(s) -> Range(s)] /\ Len(s) \in Nat /\ DOMAIN s = 1 .. Len(s)
  BY LenProperties DEF Distinct, Range
<1>2. s \in Surjection(1 .. Len(s), Range(s)) /\ s \in Injection(1 .. Len(s), Range(s))
  BY <1>1 DEF Surjection, Injection, IsInjective, Range, Distinct
<1>3. IsFiniteSet(1 .. Len(s)) /\ Cardinality(1 .. Len(s)) = Len(s)
  BY <1>1, Interval
<1>4. Cardinality(Range(s)) = Len(s)
  BY <1>2, <1>3, FS_Surjection
<1>5. Range(s) \in SUBSET Admins
  BY <1>1, ElementOfSeq DEF Distinct, Range
<1> QED BY <1>0, <1>4, <1>5

\* The approval of somebody who is not among them yet.
LEMMA DistinctAppend ==
  ASSUME NEW s, Distinct(s), NEW a \in Admins, a \notin Approvers(s)
  PROVE  /\ Distinct(Append(s, a)) /\ Len(Append(s, a)) = Len(s) + 1
         /\ Len(s) \in Nat
<1>1. Len(s) \in Nat /\ DOMAIN s = 1 .. Len(s) /\ s \in Seq(Admins)
  BY LenProperties DEF Distinct
<1>2. /\ Append(s, a) \in Seq(Admins) /\ Len(Append(s, a)) = Len(s) + 1
      /\ \A i \in 1 .. Len(s) : Append(s, a)[i] = s[i]
      /\ Append(s, a)[Len(s) + 1] = a
  BY <1>1, AppendProperties
<1>3. DOMAIN Append(s, a) = 1 .. Len(s) + 1
  BY <1>2, LenProperties
<1>4. \A i \in 1 .. Len(s) : s[i] # a
  BY <1>1 DEF Approvers
<1>5. IsInjective(Append(s, a))
  <2> SUFFICES ASSUME NEW i \in 1 .. Len(s) + 1, NEW j \in 1 .. Len(s) + 1,
                      Append(s, a)[i] = Append(s, a)[j]
               PROVE  i = j
    BY <1>3 DEF IsInjective
  <2>1. CASE i \in 1 .. Len(s) /\ j \in 1 .. Len(s)
    BY <1>1, <1>2, <2>1 DEF Distinct, IsInjective
  <2>2. CASE i = Len(s) + 1 \/ j = Len(s) + 1
    BY <1>1, <1>2, <1>4, <2>2
  <2> QED BY <2>1, <2>2, <1>1
<1> QED BY <1>1, <1>2, <1>5 DEF Distinct

LEMMA SeqOfAnything ==
  ASSUME NEW s, IsSeq(s)
  PROVE  Len(s) \in Nat /\ DOMAIN s = 1 .. Len(s)
BY LenProperties DEF IsSeq

LEMMA AppendAnything ==
  ASSUME NEW s, IsSeq(s), NEW e
  PROVE  /\ IsSeq(Append(s, e)) /\ Len(Append(s, e)) = Len(s) + 1
         /\ DOMAIN Append(s, e) = 1 .. Len(s) + 1
         /\ \A i \in DOMAIN s : Append(s, e)[i] = s[i]
         /\ Append(s, e)[Len(s) + 1] = e
<1> DEFINE S == Range(s) \cup {e}
<1>1. s \in Seq(S) /\ e \in S
  BY SeqMonotonic DEF IsSeq
<1>2. /\ Append(s, e) \in Seq(S) /\ Len(Append(s, e)) = Len(s) + 1 /\ Len(s) \in Nat
      /\ \A i \in 1 .. Len(s) : Append(s, e)[i] = s[i]
      /\ Append(s, e)[Len(s) + 1] = e /\ DOMAIN s = 1 .. Len(s)
  <2> HIDE DEF S
  <2> QED BY <1>1, AppendProperties, LenProperties
<1>3. DOMAIN Append(s, e) = 1 .. Len(s) + 1
  BY <1>2, LenProperties
<1>4. S \subseteq Range(Append(s, e))
  BY <1>2, <1>3 DEF Range
<1> HIDE DEF S
<1>5. IsSeq(Append(s, e))
  BY <1>2, <1>4, SeqMonotonic DEF IsSeq
<1> QED BY <1>2, <1>3, <1>5

------------------------------------------------------------------------------
(***************************************************************************)
(* What most steps leave alone                                             *)
(***************************************************************************)
\* No token is minted for a proposal.
ChainGoes == tokenChain' \in Seq(Sent) /\ \A p \in ProposalIds : MintsOf(p)' = MintsOf(p)

\* A request that has anything to do with a proposal stays where it is, or leaves.
DesksGo ==
  /\ desk' = [k \in Desks |-> desk'[k]]
  /\ \A k \in Desks : desk'[k] = desk[k] \/ desk'[k].step \notin {"approve", "executed", "propose"}

kycKept == <<kyc, registry, kycJobs, kycWorker>>

LEMMA ChainRests ==
  ASSUME MintsOK, UNCHANGED tokenChain
  PROVE  ChainGoes
BY DEF MintsOK, ChainGoes, MintsOf

\* The domain's sequence of transactions grows by one.
LEMMA ChainAppended ==
  ASSUME MintsOK, NEW e \in Sent, tokenChain' = Append(tokenChain, e)
  PROVE  /\ tokenChain' \in Seq(Sent) /\ Len(tokenChain) \in Nat
         /\ \A p \in ProposalIds :
              MintsOf(p)' = MintsOf(p) \cup
                (IF e.kind = "mint" /\ e.proposal = p THEN {Len(tokenChain) + 1} ELSE {})
<1>1. tokenChain \in Seq(Sent)
  BY DEF MintsOK
<1>2. /\ tokenChain' \in Seq(Sent) /\ Len(tokenChain') = Len(tokenChain) + 1
      /\ \A i \in 1 .. Len(tokenChain) : tokenChain'[i] = tokenChain[i]
      /\ tokenChain'[Len(tokenChain) + 1] = e
  BY <1>1, AppendProperties
<1>3. /\ Len(tokenChain) \in Nat /\ DOMAIN tokenChain = 1 .. Len(tokenChain)
      /\ DOMAIN tokenChain' = 1 .. Len(tokenChain) + 1
  BY <1>1, <1>2, LenProperties
<1> QED BY <1>2, <1>3 DEF MintsOf

LEMMA NothingMinted ==
  ASSUME MintsOK, NEW kind \in {"mint", "burn"}, Send(kind, 0)
  PROVE  ChainGoes
<1>1. [kind |-> kind, proposal |-> 0, fate |-> "pending"] \in Sent
  BY DEF Sent
<1>2. 0 \notin ProposalIds
  BY DEF ProposalIds
<1> QED BY <1>1, <1>2, ChainAppended DEF Send, ChainGoes

LEMMA TokenMined ==
  ASSUME MintsOK, NEW i, NEW fate, MineToken(i, fate)
  PROVE  ChainGoes
<1>1. tokenChain \in Seq(Sent) /\ i \in 1 .. Len(tokenChain) /\ fate \in {"mined", "reverted"}
        /\ tokenChain' = [tokenChain EXCEPT ![i].fate = fate]
        /\ DOMAIN tokenChain = 1 .. Len(tokenChain)
  BY LenProperties DEF MintsOK, MineToken
<1>0. tokenChain[i] \in Sent
  BY <1>1, ElementOfSeq
<1> DEFINE e == [tokenChain[i] EXCEPT !.fate = fate]
<1>2. e \in Sent /\ e.kind = tokenChain[i].kind /\ e.proposal = tokenChain[i].proposal
  BY <1>0, <1>1 DEF Sent
<1>3. tokenChain' = [tokenChain EXCEPT ![i] = e]
  BY <1>1
<1> HIDE DEF e
<1>4. /\ tokenChain' \in Seq(Sent) /\ Len(tokenChain') = Len(tokenChain)
      /\ \A j \in 1 .. Len(tokenChain) : tokenChain'[j] = IF j = i THEN e ELSE tokenChain[j]
  BY <1>1, <1>2, <1>3, ExceptSeq
<1>5. DOMAIN tokenChain' = 1 .. Len(tokenChain)
  BY <1>4, LenProperties
<1> QED BY <1>1, <1>2, <1>4, <1>5 DEF ChainGoes, MintsOf

\* A request starts, or goes on to where it has nothing to do with a proposal.
LEMMA DeskGoes ==
  ASSUME DesksOK, NEW k \in Desks, NEW next,
         next.step \notin {"approve", "executed", "propose"}, Goes(k, next)
  PROVE  DesksGo
BY DEF DesksOK, DesksGo, Goes

LEMMA DeskLeaves ==
  ASSUME DesksOK, NEW k \in Desks, Leaves(k)
  PROVE  DesksGo
<1>1. Idle.step \notin {"approve", "executed", "propose"}
  BY DEF Idle
<1> QED BY <1>1 DEF DesksOK, DesksGo, Leaves

LEMMA DesksRest ==
  ASSUME DesksOK, UNCHANGED desk
  PROVE  DesksGo
BY DEF DesksOK, DesksGo

\* The steps that neither approve, propose nor mint for a proposal.
LEMMA SignaturesRest ==
  ASSUME LifecycleInv, ChainGoes, DesksGo,
         UNCHANGED <<proposals, executions, overlapped, reviewed>>
  PROVE  ProposalsOK' /\ ExecutionsOK' /\ DesksOK' /\ MintsOK' /\ Backed' = Backed
<1>1. ProposalsOK'
  BY DEF LifecycleInv, ProposalsOK, RowOK
<1>2. ExecutionsOK'
  BY DEF LifecycleInv, ExecutionsOK
<1>3. DesksOK'
  <2>1. desk' = [k \in Desks |-> desk'[k]]
    BY DEF DesksGo
  <2>2. ASSUME NEW k \in Desks
        PROVE  (ApprovesOK(desk[k]) /\ HasExecuted(desk[k]) /\ ProposesOK(desk[k]))'
    BY <2>2 DEF LifecycleInv, DesksOK, DesksGo, ApprovesOK, HasExecuted, ProposesOK
  <2> QED BY <2>1, <2>2 DEF DesksOK
<1>4. MintsOK'
  <2>1. ASSUME NEW p \in ProposalIds, Once(p)
        PROVE  Once(p)'
    <3>1. \A k \in Desks : Executing(k, p)' => Executing(k, p)
      BY DEF DesksGo, Executing
    <3>2. MintsOf(p)' = MintsOf(p)
      BY DEF ChainGoes
    <3> QED BY <2>1, <3>1, <3>2 DEF Once
  <2> QED BY <2>1 DEF LifecycleInv, MintsOK, ChainGoes
<1>5. Backed' = Backed
  BY DEF Backed
<1> QED BY <1>1, <1>2, <1>3, <1>4, <1>5

LEMMA OthersRest ==
  ASSUME LifecycleInv, ChainGoes, DesksGo,
         UNCHANGED <<proposals, executions, overlapped, reviewed, kycKept>>
  PROVE  LifecycleInv'
<1>1. ProposalsOK' /\ ExecutionsOK' /\ DesksOK' /\ MintsOK' /\ Backed' = Backed
  BY SignaturesRest
<1>2. KycOK'
  BY <1>1 DEF LifecycleInv, KycOK, KycWorkerOK, kycKept
<1> QED BY <1>1, <1>2 DEF LifecycleInv

------------------------------------------------------------------------------
(***************************************************************************)
(* Proposals                                                               *)
(***************************************************************************)
\* What is true of the users behind a record stays true.
LEMMA KycRests ==
  ASSUME KycOK, UNCHANGED kycKept, Backed \subseteq Backed'
  PROVE  KycOK'
<1>1. kycJobs' \in Seq(Backed' \cup {Nobody})
  BY SeqMonotonic DEF KycOK, kycKept
<1> QED BY <1>1 DEF KycOK, KycWorkerOK, kycKept

LEMMA ExceptAnything ==
  ASSUME NEW s, IsSeq(s), NEW i \in DOMAIN s, NEW e
  PROVE  /\ IsSeq([s EXCEPT ![i] = e]) /\ Len([s EXCEPT ![i] = e]) = Len(s)
         /\ DOMAIN [s EXCEPT ![i] = e] = DOMAIN s
<1> DEFINE S == Range(s) \cup {e}
           t == [s EXCEPT ![i] = e]
<1>1. s \in Seq(S) /\ e \in S
  BY SeqMonotonic DEF IsSeq
<1>2. i \in 1 .. Len(s)
  BY SeqOfAnything
<1>3. t \in Seq(S) /\ Len(t) = Len(s)
  <2> HIDE DEF S
  <2> QED BY <1>1, <1>2, ExceptSeq
<1>4. t \in Seq(Range(t))
  <2> HIDE DEF t, S
  <2>1. Len(t) \in Nat /\ DOMAIN t = 1 .. Len(t) /\ t \in [1 .. Len(t) -> S]
    BY <1>3, LenProperties
  <2> QED BY <2>1 DEF Range
<1> QED BY <1>3, <1>4 DEF IsSeq

LEMMA ProposalAdded ==
  ASSUME LifecycleInv, NEW type \in {"KYC", "MINT"}, NEW about, NEW admin \in Admins,
         type = "KYC" => about \in Applicants \cap reviewed,
         ProposalRoom, proposals' = Proposed(type, about, admin), DesksGo,
         UNCHANGED <<executions, overlapped, reviewed, kycKept, tokenChain>>
  PROVE  LifecycleInv'
<1> DEFINE row == [type |-> type, about |-> about, status |-> "PENDING", approvals |-> <<admin>>]
<1>1. /\ IsSeq(proposals') /\ Len(proposals') = Len(proposals) + 1 /\ Len(proposals) \in Nat
      /\ DOMAIN proposals = 1 .. Len(proposals) /\ DOMAIN proposals' = 1 .. Len(proposals) + 1
      /\ \A p \in DOMAIN proposals : proposals'[p] = proposals[p]
      /\ proposals'[Len(proposals) + 1] = row
  BY AppendAnything, SeqOfAnything DEF LifecycleInv, ProposalsOK, Proposed
<1>2. RowOK(row)
  <2>1. <<admin>> \in Seq(Admins) /\ Len(<<admin>>) = 1 /\ DOMAIN <<admin>> = {1}
    OBVIOUS
  <2>2. IsInjective(<<admin>>)
    BY <2>1 DEF IsInjective
  <2>3. 1 < Threshold
    BY MultisigAssumption DEF Threshold
  <2> QED BY <2>1, <2>2, <2>3 DEF RowOK, Distinct
<1>3. ProposalsOK'
  <2>1. Len(proposals') <= MaxProposals
    BY <1>1, MultisigAssumption DEF ProposalRoom
  <2>2. ASSUME NEW p \in DOMAIN proposals'
        PROVE  RowOK(proposals[p])'
    <3>1. CASE p \in DOMAIN proposals
      BY <1>1, <3>1 DEF LifecycleInv, ProposalsOK, RowOK
    <3>2. CASE p = Len(proposals) + 1
      BY <1>1, <1>2, <3>2 DEF RowOK
    <3> QED BY <1>1, <3>1, <3>2
  <2> QED BY <1>1, <2>1, <2>2 DEF ProposalsOK
<1>4. ExecutionsOK'
  BY DEF LifecycleInv, ExecutionsOK
<1>5. DesksOK'
  <2>1. desk' = [k \in Desks |-> desk'[k]]
    BY DEF DesksGo
  <2>2. DOMAIN proposals \subseteq DOMAIN proposals'
    BY <1>1
  <2>3. ASSUME NEW k \in Desks
        PROVE  (ApprovesOK(desk[k]) /\ HasExecuted(desk[k]) /\ ProposesOK(desk[k]))'
    BY <2>2 DEF LifecycleInv, DesksOK, DesksGo, ApprovesOK, HasExecuted, ProposesOK
  <2> QED BY <2>1, <2>3 DEF DesksOK
<1>6. MintsOK'
  <2>1. ASSUME NEW p \in ProposalIds
        PROVE  MintsOf(p)' = MintsOf(p)
    BY DEF MintsOf
  <2>2. ASSUME NEW p \in ProposalIds, Once(p)
        PROVE  Once(p)'
    <3>1. \A k \in Desks : Executing(k, p)' => Executing(k, p)
      BY DEF DesksGo, Executing
    <3>2. \A k \in Desks : Executing(k, p) => p \in DOMAIN proposals
      BY DEF LifecycleInv, DesksOK, HasExecuted, Executing
    <3> QED BY <1>1, <2>1, <2>2, <3>1, <3>2 DEF Once
  <2> QED BY <2>1, <2>2 DEF LifecycleInv, MintsOK
<1>7. Backed \subseteq Backed'
  BY <1>1 DEF Backed
<1>8. KycOK'
  BY <1>7, KycRests DEF LifecycleInv
<1> QED BY <1>3, <1>4, <1>5, <1>6, <1>8 DEF LifecycleInv

\* The row of a proposal that is not executed, and the approval it gets.
LEMMA ApprovalRead ==
  ASSUME LifecycleInv, NEW k \in Desks, NEW p \in ProposalIds, NEW admin \in Admins, NEW route,
         ReadProposal(k, p, admin, route), UNCHANGED <<kycVars, assetVars>>
  PROVE  LifecycleInv'
<1> DEFINE s == proposals[p].approvals
           next == Append(s, admin)
           q == [step |-> "approve", proposal |-> p, route |-> route, next |-> next]
<1>1. p \in DOMAIN proposals /\ proposals[p].status # "EXECUTED" /\ admin \notin Approvers(s)
        /\ desk' = [desk EXCEPT ![k] = q]
  BY DEF ReadProposal, IsProposal, MayApprove
<1>2. Distinct(s) /\ 1 <= Len(s) /\ Len(s) < Threshold
  BY <1>1 DEF LifecycleInv, ProposalsOK, RowOK
<1>3. Distinct(next) /\ Len(next) = Len(s) + 1 /\ Len(s) \in Nat
  BY <1>1, <1>2, DistinctAppend
<1>4. 2 <= Len(next) /\ Len(next) <= Threshold
  BY <1>2, <1>3, MultisigAssumption DEF Threshold
<1>5. ApprovesOK(q) /\ HasExecuted(q) /\ ProposesOK(q)
  BY <1>1, <1>3, <1>4 DEF ApprovesOK, HasExecuted, ProposesOK
<1> HIDE DEF q
<1>6. /\ UNCHANGED <<proposals, executions, overlapped, reviewed, kycKept, tokenChain>>
  BY DEF ReadProposal, sigHistory, kycVars, assetVars, kycKept
<1>7. DesksOK'
  <2>1. desk' = [j \in Desks |-> IF j = k THEN q ELSE desk[j]]
    BY <1>1 DEF LifecycleInv, DesksOK
  <2>2. ASSUME NEW j \in Desks
        PROVE  (ApprovesOK(desk[j]) /\ HasExecuted(desk[j]) /\ ProposesOK(desk[j]))'
    <3>1. ApprovesOK(desk'[j]) /\ HasExecuted(desk'[j]) /\ ProposesOK(desk'[j])
      BY <1>5, <2>1 DEF LifecycleInv, DesksOK
    <3> QED BY <1>6, <3>1 DEF ApprovesOK, HasExecuted, ProposesOK
  <2> QED BY <2>1, <2>2 DEF DesksOK
<1>8. MintsOK'
  <2>1. q.step = "approve"
    BY DEF q
  <2>2. ASSUME NEW x \in ProposalIds, Once(x)
        PROVE  Once(x)'
    <3>1. \A j \in Desks : Executing(j, x)' => Executing(j, x)
      BY <1>1, <2>1 DEF LifecycleInv, DesksOK, Executing
    <3>2. MintsOf(x)' = MintsOf(x)
      BY <1>6 DEF MintsOf
    <3> QED BY <1>6, <2>2, <3>1, <3>2 DEF Once
  <2> QED BY <1>6, <2>2 DEF LifecycleInv, MintsOK, MintsOf
<1>9. ProposalsOK' /\ ExecutionsOK' /\ Backed' = Backed
  BY <1>6 DEF LifecycleInv, ProposalsOK, RowOK, ExecutionsOK, Backed
<1>10. KycOK'
  BY <1>6, <1>9, KycRests DEF LifecycleInv
<1> QED BY <1>7, <1>8, <1>9, <1>10 DEF LifecycleInv

\* An approval is written.  If it was not written over another, the proposal was
\* not executed before, and so nobody else acts on it.
LEMMA ApprovalWritten ==
  ASSUME LifecycleInv, NEW k \in Desks, WriteApproval(k), UNCHANGED <<kycVars, assetVars>>,
         NEW p, p = desk[k].proposal, NEW next, next = desk[k].next
  PROVE  LifecycleInv'
<1> DEFINE row == WithApprovals(proposals[p], next)
           q == IF Enough(next) THEN [step |-> "executed", proposal |-> p, route |-> desk[k].route]
                ELSE Idle
<1>1. /\ p \in DOMAIN proposals /\ Distinct(next) /\ 2 <= Len(next) /\ Len(next) <= Threshold
  BY DEF LifecycleInv, DesksOK, ApprovesOK, WriteApproval
<1>2. IsSeq(proposals) /\ Len(proposals) <= MaxProposals /\ RowOK(proposals[p])
  BY <1>1 DEF LifecycleInv, ProposalsOK
<1>3. p \in ProposalIds
  BY <1>1, <1>2, SeqOfAnything, MultisigAssumption DEF ProposalIds
<1>4. /\ proposals' = [proposals EXCEPT ![p] = row]
      /\ desk' = [desk EXCEPT ![k] = q]
      /\ executions' = IF Enough(next) THEN [executions EXCEPT ![p] = Append(@, Approvers(next))]
                       ELSE executions
      /\ overlapped' = IF \E a \in Admins : next = Append(proposals[p].approvals, a) THEN overlapped
                       ELSE overlapped \cup {p}
      /\ UNCHANGED <<reviewed, kycKept, tokenChain>>
  BY DEF WriteApproval, Leaves, kycVars, assetVars, kycKept
<1>5. /\ row.type = proposals[p].type /\ row.about = proposals[p].about /\ row.approvals = next
      /\ row.status = IF Enough(next) THEN "EXECUTED" ELSE "PENDING"
  BY DEF WithApprovals
<1>6. Len(next) \in Nat /\ (Enough(next) <=> Len(next) >= Threshold)
  BY <1>1, LenProperties, MultisigAssumption DEF Distinct, Enough, Threshold
<1>7. q.step = (IF Enough(next) THEN "executed" ELSE "idle") /\ (Enough(next) => q.proposal = p)
  BY DEF Idle
<1>8. RowOK(row)
  BY <1>1, <1>2, <1>5, <1>6, MultisigAssumption DEF RowOK, Threshold
<1> HIDE DEF row, q
<1>9. /\ IsSeq(proposals') /\ Len(proposals') = Len(proposals) /\ DOMAIN proposals' = DOMAIN proposals
      /\ \A x \in DOMAIN proposals : proposals'[x] = IF x = p THEN row ELSE proposals[x]
  BY <1>1, <1>2, <1>4, ExceptAnything
<1>10. ProposalsOK'
  BY <1>2, <1>4, <1>8, <1>9 DEF LifecycleInv, ProposalsOK, RowOK
<1>11. /\ ExecutionsOK'
       /\ \A x \in ProposalIds : executions[x] # <<>> => executions'[x] # <<>>
       /\ Enough(next) => executions'[p] # <<>>
  <2>1. CASE ~Enough(next)
    BY <1>4, <2>1 DEF LifecycleInv, ExecutionsOK
  <2>2. CASE Enough(next)
    <3>1. Approvers(next) \in Counted
      BY <1>1, <2>2, DistinctCounted DEF Counted, Enough
    <3>2. executions[p] \in Seq(Counted)
      BY <1>3 DEF LifecycleInv, ExecutionsOK
    <3>3. /\ Append(executions[p], Approvers(next)) \in Seq(Counted)
          /\ Append(executions[p], Approvers(next)) # <<>>
      BY <3>1, <3>2, AppendProperties
    <3>4. executions' = [x \in ProposalIds |-> IF x = p THEN Append(executions[p], Approvers(next))
                                              ELSE executions[x]]
      BY <1>3, <1>4, <2>2 DEF LifecycleInv, ExecutionsOK
    <3> QED BY <1>3, <3>3, <3>4 DEF LifecycleInv, ExecutionsOK
  <2> QED BY <2>1, <2>2
<1>12. /\ desk' = [j \in Desks |-> IF j = k THEN q ELSE desk[j]]
  BY <1>4 DEF LifecycleInv, DesksOK
<1>13. DesksOK'
  <2>1. ASSUME NEW j \in Desks, j # k
        PROVE  (ApprovesOK(desk[j]) /\ HasExecuted(desk[j]) /\ ProposesOK(desk[j]))'
    <3>1. ApprovesOK(desk[j]) /\ HasExecuted(desk[j]) /\ ProposesOK(desk[j]) /\ desk'[j] = desk[j]
      BY <1>12, <2>1 DEF LifecycleInv, DesksOK
    <3>2. \A x \in DOMAIN proposals : x \in ProposalIds
      BY <1>2, SeqOfAnything, MultisigAssumption DEF ProposalIds
    <3> QED BY <1>4, <1>9, <1>11, <3>1, <3>2 DEF ApprovesOK, HasExecuted, ProposesOK
  <2>2. (ApprovesOK(desk[k]) /\ HasExecuted(desk[k]) /\ ProposesOK(desk[k]))'
    BY <1>1, <1>7, <1>9, <1>11, <1>12 DEF ApprovesOK, HasExecuted, ProposesOK
  <2> QED BY <1>12, <2>1, <2>2 DEF DesksOK
<1>14. MintsOK'
  <2>1. ASSUME NEW x \in ProposalIds
        PROVE  MintsOf(x)' = MintsOf(x)
    BY <1>4 DEF MintsOf
  <2>2. ASSUME NEW x \in ProposalIds, x # p, Once(x)
        PROVE  Once(x)'
    <3>1. \A j \in Desks : Executing(j, x)' => Executing(j, x)
      BY <1>7, <1>12, <2>2 DEF Executing
    <3>2. \A j \in Desks : Executing(j, x) => x \in DOMAIN proposals
      BY DEF LifecycleInv, DesksOK, HasExecuted, Executing
    <3> QED BY <1>9, <2>1, <2>2, <3>1, <3>2 DEF Once
  <2>3. ASSUME p \notin overlapped', Once(p)
        PROVE  Once(p)'
    <3>1. PICK a \in Admins : next = Append(proposals[p].approvals, a)
      BY <1>4, <2>3
    <3>2. Len(next) = Len(proposals[p].approvals) + 1 /\ Len(proposals[p].approvals) \in Nat
      <4>1. proposals[p].approvals \in Seq(Admins)
        BY <1>2 DEF RowOK, Distinct
      <4> QED BY <3>1, <4>1, AppendProperties, LenProperties
    <3>3. proposals[p].status # "EXECUTED"
      <4>1. Threshold \in Nat
        BY MultisigAssumption DEF Threshold
      <4>2. Len(proposals[p].approvals) < Threshold
        BY <1>1, <3>2, <4>1
      <4> QED BY <1>2, <3>2, <4>1, <4>2 DEF RowOK
    <3>4. (\A j \in Desks : ~Executing(j, p)) /\ MintsOf(p) = {}
      BY <2>3, <3>3 DEF Once
    <3>5. \A j \in Desks : Executing(j, p)' => j = k /\ Enough(next)
      BY <1>7, <1>12, <3>4 DEF Executing
    <3>6. Enough(next) => proposals'[p].status = "EXECUTED"
      BY <1>1, <1>5, <1>9
    <3>7. MintsOf(p)' = {}
      BY <1>3, <2>1, <3>4
    <3> HIDE DEF row, q
    <3> QED BY <3>5, <3>6, <3>7 DEF Once
  <2>4. overlapped \subseteq overlapped'
    BY <1>4
  <2> QED BY <1>3, <1>4, <1>11, <2>1, <2>2, <2>3, <2>4 DEF LifecycleInv, MintsOK
<1>15. Backed \subseteq Backed'
  <2>1. \A x \in DOMAIN proposals : x \in ProposalIds
    BY <1>2, SeqOfAnything, MultisigAssumption DEF ProposalIds
  <2>2. SUFFICES ASSUME NEW v \in Backed PROVE v \in Backed'
    OBVIOUS
  <2>3. PICK x \in DOMAIN proposals :
          proposals[x].type = "KYC" /\ proposals[x].about = v /\ executions[x] # <<>>
    BY DEF Backed
  <2>4. x \in DOMAIN proposals' /\ executions'[x] # <<>>
    BY <1>9, <1>11, <2>1, <2>3
  <2>5. proposals'[x].type = "KYC" /\ proposals'[x].about = v
    <3>1. CASE x = p
      BY <1>5, <1>9, <2>3, <3>1
    <3>2. CASE x # p
      BY <1>9, <2>3, <3>2
    <3> QED BY <3>1, <3>2
  <2>6. v \in Applicants /\ v \in reviewed /\ reviewed' = reviewed
    BY <1>4 DEF Backed
  <2> QED BY <2>4, <2>5, <2>6 DEF Backed
<1>16. KycOK'
  BY <1>4, <1>15, KycRests DEF LifecycleInv
<1> QED BY <1>10, <1>11, <1>13, <1>14, <1>16 DEF LifecycleInv

\* A request with an executed proposal about an asset mints and has done so.
LEMMA MintSent ==
  ASSUME LifecycleInv, NEW k \in Desks, SendMint(k), NEW p, p = desk[k].proposal
  PROVE  LifecycleInv'
<1> DEFINE e == [kind |-> "mint", proposal |-> p, fate |-> "pending"]
<1>1. /\ desk[k].step = "executed" /\ p \in DOMAIN proposals /\ executions[p] # <<>>
      /\ UNCHANGED <<proposals, executions, overlapped, reviewed, kycKept>>
  BY DEF LifecycleInv, DesksOK, HasExecuted, SendMint, deskUnchanged, sigHistory, kycVars, kycKept
<1>2. p \in ProposalIds
  BY <1>1, SeqOfAnything, MultisigAssumption DEF LifecycleInv, ProposalsOK, ProposalIds
<1>3. CASE proposals[p].type # "MINT"
  <2>1. Leaves(k) /\ UNCHANGED tokenChain
    BY <1>3 DEF SendMint
  <2> QED BY <1>1, <2>1, DeskLeaves, ChainRests, OthersRest DEF LifecycleInv
<1>4. CASE proposals[p].type = "MINT"
  <2> DEFINE q == [step |-> "storeMint", asset |-> proposals[p].about, hash |-> Len(tokenChain) + 1]
  <2>1. tokenChain' = Append(tokenChain, e) /\ e \in Sent /\ desk' = [desk EXCEPT ![k] = q]
    BY <1>2, <1>4 DEF SendMint, Send, Sent, Goes
  <2>2. /\ tokenChain' \in Seq(Sent)
        /\ \A x \in ProposalIds :
             MintsOf(x)' = MintsOf(x) \cup (IF x = p THEN {Len(tokenChain) + 1} ELSE {})
    BY <2>1, ChainAppended DEF LifecycleInv
  <2>3. q.step = "storeMint"
    OBVIOUS
  <2> HIDE DEF q
  <2>4. desk' = [j \in Desks |-> IF j = k THEN q ELSE desk[j]]
    BY <2>1 DEF LifecycleInv, DesksOK
  <2>5. DesksOK'
    <3>1. ASSUME NEW j \in Desks
          PROVE  (ApprovesOK(desk[j]) /\ HasExecuted(desk[j]) /\ ProposesOK(desk[j]))'
      BY <1>1, <2>3, <2>4 DEF LifecycleInv, DesksOK, ApprovesOK, HasExecuted, ProposesOK
    <3> QED BY <2>4, <3>1 DEF DesksOK
  <2>6. \A j \in Desks, x \in ProposalIds : Executing(j, x)' => j # k /\ Executing(j, x)
    BY <2>3, <2>4 DEF Executing
  <2>7. ASSUME NEW x \in ProposalIds, x # p, Once(x)
        PROVE  Once(x)'
    <3>1. MintsOf(x)' = MintsOf(x)
      BY <2>2, <2>7
    <3> QED BY <1>1, <2>6, <2>7, <3>1 DEF Once
  <2>8. ASSUME Once(p)
        PROVE  Once(p)'
    <3>1. Executing(k, p)
      BY <1>1 DEF Executing
    <3>2. proposals[p].status = "EXECUTED" /\ MintsOf(p) = {}
      BY <2>8, <3>1 DEF Once
    <3>3. MintsOf(p)' = {Len(tokenChain) + 1}
      BY <1>2, <2>2, <3>2
    <3>4. \A j \in Desks : ~Executing(j, p)'
      BY <1>2, <2>6, <2>8, <3>1 DEF Once
    <3> QED BY <1>1, <3>2, <3>3, <3>4 DEF Once
  <2>9. MintsOK'
    BY <1>1, <1>2, <2>2, <2>7, <2>8 DEF LifecycleInv, MintsOK
  <2>10. ProposalsOK' /\ ExecutionsOK' /\ Backed' = Backed
    BY <1>1 DEF LifecycleInv, ProposalsOK, RowOK, ExecutionsOK, Backed
  <2>11. KycOK'
    BY <1>1, <2>10, KycRests DEF LifecycleInv
  <2> QED BY <2>5, <2>9, <2>10, <2>11 DEF LifecycleInv
<1> QED BY <1>3, <1>4

------------------------------------------------------------------------------
(***************************************************************************)
(* KYC                                                                     *)
(***************************************************************************)
\* A status other than APPROVED needs nothing.
LEMMA StatusSet ==
  ASSUME KycOK, NEW u, NEW status, status # "APPROVED", SetKyc(u, status),
         Backed \subseteq Backed', registry \subseteq registry'
  PROVE  /\ kyc' = [v \in Applicants |-> kyc'[v]]
         /\ \A v \in Applicants : kyc'[v] = "APPROVED" => v \in registry' \cap Backed'
BY DEF KycOK, SetKyc

LEMMA WorkerRests ==
  ASSUME KycOK, Backed \subseteq Backed', registry \subseteq registry', UNCHANGED <<kycJobs, kycWorker>>
  PROVE  kycJobs' \in Seq(Backed' \cup {Nobody}) /\ KycWorkerOK'
<1>1. kycJobs' \in Seq(Backed' \cup {Nobody})
  BY SeqMonotonic DEF KycOK
<1> QED BY <1>1 DEF KycOK, KycWorkerOK

LEMMA KycGoes ==
  ASSUME LifecycleInv, DesksGo, KycOK',
         UNCHANGED <<proposals, executions, overlapped, reviewed, tokenChain>>
  PROVE  LifecycleInv'
BY SignaturesRest, ChainRests DEF LifecycleInv

LEMMA StatusDecided ==
  ASSUME LifecycleInv, NEW u \in Applicants, WithoutAssets(SubmitKyc(u) \/ LinkKycWallet(u) \/ RejectKyc(u))
  PROVE  LifecycleInv'
<1> USE DEF WithoutAssets
<1>1. UNCHANGED <<proposals, executions, overlapped, reviewed, tokenChain, desk, registry, kycJobs, kycWorker>>
  BY DEF SubmitKyc, LinkKycWallet, RejectKyc, sigVars, sigHistory, assetVars
<1>2. Backed' = Backed /\ DesksGo
  BY <1>1, DesksRest DEF Backed, LifecycleInv
<1>3. CASE LinkKycWallet(u)
  BY <1>1, <1>2, <1>3, OthersRest, ChainRests DEF LinkKycWallet, kycKept, LifecycleInv
<1>4. CASE SubmitKyc(u) \/ RejectKyc(u)
  <2>1. PICK status \in {"PENDING", "REJECTED"} : SetKyc(u, status)
    BY <1>4 DEF SubmitKyc, RejectKyc
  <2>2. KycOK'
    BY <1>1, <1>2, <2>1, StatusSet, WorkerRests DEF LifecycleInv, KycOK
  <2> QED BY <1>1, <1>2, <2>2, KycGoes
<1> QED BY <1>3, <1>4

LEMMA ApprovalStarted ==
  ASSUME LifecycleInv, NEW k \in Desks, NEW u \in Applicants, NEW admin \in Admins,
         WithoutAssets(ApproveKyc(k, u, admin))
  PROVE  LifecycleInv'
<1> DEFINE q == [step |-> "propose", user |-> u, admin |-> admin]
<1>1. /\ UNCHANGED <<proposals, executions, overlapped, tokenChain, registry, kycJobs, kycWorker>>
      /\ SetKyc(u, "APPROVING") /\ reviewed' = reviewed \cup {u}
      /\ desk' = [desk EXCEPT ![k] = q]
  BY DEF WithoutAssets, ApproveKyc, sigHistory, assetVars
<1>2. q.step = "propose" /\ q.user = u /\ q.admin = admin
  OBVIOUS
<1> HIDE DEF q
<1>3. Backed \subseteq Backed'
  BY <1>1 DEF Backed
<1>4. KycOK'
  BY <1>1, <1>3, StatusSet, WorkerRests DEF LifecycleInv, KycOK
<1>5. ProposalsOK' /\ ExecutionsOK'
  BY <1>1 DEF LifecycleInv, ProposalsOK, RowOK, ExecutionsOK
<1>6. desk' = [j \in Desks |-> IF j = k THEN q ELSE desk[j]]
  BY <1>1 DEF LifecycleInv, DesksOK
<1>7. DesksOK'
  <2>1. ASSUME NEW j \in Desks
        PROVE  (ApprovesOK(desk[j]) /\ HasExecuted(desk[j]) /\ ProposesOK(desk[j]))'
    BY <1>1, <1>2, <1>6 DEF LifecycleInv, DesksOK, ApprovesOK, HasExecuted, ProposesOK
  <2> QED BY <1>6, <2>1 DEF DesksOK
<1>8. MintsOK'
  <2>1. ASSUME NEW p \in ProposalIds, Once(p)
        PROVE  Once(p)'
    <3>1. \A j \in Desks : Executing(j, p)' => Executing(j, p)
      BY <1>2, <1>6 DEF Executing
    <3>2. MintsOf(p)' = MintsOf(p)
      BY <1>1 DEF MintsOf
    <3> QED BY <1>1, <2>1, <3>1, <3>2 DEF Once
  <2> QED BY <1>1, <2>1 DEF LifecycleInv, MintsOK, MintsOf
<1> QED BY <1>4, <1>5, <1>7, <1>8 DEF LifecycleInv

LEMMA WhitelistProposed ==
  ASSUME LifecycleInv, NEW k \in Desks, WithoutAssets(ProposeWhitelist(k))
  PROVE  LifecycleInv'
<1>1. /\ proposals' = Proposed("KYC", desk[k].user, desk[k].admin) /\ ProposalRoom
      /\ desk[k].step = "propose" /\ Leaves(k)
      /\ UNCHANGED <<executions, overlapped, reviewed, kycKept, tokenChain>>
  BY DEF WithoutAssets, ProposeWhitelist, sigHistory, kycVars, kycKept, assetVars
<1>2. desk[k].user \in Applicants \cap reviewed /\ desk[k].admin \in Admins
  BY <1>1 DEF LifecycleInv, DesksOK, ProposesOK
<1>3. DesksGo
  BY <1>1, DeskLeaves DEF LifecycleInv
<1> QED BY <1>1, <1>2, <1>3, ProposalAdded

LEMMA WhitelistQueued ==
  ASSUME LifecycleInv, NEW k \in Desks, WithoutAssets(QueueWhitelist(k))
  PROVE  LifecycleInv'
<1> DEFINE p == proposals[desk[k].proposal]
           job == IF p.type = "KYC" THEN p.about ELSE Nobody
<1>1. /\ desk[k].step = "executed" /\ Leaves(k) /\ kycJobs' = Append(kycJobs, job)
      /\ UNCHANGED <<proposals, executions, overlapped, reviewed, tokenChain, kyc, registry, kycWorker>>
  BY DEF WithoutAssets, QueueWhitelist, sigHistory, assetVars
<1>2. desk[k].proposal \in DOMAIN proposals /\ executions[desk[k].proposal] # <<>>
  BY <1>1 DEF LifecycleInv, DesksOK, HasExecuted
<1>3. job \in Backed \cup {Nobody}
  BY <1>2 DEF LifecycleInv, ProposalsOK, RowOK, Backed
<1> HIDE DEF job
<1>4. Backed' = Backed
  BY <1>1 DEF Backed
<1>5. kycJobs' \in Seq(Backed' \cup {Nobody})
  BY <1>1, <1>3, <1>4, AppendProperties DEF LifecycleInv, KycOK
<1>6. KycOK'
  BY <1>1, <1>4, <1>5 DEF LifecycleInv, KycOK, KycWorkerOK
<1>7. DesksGo
  BY <1>1, DeskLeaves DEF LifecycleInv
<1> QED BY <1>1, <1>6, <1>7, KycGoes

\* The processor carries a user who is backed, and has listed the wallet before
\* it reads the record.
LEMMA KycWorkerGoes ==
  ASSUME LifecycleInv, WithoutAssets(KycWorkerStep \/ WhitelistFails \/ KycWorkerRestarts)
  PROVE  LifecycleInv'
<1>1. UNCHANGED <<proposals, executions, overlapped, reviewed, tokenChain, desk>>
  BY DEF WithoutAssets, KycWorkerStep, TakeKycJob, Whitelist, ReadKycRecord, FinishKyc, WhitelistFails,
         KycWorkerRestarts, jobUnchanged, sigVars, sigHistory, assetVars
<1>2. Backed' = Backed /\ DesksGo /\ KycOK
  BY <1>1, DesksRest DEF Backed, LifecycleInv
<1> SUFFICES KycOK'
  BY <1>1, <1>2, KycGoes
<1>3. Idle.step = "idle"
  BY DEF Idle
<1>4. CASE TakeKycJob
  <2>1. /\ Head(kycJobs) \in Backed \cup {Nobody} /\ Tail(kycJobs) \in Seq(Backed \cup {Nobody})
    BY <1>2, <1>4, HeadTailProperties DEF KycOK, TakeKycJob
  <2>2. \/ kycWorker' = Idle
        \/ kycWorker' = [step |-> "whitelist", user |-> Head(kycJobs)] /\ Head(kycJobs) \in Backed
    BY <1>4, <2>1 DEF TakeKycJob
  <2>3. KycWorkerOK'
    BY <1>2, <2>2 DEF KycWorkerOK
  <2> QED BY <1>2, <1>4, <2>1, <2>3 DEF KycOK, TakeKycJob
<1>5. CASE Whitelist
  <2>1. kycWorker \in [step : {"whitelist", "read", "finish"}, user : Backed]
    BY <1>2, <1>3, <1>5 DEF KycOK, KycWorkerOK, Whitelist
  <2>2. kycWorker' = [step |-> "read", user |-> kycWorker.user] /\ registry' = registry \cup {kycWorker.user}
    BY <1>5, <2>1 DEF Whitelist
  <2>3. KycWorkerOK'
    BY <1>2, <2>1, <2>2 DEF KycWorkerOK
  <2> QED BY <1>2, <1>5, <2>2, <2>3 DEF KycOK, Whitelist
<1>6. CASE WhitelistFails
  <2>1. /\ SetKyc(kycWorker.user, "REJECTED") /\ registry \subseteq registry'
        /\ kycWorker' = Idle /\ UNCHANGED kycJobs
    BY <1>6 DEF WhitelistFails
  <2> QED BY <1>2, <2>1, StatusSet DEF KycOK, KycWorkerOK
<1>7. CASE ReadKycRecord
  <2>1. kycWorker \in [step : {"whitelist", "read", "finish"}, user : Backed] /\ kycWorker.user \in registry
    BY <1>2, <1>3, <1>7 DEF KycOK, KycWorkerOK, ReadKycRecord
  <2>2. kycWorker' = Idle \/ kycWorker' = [step |-> "finish", user |-> kycWorker.user]
    BY <1>7, <2>1 DEF ReadKycRecord
  <2>3. KycWorkerOK'
    BY <1>2, <1>7, <2>1, <2>2 DEF KycWorkerOK, ReadKycRecord
  <2> QED BY <1>2, <1>7, <2>3 DEF KycOK, ReadKycRecord
<1>8. CASE FinishKyc
  <2>1. kycWorker.user \in registry \cap Backed
    BY <1>2, <1>3, <1>8 DEF KycOK, KycWorkerOK, FinishKyc
  <2> QED BY <1>2, <1>8, <2>1 DEF KycOK, KycWorkerOK, FinishKyc, SetKyc, jobUnchanged
<1>9. CASE KycWorkerRestarts
  <2>1. kycWorker.user \in Backed /\ kycJobs \in Seq(Backed \cup {Nobody})
    BY <1>2, <1>9 DEF KycOK, KycWorkerOK, KycWorkerRestarts
  <2>2. <<kycWorker.user>> \in Seq(Backed \cup {Nobody})
    BY <2>1
  <2>3. kycJobs' \in Seq(Backed \cup {Nobody})
    BY <1>9, <2>1, <2>2, ConcatProperties DEF KycWorkerRestarts
  <2> QED BY <1>2, <1>9, <2>3 DEF KycOK, KycWorkerOK, KycWorkerRestarts
<1> QED BY <1>4, <1>5, <1>6, <1>7, <1>8, <1>9 DEF WithoutAssets, KycWorkerStep

------------------------------------------------------------------------------
(***************************************************************************)
(* Assets                                                                  *)
(***************************************************************************)
signatures == <<proposals, executions, overlapped, reviewed, kycKept>>

\* Steps that touch neither requests, proposals, records nor the chain.
LEMMA Untouched ==
  ASSUME LifecycleInv, UNCHANGED <<signatures, desk, tokenChain>>
  PROVE  LifecycleInv'
BY OthersRest, ChainRests, DesksRest DEF LifecycleInv, signatures

LEMMA AssetChanges ==
  ASSUME LifecycleInv,
         \/ CreateAsset \/ CreateRequest \/ LiquidationNext
         \/ \E x \in DOMAIN assets, b \in BOOLEAN : UpdateAsset(x, b)
  PROVE  LifecycleInv'
<1>1. UNCHANGED <<signatures, desk, tokenChain>>
  BY DEF CreateAsset, CreateRequest, LiquidationNext, LiquidateAsset, TokensMove,
         UpdateAsset, catalogueUnchanged, sigVars, sigHistory, kycVars, kycKept, signatures
<1> QED BY <1>1, Untouched

LEMMA AssetWorkerGoes ==
  ASSUME LifecycleInv, AssetWorkerNext
  PROVE  LifecycleInv'
<1>1. CASE SendLiquidationBurn
  <2>1. Send("burn", 0) /\ UNCHANGED <<signatures, desk>>
    BY <1>1 DEF SendLiquidationBurn, sigVars, sigHistory, kycVars, kycKept, signatures
  <2> QED BY <2>1, NothingMinted, DesksRest, OthersRest DEF LifecycleInv, signatures
<1>2. CASE AssetWorkerStep /\ ~SendLiquidationBurn
  <2>1. UNCHANGED <<signatures, desk, tokenChain>>
    BY <1>2 DEF AssetWorkerStep, TakeAssetJob, FinalizeMint, FinalizeRedemptionBurn, PauseLiquidated, LookAtBurn,
           workerUnchanged, sigVars, sigHistory, kycVars, kycKept, signatures
  <2> QED BY <2>1, Untouched
<1>3. CASE AssetJobThrows \/ AssetWorkerRestarts
  <2>1. UNCHANGED <<signatures, desk, tokenChain>>
    BY <1>3 DEF AssetJobThrows, AssetWorkerRestarts, throwUnchanged, sigHistory, kycVars, kycKept, signatures
  <2> QED BY <2>1, Untouched
<1> QED BY <1>1, <1>2, <1>3 DEF AssetWorkerNext

\* A request that starts or goes on, and one that is over.
LEMMA RequestGoes ==
  ASSUME LifecycleInv, NEW k \in Desks, NEW next,
         next.step \notin {"approve", "executed", "propose"}, Goes(k, next),
         UNCHANGED <<signatures, tokenChain>>
  PROVE  LifecycleInv'
BY DeskGoes, ChainRests, OthersRest DEF LifecycleInv, signatures

LEMMA RequestSends ==
  ASSUME LifecycleInv, NEW k \in Desks, NEW next, NEW kind \in {"mint", "burn"},
         next.step \notin {"approve", "executed", "propose"}, Goes(k, next),
         Send(kind, 0), UNCHANGED signatures
  PROVE  LifecycleInv'
BY DeskGoes, NothingMinted, OthersRest DEF LifecycleInv, signatures

LEMMA RequestLeaves ==
  ASSUME LifecycleInv, NEW k \in Desks, Leaves(k), UNCHANGED <<signatures, tokenChain>>
  PROVE  LifecycleInv'
BY DeskLeaves, ChainRests, OthersRest DEF LifecycleInv, signatures

LEMMA ReviewGoes ==
  ASSUME LifecycleInv, NEW k \in Desks, ReviewOnboarding(k) \/ \E x, b : ReadForReview(k, x, b)
  PROVE  LifecycleInv'
<1>1. ASSUME NEW x, NEW b, ReadForReview(k, x, b)
      PROVE  LifecycleInv'
  <2> DEFINE next == [step |-> "review", asset |-> x, trading |-> IF b THEN "PAUSED" ELSE assets[x].trading]
  <2>1. Goes(k, next) /\ UNCHANGED <<signatures, tokenChain>>
    BY <1>1 DEF ReadForReview, deskUnchanged, sigHistory, kycVars, kycKept, signatures, assetVars
  <2>2. next.step = "review"
    OBVIOUS
  <2> HIDE DEF next
  <2> QED BY <2>1, <2>2, RequestGoes
<1>2. CASE ReviewOnboarding(k)
  <2>1. Leaves(k) /\ UNCHANGED <<signatures, tokenChain>>
    BY <1>2 DEF ReviewOnboarding, deskUnchanged, sigHistory, kycVars, kycKept, signatures
  <2> QED BY <2>1, RequestLeaves
<1> QED BY <1>1, <1>2

LEMMA OnboardingGoes ==
  ASSUME LifecycleInv, OnboardingNext
  PROVE  LifecycleInv'
<1>1. CASE CreateRequest
  BY <1>1, AssetChanges
<1>2. ASSUME NEW k \in Desks, NEW r, ReadApproved(k, r)
      PROVE  LifecycleInv'
  <2> DEFINE next == [step |-> "tokenize", request |-> r]
  <2>1. Goes(k, next) /\ UNCHANGED <<signatures, tokenChain>>
    BY <1>2 DEF ReadApproved, deskUnchanged, sigHistory, kycVars, kycKept, signatures, assetVars
  <2>2. next.step = "tokenize"
    OBVIOUS
  <2> HIDE DEF next
  <2> QED BY <2>1, <2>2, RequestGoes
<1>3. ASSUME NEW k \in Desks, NEW r, NEW status, ReadRequest(k, r, status)
      PROVE  LifecycleInv'
  <2> DEFINE next == [step |-> "decide", request |-> r, status |-> status]
  <2>1. Goes(k, next) /\ UNCHANGED <<signatures, tokenChain>>
    BY <1>3 DEF ReadRequest, deskUnchanged, sigHistory, kycVars, kycKept, signatures, assetVars
  <2>2. next.step = "decide"
    OBVIOUS
  <2> HIDE DEF next
  <2> QED BY <2>1, <2>2, RequestGoes
<1>4. ASSUME NEW k \in Desks, UpdateStatus(k) \/ QueueTokenized(k)
      PROVE  LifecycleInv'
  <2>1. Leaves(k) /\ UNCHANGED <<signatures, tokenChain>>
    BY <1>4 DEF UpdateStatus, QueueTokenized, deskUnchanged, sigHistory, kycVars, kycKept, signatures
  <2> QED BY <2>1, RequestLeaves
<1>5. ASSUME NEW k \in Desks, SendTokenize(k)
      PROVE  LifecycleInv'
  <2> DEFINE next == [step |-> "storeAsset", request |-> desk[k].request, hash |-> Len(tokenChain) + 1]
  <2>1. Goes(k, next) /\ Send("mint", 0) /\ UNCHANGED signatures
    BY <1>5 DEF SendTokenize, deskUnchanged, sigHistory, kycVars, kycKept, signatures
  <2>2. next.step = "storeAsset"
    OBVIOUS
  <2> HIDE DEF next
  <2> QED BY <2>1, <2>2, RequestSends
<1>6. ASSUME NEW k \in Desks, StoreTokenized(k)
      PROVE  LifecycleInv'
  <2> DEFINE next == [step |-> "queueAsset", request |-> desk[k].request, asset |-> Len(assets) + 1,
                      hash |-> desk[k].hash]
  <2>1. Goes(k, next) /\ UNCHANGED <<signatures, tokenChain>>
    BY <1>6 DEF StoreTokenized, deskUnchanged, sigHistory, kycVars, kycKept, signatures
  <2>2. next.step = "queueAsset"
    OBVIOUS
  <2> HIDE DEF next
  <2> QED BY <2>1, <2>2, RequestGoes
<1> QED BY <1>1, <1>2, <1>3, <1>4, <1>5, <1>6 DEF OnboardingNext

LEMMA RedeemGoes ==
  ASSUME LifecycleInv, RedeemNext
  PROVE  LifecycleInv'
<1>1. ASSUME NEW k \in Desks, NEW u, ReadForRedeem(k, u)
      PROVE  LifecycleInv'
  <2> DEFINE next == [step |-> "redeem", user |-> u, read |-> tokens[u]]
  <2>1. Goes(k, next) /\ UNCHANGED <<signatures, tokenChain>>
    BY <1>1 DEF ReadForRedeem, deskUnchanged, sigHistory, kycVars, kycKept, signatures, assetVars
  <2>2. next.step = "redeem"
    OBVIOUS
  <2> HIDE DEF next
  <2> QED BY <2>1, <2>2, RequestGoes
<1>2. ASSUME NEW k \in Desks, NEW d, ReadForComplete(k, d)
      PROVE  LifecycleInv'
  <2> DEFINE next == [step |-> "burn", redemption |-> d]
  <2>1. Goes(k, next) /\ UNCHANGED <<signatures, tokenChain>>
    BY <1>2 DEF ReadForComplete, deskUnchanged, sigHistory, kycVars, kycKept, signatures, assetVars
  <2>2. next.step = "burn"
    OBVIOUS
  <2> HIDE DEF next
  <2> QED BY <2>1, <2>2, RequestGoes
<1>3. ASSUME NEW k \in Desks, NEW d, NEW status, ReadRedemption(k, d, status)
      PROVE  LifecycleInv'
  <2> DEFINE next == [step |-> "decideRedemption", redemption |-> d, status |-> status]
  <2>1. Goes(k, next) /\ UNCHANGED <<signatures, tokenChain>>
    BY <1>3 DEF ReadRedemption, deskUnchanged, sigHistory, kycVars, kycKept, signatures, assetVars
  <2>2. next.step = "decideRedemption"
    OBVIOUS
  <2> HIDE DEF next
  <2> QED BY <2>1, <2>2, RequestGoes
<1>4. ASSUME NEW k \in Desks, RequestRedeem(k) \/ UpdateRedemptionStatus(k) \/ QueueBurn(k)
      PROVE  LifecycleInv'
  <2>1. Leaves(k) /\ UNCHANGED <<signatures, tokenChain>>
    BY <1>4 DEF RequestRedeem, UpdateRedemptionStatus, QueueBurn, deskUnchanged, sigHistory, kycVars, kycKept,
           signatures
  <2> QED BY <2>1, RequestLeaves
<1>5. ASSUME NEW k \in Desks, SendRedemptionBurn(k)
      PROVE  LifecycleInv'
  <2> DEFINE next == [step |-> "storeBurn", redemption |-> desk[k].redemption, hash |-> Len(tokenChain) + 1]
  <2>1. Goes(k, next) /\ Send("burn", 0) /\ UNCHANGED signatures
    BY <1>5 DEF SendRedemptionBurn, deskUnchanged, sigHistory, kycVars, kycKept, signatures
  <2>2. next.step = "storeBurn"
    OBVIOUS
  <2> HIDE DEF next
  <2> QED BY <2>1, <2>2, RequestSends
<1>6. ASSUME NEW k \in Desks, StoreBurn(k)
      PROVE  LifecycleInv'
  <2> DEFINE next == [step |-> "queueBurn", redemption |-> desk[k].redemption, hash |-> desk[k].hash]
  <2>1. Goes(k, next) /\ UNCHANGED <<signatures, tokenChain>>
    BY <1>6 DEF StoreBurn, deskUnchanged, sigHistory, kycVars, kycKept, signatures
  <2>2. next.step = "queueBurn"
    OBVIOUS
  <2> HIDE DEF next
  <2> QED BY <2>1, <2>2, RequestGoes
<1> QED BY <1>1, <1>2, <1>3, <1>4, <1>5, <1>6 DEF RedeemNext

LEMMA MintGoes ==
  ASSUME LifecycleInv, NEW k \in Desks, MintStep(k)
  PROVE  LifecycleInv'
<1>1. CASE SendMint(k)
  BY <1>1, MintSent
<1>2. CASE StoreMint(k)
  <2> DEFINE next == [step |-> "queueMint", asset |-> desk[k].asset, hash |-> desk[k].hash]
  <2>1. Goes(k, next) /\ UNCHANGED <<signatures, tokenChain>>
    BY <1>2 DEF StoreMint, deskUnchanged, sigHistory, kycVars, kycKept, signatures
  <2>2. next.step = "queueMint"
    OBVIOUS
  <2> HIDE DEF next
  <2> QED BY <2>1, <2>2, RequestGoes
<1>3. CASE QueueMint(k)
  <2>1. Leaves(k) /\ UNCHANGED <<signatures, tokenChain>>
    BY <1>3 DEF QueueMint, deskUnchanged, sigHistory, kycVars, kycKept, signatures
  <2> QED BY <2>1, RequestLeaves
<1> QED BY <1>1, <1>2, <1>3 DEF MintStep

LEMMA MintProposed ==
  ASSUME LifecycleInv, NEW k \in Desks, NEW x, NEW admin \in Admins, ApproveAsset(k, x, admin)
  PROVE  LifecycleInv'
<1>1. /\ proposals' = Proposed("MINT", x, admin) /\ ProposalRoom
      /\ UNCHANGED <<desk, executions, overlapped, reviewed, kycKept, tokenChain>>
  BY DEF ApproveAsset, sigHistory, kycVars, kycKept, assetVars
<1>2. DesksGo
  BY <1>1, DesksRest DEF LifecycleInv
<1> QED BY <1>1, <1>2, ProposalAdded

LEMMA SignatureGoes ==
  ASSUME LifecycleInv, WithoutAssets(SigNext)
  PROVE  LifecycleInv'
<1> USE DEF WithoutAssets
<1>1. ASSUME NEW k \in Desks, NEW p \in ProposalIds, NEW admin \in Admins, NEW route,
             ReadProposal(k, p, admin, route)
      PROVE  LifecycleInv'
  BY <1>1, ApprovalRead DEF SigNext
<1>2. ASSUME NEW k \in Desks, WriteApproval(k)
      PROVE  LifecycleInv'
  BY <1>2, ApprovalWritten DEF SigNext
<1>3. ASSUME NEW k \in Desks, DeskThrows(k)
      PROVE  LifecycleInv'
  <2>1. Leaves(k) /\ UNCHANGED <<signatures, tokenChain>>
    BY <1>3 DEF SigNext, DeskThrows, sigHistory, kycVars, kycKept, signatures, assetVars
  <2> QED BY <2>1, RequestLeaves
<1> QED BY <1>1, <1>2, <1>3 DEF SigNext

LEMMA KycStep ==
  ASSUME LifecycleInv, WithoutAssets(KycNext)
  PROVE  LifecycleInv'
<1>1. ASSUME NEW u \in Applicants, SubmitKyc(u) \/ LinkKycWallet(u) \/ RejectKyc(u)
      PROVE  LifecycleInv'
  BY <1>1, StatusDecided DEF WithoutAssets
<1>2. ASSUME NEW k \in Desks, NEW u \in Applicants, NEW admin \in Admins, ApproveKyc(k, u, admin)
      PROVE  LifecycleInv'
  BY <1>2, ApprovalStarted DEF WithoutAssets
<1>3. ASSUME NEW k \in Desks, ProposeWhitelist(k) \/ QueueWhitelist(k)
      PROVE  LifecycleInv'
  BY <1>3, WhitelistProposed, WhitelistQueued DEF WithoutAssets
<1>4. CASE KycWorkerStep \/ WhitelistFails \/ KycWorkerRestarts
  BY <1>4, KycWorkerGoes DEF WithoutAssets
<1> QED BY <1>1, <1>2, <1>3, <1>4 DEF WithoutAssets, KycNext

------------------------------------------------------------------------------
(***************************************************************************)
(* The theorem                                                             *)
(***************************************************************************)
LEMMA LifecycleStarts ==
  ASSUME LifecycleInit
  PROVE  LifecycleInv
<1> USE DEF LifecycleInit
<1>1. IsSeq(proposals) /\ Len(proposals) = 0 /\ DOMAIN proposals = {}
  BY DEF SigInit, IsSeq, Range
<1>2. ProposalsOK
  BY <1>1, MultisigAssumption DEF ProposalsOK
<1>3. ExecutionsOK
  BY DEF SigInit, ExecutionsOK
<1>4. Idle.step = "idle"
  BY DEF Idle
<1>5. DesksOK
  BY <1>4 DEF SigInit, DesksOK, ApprovesOK, HasExecuted, ProposesOK
<1>6. KycOK
  BY DEF KycInit, KycOK, KycWorkerOK
<1>7. tokenChain = [i \in 1 .. Len(OpeningAssets) |-> [kind |-> "mint", proposal |-> 0, fate |-> "mined"]]
        /\ Len(OpeningAssets) \in Nat
  BY AssetAssumption, LenProperties DEF AssetInit
<1>8. tokenChain \in Seq(Sent) /\ DOMAIN tokenChain = 1 .. Len(OpeningAssets)
  BY <1>7 DEF Sent
<1>9. \A p \in ProposalIds : MintsOf(p) = {}
  BY <1>7, <1>8 DEF ProposalIds, MintsOf
<1>10. MintsOK
  BY <1>4, <1>8, <1>9 DEF SigInit, MintsOK, Once, Executing
<1> QED BY <1>2, <1>3, <1>5, <1>6, <1>10 DEF LifecycleInv

LEMMA LifecycleStep ==
  ASSUME LifecycleInv, [AssetNext]_lifecycleVars
  PROVE  LifecycleInv'
<1>1. CASE UNCHANGED lifecycleVars
  BY <1>1, Untouched DEF lifecycleVars, sigVars, sigHistory, kycVars, kycKept, assetVars, signatures
<1>2. CASE CreateAsset \/ LiquidationNext
  BY <1>2, AssetChanges
<1>3. CASE CatalogueNext
  BY <1>3, AssetChanges, ReviewGoes, MintProposed DEF CatalogueNext
<1>4. CASE \E k \in Desks : ReviewOnboarding(k) \/ MintStep(k)
  BY <1>4, ReviewGoes, MintGoes
<1>5. CASE OnboardingNext \/ RedeemNext
  BY <1>5, OnboardingGoes, RedeemGoes
<1>6. CASE TokenChainNext
  <2>1. PICK i, fate : MineToken(i, fate)
    BY <1>6 DEF TokenChainNext
  <2>2. UNCHANGED <<signatures, desk>>
    BY <2>1 DEF MineToken, sigVars, sigHistory, kycVars, kycKept, signatures
  <2> QED BY <2>1, <2>2, TokenMined, DesksRest, OthersRest DEF LifecycleInv, signatures
<1>7. CASE AssetWorkerNext
  BY <1>7, AssetWorkerGoes
<1>8. CASE WithoutAssets(KycNext) \/ WithoutAssets(SigNext)
  BY <1>8, KycStep, SignatureGoes
<1> QED BY <1>1, <1>2, <1>3, <1>4, <1>5, <1>6, <1>7, <1>8 DEF AssetNext

\* The invariant is what the property needs.
LEMMA LifecycleHolds ==
  ASSUME LifecycleInv
  PROVE  NothingWithoutThree
<1>1. ASSUME NEW p \in ProposalIds, executions[p] # <<>>
      PROVE  ApprovedByEnough(p)
  <2>1. executions[p] \in Seq(Counted)
    BY DEF LifecycleInv, ExecutionsOK
  <2>2. \A i \in DOMAIN executions[p] : executions[p][i] \in Counted
    BY <2>1, ElementOfSeq, LenProperties
  <2>3. \A i \in DOMAIN executions[p] : Cardinality(executions[p][i]) >= RequiredApprovals
    BY <2>2 DEF Counted
  <2> QED BY <1>1, <2>3 DEF ApprovedByEnough
<1>2. \A p \in DOMAIN proposals : p \in ProposalIds
  BY SeqOfAnything, MultisigAssumption DEF LifecycleInv, ProposalsOK, ProposalIds
<1>3. ApprovedByThree
  BY <1>1, <1>2 DEF LifecycleInv, KycOK, Backed, ApprovedByThree
<1>4. ASSUME NEW p \in ProposalIds, MintsOf(p) # {}
      PROVE  ApprovedByEnough(p) /\ (Cardinality(MintsOf(p)) <= 1 \/ p \in overlapped)
  <2>1. ApprovedByEnough(p)
    BY <1>1, <1>4 DEF LifecycleInv, MintsOK
  <2>2. CASE p \notin overlapped
    <3>1. \A i, j \in MintsOf(p) : i = j
      BY <2>2 DEF LifecycleInv, MintsOK, Once
    <3>2. PICK i : MintsOf(p) = {i}
      BY <1>4, <3>1
    <3>3. Cardinality(MintsOf(p)) = 1
      BY <3>2, FS_Singleton
    <3> QED BY <2>1, <3>3
  <2> QED BY <2>1, <2>2
<1> QED BY <1>3, <1>4 DEF NothingWithoutThree, MintedByThree

\* Nobody is approved but a user whose wallet is in the registry, whose approval
\* an administrator has started, and whose proposal as many different
\* administrators approved as are required; and no token is minted for a proposal
\* without as many, nor a second one unless an approval was written over another.
THEOREM ApprovedByAdministrators == LifecycleSpec => []NothingWithoutThree
<1>1. LifecycleInit => LifecycleInv
  BY LifecycleStarts
<1>2. LifecycleInv /\ [AssetNext]_lifecycleVars => LifecycleInv'
  BY LifecycleStep
<1>3. LifecycleInv => NothingWithoutThree
  BY LifecycleHolds
<1> QED BY <1>1, <1>2, <1>3, PTL DEF LifecycleSpec

------------------------------------------------------------------------------
(***************************************************************************)
(* Contracts: whose token a mint makes                                     *)
(***************************************************************************)
\* A record with what a job of the queue has.
IsJob(j) ==
  j = [name |-> j.name, about |-> j.about, hash |-> j.hash, request |-> j.request, left |-> j.left]

\* The jobs in the queue and the one that runs.
Jobs == Range(assetJobs) \cup (IF assetWorker = Idle THEN {} ELSE {assetWorker.job})
FinalizeJobs == {j \in Jobs : j.name = "finalize-mint"}

\* What says that a mint is an asset's: a request before it has queued its job,
\* the job, and the asset itself.
Naming == {k \in Desks : desk[k].step \in {"storeMint", "queueMint", "queueAsset"}}
Contracted == {x \in DOMAIN assets : assets[x].contract # 0}

DeskNames == {<<desk[k].asset, desk[k].hash>> : k \in Naming}
JobNames == {<<j.about, j.hash>> : j \in FinalizeJobs}
AssetNames == {<<x, assets[x].contract>> : x \in Contracted}
Named == DeskNames \cup JobNames \cup AssetNames

\* Requests that have sent a mint and not stored its asset yet.
Unstored == {k \in Desks : desk[k].step = "storeAsset"}

IsMint(h) == h \in DOMAIN tokenChain /\ tokenChain[h].kind = "mint"

\* No mint is said to be two assets'.
NamesOK ==
  /\ \A n \in Named : IsMint(n[2])
  /\ \A m, n \in Named : m[2] = n[2] => m[1] = n[1]
  /\ \A k \in Unstored :
       /\ IsMint(desk[k].hash)
       /\ \A n \in Named : n[2] # desk[k].hash
       /\ \A j \in Unstored : desk[j].hash = desk[k].hash => j = k

JobsOK ==
  /\ IsSeq(assetJobs) /\ \A j \in Jobs : IsJob(j)
  /\ assetWorker = [x \in DOMAIN assetWorker |-> assetWorker[x]]
  /\ assetWorker # Idle => {"step", "job"} \subseteq DOMAIN assetWorker
  /\ assetWorker.step = "finalize-mint" => assetWorker.job.name = "finalize-mint"

IsAssetRow(a) == a = AssetRow(a.active, a.trading, a.txHash, a.contract)

AssetsOK ==
  /\ IsSeq(assets) /\ \A x \in DOMAIN assets : IsAssetRow(assets[x])
  /\ \A x \in Contracted : assets[x].contract \in MinedMints
  /\ \A x \in DOMAIN assets \ forced :
       assets[x].active /\ assets[x].trading = "OPEN" => x \in Contracted

MintedInv == NamesOK /\ JobsOK /\ AssetsOK

------------------------------------------------------------------------------
(***************************************************************************)
(* The elements of queues                                                  *)
(***************************************************************************)
LEMMA SeqIsSeq ==
  ASSUME NEW S, NEW s \in Seq(S)
  PROVE  IsSeq(s) /\ Range(s) \subseteq S
<1>1. Len(s) \in Nat /\ s \in [1 .. Len(s) -> S] /\ DOMAIN s = 1 .. Len(s)
  BY LenProperties
<1>2. s = [i \in 1 .. Len(s) |-> s[i]] /\ \A i \in 1 .. Len(s) : s[i] \in Range(s)
  BY <1>1 DEF Range
<1>3. s \in Seq(Range(s))
  BY <1>1, <1>2
<1> QED BY <1>1, <1>3 DEF IsSeq, Range

LEMMA RangeAppend ==
  ASSUME NEW s, IsSeq(s), NEW e
  PROVE  IsSeq(Append(s, e)) /\ Range(Append(s, e)) = Range(s) \cup {e}
<1>1. Len(s) \in Nat /\ DOMAIN s = 1 .. Len(s)
  BY SeqOfAnything
<1>2. /\ IsSeq(Append(s, e)) /\ DOMAIN Append(s, e) = 1 .. Len(s) + 1
      /\ \A i \in DOMAIN s : Append(s, e)[i] = s[i]
      /\ Append(s, e)[Len(s) + 1] = e
  BY AppendAnything
<1> QED BY <1>1, <1>2 DEF Range

LEMMA RangeTail ==
  ASSUME NEW s, IsSeq(s), s # <<>>
  PROVE  IsSeq(Tail(s)) /\ Head(s) \in Range(s) /\ Range(Tail(s)) \subseteq Range(s)
<1>1. Head(s) \in Range(s) /\ Tail(s) \in Seq(Range(s))
  BY HeadTailProperties DEF IsSeq
<1> QED BY <1>1, SeqIsSeq

LEMMA RangePut ==
  ASSUME NEW s, IsSeq(s), NEW e
  PROVE  IsSeq(<<e>> \o s) /\ Range(<<e>> \o s) \subseteq Range(s) \cup {e}
<1> DEFINE S == Range(s) \cup {e}
<1>1. s \in Seq(S) /\ <<e>> \in Seq(S)
  BY SeqMonotonic DEF IsSeq
<1>2. <<e>> \o s \in Seq(S)
  <2> HIDE DEF S
  <2> QED BY <1>1, ConcatProperties
<1> QED BY <1>2, SeqIsSeq

------------------------------------------------------------------------------
(***************************************************************************)
(* Steps after which nothing new is said of a mint                         *)
(***************************************************************************)
\* Mints stay mints and stay mined.
ChainOn ==
  \A h \in DOMAIN tokenChain :
    /\ h \in DOMAIN tokenChain' /\ tokenChain'[h].kind = tokenChain[h].kind
    /\ tokenChain[h].fate = "mined" => tokenChain'[h].fate = "mined"

NamingSteps == {"storeMint", "queueMint", "queueAsset", "storeAsset"}
DesksCarry == \A k \in Desks : desk'[k] = desk[k] \/ desk'[k].step \notin NamingSteps
JobsCarry == JobsOK' /\ JobNames' \subseteq JobNames
AssetsCarry == AssetsOK' /\ AssetNames' = AssetNames

LEMMA ChainSame ==
  ASSUME UNCHANGED tokenChain
  PROVE  ChainOn
BY DEF ChainOn

LEMMA ChainSends ==
  ASSUME MintsOK, NEW kind, NEW p, Send(kind, p)
  PROVE  /\ ChainOn /\ Len(tokenChain) + 1 \notin DOMAIN tokenChain
         /\ Len(tokenChain) + 1 \in DOMAIN tokenChain' /\ tokenChain'[Len(tokenChain) + 1].kind = kind
<1> DEFINE e == [kind |-> kind, proposal |-> p, fate |-> "pending"]
<1>1. tokenChain' = Append(tokenChain, e) /\ e.kind = kind
  BY DEF Send
<1>2. IsSeq(tokenChain)
  BY SeqIsSeq DEF MintsOK
<1> HIDE DEF e
<1>3. Len(tokenChain) \in Nat /\ DOMAIN tokenChain = 1 .. Len(tokenChain)
  BY <1>2, SeqOfAnything
<1>4. /\ DOMAIN tokenChain' = 1 .. Len(tokenChain) + 1
      /\ \A i \in DOMAIN tokenChain : tokenChain'[i] = tokenChain[i]
      /\ tokenChain'[Len(tokenChain) + 1] = e
  BY <1>1, <1>2, AppendAnything
<1> QED BY <1>1, <1>3, <1>4 DEF ChainOn

LEMMA ChainMines ==
  ASSUME MintsOK, NEW i, NEW fate, MineToken(i, fate)
  PROVE  ChainOn
<1>1. /\ i \in DOMAIN tokenChain /\ tokenChain[i].fate = "pending"
      /\ tokenChain' = [tokenChain EXCEPT ![i].fate = fate]
  BY DEF MineToken
<1>2. tokenChain[i] \in Sent
  BY <1>1, ElementOfSeq, LenProperties DEF MintsOK
<1> QED BY <1>1, <1>2 DEF ChainOn, Sent

\* A request that starts or goes on with something else, or is over.
LEMMA DeskElsewhere ==
  ASSUME DesksOK, NEW k \in Desks, NEW next, next.step \notin NamingSteps, Goes(k, next)
  PROVE  DesksCarry
BY DEF DesksOK, DesksCarry, Goes

LEMMA DeskOver ==
  ASSUME DesksOK, NEW k \in Desks, Leaves(k)
  PROVE  DesksCarry
<1>1. Idle.step \notin NamingSteps
  BY DEF Idle, NamingSteps
<1> QED BY <1>1 DEF DesksOK, DesksCarry, Leaves

LEMMA DesksSame ==
  ASSUME UNCHANGED desk
  PROVE  DesksCarry
BY DEF DesksCarry

LEMMA NamesCarry ==
  ASSUME NamesOK, ChainOn, Named' \subseteq Named,
         \A k \in Unstored' : k \in Unstored /\ desk'[k].hash = desk[k].hash
  PROVE  NamesOK'
<1>1. \A h : IsMint(h) => IsMint(h)'
  BY DEF IsMint, ChainOn
<1>2. \A n \in Named' : IsMint(n[2])'
  BY <1>1 DEF NamesOK
<1>3. \A m, n \in Named' : m[2] = n[2] => m[1] = n[1]
  BY DEF NamesOK
<1>4. \A k \in Unstored' :
        /\ IsMint(desk[k].hash)'
        /\ \A n \in Named' : n[2] # desk'[k].hash
        /\ \A j \in Unstored' : desk'[j].hash = desk'[k].hash => j = k
  BY <1>1 DEF NamesOK
<1> QED BY <1>2, <1>3, <1>4 DEF NamesOK

LEMMA DesksCarryNames ==
  ASSUME DesksCarry
  PROVE  /\ DeskNames' \subseteq DeskNames
         /\ \A k \in Unstored' : k \in Unstored /\ desk'[k].hash = desk[k].hash
<1>1. \A k \in Naming' : k \in Naming /\ desk'[k] = desk[k]
  BY DEF DesksCarry, Naming, NamingSteps
<1>2. DeskNames' \subseteq DeskNames
  BY <1>1 DEF DeskNames
<1>3. \A k \in Unstored' : k \in Unstored /\ desk'[k].hash = desk[k].hash
  BY DEF DesksCarry, Unstored, NamingSteps
<1> QED BY <1>2, <1>3

LEMMA NothingNamed ==
  ASSUME MintedInv, ChainOn, DesksCarry, JobsCarry, AssetsCarry
  PROVE  MintedInv'
<1>1. Named' \subseteq Named
  BY DesksCarryNames DEF Named, JobsCarry, AssetsCarry
<1>2. NamesOK'
  BY <1>1, DesksCarryNames, NamesCarry DEF MintedInv
<1> QED BY <1>2 DEF MintedInv, JobsCarry, AssetsCarry

------------------------------------------------------------------------------
(***************************************************************************)
(* The queue and its processor                                             *)
(***************************************************************************)
LEMMA JobsSame ==
  ASSUME JobsOK, UNCHANGED assetQueue
  PROVE  JobsCarry
BY DEF JobsOK, JobsCarry, JobNames, FinalizeJobs, Jobs, assetQueue

\* No job is there that was not there, but for its attempts.
Alike(i, j) == i.name = j.name /\ i.about = j.about /\ i.hash = j.hash

LEMMA JobsAlike ==
  ASSUME \A j \in Jobs' : IsJob(j) /\ \E i \in Jobs : Alike(i, j), IsSeq(assetJobs'),
         assetWorker' = [x \in DOMAIN assetWorker' |-> assetWorker'[x]],
         assetWorker' # Idle => {"step", "job"} \subseteq DOMAIN assetWorker',
         assetWorker'.step = "finalize-mint" => assetWorker'.job.name = "finalize-mint"
  PROVE  JobsCarry
<1>1. \A j \in FinalizeJobs' : \E i \in FinalizeJobs : Alike(i, j)
  BY DEF FinalizeJobs, Alike
<1>2. JobNames' \subseteq JobNames
  BY <1>1 DEF JobNames, Alike
<1> QED BY <1>2 DEF JobsCarry, JobsOK

LEMMA IdleIs == Idle = [x \in DOMAIN Idle |-> Idle[x]] /\ Idle.step = "idle"
BY DEF Idle

\* A worker that is done, or goes on with its job.
LEMMA WorkerIdles ==
  ASSUME JobsOK, Works(Idle)
  PROVE  JobsCarry
<1>1. assetWorker' = Idle /\ assetJobs' = assetJobs
  BY DEF Works
<1>2. Jobs' \subseteq Jobs
  BY <1>1 DEF Jobs
<1>3. \A j \in Jobs' : IsJob(j) /\ \E i \in Jobs : Alike(i, j)
  BY <1>2 DEF JobsOK, Alike
<1> QED BY <1>1, <1>3, IdleIs, JobsAlike DEF JobsOK

LEMMA WorkerWorks ==
  ASSUME JobsOK, assetWorker # Idle, NEW next, Works(next),
         next = [x \in DOMAIN next |-> next[x]], {"step", "job"} \subseteq DOMAIN next,
         next.job = assetWorker.job, next.step # "finalize-mint"
  PROVE  JobsCarry
<1>1. assetWorker' = next /\ assetJobs' = assetJobs
  BY DEF Works
<1>2. Jobs' \subseteq Jobs
  BY <1>1 DEF Jobs
<1>3. \A j \in Jobs' : IsJob(j) /\ \E i \in Jobs : Alike(i, j)
  BY <1>2 DEF JobsOK, Alike
<1> QED BY <1>1, <1>3, JobsAlike DEF JobsOK

LEMMA JobTaken ==
  ASSUME JobsOK, TakeAssetJob
  PROVE  JobsCarry
<1> DEFINE j == Head(assetJobs)
<1>1. /\ assetWorker = Idle /\ assetJobs # <<>> /\ assetJobs' = Tail(assetJobs)
      /\ assetWorker' = [step |-> j.name, job |-> j]
  BY DEF TakeAssetJob
<1>2. IsSeq(assetJobs') /\ j \in Range(assetJobs) /\ Range(assetJobs') \subseteq Range(assetJobs)
  BY <1>1, RangeTail DEF JobsOK
<1>3. assetWorker'.job = j /\ assetWorker'.step = j.name
  BY <1>1
<1>4. /\ assetWorker' = [x \in DOMAIN assetWorker' |-> assetWorker'[x]]
      /\ {"step", "job"} \subseteq DOMAIN assetWorker'
  BY <1>1
<1> HIDE DEF j
<1>5. Jobs' \subseteq Jobs
  BY <1>1, <1>2, <1>3 DEF Jobs
<1>6. \A i \in Jobs' : IsJob(i) /\ \E l \in Jobs : Alike(l, i)
  BY <1>5 DEF JobsOK, Alike
<1> QED BY <1>2, <1>3, <1>4, <1>6, JobsAlike

LEMMA JobRetried ==
  ASSUME JobsOK, assetWorker # Idle,
         assetJobs' = RetriedJobs(assetWorker.job) \/ assetJobs' = <<assetWorker.job>> \o assetJobs,
         assetWorker' = Idle
  PROVE  JobsCarry
<1> DEFINE j == assetWorker.job
           again == [j EXCEPT !.left = @ - 1]
<1>1. j \in Jobs /\ IsJob(j) /\ Range(assetJobs) \subseteq Jobs
  BY DEF Jobs, JobsOK
<1>2. IsJob(again) /\ Alike(j, again)
  BY <1>1 DEF IsJob, Alike
<1>3. IsSeq(assetJobs') /\ Range(assetJobs') \subseteq Range(assetJobs) \cup {j, again}
  <2>1. CASE assetJobs' = assetJobs
    BY <2>1 DEF JobsOK
  <2>2. CASE assetJobs' = Append(assetJobs, again)
    <3> HIDE DEF again
    <3> QED BY <2>2, RangeAppend DEF JobsOK
  <2>3. CASE assetJobs' = <<j>> \o assetJobs
    <3> HIDE DEF j
    <3> QED BY <2>3, RangePut DEF JobsOK
  <2> QED BY <2>1, <2>2, <2>3 DEF RetriedJobs
<1> HIDE DEF j, again
<1>4. Jobs' = Range(assetJobs')
  BY DEF Jobs
<1>5. ASSUME NEW i \in Jobs'
      PROVE  IsJob(i) /\ \E l \in Jobs : Alike(l, i)
  <2>1. CASE i = again
    BY <1>1, <1>2, <2>1
  <2>2. CASE i \in Jobs
    BY <2>2 DEF JobsOK, Alike
  <2> QED BY <1>1, <1>3, <1>4, <2>1, <2>2
<1> QED BY <1>3, <1>5, IdleIs, JobsAlike

\* A job is queued.
LEMMA JobQueued ==
  ASSUME JobsOK, NEW name, NEW about, NEW hash, NEW request, NEW left,
         Queue(AssetJob(name, about, hash, request, left))
  PROVE  /\ JobsOK'
         /\ JobNames' \subseteq JobNames \cup (IF name = "finalize-mint" THEN {<<about, hash>>} ELSE {})
<1> DEFINE j == AssetJob(name, about, hash, request, left)
<1>1. assetJobs' = Append(assetJobs, j) /\ assetWorker' = assetWorker
  BY DEF Queue
<1>2. IsJob(j) /\ j.name = name /\ j.about = about /\ j.hash = hash
  BY DEF AssetJob, IsJob
<1> HIDE DEF j
<1>3. IsSeq(assetJobs') /\ Range(assetJobs') = Range(assetJobs) \cup {j}
  BY <1>1, RangeAppend DEF JobsOK
<1>4. Jobs' = Jobs \cup {j}
  BY <1>1, <1>3 DEF Jobs
<1>5. JobsOK'
  BY <1>1, <1>2, <1>3, <1>4 DEF JobsOK
<1>6. JobNames' \subseteq JobNames \cup (IF name = "finalize-mint" THEN {<<about, hash>>} ELSE {})
  BY <1>2, <1>4 DEF JobNames, FinalizeJobs
<1> QED BY <1>5, <1>6

------------------------------------------------------------------------------
(***************************************************************************)
(* The table of assets                                                     *)
(***************************************************************************)
LEMMA MinesStay ==
  ASSUME ChainOn
  PROVE  MinedMints \subseteq MinedMints'
BY DEF ChainOn, MinedMints

LEMMA AssetsSame ==
  ASSUME AssetsOK, ChainOn, UNCHANGED assets, forced \subseteq forced'
  PROVE  AssetsCarry
<1>1. Contracted' = Contracted /\ AssetNames' = AssetNames
  BY DEF Contracted, AssetNames
<1>2. AssetsOK'
  BY <1>1, MinesStay DEF AssetsOK
<1> QED BY <1>1, <1>2 DEF AssetsCarry

\* Rows keep their contracts, and none is opened but by an administrator.
LEMMA AssetsKeep ==
  ASSUME AssetsOK, ChainOn, forced \subseteq forced',
         IsSeq(assets'), DOMAIN assets' = DOMAIN assets,
         \A x \in DOMAIN assets :
           /\ IsAssetRow(assets'[x]) /\ assets'[x].contract = assets[x].contract
           /\ x \notin forced' /\ assets'[x].active /\ assets'[x].trading = "OPEN"
                => assets[x].active /\ assets[x].trading = "OPEN"
  PROVE  AssetsCarry
<1>1. Contracted' = Contracted /\ AssetNames' = AssetNames
  BY DEF Contracted, AssetNames
<1>2. \A x \in Contracted' : assets'[x].contract \in MinedMints'
  BY <1>1, MinesStay DEF AssetsOK, Contracted
<1>3. \A x \in DOMAIN assets' \ forced' :
        assets'[x].active /\ assets'[x].trading = "OPEN" => x \in Contracted'
  BY <1>1 DEF AssetsOK
<1>4. AssetsOK'
  BY <1>2, <1>3 DEF AssetsOK
<1> QED BY <1>1, <1>4 DEF AssetsCarry

LEMMA AssetSet ==
  ASSUME AssetsOK, ChainOn, forced \subseteq forced', NEW x, NEW r,
         assets' = [assets EXCEPT ![x] = r], IsAssetRow(r), r.contract = assets[x].contract,
         x \in forced' \/ ~r.active \/ r.trading # "OPEN"
  PROVE  AssetsCarry
<1>0. IsSeq(assets)
  BY DEF AssetsOK
<1>1. CASE x \notin DOMAIN assets
  <2>1. assets' = assets
    BY <1>0, <1>1, SeqOfAnything DEF IsSeq
  <2> QED BY <2>1, AssetsSame
<1>2. CASE x \in DOMAIN assets
  <2>1. IsSeq(assets') /\ DOMAIN assets' = DOMAIN assets
    BY <1>0, <1>2, ExceptAnything
  <2>2. \A y \in DOMAIN assets :
          /\ IsAssetRow(assets'[y]) /\ assets'[y].contract = assets[y].contract
          /\ y \notin forced' /\ assets'[y].active /\ assets'[y].trading = "OPEN"
               => assets[y].active /\ assets[y].trading = "OPEN"
    BY <1>2 DEF AssetsOK
  <2> QED BY <2>1, <2>2, AssetsKeep
<1> QED BY <1>1, <1>2

\* Some columns of a row are written.
Columns == {"active", "trading", "txHash", "contract"}

LEMMA RowIs ==
  ASSUME NEW f, DOMAIN f = Columns, f = [x \in DOMAIN f |-> f[x]]
  PROVE  f = AssetRow(f.active, f.trading, f.txHash, f.contract)
BY DEF AssetRow, Columns

LEMMA RowColumns ==
  ASSUME NEW r, IsAssetRow(r)
  PROVE  DOMAIN r = Columns
BY DEF IsAssetRow, AssetRow, Columns

LEMMA Activated ==
  ASSUME NEW r, IsAssetRow(r), NEW active
  PROVE  [r EXCEPT !.active = active]
           = AssetRow(active, r.trading, r.txHash, r.contract)
<1> DEFINE f == [r EXCEPT !.active = active]
<1>1. DOMAIN f = Columns /\ f = [x \in DOMAIN f |-> f[x]]
  BY RowColumns
<1>2. f.active = active /\ f.trading = r.trading /\ f.txHash = r.txHash /\ f.contract = r.contract
  BY RowColumns DEF Columns
<1> HIDE DEF f
<1>3. f = AssetRow(active, r.trading, r.txHash, r.contract)
  BY <1>1, <1>2, RowIs
<1> QED BY <1>3 DEF f

LEMMA BothSet ==
  ASSUME NEW r, IsAssetRow(r), NEW active, NEW trading
  PROVE  [r EXCEPT !.active = active, !.trading = trading]
           = AssetRow(active, trading, r.txHash, r.contract)
<1> DEFINE f == [r EXCEPT !.active = active, !.trading = trading]
<1>1. DOMAIN f = Columns /\ f = [x \in DOMAIN f |-> f[x]]
  BY RowColumns
<1>2. f.active = active /\ f.trading = trading /\ f.txHash = r.txHash /\ f.contract = r.contract
  BY RowColumns DEF Columns
<1> HIDE DEF f
<1>3. f = AssetRow(active, trading, r.txHash, r.contract)
  BY <1>1, <1>2, RowIs
<1> QED BY <1>3 DEF f

LEMMA HashSet ==
  ASSUME NEW r, IsAssetRow(r), NEW active, NEW trading, NEW hash
  PROVE  [r EXCEPT !.txHash = hash, !.active = active, !.trading = trading]
           = AssetRow(active, trading, hash, r.contract)
<1> DEFINE f == [r EXCEPT !.txHash = hash, !.active = active, !.trading = trading]
<1>1. DOMAIN f = Columns /\ f = [x \in DOMAIN f |-> f[x]]
  BY RowColumns
<1>2. f.active = active /\ f.trading = trading /\ f.txHash = hash /\ f.contract = r.contract
  BY RowColumns DEF Columns
<1> HIDE DEF f
<1>3. f = AssetRow(active, trading, hash, r.contract)
  BY <1>1, <1>2, RowIs
<1> QED BY <1>3 DEF f

LEMMA ContractSet ==
  ASSUME NEW r, IsAssetRow(r), NEW active, NEW trading, NEW hash
  PROVE  [r EXCEPT !.active = active, !.trading = trading, !.contract = hash]
           = AssetRow(active, trading, r.txHash, hash)
<1> DEFINE f == [r EXCEPT !.active = active, !.trading = trading, !.contract = hash]
<1>1. DOMAIN f = Columns /\ f = [x \in DOMAIN f |-> f[x]]
  BY RowColumns
<1>2. f.active = active /\ f.trading = trading /\ f.txHash = r.txHash /\ f.contract = hash
  BY RowColumns DEF Columns
<1> HIDE DEF f
<1>3. f = AssetRow(active, trading, r.txHash, hash)
  BY <1>1, <1>2, RowIs
<1> QED BY <1>3 DEF f

LEMMA AssetAdded ==
  ASSUME AssetsOK, ChainOn, UNCHANGED forced, NEW r, IsAssetRow(r), r.contract = 0, ~r.active,
         assets' = Append(assets, r)
  PROVE  AssetsCarry /\ Len(assets) + 1 \in DOMAIN assets' \ DOMAIN assets
<1> DEFINE n == Len(assets) + 1
<1>0. IsSeq(assets)
  BY DEF AssetsOK
<1>3. /\ IsSeq(assets') /\ DOMAIN assets' = 1 .. n /\ assets'[n] = r
      /\ \A x \in DOMAIN assets : assets'[x] = assets[x]
  BY <1>0, AppendAnything
<1>4. Len(assets) \in Nat /\ DOMAIN assets = 1 .. Len(assets)
  BY SeqOfAnything DEF AssetsOK
<1>5. DOMAIN assets' = DOMAIN assets \cup {n} /\ n \notin DOMAIN assets
  BY <1>3, <1>4
<1> HIDE DEF n
<1>6. Contracted' = Contracted /\ AssetNames' = AssetNames
  BY <1>3, <1>5 DEF Contracted, AssetNames
<1>7. \A x \in Contracted' : assets'[x].contract \in MinedMints'
  BY <1>3, <1>6, MinesStay DEF AssetsOK, Contracted
<1>8. \A x \in DOMAIN assets' \ forced' :
        assets'[x].active /\ assets'[x].trading = "OPEN" => x \in Contracted'
  BY <1>3, <1>5, <1>6 DEF AssetsOK
<1>9. AssetsOK'
  BY <1>3, <1>5, <1>7, <1>8 DEF AssetsOK
<1> QED BY <1>5, <1>6, <1>9 DEF AssetsCarry, n

\* What a request or a job writes into a row that is there, or is not.
LEMMA Paused ==
  ASSUME AssetsOK, ChainOn, UNCHANGED forced, NEW x, NEW trading,
         assets' = [assets EXCEPT ![x].active = FALSE, ![x].trading = trading]
  PROVE  AssetsCarry
<1>0. IsSeq(assets)
  BY DEF AssetsOK
<1>1. CASE x \notin DOMAIN assets
  <2>1. assets' = assets
    BY <1>0, <1>1, SeqOfAnything DEF IsSeq
  <2> QED BY <2>1, AssetsSame
<1>2. CASE x \in DOMAIN assets
  <2> DEFINE r == AssetRow(FALSE, trading, assets[x].txHash, assets[x].contract)
  <2>1. IsAssetRow(assets[x])
    BY <1>2 DEF AssetsOK
  <2>2. [assets[x] EXCEPT !.active = FALSE, !.trading = trading] = r
    BY <2>1, BothSet
  <2>3. IsAssetRow(r) /\ r.contract = assets[x].contract /\ ~r.active
    BY DEF AssetRow, IsAssetRow
  <2>4. assets' = [assets EXCEPT ![x] = r]
    BY <1>2, <2>2
  <2> HIDE DEF r
  <2> QED BY <2>3, <2>4, AssetSet
<1> QED BY <1>1, <1>2

LEMMA HashPaused ==
  ASSUME AssetsOK, ChainOn, UNCHANGED forced, NEW x, NEW hash,
         assets' = [assets EXCEPT ![x].txHash = hash, ![x].active = FALSE, ![x].trading = "PAUSED"]
  PROVE  AssetsCarry
<1>0. IsSeq(assets)
  BY DEF AssetsOK
<1>1. CASE x \notin DOMAIN assets
  <2>1. assets' = assets
    BY <1>0, <1>1, SeqOfAnything DEF IsSeq
  <2> QED BY <2>1, AssetsSame
<1>2. CASE x \in DOMAIN assets
  <2> DEFINE r == AssetRow(FALSE, "PAUSED", hash, assets[x].contract)
  <2>1. IsAssetRow(assets[x])
    BY <1>2 DEF AssetsOK
  <2>0. \A active, trading :
          [assets[x] EXCEPT !.txHash = hash, !.active = active, !.trading = trading]
            = AssetRow(active, trading, hash, assets[x].contract)
    BY <2>1, HashSet
  <2>2. [assets[x] EXCEPT !.txHash = hash, !.active = FALSE, !.trading = "PAUSED"] = r
    BY <2>0, Zenon
  <2>3. IsAssetRow(r) /\ r.contract = assets[x].contract /\ ~r.active
    BY DEF AssetRow, IsAssetRow
  <2>4. assets' = [assets EXCEPT ![x] = r]
    BY <1>2, <2>2
  <2> HIDE DEF r
  <2> QED BY <2>3, <2>4, AssetSet
<1> QED BY <1>1, <1>2

------------------------------------------------------------------------------
(***************************************************************************)
(* Steps that say a new mint is an asset's, or pass it on                  *)
(***************************************************************************)
\* Of a mint that there is after a step.
WillBeMint(h) == h \in DOMAIN tokenChain' /\ tokenChain'[h].kind = "mint"

LEMMA DeskNamed ==
  ASSUME DesksOK, NEW k \in Desks, NEW next, next.step # "storeAsset", Goes(k, next)
  PROVE  /\ DeskNames' \subseteq DeskNames \cup {<<next.asset, next.hash>>}
         /\ \A j \in Unstored' : j \in Unstored /\ j # k /\ desk'[j].hash = desk[j].hash
<1>1. desk'[k] = next /\ \A j \in Desks \ {k} : desk'[j] = desk[j]
  BY DEF DesksOK, Goes
<1>2. DeskNames' \subseteq DeskNames \cup {<<next.asset, next.hash>>}
  <2>1. \A j \in Naming' \ {k} : j \in Naming /\ <<desk'[j].asset, desk'[j].hash>> \in DeskNames
    BY <1>1 DEF Naming, DeskNames
  <2> QED BY <1>1, <2>1 DEF DeskNames
<1>3. \A j \in Unstored' : j \in Unstored /\ j # k /\ desk'[j].hash = desk[j].hash
  BY <1>1 DEF Unstored
<1> QED BY <1>2, <1>3

\* A mint of which nothing was said yet.
LEMMA NameAdded ==
  ASSUME NamesOK, ChainOn, NEW x, NEW h, WillBeMint(h), Named' \subseteq Named \cup {<<x, h>>},
         \A n \in Named : n[2] # h,
         \A k \in Unstored' : k \in Unstored /\ desk'[k].hash = desk[k].hash /\ desk[k].hash # h
  PROVE  NamesOK'
<1> DEFINE e == <<x, h>>
<1>0. e[1] = x /\ e[2] = h
  OBVIOUS
<1> HIDE DEF e
<1>1. \A i : IsMint(i) => WillBeMint(i)
  BY DEF IsMint, WillBeMint, ChainOn
<1>2. \A n \in Named' : n \in Named \/ n = e
  BY DEF e
<1>3. \A n \in Named' : WillBeMint(n[2])
  BY <1>0, <1>1, <1>2 DEF NamesOK
<1>4. \A m, n \in Named' : m[2] = n[2] => m[1] = n[1]
  BY <1>0, <1>2 DEF NamesOK
<1>5. \A k \in Unstored' :
        /\ WillBeMint(desk'[k].hash)
        /\ \A n \in Named' : n[2] # desk'[k].hash
        /\ \A j \in Unstored' : desk'[j].hash = desk'[k].hash => j = k
  BY <1>0, <1>1, <1>2 DEF NamesOK
<1> QED BY <1>3, <1>4, <1>5 DEF NamesOK, IsMint, WillBeMint

\* A request that has just sent a mint, before there is an asset for it.
LEMMA MintAwaits ==
  ASSUME NamesOK, ChainOn, NEW k \in Desks, NEW h, WillBeMint(h), h \notin DOMAIN tokenChain,
         Named' \subseteq Named, desk'[k].hash = h,
         \A j \in Unstored' \ {k} : j \in Unstored /\ desk'[j].hash = desk[j].hash
  PROVE  NamesOK'
<1>1. \A i : IsMint(i) => WillBeMint(i) /\ i # h
  BY DEF IsMint, WillBeMint, ChainOn
<1>2. \A n \in Named' : WillBeMint(n[2]) /\ n[2] # h
  BY <1>1 DEF NamesOK
<1>3. \A m, n \in Named' : m[2] = n[2] => m[1] = n[1]
  BY DEF NamesOK
<1>4. \A j \in Unstored' \ {k} :
        /\ WillBeMint(desk'[j].hash) /\ desk'[j].hash # h
        /\ \A n \in Named' : n[2] # desk'[j].hash
        /\ \A i \in Unstored' \ {k} : desk'[i].hash = desk'[j].hash => i = j
  BY <1>1 DEF NamesOK
<1>5. \A j \in Unstored' :
        /\ WillBeMint(desk'[j].hash)
        /\ \A n \in Named' : n[2] # desk'[j].hash
        /\ \A i \in Unstored' : desk'[i].hash = desk'[j].hash => i = j
  BY <1>2, <1>4
<1> QED BY <1>2, <1>3, <1>5 DEF NamesOK, IsMint, WillBeMint

LEMMA MintSentNamed ==
  ASSUME LifecycleInv, MintedInv, NEW k \in Desks, SendMint(k)
  PROVE  MintedInv'
<1> DEFINE p == desk[k].proposal
           h == Len(tokenChain) + 1
           next == [step |-> "storeMint", asset |-> proposals[p].about, hash |-> h]
<1>0. UNCHANGED <<assets, assetQueue, forced>>
  BY DEF SendMint, assetTables
<1>1. CASE proposals[p].type = "MINT"
  <2>1. Send("mint", p) /\ Goes(k, next)
    BY <1>1 DEF SendMint
  <2>2. next.step = "storeMint" /\ next.hash = h
    OBVIOUS
  <2> HIDE DEF next
  <2>3. ChainOn /\ h \notin DOMAIN tokenChain /\ WillBeMint(h)
    BY <2>1, ChainSends DEF LifecycleInv, WillBeMint
  <2> HIDE DEF h, p
  <2>4. JobsCarry /\ AssetsCarry
    BY <1>0, <2>3, JobsSame, AssetsSame DEF MintedInv
  <2>5. /\ DeskNames' \subseteq DeskNames \cup {<<next.asset, h>>}
        /\ \A j \in Unstored' : j \in Unstored /\ desk'[j].hash = desk[j].hash
    BY <2>1, <2>2, DeskNamed DEF LifecycleInv
  <2>6. Named' \subseteq Named \cup {<<next.asset, h>>}
    BY <2>4, <2>5 DEF Named, JobsCarry, AssetsCarry
  <2>7. /\ \A n \in Named : n[2] # h
        /\ \A j \in Unstored : desk[j].hash # h
    BY <2>3 DEF MintedInv, NamesOK, IsMint
  <2>8. NamesOK'
    BY <2>3, <2>5, <2>6, <2>7, NameAdded DEF MintedInv
  <2> QED BY <2>4, <2>8 DEF MintedInv, JobsCarry, AssetsCarry
<1>2. CASE proposals[p].type # "MINT"
  <2>1. Leaves(k) /\ UNCHANGED tokenChain
    BY <1>2 DEF SendMint
  <2>2. ChainOn /\ DesksCarry
    BY <2>1, ChainSame, DeskOver DEF LifecycleInv
  <2>3. JobsCarry /\ AssetsCarry
    BY <1>0, <2>2, JobsSame, AssetsSame DEF MintedInv
  <2> QED BY <2>2, <2>3, NothingNamed
<1> QED BY <1>1, <1>2

\* The asset that the mint is for is paused; the request still says whose it is.
LEMMA MintStored ==
  ASSUME LifecycleInv, MintedInv, NEW k \in Desks, StoreMint(k)
  PROVE  MintedInv'
<1> DEFINE q == desk[k]
           next == [step |-> "queueMint", asset |-> q.asset, hash |-> q.hash]
<1>1. /\ q.step = "storeMint" /\ Goes(k, next) /\ UNCHANGED <<tokenChain, assetQueue, forced>>
      /\ assets' = [assets EXCEPT ![q.asset].txHash = q.hash, ![q.asset].active = FALSE,
                                  ![q.asset].trading = "PAUSED"]
  BY DEF StoreMint
<1>2. next.step = "queueMint" /\ next.asset = q.asset /\ next.hash = q.hash
  OBVIOUS
<1> HIDE DEF next
<1>3. ChainOn /\ JobsCarry
  BY <1>1, ChainSame, JobsSame DEF MintedInv
<1>4. <<q.asset, q.hash>> \in DeskNames
  BY <1>1 DEF DeskNames, Naming
<1>5. AssetsCarry
  BY <1>1, <1>3, HashPaused DEF MintedInv
<1>6. /\ DeskNames' \subseteq DeskNames
      /\ \A j \in Unstored' : j \in Unstored /\ desk'[j].hash = desk[j].hash
  BY <1>1, <1>2, <1>4, DeskNamed DEF LifecycleInv
<1>7. Named' \subseteq Named
  BY <1>3, <1>5, <1>6 DEF Named, JobsCarry, AssetsCarry
<1>8. NamesOK'
  BY <1>3, <1>6, <1>7, NamesCarry DEF MintedInv
<1> QED BY <1>3, <1>5, <1>8 DEF MintedInv, JobsCarry, AssetsCarry

\* The job says it now.
LEMMA MintQueued ==
  ASSUME LifecycleInv, MintedInv, NEW k \in Desks, QueueMint(k) \/ QueueTokenized(k)
  PROVE  MintedInv'
<1>1. PICK request, left :
        Queue(AssetJob("finalize-mint", desk[k].asset, desk[k].hash, request, left))
  BY DEF QueueMint, QueueTokenized
<1>2. /\ desk[k].step \in {"queueMint", "queueAsset"} /\ Leaves(k)
      /\ UNCHANGED <<assets, tokenChain, forced>>
  BY DEF QueueMint, QueueTokenized, assetTables
<1>3. ChainOn /\ DesksCarry
  BY <1>2, ChainSame, DeskOver DEF LifecycleInv
<1>4. AssetsCarry
  BY <1>2, <1>3, AssetsSame DEF MintedInv
<1>5. JobsOK' /\ JobNames' \subseteq JobNames \cup {<<desk[k].asset, desk[k].hash>>}
  BY <1>1, JobQueued DEF MintedInv
<1>6. <<desk[k].asset, desk[k].hash>> \in DeskNames
  BY <1>2 DEF DeskNames, Naming
<1>7. Named' \subseteq Named
  BY <1>3, <1>4, <1>5, <1>6, DesksCarryNames DEF Named, AssetsCarry
<1>8. NamesOK'
  BY <1>3, <1>7, DesksCarryNames, NamesCarry DEF MintedInv
<1> QED BY <1>4, <1>5, <1>8 DEF MintedInv, AssetsCarry

\* A job of which nothing is said of a mint.
LEMMA BurnQueued ==
  ASSUME JobsOK, NEW name, name # "finalize-mint", NEW about, NEW hash, NEW request, NEW left,
         Queue(AssetJob(name, about, hash, request, left))
  PROVE  JobsCarry
BY JobQueued DEF JobsCarry

LEMMA TokenizeSent ==
  ASSUME LifecycleInv, MintedInv, NEW k \in Desks, SendTokenize(k)
  PROVE  MintedInv'
<1> DEFINE h == Len(tokenChain) + 1
           next == [step |-> "storeAsset", request |-> desk[k].request, hash |-> h]
<1>1. Send("mint", 0) /\ Goes(k, next) /\ UNCHANGED <<assets, assetQueue, forced>>
  BY DEF SendTokenize, assetTables
<1>2. next.step = "storeAsset" /\ next.hash = h
  OBVIOUS
<1> HIDE DEF next
<1>3. ChainOn /\ h \notin DOMAIN tokenChain /\ WillBeMint(h)
  BY <1>1, ChainSends DEF LifecycleInv, WillBeMint
<1> HIDE DEF h
<1>4. JobsCarry /\ AssetsCarry
  BY <1>1, <1>3, JobsSame, AssetsSame DEF MintedInv
<1>5. desk'[k] = next /\ \A j \in Desks \ {k} : desk'[j] = desk[j]
  BY <1>1 DEF LifecycleInv, DesksOK, Goes
<1>6. \A j \in Naming' : j \in Naming /\ desk'[j] = desk[j]
  BY <1>2, <1>5 DEF Naming
<1>7. DeskNames' \subseteq DeskNames
  BY <1>6 DEF DeskNames
<1>8. Named' \subseteq Named
  BY <1>4, <1>7 DEF Named, JobsCarry, AssetsCarry
<1>9. \A j \in Unstored' \ {k} : j \in Unstored /\ desk'[j].hash = desk[j].hash
  BY <1>5 DEF Unstored
<1>10. NamesOK'
  BY <1>2, <1>3, <1>5, <1>8, <1>9, MintAwaits DEF MintedInv
<1> QED BY <1>4, <1>10 DEF MintedInv, JobsCarry, AssetsCarry

\* The new asset is the one the mint is for.
LEMMA TokenizeStored ==
  ASSUME LifecycleInv, MintedInv, NEW k \in Desks, StoreTokenized(k)
  PROVE  MintedInv'
<1> DEFINE q == desk[k]
           next == [step |-> "queueAsset", request |-> q.request, asset |-> Len(assets) + 1,
                    hash |-> q.hash]
           r == AssetRow(FALSE, "PAUSED", q.hash, 0)
<1>1. /\ q.step = "storeAsset" /\ Goes(k, next) /\ UNCHANGED <<tokenChain, assetQueue, forced>>
      /\ assets' = Append(assets, r)
  BY DEF StoreTokenized
<1>2. next.step = "queueAsset" /\ next.hash = q.hash
  OBVIOUS
<1>3. IsAssetRow(r) /\ r.contract = 0 /\ ~r.active
  BY DEF IsAssetRow, AssetRow
<1> HIDE DEF next, r
<1>4. ChainOn /\ JobsCarry
  BY <1>1, ChainSame, JobsSame DEF MintedInv
<1>5. AssetsCarry
  BY <1>1, <1>3, <1>4, AssetAdded DEF MintedInv
<1>6. k \in Unstored
  BY <1>1 DEF Unstored
<1>7. /\ DeskNames' \subseteq DeskNames \cup {<<next.asset, q.hash>>}
      /\ \A j \in Unstored' : j \in Unstored /\ j # k /\ desk'[j].hash = desk[j].hash
  BY <1>1, <1>2, DeskNamed DEF LifecycleInv
<1>8. Named' \subseteq Named \cup {<<next.asset, q.hash>>}
  BY <1>4, <1>5, <1>7 DEF Named, JobsCarry, AssetsCarry
<1>9. WillBeMint(q.hash)
  BY <1>4, <1>6 DEF MintedInv, NamesOK, IsMint, WillBeMint, ChainOn
<1>10. /\ \A n \in Named : n[2] # q.hash
       /\ \A j \in Unstored \ {k} : desk[j].hash # q.hash
  BY <1>6 DEF MintedInv, NamesOK
<1>11. NamesOK'
  BY <1>4, <1>7, <1>8, <1>9, <1>10, NameAdded DEF MintedInv
<1> QED BY <1>4, <1>5, <1>11 DEF MintedInv, JobsCarry, AssetsCarry

\* The asset has its contract, which the job said is its own.
LEMMA MintFinalized ==
  ASSUME LifecycleInv, MintedInv, FinalizeMint
  PROVE  MintedInv'
<1> DEFINE x == assetWorker.job.about
           h == assetWorker.job.hash
<1>1. /\ assetWorker.step = "finalize-mint" /\ Mined(h) /\ Works(Idle)
      /\ assets' = [assets EXCEPT ![x].active = TRUE, ![x].trading = "OPEN", ![x].contract = h]
      /\ UNCHANGED <<desk, tokenChain, forced>>
  BY DEF FinalizeMint, workerUnchanged, sigVars
<1>2. ChainOn /\ DesksCarry /\ JobsCarry
  BY <1>1, ChainSame, DesksSame, WorkerIdles DEF MintedInv
<1>3. <<x, h>> \in JobNames
  <2>1. assetWorker # Idle
    BY <1>1, IdleIs
  <2>2. assetWorker.job \in FinalizeJobs
    BY <1>1, <2>1 DEF FinalizeJobs, Jobs, MintedInv, JobsOK
  <2> QED BY <2>2 DEF JobNames
<1>4. h \in MinedMints /\ h # 0
  <2>1. IsMint(h)
    BY <1>3 DEF MintedInv, NamesOK, Named
  <2> QED BY <1>1, <2>1 DEF IsMint, Mined, MinedMints
<1>5. CASE x \notin DOMAIN assets
  <2>1. IsSeq(assets)
    BY DEF MintedInv, AssetsOK
  <2>2. assets' = assets
    BY <1>1, <1>5, <2>1, SeqOfAnything DEF IsSeq
  <2>3. AssetsCarry
    BY <1>1, <1>2, <2>2, AssetsSame DEF MintedInv
  <2> QED BY <1>2, <2>3, NothingNamed
<1>6. CASE x \in DOMAIN assets
  <2> DEFINE r == AssetRow(TRUE, "OPEN", assets[x].txHash, h)
  <2>1. IsSeq(assets) /\ IsAssetRow(assets[x])
    BY <1>6 DEF MintedInv, AssetsOK
  <2> HIDE DEF x, h
  <2> DEFINE row == assets[x]
  <2>0. \A active, trading, hash :
          [row EXCEPT !.active = active, !.trading = trading, !.contract = hash]
            = AssetRow(active, trading, row.txHash, hash)
    <3>1. IsAssetRow(row)
      BY <2>1
    <3> HIDE DEF row
    <3> QED BY <3>1, ContractSet
  <2>2. [assets[x] EXCEPT !.active = TRUE, !.trading = "OPEN", !.contract = h] = r
    BY <2>0, Zenon
  <2>3. IsAssetRow(r) /\ r.contract = h
    BY DEF AssetRow, IsAssetRow
  <2>4. assets' = [assets EXCEPT ![x] = r]
    BY <1>1, <1>6, <2>2
  <2> HIDE DEF r
  <2>5. IsSeq(assets') /\ DOMAIN assets' = DOMAIN assets
    BY <1>6, <2>1, <2>4, ExceptAnything
  <2>6. assets'[x] = r /\ \A y \in DOMAIN assets \ {x} : assets'[y] = assets[y]
    BY <1>6, <2>4
  <2>7. Contracted' = Contracted \cup {x}
    BY <1>4, <1>6, <2>3, <2>5, <2>6 DEF Contracted
  <2>8. AssetNames' \subseteq AssetNames \cup {<<x, h>>}
    <3>1. \A y \in Contracted' \ {x} : y \in Contracted /\ assets'[y].contract = assets[y].contract
      BY <2>6, <2>7 DEF Contracted
    <3> QED BY <2>3, <2>6, <3>1 DEF AssetNames
  <2>9. \A y \in Contracted' : assets'[y].contract \in MinedMints'
    BY <1>2, <1>4, <2>3, <2>6, <2>7, MinesStay DEF MintedInv, AssetsOK, Contracted
  <2>10. AssetsOK'
    BY <1>1, <2>3, <2>5, <2>6, <2>7, <2>9 DEF MintedInv, AssetsOK
  <2>11. Named' \subseteq Named
    BY <1>2, <1>3, <2>8, DesksCarryNames DEF Named, JobsCarry
  <2>12. NamesOK'
    BY <1>2, <2>11, DesksCarryNames, NamesCarry DEF MintedInv
  <2> QED BY <1>2, <2>10, <2>12 DEF MintedInv, JobsCarry
<1> QED BY <1>5, <1>6

------------------------------------------------------------------------------
(***************************************************************************)
(* The other steps                                                         *)
(***************************************************************************)
\* What neither the chain nor the queue notices.
LEMMA DeskOnly ==
  ASSUME MintedInv, DesksCarry, UNCHANGED <<tokenChain, assets, assetQueue, forced>>
  PROVE  MintedInv'
<1>1. ChainOn
  BY ChainSame
<1> QED BY <1>1, JobsSame, AssetsSame, NothingNamed DEF MintedInv

LEMMA ReviewNamed ==
  ASSUME LifecycleInv, MintedInv, NEW k \in Desks, ReviewOnboarding(k) \/ \E x, b : ReadForReview(k, x, b)
  PROVE  MintedInv'
<1>0. DesksOK
  BY DEF LifecycleInv
<1>1. ASSUME NEW x, NEW b, ReadForReview(k, x, b)
      PROVE  MintedInv'
  <2> DEFINE next == [step |-> "review", asset |-> x, trading |-> IF b THEN "PAUSED" ELSE assets[x].trading]
  <2>1. Goes(k, next) /\ UNCHANGED <<tokenChain, assets, assetQueue, forced>>
    BY <1>1 DEF ReadForReview, assetVars, assetTables
  <2>2. next.step \notin NamingSteps
    BY DEF NamingSteps
  <2> HIDE DEF next
  <2> QED BY <1>0, <2>1, <2>2, DeskElsewhere, DeskOnly
<1>2. CASE ReviewOnboarding(k)
  <2>1. /\ Leaves(k) /\ UNCHANGED <<tokenChain, assetQueue, forced>>
        /\ assets' = [assets EXCEPT ![desk[k].asset].active = FALSE, ![desk[k].asset].trading = desk[k].trading]
    BY <1>2 DEF ReviewOnboarding
  <2>2. ChainOn /\ DesksCarry /\ JobsCarry
    BY <1>0, <2>1, ChainSame, DeskOver, JobsSame DEF MintedInv
  <2>3. AssetsCarry
    BY <2>1, <2>2, Paused DEF MintedInv
  <2> QED BY <2>2, <2>3, NothingNamed
<1> QED BY <1>1, <1>2

LEMMA CatalogueNamed ==
  ASSUME MintedInv,
         \/ CreateAsset \/ \E x \in DOMAIN assets, active \in BOOLEAN : UpdateAsset(x, active)
         \/ \E k, x, admin : ApproveAsset(k, x, admin)
  PROVE  MintedInv'
<1>1. /\ UNCHANGED <<desk, tokenChain>>
      /\ UNCHANGED assetQueue
  BY DEF CreateAsset, UpdateAsset, ApproveAsset, catalogueUnchanged, sigVars, assetVars
<1>2. ChainOn /\ DesksCarry /\ JobsCarry
  BY <1>1, ChainSame, DesksSame, JobsSame DEF MintedInv
<1> SUFFICES AssetsCarry
  BY <1>2, NothingNamed
<1>3. CASE CreateAsset
  <2> DEFINE r == AssetRow(FALSE, "OPEN", 0, 0)
  <2>1. assets' = Append(assets, r) /\ UNCHANGED forced
    BY <1>3 DEF CreateAsset
  <2>2. IsAssetRow(r) /\ r.contract = 0 /\ ~r.active
    BY DEF IsAssetRow, AssetRow
  <2> HIDE DEF r
  <2> QED BY <1>2, <2>1, <2>2, AssetAdded DEF MintedInv
<1>5. ASSUME NEW x \in DOMAIN assets, NEW active \in BOOLEAN, UpdateAsset(x, active)
      PROVE  AssetsCarry
  <2> DEFINE r == AssetRow(active, assets[x].trading, assets[x].txHash, assets[x].contract)
  <2>1. /\ assets' = [assets EXCEPT ![x].active = active]
        /\ forced \subseteq forced' /\ x \in forced'
    BY <1>5 DEF UpdateAsset
  <2>2. [assets[x] EXCEPT !.active = active] = r
    BY Activated DEF MintedInv, AssetsOK
  <2>3. IsAssetRow(r) /\ r.contract = assets[x].contract
    BY DEF IsAssetRow, AssetRow
  <2>4. assets' = [assets EXCEPT ![x] = r]
    BY <2>1, <2>2
  <2> HIDE DEF r
  <2> QED BY <1>2, <2>1, <2>3, <2>4, AssetSet DEF MintedInv
<1>6. ASSUME NEW k, NEW x, NEW admin, ApproveAsset(k, x, admin)
      PROVE  AssetsCarry
  <2>1. UNCHANGED <<assets, forced>>
    BY <1>6 DEF ApproveAsset, assetVars, assetTables
  <2> QED BY <1>2, <2>1, AssetsSame DEF MintedInv
<1> QED BY <1>3, <1>5, <1>6

LEMMA SignaturesNamed ==
  ASSUME LifecycleInv, MintedInv, WithoutAssets(SigNext) \/ WithoutAssets(KycNext)
  PROVE  MintedInv'
<1>1. UNCHANGED <<tokenChain, assets, assetQueue, forced>>
  BY DEF WithoutAssets, assetVars, assetTables
<1>2. DesksOK
  BY DEF LifecycleInv
<1> SUFFICES DesksCarry
  BY <1>1, DeskOnly
<1>3. ASSUME NEW k \in Desks, NEW p, NEW admin, NEW route, ReadProposal(k, p, admin, route)
      PROVE  DesksCarry
  <2> DEFINE next == [step |-> "approve", proposal |-> p, route |-> route,
                      next |-> Append(proposals[p].approvals, admin)]
  <2>1. Goes(k, next)
    BY <1>3 DEF ReadProposal, Goes
  <2>2. next.step \notin NamingSteps
    BY DEF NamingSteps
  <2> HIDE DEF next
  <2> QED BY <1>2, <2>1, <2>2, DeskElsewhere
<1>4. ASSUME NEW k \in Desks, WriteApproval(k)
      PROVE  DesksCarry
  <2> DEFINE next == [step |-> "executed", proposal |-> desk[k].proposal, route |-> desk[k].route]
  <2>1. Goes(k, next) \/ Leaves(k)
    BY <1>4 DEF WriteApproval, Goes
  <2>2. next.step \notin NamingSteps
    BY DEF NamingSteps
  <2> HIDE DEF next
  <2> QED BY <1>2, <2>1, <2>2, DeskElsewhere, DeskOver
<1>5. ASSUME NEW k \in Desks, DeskThrows(k) \/ ProposeWhitelist(k) \/ QueueWhitelist(k)
      PROVE  DesksCarry
  BY <1>2, <1>5, DeskOver DEF DeskThrows, ProposeWhitelist, QueueWhitelist
<1>6. ASSUME NEW k \in Desks, NEW u, NEW admin, ApproveKyc(k, u, admin)
      PROVE  DesksCarry
  <2> DEFINE next == [step |-> "propose", user |-> u, admin |-> admin]
  <2>1. Goes(k, next)
    BY <1>6 DEF ApproveKyc, Goes
  <2>2. next.step \notin NamingSteps
    BY DEF NamingSteps
  <2> HIDE DEF next
  <2> QED BY <1>2, <2>1, <2>2, DeskElsewhere
<1>7. ASSUME \/ \E u \in Applicants : SubmitKyc(u) \/ LinkKycWallet(u) \/ RejectKyc(u)
             \/ KycWorkerStep \/ WhitelistFails \/ KycWorkerRestarts
      PROVE  DesksCarry
  <2>1. UNCHANGED desk
    BY <1>7 DEF SubmitKyc, LinkKycWallet, RejectKyc, KycWorkerStep, TakeKycJob, Whitelist, ReadKycRecord,
           FinishKyc, WhitelistFails, KycWorkerRestarts, jobUnchanged, sigVars
  <2> QED BY <2>1, DesksSame
<1>8. CASE SigNext
  BY <1>3, <1>4, <1>5, <1>8 DEF SigNext
<1>9. CASE KycNext
  BY <1>5, <1>6, <1>7, <1>9 DEF KycNext
<1> QED BY <1>8, <1>9 DEF WithoutAssets

LEMMA OnboardingNamed ==
  ASSUME LifecycleInv, MintedInv, OnboardingNext
  PROVE  MintedInv'
<1>0. DesksOK
  BY DEF LifecycleInv
<1>1. CASE CreateRequest
  <2>1. UNCHANGED <<desk, tokenChain, assets, assetQueue, forced>>
    BY <1>1 DEF CreateRequest, sigVars
  <2> QED BY <2>1, DesksSame, DeskOnly
<1>2. ASSUME NEW k \in Desks, NEW r, ReadApproved(k, r)
      PROVE  MintedInv'
  <2> DEFINE next == [step |-> "tokenize", request |-> r]
  <2>1. Goes(k, next) /\ UNCHANGED <<tokenChain, assets, assetQueue, forced>>
    BY <1>2 DEF ReadApproved, assetVars, assetTables
  <2>2. next.step \notin NamingSteps
    BY DEF NamingSteps
  <2> HIDE DEF next
  <2> QED BY <1>0, <2>1, <2>2, DeskElsewhere, DeskOnly
<1>3. ASSUME NEW k \in Desks, NEW r, NEW status, ReadRequest(k, r, status)
      PROVE  MintedInv'
  <2> DEFINE next == [step |-> "decide", request |-> r, status |-> status]
  <2>1. Goes(k, next) /\ UNCHANGED <<tokenChain, assets, assetQueue, forced>>
    BY <1>3 DEF ReadRequest, assetVars, assetTables
  <2>2. next.step \notin NamingSteps
    BY DEF NamingSteps
  <2> HIDE DEF next
  <2> QED BY <1>0, <2>1, <2>2, DeskElsewhere, DeskOnly
<1>4. ASSUME NEW k \in Desks, UpdateStatus(k)
      PROVE  MintedInv'
  <2>1. Leaves(k) /\ UNCHANGED <<tokenChain, assets, assetQueue, forced>>
    BY <1>4 DEF UpdateStatus
  <2> QED BY <1>0, <2>1, DeskOver, DeskOnly
<1> QED BY <1>1, <1>2, <1>3, <1>4, TokenizeSent, TokenizeStored, MintQueued DEF OnboardingNext

LEMMA RedeemNamed ==
  ASSUME LifecycleInv, MintedInv, RedeemNext
  PROVE  MintedInv'
<1>0. DesksOK /\ MintsOK
  BY DEF LifecycleInv
<1>1. ASSUME NEW k \in Desks, NEW u, ReadForRedeem(k, u)
      PROVE  MintedInv'
  <2> DEFINE next == [step |-> "redeem", user |-> u, read |-> tokens[u]]
  <2>1. Goes(k, next) /\ UNCHANGED <<tokenChain, assets, assetQueue, forced>>
    BY <1>1 DEF ReadForRedeem, assetVars, assetTables
  <2>2. next.step \notin NamingSteps
    BY DEF NamingSteps
  <2> HIDE DEF next
  <2> QED BY <1>0, <2>1, <2>2, DeskElsewhere, DeskOnly
<1>2. ASSUME NEW k \in Desks, NEW d, ReadForComplete(k, d)
      PROVE  MintedInv'
  <2> DEFINE next == [step |-> "burn", redemption |-> d]
  <2>1. Goes(k, next) /\ UNCHANGED <<tokenChain, assets, assetQueue, forced>>
    BY <1>2 DEF ReadForComplete, assetVars, assetTables
  <2>2. next.step \notin NamingSteps
    BY DEF NamingSteps
  <2> HIDE DEF next
  <2> QED BY <1>0, <2>1, <2>2, DeskElsewhere, DeskOnly
<1>3. ASSUME NEW k \in Desks, NEW d, NEW status, ReadRedemption(k, d, status)
      PROVE  MintedInv'
  <2> DEFINE next == [step |-> "decideRedemption", redemption |-> d, status |-> status]
  <2>1. Goes(k, next) /\ UNCHANGED <<tokenChain, assets, assetQueue, forced>>
    BY <1>3 DEF ReadRedemption, assetVars, assetTables
  <2>2. next.step \notin NamingSteps
    BY DEF NamingSteps
  <2> HIDE DEF next
  <2> QED BY <1>0, <2>1, <2>2, DeskElsewhere, DeskOnly
<1>4. ASSUME NEW k \in Desks, RequestRedeem(k)
      PROVE  MintedInv'
  <2>1. /\ Leaves(k) /\ UNCHANGED <<tokenChain, assetQueue, forced>>
        /\ assets' = [assets EXCEPT ![1].active = FALSE, ![1].trading = "PAUSED"]
    BY <1>4 DEF RequestRedeem
  <2>2. ChainOn /\ DesksCarry /\ JobsCarry
    BY <1>0, <2>1, ChainSame, DeskOver, JobsSame DEF MintedInv
  <2>3. AssetsCarry
    BY <2>1, <2>2, Paused DEF MintedInv
  <2> QED BY <2>2, <2>3, NothingNamed
<1>5. ASSUME NEW k \in Desks, UpdateRedemptionStatus(k)
      PROVE  MintedInv'
  <2>1. Leaves(k) /\ UNCHANGED <<tokenChain, assets, assetQueue, forced>>
    BY <1>5 DEF UpdateRedemptionStatus
  <2> QED BY <1>0, <2>1, DeskOver, DeskOnly
<1>6. ASSUME NEW k \in Desks, SendRedemptionBurn(k)
      PROVE  MintedInv'
  <2> DEFINE next == [step |-> "storeBurn", redemption |-> desk[k].redemption, hash |-> Len(tokenChain) + 1]
  <2>1. Goes(k, next) /\ Send("burn", 0) /\ UNCHANGED <<assets, assetQueue, forced>>
    BY <1>6 DEF SendRedemptionBurn, assetTables
  <2>2. next.step \notin NamingSteps
    BY DEF NamingSteps
  <2> HIDE DEF next
  <2>3. ChainOn /\ DesksCarry
    BY <1>0, <2>1, <2>2, ChainSends, DeskElsewhere
  <2>4. JobsCarry /\ AssetsCarry
    BY <2>1, <2>3, JobsSame, AssetsSame DEF MintedInv
  <2> QED BY <2>3, <2>4, NothingNamed
<1>7. ASSUME NEW k \in Desks, StoreBurn(k)
      PROVE  MintedInv'
  <2> DEFINE next == [step |-> "queueBurn", redemption |-> desk[k].redemption, hash |-> desk[k].hash]
  <2>1. /\ Goes(k, next) /\ UNCHANGED <<tokenChain, assetQueue, forced>>
        /\ assets' = [assets EXCEPT ![1].active = FALSE, ![1].trading = "PAUSED"]
    BY <1>7 DEF StoreBurn
  <2>2. next.step \notin NamingSteps
    BY DEF NamingSteps
  <2> HIDE DEF next
  <2>3. ChainOn /\ DesksCarry /\ JobsCarry
    BY <1>0, <2>1, <2>2, ChainSame, DeskElsewhere, JobsSame DEF MintedInv
  <2>4. AssetsCarry
    BY <2>1, <2>3, Paused DEF MintedInv
  <2> QED BY <2>3, <2>4, NothingNamed
<1>8. ASSUME NEW k \in Desks, QueueBurn(k)
      PROVE  MintedInv'
  <2>1. /\ Leaves(k) /\ UNCHANGED <<tokenChain, assets, forced>>
        /\ Queue(AssetJob("finalize-redemption-burn", desk[k].redemption, desk[k].hash, 0, AssetAttempts))
    BY <1>8 DEF QueueBurn, assetTables
  <2>2. ChainOn /\ DesksCarry
    BY <1>0, <2>1, ChainSame, DeskOver
  <2>3. JobsCarry /\ AssetsCarry
    BY <2>1, <2>2, BurnQueued, AssetsSame DEF MintedInv
  <2> QED BY <2>2, <2>3, NothingNamed
<1> QED BY <1>1, <1>2, <1>3, <1>4, <1>5, <1>6, <1>7, <1>8 DEF RedeemNext

LEMMA WorkerNamed ==
  ASSUME LifecycleInv, MintedInv, AssetWorkerNext
  PROVE  MintedInv'
<1>0. MintsOK /\ JobsOK /\ AssetsOK
  BY DEF LifecycleInv, MintedInv
<1>1. UNCHANGED <<desk, forced>>
  BY DEF AssetWorkerNext, AssetWorkerStep, TakeAssetJob, FinalizeMint, FinalizeRedemptionBurn,
         SendLiquidationBurn, PauseLiquidated, LookAtBurn, AssetJobThrows,
         AssetWorkerRestarts, workerUnchanged, throwUnchanged, sigVars
<1>2. DesksCarry
  BY <1>1, DesksSame
<1>3. ASSUME UNCHANGED <<tokenChain, assets>>, JobsCarry
      PROVE  MintedInv'
  BY <1>0, <1>1, <1>2, <1>3, ChainSame, AssetsSame, NothingNamed
<1>4. ASSUME UNCHANGED tokenChain, JobsCarry, AssetsCarry
      PROVE  MintedInv'
  BY <1>2, <1>4, ChainSame, NothingNamed
<1>5. assetWorker # Idle =>
        assetWorker = [x \in DOMAIN assetWorker |-> assetWorker[x]]
          /\ {"step", "job"} \subseteq DOMAIN assetWorker
  BY <1>0 DEF JobsOK
<1>6. CASE TakeAssetJob
  <2>1. UNCHANGED <<tokenChain, assets>>
    BY <1>6 DEF TakeAssetJob, assetTables
  <2> QED BY <1>0, <1>3, <1>6, <2>1, JobTaken
<1>7. CASE FinalizeMint
  BY <1>7, MintFinalized
<1>8. CASE FinalizeRedemptionBurn
  <2>1. Works(Idle) /\ UNCHANGED <<tokenChain, assets>>
    BY <1>8 DEF FinalizeRedemptionBurn
  <2> QED BY <1>0, <1>3, <2>1, WorkerIdles
<1>9. CASE SendLiquidationBurn
  <2> DEFINE next == [step |-> "pause", job |-> assetWorker.job, hash |-> Len(tokenChain) + 1]
  <2>1. Works(next) /\ Send("burn", 0) /\ assetWorker.step = "liquidation-burn" /\ UNCHANGED assets
    BY <1>9 DEF SendLiquidationBurn, assetTables
  <2>2. /\ next = [x \in DOMAIN next |-> next[x]] /\ {"step", "job"} \subseteq DOMAIN next
        /\ next.job = assetWorker.job /\ next.step # "finalize-mint"
    OBVIOUS
  <2>3. assetWorker # Idle
    BY <2>1, IdleIs
  <2> HIDE DEF next
  <2>4. JobsCarry /\ ChainOn
    BY <1>0, <2>1, <2>2, <2>3, WorkerWorks, ChainSends
  <2>5. AssetsCarry
    BY <1>0, <1>1, <2>1, <2>4, AssetsSame
  <2> QED BY <1>2, <2>4, <2>5, NothingNamed
<1>10. CASE PauseLiquidated
  <2> DEFINE next == [assetWorker EXCEPT !.step = "look"]
  <2>1. /\ Works(next) /\ assetWorker.step = "pause" /\ UNCHANGED tokenChain
        /\ assets' = [assets EXCEPT ![1].active = FALSE, ![1].trading = "PAUSED"]
    BY <1>10 DEF PauseLiquidated
  <2>2. assetWorker # Idle
    BY <2>1, IdleIs
  <2>3. /\ next = [x \in DOMAIN next |-> next[x]] /\ {"step", "job"} \subseteq DOMAIN next
        /\ next.job = assetWorker.job /\ next.step # "finalize-mint"
    BY <1>5, <2>2
  <2> HIDE DEF next
  <2>4. JobsCarry
    BY <1>0, <2>1, <2>2, <2>3, WorkerWorks
  <2>5. AssetsCarry
    BY <1>0, <1>1, <2>1, ChainSame, Paused
  <2> QED BY <1>4, <2>1, <2>4, <2>5
<1>11. CASE LookAtBurn
  <2> DEFINE next == [assetWorker EXCEPT !.step = "pay"]
  <2>1. Works(next) /\ assetWorker.step = "look" /\ UNCHANGED <<tokenChain, assets>>
    BY <1>11 DEF LookAtBurn, assetTables
  <2>3. assetWorker # Idle
    BY <2>1, IdleIs
  <2>2. /\ next = [x \in DOMAIN next |-> next[x]] /\ {"step", "job"} \subseteq DOMAIN next
        /\ next.job = assetWorker.job /\ next.step # "finalize-mint"
    BY <1>5, <2>3
  <2> HIDE DEF next
  <2> QED BY <1>0, <1>3, <2>1, <2>2, <2>3, WorkerWorks
<1>14. CASE AssetJobThrows \/ AssetWorkerRestarts
  <2>1. /\ assetWorker # Idle /\ assetWorker' = Idle /\ UNCHANGED <<tokenChain, assets>>
        /\ assetJobs' = RetriedJobs(assetWorker.job) \/ assetJobs' = <<assetWorker.job>> \o assetJobs
    BY <1>14 DEF AssetJobThrows, AssetWorkerRestarts, throwUnchanged, assetTables
  <2> QED BY <1>0, <1>3, <2>1, JobRetried
<1> QED BY <1>6, <1>7, <1>8, <1>9, <1>10, <1>11, <1>14 DEF AssetWorkerNext, AssetWorkerStep

LEMMA LiquidationNamed ==
  ASSUME MintedInv, LiquidationNext
  PROVE  MintedInv'
<1>1. UNCHANGED <<desk, tokenChain, assets, forced>>
  BY DEF LiquidationNext, LiquidateAsset, TokensMove, assetTables, sigVars
<1>2. ChainOn /\ DesksCarry /\ AssetsCarry
  BY <1>1, ChainSame, DesksSame, AssetsSame DEF MintedInv
<1>3. CASE LiquidateAsset
  <2>1. Queue(AssetJob("liquidation-burn", 1, 0, liquidations', AssetAttempts))
    BY <1>3 DEF LiquidateAsset
  <2> QED BY <1>2, <2>1, BurnQueued, NothingNamed DEF MintedInv
<1>4. CASE \E u, v \in TokenHolders : TokensMove(u, v)
  <2>1. UNCHANGED assetQueue
    BY <1>4 DEF TokensMove
  <2> QED BY <1>2, <2>1, JobsSame, NothingNamed DEF MintedInv
<1> QED BY <1>3, <1>4 DEF LiquidationNext

LEMMA MinedNamed ==
  ASSUME LifecycleInv, MintedInv, TokenChainNext
  PROVE  MintedInv'
<1>1. PICK i, fate : MineToken(i, fate)
  BY DEF TokenChainNext
<1>2. UNCHANGED <<desk, assets, assetQueue, forced>>
  BY <1>1 DEF MineToken, sigVars, assetTables
<1>3. ChainOn
  BY <1>1, ChainMines DEF LifecycleInv
<1> QED BY <1>2, <1>3, DesksSame, JobsSame, AssetsSame, NothingNamed DEF MintedInv

LEMMA NothingMoves ==
  ASSUME MintedInv, UNCHANGED lifecycleVars
  PROVE  MintedInv'
<1>1. UNCHANGED <<desk, tokenChain, assets, assetQueue, forced>>
  BY DEF lifecycleVars, sigVars, assetVars, assetTables
<1> QED BY <1>1, DesksSame, DeskOnly

LEMMA MintedStep ==
  ASSUME LifecycleInv, MintedInv, [AssetNext]_lifecycleVars
  PROVE  MintedInv'
BY CatalogueNamed, ReviewNamed, MintSentNamed, MintStored, MintQueued, OnboardingNamed, RedeemNamed, LiquidationNamed,
   MinedNamed, WorkerNamed, SignaturesNamed, NothingMoves DEF AssetNext, CatalogueNext, MintStep

\* At first the mint of an asset's contract is the only thing said of it.
LEMMA MintedStarts ==
  ASSUME LifecycleInit
  PROVE  MintedInv
<1>1. /\ desk = [k \in Desks |-> Idle] /\ assets = OpeningAssets /\ forced = {}
      /\ tokenChain = [i \in DOMAIN OpeningAssets |-> [kind |-> "mint", proposal |-> 0, fate |-> "mined"]]
      /\ assetJobs = <<>> /\ assetWorker = Idle
  BY DEF LifecycleInit, SigInit, AssetInit
<1>2. Idle.step = "idle"
  BY DEF Idle
<1>3. Naming = {} /\ Unstored = {}
  BY <1>1, <1>2 DEF Naming, Unstored
<1>4. Jobs = {}
  BY <1>1 DEF Jobs, Range
<1>5. JobsOK
  <2>1. IsSeq(assetJobs)
    BY <1>1 DEF IsSeq
  <2> QED BY <1>1, <1>4, <2>1, IdleIs DEF JobsOK
<1>6. DeskNames = {} /\ JobNames = {}
  BY <1>3, <1>4 DEF DeskNames, JobNames, FinalizeJobs
<1>7. IsSeq(assets) /\ DOMAIN assets = 1 .. Len(assets) /\ Len(assets) \in Nat
  BY <1>1, AssetAssumption, SeqIsSeq, SeqOfAnything
<1>8. \A x \in DOMAIN assets : IsAssetRow(assets[x]) /\ assets[x].contract \in 0 .. Len(assets)
  <2> SUFFICES ASSUME NEW x \in DOMAIN assets
               PROVE  IsAssetRow(assets[x]) /\ assets[x].contract \in 0 .. Len(assets)
    OBVIOUS
  <2>1. assets[x] \in [active : BOOLEAN, trading : {"OPEN", "PAUSED", "CLOSED"}, txHash : Nat, contract : Nat]
    BY <1>1, <1>7, AssetAssumption, ElementOfSeq
  <2>2. IsAssetRow(assets[x])
    BY <2>1 DEF IsAssetRow, AssetRow
  <2> QED BY <1>1, <2>2, AssetAssumption
<1>9. \A x \in Contracted : assets[x].contract \in DOMAIN tokenChain
  BY <1>1, <1>7, <1>8 DEF Contracted
<1>10. MinedMints = DOMAIN tokenChain /\ \A h \in DOMAIN tokenChain : IsMint(h)
  BY <1>1 DEF MinedMints, IsMint
<1>11. \A x \in DOMAIN assets :
         assets[x].active /\ assets[x].trading = "OPEN" => x \in Contracted
  BY <1>1, AssetAssumption DEF Contracted
<1>12. AssetsOK
  BY <1>7, <1>8, <1>9, <1>10, <1>11 DEF AssetsOK
<1>13. \A x, y \in Contracted : assets[x].contract = assets[y].contract => x = y
  BY <1>1, AssetAssumption DEF Contracted
<1>14. Named = AssetNames
  BY <1>6 DEF Named
<1>15. NamesOK
  BY <1>3, <1>9, <1>10, <1>13, <1>14 DEF NamesOK, AssetNames
<1> QED BY <1>5, <1>12, <1>15 DEF MintedInv

LEMMA MintedMeans ==
  ASSUME MintedInv
  PROVE  OpenHasMinedContract
<1> SUFFICES ASSUME NEW x \in DOMAIN assets \ forced, assets[x].active /\ assets[x].trading = "OPEN"
             PROVE  /\ assets[x].contract \in MinedMints
                    /\ \A y \in DOMAIN assets \ {x} : assets[y].contract # assets[x].contract
  BY DEF OpenHasMinedContract
<1>1. x \in Contracted /\ assets[x].contract \in MinedMints
  BY DEF MintedInv, AssetsOK
<1>2. ASSUME NEW y \in DOMAIN assets \ {x}, assets[y].contract = assets[x].contract
      PROVE  FALSE
  <2> DEFINE m == <<x, assets[x].contract>>
             n == <<y, assets[y].contract>>
  <2>1. m \in Named /\ n \in Named
    BY <1>1, <1>2 DEF Named, AssetNames, Contracted
  <2>2. m[2] = n[2] /\ m[1] = x /\ n[1] = y
    BY <1>2
  <2> HIDE DEF m, n
  <2> QED BY <1>2, <2>1, <2>2 DEF MintedInv, NamesOK
<1> QED BY <1>1, <1>2

\* An asset that is open for trading, and was not opened by an administrator's
\* update, has the contract of a mint that was mined, and no other asset has it:
\* whatever of the requests' and the processor's steps fails, is retried or is
\* run again after a restart, and in whichever order the jobs are finished.
THEOREM OpenAssetsHaveContracts == LifecycleSpec => []OpenHasMinedContract
<1>1. LifecycleInit => LifecycleInv /\ MintedInv
  BY LifecycleStarts, MintedStarts
<1>2. LifecycleInv /\ MintedInv /\ [AssetNext]_lifecycleVars => LifecycleInv' /\ MintedInv'
  BY LifecycleStep, MintedStep
<1>3. MintedInv => OpenHasMinedContract
  BY MintedMeans
<1> QED BY <1>1, <1>2, <1>3, PTL DEF LifecycleSpec
------------------------------------------------------------------------------
(***************************************************************************)
(* Liquidations                                                            *)
(***************************************************************************)
Liquidations == 1 .. MaxLiquidations
Burning(job, n) == job.name = "liquidation-burn" /\ job.request = n
Places(s, n) == {i \in DOMAIN s : Burning(s[i], n)}

\* A liquidation has one job at most, with no more attempts left than there is room.
Fits(s, n, room) ==
  /\ \A i, j \in Places(s, n) : i = j
  /\ \A i \in Places(s, n) : s[i].left <= room

\* Burns that a liquidation may still send before it has sent too many.
Room(n) == AssetAttempts + lost[n] - burns[n]
WorkerRoom(n) == Room(n) + (IF HasBurnt THEN 1 ELSE 0)
WorkerBurns(n) == assetWorker # Idle /\ Burning(assetWorker.job, n)

LiquidationOK(n) ==
  /\ 0 <= Room(n) /\ (n > liquidations => burns[n] = 0)
  /\ Fits(assetJobs, n, Room(n))
  /\ WorkerBurns(n) => Places(assetJobs, n) = {} /\ assetWorker.job.left <= WorkerRoom(n)

JobBurns(job) ==
  /\ job.name \notin {"pause", "look", "pay"}
  /\ job.name = "liquidation-burn" => job.request \in 1 .. liquidations /\ job.left \in Nat \ {0}

BurnsOK ==
  /\ burns \in [Liquidations -> Nat] /\ lost \in [Liquidations -> Nat]
  /\ liquidations \in 0 .. MaxLiquidations
  /\ \A j \in Jobs : JobBurns(j)
  /\ assetWorker.step \in {"liquidation-burn", "pause", "look", "pay"} =>
       assetWorker.job.name = "liquidation-burn"
  /\ \A n \in Liquidations : LiquidationOK(n)

LEMMA FitsAppend ==
  ASSUME NEW s, IsSeq(s), NEW n, NEW room, Fits(s, n, room), NEW e,
         Burning(e, n) => Places(s, n) = {} /\ e.left <= room
  PROVE  /\ Fits(Append(s, e), n, room)
         /\ ~Burning(e, n) /\ Places(s, n) = {} => Places(Append(s, e), n) = {}
<1>1. /\ DOMAIN Append(s, e) = DOMAIN s \cup {Len(s) + 1} /\ Len(s) + 1 \notin DOMAIN s
      /\ \A i \in DOMAIN s : Append(s, e)[i] = s[i]
      /\ Append(s, e)[Len(s) + 1] = e
  BY AppendAnything, SeqOfAnything
<1>2. Places(Append(s, e), n) = Places(s, n) \cup (IF Burning(e, n) THEN {Len(s) + 1} ELSE {})
  BY <1>1 DEF Places
<1>3. \A i \in Places(s, n) : i \in DOMAIN s
  BY DEF Places
<1> QED BY <1>1, <1>2, <1>3 DEF Fits

LEMMA FitsTail ==
  ASSUME NEW s, IsSeq(s), s # <<>>, NEW n, NEW room, Fits(s, n, room)
  PROVE  /\ Fits(Tail(s), n, room)
         /\ Burning(Head(s), n) => Places(Tail(s), n) = {} /\ Head(s).left <= room
<1>1. s \in Seq(Range(s))
  BY DEF IsSeq
<1>2. /\ Len(s) \in Nat /\ DOMAIN s = 1 .. Len(s) /\ Len(s) # 0 /\ Head(s) = s[1]
      /\ DOMAIN Tail(s) = 1 .. Len(s) - 1
      /\ \A i \in 1 .. Len(s) - 1 : Tail(s)[i] = s[i + 1]
  <2>1. /\ Len(s) \in Nat /\ DOMAIN s = 1 .. Len(s) /\ Len(s) # 0
    BY <1>1, LenProperties, EmptySeq
  <2>2. Head(s) = s[1] /\ Tail(s) \in Seq(Range(s)) /\ Len(Tail(s)) = Len(s) - 1
         /\ \A i \in 1 .. Len(s) - 1 : Tail(s)[i] = s[i + 1]
    BY <1>1, <2>1, HeadTailProperties
  <2>3. DOMAIN Tail(s) = 1 .. Len(s) - 1
    BY <2>2, LenProperties
  <2> QED BY <2>1, <2>2, <2>3
<1>3. \A i \in Places(Tail(s), n) :
        i \in Nat \ {0} /\ i + 1 \in Places(s, n) /\ Tail(s)[i] = s[i + 1]
  BY <1>2 DEF Places
<1>4. Burning(Head(s), n) => 1 \in Places(s, n)
  BY <1>2 DEF Places
<1>5. Burning(Head(s), n) => Places(Tail(s), n) = {}
  BY <1>3, <1>4 DEF Fits
<1>6. \A i, j \in Places(Tail(s), n) : i = j
  BY <1>3 DEF Fits
<1> QED BY <1>2, <1>3, <1>4, <1>5, <1>6 DEF Fits

LEMMA FitsPut ==
  ASSUME NEW s, IsSeq(s), NEW n, NEW room, Fits(s, n, room), NEW e,
         Burning(e, n) => Places(s, n) = {} /\ e.left <= room
  PROVE  Fits(<<e>> \o s, n, room)
<1> DEFINE t == <<e>> \o s
           S == Range(s) \cup {e}
<1>1. s \in Seq(S) /\ <<e>> \in Seq(S) /\ Len(<<e>>) = 1 /\ <<e>>[1] = e
  BY SeqMonotonic DEF IsSeq
<1>2. /\ t \in Seq(S) /\ Len(t) = 1 + Len(s) /\ Len(s) \in Nat /\ DOMAIN s = 1 .. Len(s)
      /\ \A i \in 1 .. 1 + Len(s) : t[i] = IF i <= 1 THEN <<e>>[i] ELSE s[i - 1]
  <2> HIDE DEF S
  <2> QED BY <1>1, ConcatProperties, LenProperties
<1>3. DOMAIN t = 1 .. Len(s) + 1
  BY <1>2, LenProperties
<1>4. t[1] = e /\ \A i \in 2 .. Len(s) + 1 : t[i] = s[i - 1]
  BY <1>1, <1>2
<1> HIDE DEF t, S
<1>5. \A i \in Places(t, n) :
        \/ i = 1 /\ Burning(e, n) /\ t[i] = e
        \/ i \in Nat /\ i - 1 \in Places(s, n) /\ t[i] = s[i - 1]
  BY <1>2, <1>3, <1>4 DEF Places
<1>6. \A i, j \in Places(t, n) : i = j
  BY <1>5 DEF Fits
<1>7. \A i \in Places(t, n) : t[i].left <= room
  BY <1>5 DEF Fits
<1>8. Fits(t, n, room)
  BY <1>6, <1>7 DEF Fits
<1> QED BY <1>8 DEF t

LEMMA RoomIs ==
  ASSUME BurnsOK, NEW n \in Liquidations
  PROVE  /\ burns[n] \in Nat /\ lost[n] \in Nat /\ AssetAttempts \in Nat /\ Room(n) \in Int
         /\ WorkerRoom(n) \in Int /\ Room(n) <= WorkerRoom(n) /\ WorkerRoom(n) <= Room(n) + 1
         /\ LiquidationOK(n)
BY AssetAssumption DEF BurnsOK, Room, WorkerRoom

\* Neither the queue nor its job, nor what is counted.
LEMMA BurnsRest ==
  ASSUME BurnsOK, UNCHANGED <<assetQueue, liquidations, burnHistory>>
  PROVE  BurnsOK'
BY DEF BurnsOK, assetQueue, burnHistory, Jobs, JobBurns, LiquidationOK, Room, WorkerRoom, WorkerBurns, HasBurnt

LEMMA OtherQueued ==
  ASSUME JobsOK, BurnsOK, NEW name \in {"finalize-mint", "finalize-redemption-burn"},
         NEW about, NEW hash, NEW request, NEW left,
         Queue(AssetJob(name, about, hash, request, left)), UNCHANGED <<liquidations, burnHistory>>
  PROVE  BurnsOK'
<1> DEFINE j == AssetJob(name, about, hash, request, left)
<1>1. assetJobs' = Append(assetJobs, j) /\ UNCHANGED <<assetWorker, liquidations, burns, lost>>
  BY DEF Queue, burnHistory
<1>2. JobBurns(j)' /\ \A n : ~Burning(j, n)
  BY DEF AssetJob, JobBurns, Burning
<1> HIDE DEF j
<1>3. Range(assetJobs') = Range(assetJobs) \cup {j}
  BY <1>1, RangeAppend DEF JobsOK
<1>4. Jobs' = Jobs \cup {j}
  BY <1>1, <1>3 DEF Jobs
<1>5. \A i \in Jobs' : JobBurns(i)'
  BY <1>1, <1>2, <1>4 DEF BurnsOK, JobBurns
<1>6. ASSUME NEW n \in Liquidations
      PROVE  LiquidationOK(n)'
  <2>1. LiquidationOK(n) /\ IsSeq(assetJobs)
    BY DEF BurnsOK, JobsOK
  <2>2. Room(n)' = Room(n) /\ WorkerRoom(n)' = WorkerRoom(n) /\ WorkerBurns(n)' = WorkerBurns(n)
    BY <1>1 DEF Room, WorkerRoom, WorkerBurns, HasBurnt
  <2>3. /\ Fits(assetJobs', n, Room(n))
        /\ Places(assetJobs, n) = {} => Places(assetJobs', n) = {}
    BY <1>1, <1>2, <2>1, FitsAppend DEF LiquidationOK
  <2> QED BY <1>1, <2>1, <2>2, <2>3 DEF LiquidationOK
<1> QED BY <1>1, <1>5, <1>6 DEF BurnsOK

\* The next liquidation has a job of its own.
LEMMA LiquidationQueued ==
  ASSUME JobsOK, BurnsOK, LiquidateAsset
  PROVE  BurnsOK'
<1> DEFINE m == liquidations + 1
           j == AssetJob("liquidation-burn", 1, 0, m, AssetAttempts)
<1>1. /\ assetJobs' = Append(assetJobs, j) /\ UNCHANGED <<assetWorker, burns, lost>>
      /\ liquidations' = m /\ liquidations < MaxLiquidations
  BY DEF LiquidateAsset, Queue, burnHistory
<1>2. /\ j.name = "liquidation-burn" /\ j.request = m /\ j.left = AssetAttempts
      /\ AssetAttempts \in Nat \ {0} /\ MaxLiquidations \in Nat
      /\ liquidations \in 0 .. MaxLiquidations
  BY AssetAssumption DEF AssetJob, BurnsOK
<1>3. m \in Liquidations /\ m > liquidations /\ m \in 1 .. m /\ m \in Nat
        /\ 1 .. liquidations \subseteq 1 .. m
  BY <1>1, <1>2 DEF Liquidations
<1> HIDE DEF j, m
<1>4. Range(assetJobs') = Range(assetJobs) \cup {j}
  BY <1>1, RangeAppend DEF JobsOK
<1>5. Jobs' = Jobs \cup {j}
  BY <1>1, <1>4 DEF Jobs
<1>6. \A i \in Jobs' : JobBurns(i)'
  BY <1>1, <1>2, <1>3, <1>5 DEF BurnsOK, JobBurns
<1>7. \A i \in Jobs : ~Burning(i, m)
  BY <1>2, <1>3 DEF BurnsOK, JobBurns, Burning
<1>8. Places(assetJobs, m) = {} /\ ~WorkerBurns(m)
  BY <1>7 DEF Places, Jobs, Range, WorkerBurns
<1>9. ASSUME NEW n \in Liquidations
      PROVE  LiquidationOK(n)'
  <2>1. LiquidationOK(n) /\ IsSeq(assetJobs)
    BY DEF BurnsOK, JobsOK
  <2>2. Room(n)' = Room(n) /\ WorkerRoom(n)' = WorkerRoom(n) /\ WorkerBurns(n)' = WorkerBurns(n)
    BY <1>1 DEF Room, WorkerRoom, WorkerBurns, HasBurnt
  <2>3. Burning(j, n) => n = m
    BY <1>2 DEF Burning
  <2>4. n = m => j.left <= Room(n)
    BY <1>2, <1>3, <2>1, RoomIs DEF LiquidationOK, Room
  <2>5. /\ Fits(assetJobs', n, Room(n))
        /\ n # m /\ Places(assetJobs, n) = {} => Places(assetJobs', n) = {}
    BY <1>1, <1>8, <2>1, <2>3, <2>4, FitsAppend DEF LiquidationOK
  <2>6. n > liquidations' => burns'[n] = 0
    BY <1>1, <1>2, <1>3, <2>1 DEF LiquidationOK, Liquidations
  <2> QED BY <1>1, <1>8, <2>1, <2>2, <2>5, <2>6 DEF LiquidationOK
<1>10. liquidations' \in 0 .. MaxLiquidations
  BY <1>1, <1>3 DEF Liquidations
<1> QED BY <1>1, <1>6, <1>9, <1>10 DEF BurnsOK

LEMMA BurnJobTaken ==
  ASSUME JobsOK, BurnsOK, TakeAssetJob
  PROVE  BurnsOK'
<1> DEFINE j == Head(assetJobs)
<1>1. /\ assetJobs # <<>> /\ assetJobs' = Tail(assetJobs) /\ IsSeq(assetJobs)
      /\ assetWorker' = [step |-> j.name, job |-> j] /\ UNCHANGED <<liquidations, burns, lost>>
  BY DEF TakeAssetJob, workerUnchanged, assetBounds, burnHistory, JobsOK
<1>2. j \in Range(assetJobs) /\ Range(assetJobs') \subseteq Range(assetJobs)
  BY <1>1, RangeTail
<1>3. assetWorker'.step = j.name /\ assetWorker'.job = j
  BY <1>1
<1>4. Jobs' \subseteq Jobs /\ j \in Jobs
  BY <1>2, <1>3 DEF Jobs
<1>5. \A i \in Jobs' : JobBurns(i)'
  BY <1>1, <1>4 DEF BurnsOK, JobBurns
<1>6. /\ assetWorker'.step \in {"liquidation-burn", "pause", "look", "pay"} =>
            assetWorker'.job.name = "liquidation-burn"
      /\ ~HasBurnt'
  BY <1>3, <1>4 DEF BurnsOK, JobBurns, HasBurnt
<1>7. ASSUME NEW n \in Liquidations
      PROVE  LiquidationOK(n)'
  <2>1. LiquidationOK(n) /\ Room(n) \in Int
    BY RoomIs
  <2>2. Room(n)' = Room(n) /\ WorkerRoom(n)' = Room(n)
    BY <1>1, <1>6, <2>1 DEF Room, WorkerRoom
  <2>3. /\ Fits(assetJobs', n, Room(n))
        /\ Burning(j, n) => Places(assetJobs', n) = {} /\ j.left <= Room(n)
    <3> HIDE DEF j
    <3>1. Fits(assetJobs, n, Room(n))
      BY <2>1 DEF LiquidationOK
    <3> QED BY <1>1, <3>1, FitsTail DEF j
  <2>4. WorkerBurns(n)' => Burning(j, n)
    BY <1>3 DEF WorkerBurns
  <2> QED BY <1>1, <1>3, <2>1, <2>2, <2>3, <2>4 DEF LiquidationOK
<1> QED BY <1>1, <1>5, <1>6, <1>7 DEF BurnsOK

\* The processor is done with a job.
LEMMA BurnWorkerIdles ==
  ASSUME BurnsOK, Works(Idle), UNCHANGED <<liquidations, burnHistory>>
  PROVE  BurnsOK'
<1>1. /\ assetJobs' = assetJobs /\ assetWorker' = Idle /\ UNCHANGED <<liquidations, burns, lost>>
      /\ Idle.step = "idle"
  BY DEF Works, burnHistory, Idle
<1>2. Jobs' \subseteq Jobs
  BY <1>1 DEF Jobs
<1>3. \A n \in Liquidations : LiquidationOK(n)'
  BY <1>1 DEF BurnsOK, LiquidationOK, Room, WorkerBurns
<1> QED BY <1>1, <1>2, <1>3 DEF BurnsOK, JobBurns

\* It goes on with a job that has burnt.
LEMMA BurnWorkerGoes ==
  ASSUME BurnsOK, assetWorker # Idle, HasBurnt, NEW next, Works(next),
         next.job = assetWorker.job, next.step \in {"pause", "look", "pay"},
         UNCHANGED <<liquidations, burnHistory>>
  PROVE  BurnsOK'
<1>1. /\ assetJobs' = assetJobs /\ assetWorker' = next /\ UNCHANGED <<liquidations, burns, lost>>
      /\ HasBurnt' /\ assetWorker.job.name = "liquidation-burn"
  BY DEF Works, burnHistory, HasBurnt, BurnsOK
<1>2. Jobs' \subseteq Jobs
  BY <1>1 DEF Jobs
<1>3. ASSUME NEW n \in Liquidations
      PROVE  LiquidationOK(n)'
  <2>1. LiquidationOK(n)
    BY DEF BurnsOK
  <2>2. Room(n)' = Room(n) /\ WorkerRoom(n)' = WorkerRoom(n) /\ (WorkerBurns(n)' => WorkerBurns(n))
    BY <1>1 DEF Room, WorkerRoom, WorkerBurns
  <2> QED BY <1>1, <2>1, <2>2 DEF LiquidationOK
<1> QED BY <1>1, <1>2, <1>3 DEF BurnsOK, JobBurns

LEMMA BurnSent ==
  ASSUME BurnsOK, SendLiquidationBurn
  PROVE  BurnsOK'
<1>0. PICK j : j = assetWorker.job
  OBVIOUS
<1> DEFINE m == j.request
<1>1. /\ assetWorker.step = "liquidation-burn" /\ assetJobs' = assetJobs
      /\ assetWorker' = [step |-> "pause", job |-> j, hash |-> Len(tokenChain) + 1]
      /\ burns' = [burns EXCEPT ![m] = @ + 1] /\ UNCHANGED <<liquidations, lost>>
  BY <1>0 DEF SendLiquidationBurn, Works, assetBounds
<1>2. assetWorker'.step = "pause" /\ assetWorker'.job = j /\ assetWorker # Idle
  BY <1>1, IdleIs
<1>3. j \in Jobs /\ Jobs' \subseteq Jobs
  BY <1>0, <1>1, <1>2 DEF Jobs
<1>4. /\ j.name = "liquidation-burn" /\ m \in 1 .. liquidations /\ j.left \in Nat \ {0}
      /\ liquidations \in 0 .. MaxLiquidations /\ MaxLiquidations \in Nat
  BY <1>0, <1>1, <1>3, AssetAssumption DEF BurnsOK, JobBurns
<1>5. m \in Liquidations /\ m <= liquidations /\ burns \in [Liquidations -> Nat]
  BY <1>4 DEF Liquidations, BurnsOK
<1>6. HasBurnt' /\ ~HasBurnt
  BY <1>1, <1>2 DEF HasBurnt
<1> HIDE DEF m
<1>7. burns' \in [Liquidations -> Nat]
  BY <1>1, <1>5
<1>8. ASSUME NEW n \in Liquidations, n # m
      PROVE  LiquidationOK(n)'
  <2>1. LiquidationOK(n) /\ burns'[n] = burns[n]
    BY <1>1, <1>5, <1>8 DEF BurnsOK
  <2>2. Room(n)' = Room(n) /\ ~WorkerBurns(n)'
    BY <1>1, <1>2, <1>8, <2>1 DEF Room, WorkerBurns, Burning, m
  <2> QED BY <1>1, <2>1, <2>2 DEF LiquidationOK
<1>9. LiquidationOK(m)'
  <2>1. /\ Room(m) \in Int /\ burns[m] \in Nat /\ lost[m] \in Nat /\ AssetAttempts \in Nat
        /\ LiquidationOK(m)
    BY <1>5, RoomIs
  <2>2. WorkerBurns(m)
    BY <1>0, <1>2, <1>4 DEF WorkerBurns, Burning, m
  <2>3. Places(assetJobs, m) = {} /\ j.left <= WorkerRoom(m)
    BY <1>0, <2>1, <2>2 DEF LiquidationOK
  <2>4. WorkerRoom(m) = Room(m)
    BY <1>6, <2>1 DEF WorkerRoom
  <2>5. burns'[m] = burns[m] + 1
    BY <1>1, <1>5
  <2>6. Room(m)' = Room(m) - 1
    BY <1>1, <2>1, <2>5 DEF Room
  <2>7. WorkerRoom(m)' = Room(m)
    BY <1>6, <2>1, <2>6 DEF WorkerRoom
  <2>8. 0 <= Room(m)'
    BY <1>4, <2>1, <2>3, <2>4, <2>6
  <2>9. ~(m > liquidations')
    BY <1>1, <1>4, <1>5
  <2>10. Fits(assetJobs', m, Room(m)')
    BY <1>1, <2>3 DEF Fits
  <2> QED BY <1>1, <1>2, <2>3, <2>4, <2>7, <2>8, <2>9, <2>10 DEF LiquidationOK
<1>10. \A i \in Jobs' : JobBurns(i)'
  BY <1>1, <1>3 DEF BurnsOK, JobBurns
<1> QED BY <1>1, <1>2, <1>4, <1>7, <1>8, <1>9, <1>10 DEF BurnsOK

\* What was the processor's job is retried, or given up.
LEMMA BurnJobThrows ==
  ASSUME JobsOK, BurnsOK, AssetJobThrows
  PROVE  BurnsOK'
<1>0. PICK j : j = assetWorker.job
  OBVIOUS
<1> DEFINE again == [j EXCEPT !.left = @ - 1]
<1>1. /\ assetWorker # Idle /\ assetWorker' = Idle /\ UNCHANGED <<liquidations, burns, lost>>
      /\ assetJobs' = IF j.left = 1 THEN assetJobs ELSE Append(assetJobs, again)
      /\ Idle.step = "idle" /\ IsSeq(assetJobs)
  BY <1>0, IdleIs DEF AssetJobThrows, throwUnchanged, assetBounds, RetriedJobs, JobsOK
<1>2. j \in Jobs /\ IsJob(j) /\ JobBurns(j) /\ Range(assetJobs) \subseteq Jobs
  BY <1>0, <1>1 DEF Jobs, JobsOK, BurnsOK
<1>3. again.name = j.name /\ again.request = j.request /\ again.left = j.left - 1
  BY <1>2 DEF IsJob
<1>4. j.name = "liquidation-burn" /\ j.left # 1 => JobBurns(again)
  BY <1>2, <1>3 DEF JobBurns
<1>5. j.name # "liquidation-burn" => JobBurns(again)
  BY <1>2, <1>3 DEF JobBurns
<1> HIDE DEF again
<1>6. Jobs' \subseteq Jobs \cup (IF j.left = 1 THEN {} ELSE {again})
  BY <1>1, <1>2, RangeAppend DEF Jobs
<1>7. \A i \in Jobs' : JobBurns(i)'
  BY <1>1, <1>4, <1>5, <1>6 DEF BurnsOK, JobBurns
<1>8. ASSUME NEW n \in Liquidations
      PROVE  LiquidationOK(n)'
  <2>1. LiquidationOK(n) /\ Room(n) \in Int /\ WorkerRoom(n) \in Int /\ WorkerRoom(n) <= Room(n) + 1
    BY RoomIs
  <2>2. Room(n)' = Room(n) /\ ~WorkerBurns(n)'
    BY <1>1 DEF Room, WorkerBurns
  <2>3. ASSUME Burning(again, n)
        PROVE  Places(assetJobs, n) = {} /\ again.left <= Room(n)
    <3>1. Burning(j, n) /\ j.left \in Nat \ {0}
      BY <1>2, <1>3, <2>3 DEF Burning, JobBurns
    <3>2. Places(assetJobs, n) = {} /\ j.left <= WorkerRoom(n)
      BY <1>0, <1>1, <2>1, <3>1 DEF LiquidationOK, WorkerBurns
    <3> QED BY <1>3, <2>1, <3>1, <3>2
  <2>4. Fits(assetJobs, n, Room(n))
    BY <2>1 DEF LiquidationOK
  <2>5. Fits(assetJobs', n, Room(n))
    BY <1>1, <2>3, <2>4, FitsAppend
  <2> QED BY <1>1, <2>1, <2>2, <2>5 DEF LiquidationOK
<1> QED BY <1>1, <1>7, <1>8 DEF BurnsOK

\* It is run again: a burn that was sent is counted as lost.
LEMMA BurnJobAgain ==
  ASSUME JobsOK, BurnsOK, AssetWorkerRestarts
  PROVE  BurnsOK'
<1>0. PICK j : j = assetWorker.job
  OBVIOUS
<1> DEFINE m == j.request
<1>1. /\ assetWorker # Idle /\ assetWorker' = Idle /\ UNCHANGED <<liquidations, burns>>
      /\ assetJobs' = <<j>> \o assetJobs /\ Idle.step = "idle" /\ IsSeq(assetJobs)
      /\ lost' = IF HasBurnt THEN [lost EXCEPT ![m] = @ + 1] ELSE lost
  BY <1>0, IdleIs DEF AssetWorkerRestarts, throwUnchanged, assetBounds, JobsOK
<1>2. j \in Jobs /\ JobBurns(j) /\ Range(assetJobs) \subseteq Jobs
  BY <1>0, <1>1 DEF Jobs, BurnsOK
<1>3. HasBurnt => j.name = "liquidation-burn" /\ m \in 1 .. liquidations
  BY <1>0, <1>2 DEF HasBurnt, BurnsOK, JobBurns
<1>4. /\ lost \in [Liquidations -> Nat] /\ 1 .. liquidations \subseteq Liquidations
  BY AssetAssumption DEF BurnsOK, Liquidations
<1>5. Burning(j, m) <=> j.name = "liquidation-burn"
  BY DEF Burning
<1>6. \A n : Burning(j, n) => n = m
  BY DEF Burning
<1> HIDE DEF m
<1>7. /\ lost' \in [Liquidations -> Nat]
      /\ \A n \in Liquidations : lost'[n] = lost[n] + (IF HasBurnt /\ n = m THEN 1 ELSE 0)
  BY <1>1, <1>3, <1>4
<1>8. Jobs' \subseteq Jobs
  BY <1>1, <1>2, RangePut DEF Jobs
<1>9. \A i \in Jobs' : JobBurns(i)'
  BY <1>1, <1>8 DEF BurnsOK, JobBurns
<1>10. ASSUME NEW n \in Liquidations
       PROVE  LiquidationOK(n)'
  <2>1. /\ LiquidationOK(n) /\ Room(n) \in Int /\ burns[n] \in Nat /\ lost[n] \in Nat
        /\ AssetAttempts \in Nat
    BY RoomIs
  <2>2. Room(n)' = Room(n) + (IF HasBurnt /\ n = m THEN 1 ELSE 0)
    BY <1>1, <1>7, <2>1 DEF Room
  <2>3. ASSUME Burning(j, n)
        PROVE  Places(assetJobs, n) = {} /\ j.left <= Room(n)'
    <3>1. Places(assetJobs, n) = {} /\ j.left <= WorkerRoom(n) /\ n = m
      BY <1>0, <1>1, <1>6, <2>1, <2>3 DEF LiquidationOK, WorkerBurns
    <3> QED BY <2>2, <3>1 DEF WorkerRoom
  <2>4. Fits(assetJobs, n, Room(n)')
    <3>1. CASE HasBurnt /\ n = m
      <4>1. Burning(j, n)
        BY <1>3, <1>5, <3>1
      <4> QED BY <2>3, <4>1 DEF Fits
    <3>2. CASE ~(HasBurnt /\ n = m)
      <4>1. Room(n)' = Room(n)
        BY <2>1, <2>2, <3>2
      <4> QED BY <2>1, <4>1 DEF LiquidationOK
    <3> QED BY <3>1, <3>2
  <2>5. Fits(assetJobs', n, Room(n)')
    <3>1. PICK room : room = Room(n)'
      OBVIOUS
    <3> QED BY <1>1, <2>3, <2>4, <3>1, FitsPut
  <2>6. 0 <= Room(n)'
    BY <2>1, <2>2 DEF LiquidationOK
  <2>7. ~WorkerBurns(n)'
    BY <1>1 DEF WorkerBurns
  <2>8. n > liquidations' => burns'[n] = 0
    BY <1>1, <2>1 DEF LiquidationOK
  <2> QED BY <2>5, <2>6, <2>7, <2>8 DEF LiquidationOK
<1> QED BY <1>1, <1>7, <1>9, <1>10 DEF BurnsOK

LEMMA BurnWorkerStep ==
  ASSUME JobsOK, BurnsOK, AssetWorkerNext
  PROVE  BurnsOK'
<1>1. CASE FinalizeMint \/ FinalizeRedemptionBurn
  <2>1. Works(Idle) /\ UNCHANGED <<liquidations, burnHistory>>
    BY <1>1 DEF FinalizeMint, FinalizeRedemptionBurn, workerUnchanged, assetBounds
  <2> QED BY <2>1, BurnWorkerIdles
<1>2. CASE PauseLiquidated
  <2> DEFINE next == [assetWorker EXCEPT !.step = "look"]
  <2>1. /\ Works(next) /\ assetWorker.step = "pause" /\ UNCHANGED <<liquidations, burnHistory>>
        /\ assetWorker # Idle /\ HasBurnt
    BY <1>2, IdleIs DEF PauseLiquidated, workerUnchanged, assetBounds, HasBurnt
  <2>2. next.job = assetWorker.job /\ next.step = "look"
    BY <2>1 DEF JobsOK
  <2> HIDE DEF next
  <2> QED BY <2>1, <2>2, BurnWorkerGoes
<1>3. CASE LookAtBurn
  <2> DEFINE next == [assetWorker EXCEPT !.step = "pay"]
  <2>1. /\ Works(next) /\ assetWorker.step = "look" /\ UNCHANGED <<liquidations, burnHistory>>
        /\ assetWorker # Idle /\ HasBurnt
    BY <1>3, IdleIs DEF LookAtBurn, workerUnchanged, assetBounds, HasBurnt
  <2>2. next.job = assetWorker.job /\ next.step = "pay"
    BY <2>1 DEF JobsOK
  <2> HIDE DEF next
  <2> QED BY <2>1, <2>2, BurnWorkerGoes
<1> QED BY <1>1, <1>2, <1>3, BurnJobTaken, BurnSent, BurnJobThrows, BurnJobAgain
        DEF AssetWorkerNext, AssetWorkerStep

\* The requests that queue a job queue that of a mint or of a redemption.
LEMMA BurnRequestStep ==
  ASSUME JobsOK, BurnsOK, NEW k \in Desks,
         QueueMint(k) \/ QueueTokenized(k) \/ QueueBurn(k)
  PROVE  BurnsOK'
<1>1. UNCHANGED <<liquidations, burnHistory>>
  BY DEF QueueMint, QueueTokenized, QueueBurn, assetBounds
<1>2. CASE QueueMint(k)
  <2>1. Queue(AssetJob("finalize-mint", desk[k].asset, desk[k].hash, 0, AssetAttempts))
    BY <1>2 DEF QueueMint
  <2> QED BY <1>1, <2>1, OtherQueued
<1>3. CASE QueueTokenized(k)
  <2>1. Queue(AssetJob("finalize-mint", desk[k].asset, desk[k].hash, desk[k].request, 1))
    BY <1>3 DEF QueueTokenized
  <2> QED BY <1>1, <2>1, OtherQueued
<1>4. CASE QueueBurn(k)
  <2>1. Queue(AssetJob("finalize-redemption-burn", desk[k].redemption, desk[k].hash, 0, AssetAttempts))
    BY <1>4 DEF QueueBurn
  <2> QED BY <1>1, <2>1, OtherQueued
<1> QED BY <1>2, <1>3, <1>4

LEMMA BurnsStep ==
  ASSUME JobsOK, BurnsOK, [AssetNext]_lifecycleVars
  PROVE  BurnsOK'
<1> DEFINE Rests == UNCHANGED <<assetQueue, liquidations, burnHistory>>
<1>1. CASE CreateAsset \/ CatalogueNext \/ CreateRequest \/ TokenChainNext
  <2>1. Rests
    BY <1>1 DEF CreateAsset, CatalogueNext, UpdateAsset, ReadForReview, ApproveAsset, CreateRequest,
           TokenChainNext, MineToken, catalogueUnchanged, assetVars, assetBounds
  <2> QED BY <2>1, BurnsRest
<1>2. ASSUME NEW k \in Desks,
             \/ ReviewOnboarding(k) \/ SendMint(k) \/ StoreMint(k)
             \/ \E r \in DOMAIN onboardings :
                  ReadApproved(k, r) \/ \E status \in OnboardingDecisions : ReadRequest(k, r, status)
             \/ UpdateStatus(k) \/ SendTokenize(k) \/ StoreTokenized(k)
      PROVE  BurnsOK'
  <2>1. Rests
    BY <1>2 DEF ReviewOnboarding, SendMint, StoreMint, ReadApproved, ReadRequest, UpdateStatus,
           SendTokenize, StoreTokenized, assetVars, assetBounds
  <2> QED BY <2>1, BurnsRest
<1>3. ASSUME NEW k \in Desks,
             \/ \E u \in TokenHolders : ReadForRedeem(k, u)
             \/ \E d \in DOMAIN redemptions :
                  ReadForComplete(k, d) \/ \E status \in RedemptionDecisions : ReadRedemption(k, d, status)
             \/ RequestRedeem(k) \/ UpdateRedemptionStatus(k) \/ SendRedemptionBurn(k) \/ StoreBurn(k)
      PROVE  BurnsOK'
  <2>1. Rests
    BY <1>3 DEF ReadForRedeem, ReadForComplete, ReadRedemption, RequestRedeem, UpdateRedemptionStatus,
           SendRedemptionBurn, StoreBurn, assetVars, assetBounds
  <2> QED BY <2>1, BurnsRest
<1>4. CASE \E u, v \in TokenHolders : TokensMove(u, v)
  <2>1. Rests
    BY <1>4 DEF TokensMove
  <2> QED BY <2>1, BurnsRest
<1>5. CASE WithoutAssets(KycNext) \/ WithoutAssets(SigNext) \/ UNCHANGED lifecycleVars
  <2>1. Rests
    BY <1>5 DEF WithoutAssets, lifecycleVars, assetVars, assetBounds
  <2> QED BY <2>1, BurnsRest
<1>6. CASE \E k \in Desks : ReviewOnboarding(k) \/ MintStep(k)
  BY <1>2, <1>6, BurnRequestStep DEF MintStep
<1>7. CASE OnboardingNext
  BY <1>1, <1>2, <1>7, BurnRequestStep DEF OnboardingNext
<1>8. CASE RedeemNext
  BY <1>3, <1>8, BurnRequestStep DEF RedeemNext
<1>9. CASE LiquidationNext
  BY <1>4, <1>9, LiquidationQueued DEF LiquidationNext
<1> QED BY <1>1, <1>5, <1>6, <1>7, <1>8, <1>9, BurnWorkerStep DEF AssetNext

LEMMA BurnsStart ==
  ASSUME LifecycleInit
  PROVE  BurnsOK
<1>1. /\ assetJobs = <<>> /\ assetWorker = Idle /\ liquidations = 0 /\ Idle.step = "idle"
      /\ burns = [n \in Liquidations |-> 0] /\ lost = burns
      /\ AssetAttempts \in Nat /\ MaxLiquidations \in Nat
  BY AssetAssumption, IdleIs DEF LifecycleInit, AssetInit, Liquidations
<1>2. Jobs = {} /\ \A n : Places(assetJobs, n) = {} /\ ~WorkerBurns(n)
  BY <1>1 DEF Jobs, Range, Places, WorkerBurns
<1>3. \A n \in Liquidations : Room(n) = AssetAttempts /\ burns[n] = 0
  BY <1>1 DEF Room
<1>4. \A n \in Liquidations : LiquidationOK(n)
  BY <1>1, <1>2, <1>3 DEF LiquidationOK, Fits
<1> QED BY <1>1, <1>2, <1>4 DEF BurnsOK

LEMMA BurnsMean ==
  ASSUME BurnsOK
  PROVE  BurntPerAttempt
<1> SUFFICES ASSUME NEW n \in 1 .. liquidations
             PROVE  burns[n] <= AssetAttempts + lost[n]
  BY DEF BurntPerAttempt
<1>1. n \in Liquidations
  BY AssetAssumption DEF BurnsOK, Liquidations
<1>2. burns[n] \in Nat /\ lost[n] \in Nat /\ AssetAttempts \in Nat /\ 0 <= Room(n)
  BY <1>1, RoomIs DEF LiquidationOK
<1> QED BY <1>2 DEF Room

\* However many liquidations take turns in the queue with the jobs of mints and
\* redemptions, a liquidation sends no more burns than its job has attempts, but
\* for one with each restart that met the job after its burn.
THEOREM LiquidationsBurnPerAttempt == LifecycleSpec => []BurntPerAttempt
<1>1. LifecycleInit => LifecycleInv /\ MintedInv /\ BurnsOK
  BY LifecycleStarts, MintedStarts, BurnsStart
<1>2. MintedInv => JobsOK
  BY DEF MintedInv
<1>3. LifecycleInv /\ MintedInv /\ BurnsOK /\ [AssetNext]_lifecycleVars
        => LifecycleInv' /\ MintedInv' /\ BurnsOK'
  BY <1>2, LifecycleStep, MintedStep, BurnsStep
<1>4. BurnsOK => BurntPerAttempt
  BY BurnsMean
<1> QED BY <1>1, <1>3, <1>4, PTL DEF LifecycleSpec
==============================================================================
