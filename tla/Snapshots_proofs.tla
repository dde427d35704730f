-------------------------- MODULE Snapshots_proofs --------------------------
(***************************************************************************)
(* Proofs about the DAO and the dividends, which both walk over the        *)
(* holders of an asset page by page.  The DAO: what was executed on chain  *)
(* is final, what the backend passes had its majority, and a snapshot that *)
(* is over is whole.  The dividends: the claims of a distribution fit its  *)
(* amount, what is claimed is what was credited, a claim is rewarded to    *)
(* the referrer once unless two workers raced for it, and the proof of     *)
(* every claim verifies against the root of the tree, whatever the number  *)
(* of claims.                                                              *)
(***************************************************************************)
EXTENDS DaoService, Dividends, Sums, SequenceTheorems, FiniteSetTheorems, TLAPS

------------------------------------------------------------------------------
(***************************************************************************)
(* The contract                                                            *)
(***************************************************************************)
\* The clock and the contract's storage, as far as the theorem needs them.
Row == [split : Nat, forVotes : Nat, againstVotes : Nat, endTime : Nat,
        status : {"ACTIVE", "PASSED", "REJECTED"}, tokenomics : BOOLEAN, executed : BOOLEAN]

ContractTyped ==
  /\ now \in Nat /\ proposalCount \in Nat
  /\ onChain \in [ChainIds -> Row]

\* What no step may do, of one state and the next.
Final ==
  \A i \in ChainIds :
    /\ onChain[i].executed /\ i <= proposalCount /\ now >= onChain[i].endTime => onChain'[i] = onChain[i]
    /\ i \in asked' \ asked => now >= onChain[i].endTime /\ Carried(i)

\* A step that leaves the contract alone.
LEMMA ContractRests ==
  ASSUME ContractTyped, UNCHANGED contractVars, now' \in Nat
  PROVE  ContractTyped' /\ Final
BY DEF ContractTyped, Final, contractVars

\* A new proposal takes an id beyond those that were given out.
LEMMA CreationIsFinal ==
  ASSUME ContractTyped, NEW split \in Splits, NEW duration \in Nat,
         createTokenomicsProposal(split, duration)
  PROVE  ContractTyped' /\ Final
<1> DEFINE n   == proposalCount + 1
           row == [onChain[n] EXCEPT !.split = split, !.endTime = now + duration,
                                     !.status = "ACTIVE", !.tokenomics = TRUE]
<1>1. proposalCount' = n /\ asked' = asked /\ now' = now /\ n \in ChainIds
        /\ onChain' = [onChain EXCEPT ![n] = row]
  BY DEF createTokenomicsProposal
<1>2. now + duration \in Nat /\ split \in Nat /\ n \in Nat
  BY ContractAssumption DEF ContractTyped
<1>3. row \in Row
  BY <1>1, <1>2 DEF ContractTyped, Row
<1>4. ContractTyped'
  BY <1>1, <1>2, <1>3 DEF ContractTyped
<1>5. ASSUME NEW i \in ChainIds, i <= proposalCount
      PROVE  onChain'[i] = onChain[i]
  <2>1. i # n
    BY <1>5, ContractAssumption DEF ContractTyped
  <2> QED BY <1>1, <2>1 DEF ContractTyped
<1> QED BY <1>1, <1>4, <1>5 DEF Final

\* Votes are cast before the end.
LEMMA VoteIsFinal ==
  ASSUME ContractTyped, NEW j \in ChainIds, NEW v \in Voters, NEW support \in BOOLEAN,
         castVote(j, v, support)
  PROVE  ContractTyped' /\ Final
<1> DEFINE row == WithVote(onChain[j], Weight[v], support)
<1>1. proposalCount' = proposalCount /\ asked' = asked /\ now' = now /\ now < onChain[j].endTime
        /\ onChain' = [onChain EXCEPT ![j] = row]
  BY DEF castVote
<1>2. Weight[v] \in Nat /\ onChain[j] \in Row
  BY ContractAssumption DEF ContractTyped
<1>3. row \in Row
  <2>1. CASE support
    BY <1>2, <2>1 DEF Row, WithVote
  <2>2. CASE ~support
    BY <1>2, <2>2 DEF Row, WithVote
  <2> QED BY <2>1, <2>2
<1> HIDE DEF row
<1>4. ContractTyped'
  BY <1>1, <1>3 DEF ContractTyped
<1>5. ~(now >= onChain[j].endTime)
  BY <1>1, <1>2 DEF ContractTyped, Row
<1>6. ASSUME NEW i \in ChainIds, now >= onChain[i].endTime
      PROVE  onChain'[i] = onChain[i]
  BY <1>1, <1>5, <1>6 DEF ContractTyped
<1> QED BY <1>1, <1>4, <1>6 DEF Final

\* A proposal is executed once, after its end.
LEMMA ExecuteIsFinal ==
  ASSUME ContractTyped, NEW j, Execute(j), now' = now
  PROVE  ContractTyped' /\ Final
<1> DEFINE row == [onChain[j] EXCEPT !.status = IF Carried(j) THEN "PASSED" ELSE "REJECTED",
                                     !.executed = TRUE]
<1>1. proposalCount' = proposalCount /\ now >= onChain[j].endTime /\ ~onChain[j].executed
        /\ onChain' = [onChain EXCEPT ![j] = row]
  BY DEF Execute, Executable
<1>2. j \in ChainIds => row \in Row
  BY DEF ContractTyped, Row
<1> HIDE DEF row
<1>3. ContractTyped'
  <2>1. CASE j \in ChainIds
    BY <1>1, <1>2, <2>1 DEF ContractTyped
  <2>2. CASE j \notin ChainIds
    BY <1>1, <2>2 DEF ContractTyped
  <2> QED BY <2>1, <2>2
<1>4. ASSUME NEW i \in ChainIds, i # j
      PROVE  onChain'[i] = onChain[i]
  BY <1>1, <1>4 DEF ContractTyped
<1>5. ASSUME NEW i \in ChainIds, i \in asked' \ asked
      PROVE  i = j /\ Carried(i)
  BY <1>5 DEF Execute
<1> QED BY <1>1, <1>3, <1>4, <1>5 DEF Final

LEMMA DaoStepIsFinal ==
  ASSUME ContractTyped, [DaoNext]_daoVars
  PROVE  ContractTyped' /\ Final
<1>1. CASE UNCHANGED daoVars
  BY <1>1, ContractRests DEF daoVars, ContractTyped
<1>2. ASSUME NEW r \in DaoRequests, CallContract(r)
      PROVE  ContractTyped' /\ Final
  <2> DEFINE i == daoProposals[daoRequest[r].proposal].chainId
  <2>1. now' = now /\ (Execute(i) \/ UNCHANGED contractVars)
    BY <1>2 DEF CallContract
  <2> QED BY <2>1, ContractRests, ExecuteIsFinal DEF ContractTyped
<1>3. CASE RequestNext
  <2>1. CASE \E r \in DaoRequests : CallContract(r)
    BY <1>2, <2>1
  <2>2. CASE \E r \in DaoRequests : CreateVote(r) \/ WriteExecuted(r)
    BY <2>2, ContractRests DEF CreateVote, WriteExecuted, ContractTyped
  <2>3. CASE \E x \in DaoAssets, s, e \in 0 .. MaxTime, i \in ChainIds, kind \in {"GENERAL", "INCREASE"} :
               CreateProposal(x, s, e, kind, i)
    BY <2>3, ContractRests DEF CreateProposal, ContractTyped
  <2>4. CASE \E r \in DaoRequests, p \in DaoIds :
               \/ \E u \in DaoHolders, isFor \in BOOLEAN : ReadForVote(r, p, u, isFor)
               \/ ReadForExecute(r, p)
    BY <2>4, ContractRests DEF ReadForVote, ReadForExecute, ContractTyped
  <2> QED BY <1>3, <2>1, <2>2, <2>3, <2>4 DEF RequestNext
<1>4. CASE CronNext
  <2>1. PICK c \in DaoCrons : CronStep(c) \/ DaoRestart(c)
    BY <1>4 DEF CronNext
  <2>2. UNCHANGED contractVars /\ now' = now
    BY <2>1 DEF CronStep, DaoRestart, StartRun, ReadPage, InsertPage, EndSnapshot, PickEnded, SumFor,
                SumAll, Decide, cronUnchanged
  <2> QED BY <2>2, ContractRests DEF ContractTyped
<1>5. CASE \E x \in DaoAssets, from, to \in DaoHolders : DaoMove(x, from, to)
  BY <1>5, ContractRests DEF DaoMove, ContractTyped
<1>6. CASE Tick
  BY <1>6, ContractRests DEF Tick, ContractTyped
<1>7. CASE OwnerNext
  <2>1. CASE \E split \in Splits, duration \in 1 .. MaxTime : createTokenomicsProposal(split, duration)
    BY <2>1, CreationIsFinal
  <2>2. CASE \E i \in ChainIds, v \in Voters, support \in BOOLEAN : castVote(i, v, support)
    BY <2>2, VoteIsFinal
  <2>3. CASE \E i \in ChainIds : Execute(i) /\ now' = now
    BY <2>3, ExecuteIsFinal
  <2> QED BY <1>7, <2>1, <2>2, <2>3 DEF OwnerNext
<1> QED BY <1>1, <1>3, <1>4, <1>5, <1>6, <1>7 DEF DaoNext

\* In every behaviour an executed proposal of the contract changes no more, and
\* the split of a token changes only after the end of a proposal that the votes
\* have carried, whoever calls the contract and in whatever order.
THEOREM ExecutedIsFinal == DaoSpec => ExecutionIsFinal
<1>1. DaoInit => ContractTyped
  BY DEF DaoInit, ContractInit, ContractTyped, Zero, Row
<1>2. ContractTyped /\ [DaoNext]_daoVars => ContractTyped' /\ Final
  BY DaoStepIsFinal
<1>3. ContractTyped /\ [DaoNext]_daoVars
        => [\A i \in ChainIds :
              /\ onChain[i].executed /\ i <= proposalCount /\ now >= onChain[i].endTime
                   => onChain'[i] = onChain[i]
              /\ i \in asked' \ asked => now >= onChain[i].endTime /\ Carried(i)]_<<now, contractVars>>
  BY <1>2 DEF Final
<1> QED BY <1>1, <1>2, <1>3, PTL DEF DaoSpec, ExecutionIsFinal

------------------------------------------------------------------------------
(***************************************************************************)
(* The backend's tables                                                    *)
(***************************************************************************)
DaoRow == [asset : DaoAssets, snapshotAt : Nat, endAt : Nat,
           status : {"ACTIVE", "PASSED", "REJECTED", "EXECUTED"},
           kind : {"GENERAL", "INCREASE"}, chainId : ChainIds]

IsFunction(f) == f = [x \in DOMAIN f |-> f[x]]
Grown(f, g) == DOMAIN f \subseteq DOMAIN g /\ \A x \in DOMAIN f : g[x] = f[x]

\* Voting power of holders.
Powers(pw) ==
  IsFunction(pw) /\ DOMAIN pw \subseteq DaoHolders /\ \A h \in DOMAIN pw : pw[h] \in Nat

\* Votes with the power that the snapshot gives.
IsVote(v, power) == v.isFor \in BOOLEAN /\ v.power = power
WeighedBy(vs, pw) ==
  /\ IsFunction(vs) /\ DOMAIN vs \subseteq DOMAIN pw
  /\ \A u \in DOMAIN vs : IsVote(vs[u], pw[u])

TablesOK ==
  /\ daoProposals \in Seq(DaoRow) /\ Len(daoProposals) <= MaxDaoProposals
  /\ holding \in [DaoAssets -> [DaoHolders -> Nat]]
  /\ powers = [p \in DaoIds |-> powers[p]] /\ votes = [p \in DaoIds |-> votes[p]]
  /\ \A p \in DaoIds : Powers(powers[p]) /\ WeighedBy(votes[p], powers[p])

RequestOK(q) ==
  /\ q.step = "vote" => /\ q.proposal \in DaoIds /\ q.user \in DOMAIN powers[q.proposal]
                        /\ IsVote(q.vote, powers[q.proposal][q.user])
  /\ q.step = "execute" => q.proposal \in DOMAIN counted

RequestsOK ==
  daoRequest = [r \in DaoRequests |-> daoRequest[r]] /\ \A r \in DaoRequests : RequestOK(daoRequest[r])

AssetOf(p) == daoProposals[p].asset
MajorityIn(vs, p) == Passes(PowerFor(vs), PowerOf(vs), SupplyOf(AssetOf(p)))

\* What a run carries from the pages it has read, and from the votes it has
\* summed: there are at least as many for the proposal now.
RunOK(q) ==
  /\ q.step \in {"page", "insert", "sumFor", "sumAll", "decide"} => q.proposal \in DOMAIN daoProposals
  /\ q.step \in {"page", "insert"} => q.cursor \in Nat
  /\ q.step = "insert" => Powers(q.rows)
  /\ q.step = "sumAll" => q.forPower \in Int /\ q.forPower <= PowerFor(votes[q.proposal])
  /\ q.step = "decide" => /\ WeighedBy(q.votes, powers[q.proposal])
                          /\ q.passes => MajorityIn(q.votes, q.proposal)

RunsOK ==
  daoCron = [c \in DaoCrons |-> daoCron[c]] /\ \A c \in DaoCrons : RunOK(daoCron[c])

\* What was counted and decided.
CountsOK ==
  /\ DOMAIN counted \subseteq DOMAIN daoProposals
  /\ \A p \in DOMAIN counted : WeighedBy(counted[p], powers[p])
  /\ daoExecuted \in [DaoIds -> Nat]
  /\ \A p \in DaoIds : daoExecuted[p] > 0 => p \in DOMAIN counted
  /\ \A p \in DOMAIN daoProposals : daoProposals[p].status = "PASSED" => p \in DOMAIN counted
  /\ \A p \in DOMAIN daoProposals \ raced :
       /\ daoProposals[p].status \in {"PASSED", "EXECUTED"} => Majority(p)
       /\ daoExecuted[p] = IF daoProposals[p].status = "EXECUTED" THEN 1 ELSE 0

DaoInv == TablesOK /\ RequestsOK /\ RunsOK /\ CountsOK

------------------------------------------------------------------------------
(***************************************************************************)
(* Powers and sums                                                         *)
(***************************************************************************)
LEMMA FiniteDao == IsFiniteSet(DaoHolders) /\ DaoHolders \subseteq Nat
BY DaoAssumption

LEMMA VotersFinite ==
  ASSUME NEW pw, Powers(pw), NEW vs, WeighedBy(vs, pw)
  PROVE  IsFiniteSet(DOMAIN vs) /\ \A u \in DOMAIN vs : vs[u].power \in Nat /\ vs[u].isFor \in BOOLEAN
BY FiniteDao, FS_Subset DEF Powers, WeighedBy, IsVote

LEMMA PowersSummed ==
  ASSUME NEW pw, Powers(pw), NEW vs, WeighedBy(vs, pw)
  PROVE  PowerFor(vs) \in Int /\ PowerOf(vs) \in Int
<1> DEFINE w == [u \in DOMAIN vs |-> IF vs[u].isFor THEN vs[u].power ELSE 0]
           t == [u \in DOMAIN vs |-> vs[u].power]
<1>1. IsFiniteSet(DOMAIN vs) /\ \A u \in DOMAIN vs : vs[u].power \in Nat
  BY VotersFinite
<1>2. \A u \in DOMAIN vs : w[u] \in Int /\ t[u] \in Int
  BY <1>1
<1> HIDE DEF w, t
<1>3. SumFunctionOnSet(w, DOMAIN vs) \in Int /\ SumFunctionOnSet(t, DOMAIN vs) \in Int
  BY <1>1, <1>2, SumInt
<1> QED BY <1>3 DEF PowerFor, PowerOf, w, t

\* More votes have no less power for the proposal.
LEMMA PowerGrows ==
  ASSUME NEW pw, Powers(pw), NEW vs, WeighedBy(vs, pw), NEW ws, WeighedBy(ws, pw), Grown(vs, ws)
  PROVE  PowerFor(vs) <= PowerFor(ws)
<1> DEFINE S == DOMAIN vs
           T == DOMAIN ws
           v == [u \in S |-> IF vs[u].isFor THEN vs[u].power ELSE 0]
           w == [u \in T |-> IF ws[u].isFor THEN ws[u].power ELSE 0]
           e == [u \in T |-> IF u \in S THEN v[u] ELSE 0]
<1>1. IsFiniteSet(T) /\ S \subseteq T /\ \A u \in S : ws[u] = vs[u]
  BY VotersFinite DEF Grown
<1>2. \A u \in T : ws[u].power \in Nat
  BY VotersFinite
<1>3. \A u \in S : v[u] = w[u] /\ e[u] = v[u]
  BY <1>1
<1>4. \A u \in T : w[u] \in Nat
  BY <1>2
<1>5. \A u \in T \ S : e[u] = 0
  OBVIOUS
<1>6. PowerFor(vs) = SumFunctionOnSet(v, S) /\ PowerFor(ws) = SumFunctionOnSet(w, T)
  BY DEF PowerFor
<1> HIDE DEF v, w, e, S, T
<1>7. \A u \in T : e[u] \in Int /\ w[u] \in Int /\ e[u] <= w[u]
  BY <1>3, <1>4, <1>5
<1>8. \A u \in S : v[u] = e[u]
  BY <1>3
<1>9. SumFunctionOnSet(v, S) = SumFunctionOnSet(e, T)
  BY <1>1, <1>5, <1>7, <1>8, SumRestricted
<1>10. SumFunctionOnSet(e, T) <= SumFunctionOnSet(w, T)
  BY <1>1, <1>7, SumMonotonic
<1> QED BY <1>6, <1>9, <1>10

LEMMA SupplyCounted ==
  ASSUME TablesOK, NEW x \in DaoAssets
  PROVE  SupplyOf(x) \in Int
<1>1. \A h \in DaoHolders : holding[x][h] \in Int
  BY DEF TablesOK
<1> QED BY <1>1, FiniteDao, SumInt DEF SupplyOf

LEMMA PassesWithMore ==
  ASSUME NEW f \in Int, NEW g \in Int, f <= g, NEW total \in Int, NEW supply \in Int,
         Passes(f, total, supply)
  PROVE  Passes(g, total, supply)
BY DEF Passes

------------------------------------------------------------------------------
(***************************************************************************)
(* What no step takes back                                                 *)
(***************************************************************************)
Stays ==
  /\ \A p \in DaoIds : Grown(powers[p], powers'[p]) /\ Grown(votes[p], votes'[p])
  /\ \A p \in DOMAIN daoProposals : p \in DOMAIN daoProposals' /\ AssetOf(p)' = AssetOf(p)
  /\ \A x \in DaoAssets : SupplyOf(x)' = SupplyOf(x)
  /\ DOMAIN counted \subseteq DOMAIN counted'

LEMMA Proposals ==
  ASSUME TablesOK
  PROVE  /\ DOMAIN daoProposals = 1 .. Len(daoProposals) /\ Len(daoProposals) \in Nat
         /\ DOMAIN daoProposals \subseteq DaoIds
         /\ \A p \in DOMAIN daoProposals : daoProposals[p] \in DaoRow /\ AssetOf(p) \in DaoAssets
<1>1. DOMAIN daoProposals = 1 .. Len(daoProposals) /\ Len(daoProposals) \in Nat
  BY LenProperties DEF TablesOK
<1>2. DOMAIN daoProposals \subseteq DaoIds
  BY <1>1, DaoAssumption DEF TablesOK, DaoIds
<1>3. \A p \in DOMAIN daoProposals : daoProposals[p] \in DaoRow
  BY <1>1, ElementOfSeq DEF TablesOK
<1> QED BY <1>1, <1>2, <1>3 DEF DaoRow, AssetOf

LEMMA WeighedStill ==
  ASSUME NEW vs, NEW pw, NEW qw, WeighedBy(vs, pw), Grown(pw, qw)
  PROVE  WeighedBy(vs, qw)
BY DEF WeighedBy, Grown

LEMMA RequestsStay ==
  ASSUME TablesOK, RequestsOK, Stays, UNCHANGED daoRequest
  PROVE  RequestsOK'
<1>1. ASSUME NEW r \in DaoRequests
      PROVE  RequestOK(daoRequest[r])'
  <2>1. RequestOK(daoRequest[r]) /\ daoRequest'[r] = daoRequest[r]
    BY DEF RequestsOK
  <2> QED BY <2>1 DEF RequestOK, Stays, Grown
<1> QED BY <1>1 DEF RequestsOK

\* A request that does not carry a vote next.
LEMMA RequestSet ==
  ASSUME TablesOK, RequestsOK, Stays, NEW r \in DaoRequests, NEW next, Asks(r, next),
         next.step # "vote", next.step = "execute" => next.proposal \in DOMAIN counted'
  PROVE  RequestsOK'
<1>1. daoRequest' = [daoRequest EXCEPT ![r] = next]
  BY DEF Asks
<1>2. daoRequest' = [s \in DaoRequests |-> daoRequest'[s]] /\ daoRequest'[r] = next
      /\ \A s \in DaoRequests \ {r} : daoRequest'[s] = daoRequest[s]
  BY <1>1 DEF RequestsOK
<1>3. ASSUME NEW s \in DaoRequests
      PROVE  RequestOK(daoRequest[s])'
  <2>1. CASE s = r
    BY <1>2, <2>1 DEF RequestOK
  <2>2. CASE s # r
    <3>1. RequestOK(daoRequest[s]) /\ daoRequest'[s] = daoRequest[s]
      BY <1>2, <2>2 DEF RequestsOK
    <3> QED BY <3>1 DEF RequestOK, Stays, Grown
  <2> QED BY <2>1, <2>2
<1> QED BY <1>2, <1>3 DEF RequestsOK

LEMMA RunStays ==
  ASSUME TablesOK, TablesOK', Stays, NEW q, RunOK(q)
  PROVE  RunOK(q)'
<1>1. q.step \in {"page", "insert", "sumFor", "sumAll", "decide"} =>
        q.proposal \in DOMAIN daoProposals /\ q.proposal \in DOMAIN daoProposals'
  BY DEF RunOK, Stays
<1>2. ASSUME q.step = "sumAll"
      PROVE  q.forPower \in Int /\ q.forPower <= PowerFor(votes'[q.proposal])
  <2> DEFINE p == q.proposal
  <2>1. p \in DaoIds /\ q.forPower \in Int /\ q.forPower <= PowerFor(votes[p])
    BY <1>1, <1>2, Proposals DEF RunOK
  <2>2. /\ Powers(powers[p]) /\ WeighedBy(votes[p], powers[p])
        /\ Powers(powers'[p]) /\ WeighedBy(votes'[p], powers'[p])
        /\ Grown(powers[p], powers'[p]) /\ Grown(votes[p], votes'[p])
    BY <2>1 DEF TablesOK, Stays
  <2> HIDE DEF p
  <2>3. WeighedBy(votes[p], powers'[p])
    BY <2>2, WeighedStill
  <2>4. PowerFor(votes[p]) <= PowerFor(votes'[p])
    BY <2>2, <2>3, PowerGrows
  <2>5. PowerFor(votes[p]) \in Int /\ PowerFor(votes'[p]) \in Int
    BY <2>2, PowersSummed
  <2>6. q.forPower <= PowerFor(votes'[p])
    BY <2>1, <2>4, <2>5
  <2> QED BY <2>1, <2>6 DEF p
<1>3. ASSUME q.step = "decide"
      PROVE  /\ WeighedBy(q.votes, powers'[q.proposal])
             /\ q.passes => MajorityIn(q.votes, q.proposal)'
  <2> DEFINE p == q.proposal
  <2>1. p \in DOMAIN daoProposals /\ p \in DaoIds /\ WeighedBy(q.votes, powers[p])
    BY <1>1, <1>3, Proposals DEF RunOK
  <2>2. WeighedBy(q.votes, powers'[p])
    BY <2>1, WeighedStill DEF Stays
  <2>3. SupplyOf(AssetOf(p))' = SupplyOf(AssetOf(p))
    BY <2>1, Proposals DEF Stays, SupplyOf, AssetOf
  <2>4. q.passes => MajorityIn(q.votes, p)
    BY <1>3 DEF RunOK
  <2>5. q.passes => MajorityIn(q.votes, p)'
    BY <2>3, <2>4 DEF MajorityIn
  <2> QED BY <2>2, <2>5
<1> QED BY <1>1, <1>2, <1>3 DEF RunOK

LEMMA RunsStay ==
  ASSUME TablesOK, TablesOK', RunsOK, Stays, UNCHANGED daoCron
  PROVE  RunsOK'
<1>1. ASSUME NEW c \in DaoCrons
      PROVE  RunOK(daoCron[c])'
  <2>1. PICK q : q = daoCron[c]
    OBVIOUS
  <2>2. RunOK(q) /\ daoCron'[c] = q
    BY <2>1 DEF RunsOK
  <2>3. RunOK(q)'
    BY <2>2, RunStays
  <2> QED BY <2>2, <2>3 DEF RunOK
<1> QED BY <1>1 DEF RunsOK

LEMMA RunSet ==
  ASSUME TablesOK, TablesOK', RunsOK, Stays, NEW c \in DaoCrons, NEW next, Runs(c, next), RunOK(next)'
  PROVE  RunsOK'
<1>1. daoCron' = [daoCron EXCEPT ![c] = next]
  BY DEF Runs
<1>2. daoCron' = [d \in DaoCrons |-> daoCron'[d]] /\ daoCron'[c] = next
      /\ \A d \in DaoCrons \ {c} : daoCron'[d] = daoCron[d]
  BY <1>1 DEF RunsOK
<1>3. ASSUME NEW d \in DaoCrons
      PROVE  RunOK(daoCron[d])'
  <2>1. PICK q : q = daoCron'[d]
    OBVIOUS
  <2>2. RunOK(q)'
    <3>1. CASE d = c
      BY <1>2, <2>1, <3>1
    <3>2. CASE d # c
      <4>1. RunOK(q)
        BY <1>2, <2>1, <3>2 DEF RunsOK
      <4> QED BY <4>1, RunStays
    <3> QED BY <3>1, <3>2
  <2> QED BY <2>1, <2>2 DEF RunOK
<1> QED BY <1>2, <1>3 DEF RunsOK

LEMMA StaysAlone ==
  ASSUME TablesOK, UNCHANGED <<daoProposals, powers, votes, holding, counted>>
  PROVE  TablesOK' /\ Stays
<1>1. TablesOK'
  BY DEF TablesOK
<1>2. Stays
  BY DEF Stays, Grown, AssetOf, SupplyOf
<1> QED BY <1>1, <1>2

LEMMA CountsStay ==
  ASSUME CountsOK, UNCHANGED <<daoProposals, powers, holding, counted, daoExecuted, raced>>
  PROVE  CountsOK'
BY DEF CountsOK, Majority, SupplyOf

\* A run that goes on and a request that does, while the tables rest.
LEMMA RunGoes ==
  ASSUME DaoInv, NEW c \in DaoCrons, NEW next, Runs(c, next), RunOK(next),
         UNCHANGED <<daoTables, daoRequest, counted, daoExecuted, raced>>
  PROVE  DaoInv'
<1>1. UNCHANGED <<daoProposals, powers, votes, holding, daoRequest, counted, daoExecuted, raced>>
  BY DEF daoTables
<1>2. TablesOK' /\ Stays /\ CountsOK'
  BY <1>1, StaysAlone, CountsStay DEF DaoInv
<1>3. RequestsOK'
  BY <1>1, <1>2, RequestsStay DEF DaoInv
<1>4. RunOK(next)'
  BY <1>2, RunStays DEF DaoInv
<1>5. RunsOK'
  BY <1>2, <1>4, RunSet DEF DaoInv
<1> QED BY <1>2, <1>3, <1>5 DEF DaoInv

LEMMA RequestAsks ==
  ASSUME DaoInv, NEW r \in DaoRequests, NEW next, Asks(r, next),
         next.step # "vote", next.step = "execute" => next.proposal \in DOMAIN counted,
         UNCHANGED <<daoTables, daoCron, counted, daoExecuted, raced>>
  PROVE  DaoInv'
<1>1. UNCHANGED <<daoProposals, powers, votes, holding, daoCron, counted, daoExecuted, raced>>
  BY DEF daoTables
<1>2. TablesOK' /\ Stays /\ CountsOK'
  BY <1>1, StaysAlone, CountsStay DEF DaoInv
<1>3. RequestsOK'
  BY <1>1, <1>2, RequestSet DEF DaoInv
<1>4. RunsOK'
  BY <1>1, <1>2, RunsStay DEF DaoInv
<1> QED BY <1>2, <1>3, <1>4 DEF DaoInv

LEMMA DaoRests ==
  ASSUME DaoInv, UNCHANGED <<daoTables, daoRequest, daoCron, counted, daoExecuted, raced>>
  PROVE  DaoInv'
<1>1. UNCHANGED <<daoProposals, powers, votes, holding, daoRequest, daoCron, counted, daoExecuted, raced>>
  BY DEF daoTables
<1>2. TablesOK' /\ Stays /\ CountsOK'
  BY <1>1, StaysAlone, CountsStay DEF DaoInv
<1> QED BY <1>1, <1>2, RequestsStay, RunsStay DEF DaoInv

------------------------------------------------------------------------------
(***************************************************************************)
(* The steps                                                               *)
(***************************************************************************)
LEMMA EmptyFunction == IsFunction(NoFunction) /\ DOMAIN NoFunction = {}
BY DEF IsFunction, NoFunction

LEMMA DaoStarts ==
  ASSUME DaoInit
  PROVE  DaoInv
<1>1. daoProposals = <<>> /\ holding = DaoHoldings /\ counted = NoFunction
  BY DEF DaoInit
<1>2. DOMAIN daoProposals = {} /\ Len(daoProposals) = 0 /\ daoProposals \in Seq(DaoRow)
  BY <1>1, EmptySeq
<1>3. \A p \in DaoIds : powers[p] = NoFunction /\ votes[p] = NoFunction /\ daoExecuted[p] = 0
  BY DEF DaoInit
<1>4. \A p \in DaoIds : Powers(powers[p]) /\ WeighedBy(votes[p], powers[p])
  BY <1>3, EmptyFunction DEF Powers, WeighedBy
<1>5. powers = [p \in DaoIds |-> powers[p]] /\ votes = [p \in DaoIds |-> votes[p]]
      /\ daoExecuted \in [DaoIds -> Nat]
  BY DEF DaoInit
<1>6. TablesOK
  BY <1>1, <1>2, <1>4, <1>5, DaoAssumption DEF TablesOK
<1>7. RequestsOK
  BY DEF DaoInit, RequestsOK, RequestOK, DaoIdle
<1>8. RunsOK
  BY DEF DaoInit, RunsOK, RunOK, DaoIdle
<1>9. CountsOK
  BY <1>1, <1>2, <1>3, <1>5, EmptyFunction DEF CountsOK
<1> QED BY <1>6, <1>7, <1>8, <1>9 DEF DaoInv

LEMMA CreateHolds ==
  ASSUME DaoInv, NEW x \in DaoAssets, NEW s \in 0 .. MaxTime, NEW e \in 0 .. MaxTime,
         NEW kind \in {"GENERAL", "INCREASE"}, NEW i \in ChainIds, CreateProposal(x, s, e, kind, i)
  PROVE  DaoInv'
<1> DEFINE row == [asset |-> x, snapshotAt |-> s, endAt |-> e, status |-> "ACTIVE",
                   kind |-> kind, chainId |-> i]
           n == Len(daoProposals)
<1>1. row \in DaoRow /\ row.status = "ACTIVE"
  BY DEF DaoRow
<1>2. daoProposals' = Append(daoProposals, row) /\ n < MaxDaoProposals
  BY DEF CreateProposal
<1>3. UNCHANGED <<powers, votes, holding, daoRequest, daoCron, counted, daoExecuted, raced>>
  BY DEF CreateProposal, daoHistory
<1> HIDE DEF row
<1>4. daoProposals \in Seq(DaoRow) /\ n \in Nat /\ DOMAIN daoProposals = 1 .. n
  BY Proposals DEF DaoInv, TablesOK
<1>5. /\ daoProposals' \in Seq(DaoRow) /\ Len(daoProposals') = n + 1
      /\ \A p \in 1 .. n : daoProposals'[p] = daoProposals[p]
      /\ daoProposals'[n + 1] = row
  BY <1>1, <1>2, <1>4, AppendProperties
<1>6. DOMAIN daoProposals' = 1 .. (n + 1)
  BY <1>4, <1>5, LenProperties
<1>7. n + 1 \in DaoIds /\ n + 1 \notin DOMAIN daoProposals
  BY <1>2, <1>4, DaoAssumption DEF DaoIds
<1>8. TablesOK'
  BY <1>2, <1>3, <1>4, <1>5, DaoAssumption DEF DaoInv, TablesOK
<1>9. Stays
  BY <1>3, <1>4, <1>5, <1>6 DEF Stays, Grown, AssetOf, SupplyOf
<1>10. RequestsOK'
  BY <1>3, <1>9, RequestsStay DEF DaoInv
<1>11. RunsOK'
  BY <1>3, <1>8, <1>9, RunsStay DEF DaoInv
<1>12. CountsOK'
  <2>1. DOMAIN counted \subseteq DOMAIN daoProposals
    BY DEF DaoInv, CountsOK
  <2>2. n + 1 \notin DOMAIN counted /\ daoExecuted[n + 1] = 0
    BY <1>7, <2>1 DEF DaoInv, CountsOK
  <2>3. DOMAIN counted' \subseteq DOMAIN daoProposals'
    BY <1>3, <1>4, <1>6, <2>1
  <2>4. \A p \in DOMAIN daoProposals' : \/ p \in DOMAIN daoProposals /\ daoProposals'[p] = daoProposals[p]
                                        \/ p = n + 1 /\ daoProposals'[p] = row
    BY <1>4, <1>5, <1>6
  <2>5. ASSUME NEW p \in DOMAIN daoProposals, daoProposals'[p] = daoProposals[p]
        PROVE  Majority(p)' = Majority(p)
    BY <1>3, <2>5 DEF Majority, SupplyOf
  <2>6. ASSUME NEW p \in DOMAIN daoProposals', daoProposals'[p].status = "PASSED"
        PROVE  p \in DOMAIN counted'
    BY <1>1, <1>3, <2>4, <2>6 DEF DaoInv, CountsOK
  <2>7. ASSUME NEW p \in DOMAIN daoProposals' \ raced'
        PROVE  /\ daoProposals'[p].status \in {"PASSED", "EXECUTED"} => Majority(p)'
               /\ daoExecuted'[p] = IF daoProposals'[p].status = "EXECUTED" THEN 1 ELSE 0
    <3>1. CASE p \in DOMAIN daoProposals /\ daoProposals'[p] = daoProposals[p]
      <4>1. p \in DOMAIN daoProposals \ raced
        BY <1>3, <3>1
      <4>2. /\ daoProposals[p].status \in {"PASSED", "EXECUTED"} => Majority(p)
            /\ daoExecuted[p] = IF daoProposals[p].status = "EXECUTED" THEN 1 ELSE 0
        BY <4>1 DEF DaoInv, CountsOK
      <4> QED BY <1>3, <2>5, <3>1, <4>2
    <3>2. CASE p = n + 1 /\ daoProposals'[p] = row
      BY <1>1, <1>3, <2>2, <3>2
    <3> QED BY <2>4, <3>1, <3>2
  <2> QED BY <1>3, <2>3, <2>6, <2>7 DEF DaoInv, CountsOK
<1> QED BY <1>8, <1>10, <1>11, <1>12 DEF DaoInv

LEMMA ReadForVoteHolds ==
  ASSUME DaoInv, NEW r \in DaoRequests, NEW p \in DaoIds, NEW u \in DaoHolders,
         NEW isFor \in BOOLEAN, ReadForVote(r, p, u, isFor)
  PROVE  DaoInv'
<1> DEFINE next == [step |-> "vote", proposal |-> p, user |-> u,
                    vote |-> [isFor |-> isFor, power |-> powers[p][u]]]
<1>1. UNCHANGED <<daoProposals, powers, votes, holding, daoCron, counted, daoExecuted, raced>>
  BY DEF ReadForVote, daoTables, daoHistory
<1>2. TablesOK' /\ Stays /\ CountsOK' /\ RunsOK'
  BY <1>1, StaysAlone, CountsStay, RunsStay DEF DaoInv
<1>3. daoRequest' = [daoRequest EXCEPT ![r] = next] /\ u \in DOMAIN powers[p]
  BY DEF ReadForVote, MayVote, Asks
<1>4. next.step = "vote" /\ next.proposal = p /\ next.user = u
      /\ next.vote.isFor \in BOOLEAN /\ next.vote.power = powers[p][u]
  OBVIOUS
<1> HIDE DEF next
<1>5. daoRequest' = [s \in DaoRequests |-> daoRequest'[s]] /\ daoRequest'[r] = next
      /\ \A s \in DaoRequests \ {r} : daoRequest'[s] = daoRequest[s]
  BY <1>3 DEF DaoInv, RequestsOK
<1>6. \A s \in DaoRequests : RequestOK(daoRequest[s])
  BY DEF DaoInv, RequestsOK
<1>7. RequestOK(daoRequest[r])'
  BY <1>1, <1>3, <1>4, <1>5 DEF RequestOK, IsVote
<1>8. \A s \in DaoRequests \ {r} : RequestOK(daoRequest[s])'
  BY <1>1, <1>5, <1>6 DEF RequestOK
<1>9. RequestsOK'
  BY <1>5, <1>7, <1>8 DEF RequestsOK
<1> QED BY <1>2, <1>9 DEF DaoInv

LEMMA CreateVoteHolds ==
  ASSUME DaoInv, NEW r \in DaoRequests, CreateVote(r)
  PROVE  DaoInv'
<1> DEFINE p == daoRequest[r].proposal
           u == daoRequest[r].user
           v == daoRequest[r].vote
<1>1. UNCHANGED <<daoProposals, powers, holding, daoCron, counted, daoExecuted, raced>>
      /\ daoRequest[r].step = "vote" /\ Asks(r, DaoIdle)
  BY DEF CreateVote, daoHistory
<1>2. p \in DaoIds /\ u \in DOMAIN powers[p] /\ IsVote(v, powers[p][u])
  BY <1>1 DEF DaoInv, RequestsOK, RequestOK
<1>3. votes' = IF u \in DOMAIN votes[p] THEN votes
               ELSE [votes EXCEPT ![p] = [w \in DOMAIN @ \cup {u} |-> IF w = u THEN v ELSE @[w]]]
  BY DEF CreateVote
<1> HIDE DEF p, u, v
<1>4. PICK old : old = votes[p]
  OBVIOUS
<1>5. PICK new : new = votes'[p]
  OBVIOUS
<1>6. WeighedBy(old, powers[p]) /\ votes = [q \in DaoIds |-> votes[q]]
  BY <1>2, <1>4 DEF DaoInv, TablesOK
<1>7. votes' = [q \in DaoIds |-> votes'[q]] /\ \A q \in DaoIds \ {p} : votes'[q] = votes[q]
  BY <1>2, <1>3, <1>6
<1>8. WeighedBy(new, powers[p]) /\ Grown(old, new)
  <2>1. CASE u \in DOMAIN old
    BY <1>3, <1>4, <1>5, <1>6, <2>1 DEF Grown
  <2>2. CASE u \notin DOMAIN old
    <3>1. new = [w \in DOMAIN old \cup {u} |-> IF w = u THEN v ELSE old[w]]
      BY <1>2, <1>3, <1>4, <1>5, <1>6, <2>2
    <3>2. DOMAIN new = DOMAIN old \cup {u} /\ IsFunction(new)
      BY <3>1 DEF IsFunction
    <3>3. new[u] = v /\ \A w \in DOMAIN old : new[w] = old[w]
      BY <2>2, <3>1
    <3>4. Grown(old, new)
      BY <3>2, <3>3 DEF Grown
    <3>5. \A w \in DOMAIN new : IsVote(new[w], powers[p][w])
      BY <1>2, <1>6, <3>2, <3>3 DEF WeighedBy
    <3> QED BY <1>2, <1>6, <3>2, <3>4, <3>5 DEF WeighedBy
  <2> QED BY <2>1, <2>2
<1>9. Stays
  BY <1>1, <1>4, <1>5, <1>7, <1>8 DEF Stays, Grown, AssetOf, SupplyOf
<1>10. TablesOK'
  <2>1. ASSUME NEW q \in DaoIds
        PROVE  Powers(powers'[q]) /\ WeighedBy(votes'[q], powers'[q])
    BY <1>1, <1>5, <1>7, <1>8 DEF DaoInv, TablesOK
  <2> QED BY <1>1, <1>7, <2>1 DEF DaoInv, TablesOK
<1>11. CountsOK' /\ RunsOK'
  BY <1>1, <1>9, <1>10, CountsStay, RunsStay DEF DaoInv
<1>12. RequestsOK'
  <2>1. DaoIdle.step # "vote" /\ DaoIdle.step # "execute"
    BY DEF DaoIdle
  <2> QED BY <1>1, <1>9, <2>1, RequestSet DEF DaoInv
<1> QED BY <1>10, <1>11, <1>12 DEF DaoInv

\* Only the status of a row is written.
LEMMA StatusSet ==
  ASSUME TablesOK, NEW p \in DOMAIN daoProposals,
         NEW status \in {"PASSED", "REJECTED", "EXECUTED"}, SetStatus(p, status),
         UNCHANGED <<powers, votes, holding>>
  PROVE  /\ TablesOK'
         /\ DOMAIN daoProposals' = DOMAIN daoProposals
         /\ \A q \in DOMAIN daoProposals :
              /\ AssetOf(q)' = AssetOf(q)
              /\ daoProposals'[q].status = IF q = p THEN status ELSE daoProposals[q].status
<1>1. daoProposals' = [daoProposals EXCEPT ![p] = [daoProposals[p] EXCEPT !.status = status]]
  BY DEF SetStatus
<1>2. daoProposals \in Seq(DaoRow) /\ p \in 1 .. Len(daoProposals) /\ daoProposals[p] \in DaoRow
  BY Proposals DEF TablesOK
<1> DEFINE row == [daoProposals[p] EXCEPT !.status = status]
<1>3. row \in DaoRow /\ row.status = status /\ row.asset = daoProposals[p].asset
  BY <1>2 DEF DaoRow
<1> HIDE DEF row
<1>4. daoProposals' = [daoProposals EXCEPT ![p] = row]
  BY <1>1 DEF row
<1>5. daoProposals' \in Seq(DaoRow) /\ Len(daoProposals') = Len(daoProposals)
      /\ \A q \in 1 .. Len(daoProposals) : daoProposals'[q] = IF q = p THEN row ELSE daoProposals[q]
  BY <1>2, <1>3, <1>4, ExceptSeq
<1>6. TablesOK'
  BY <1>5 DEF TablesOK
<1>7. DOMAIN daoProposals' = 1 .. Len(daoProposals) /\ DOMAIN daoProposals = 1 .. Len(daoProposals)
  BY <1>4, Proposals
<1>8. \A q \in DOMAIN daoProposals : daoProposals'[q] = IF q = p THEN row ELSE daoProposals[q]
  BY <1>5, <1>7
<1>9. \A q \in DOMAIN daoProposals : AssetOf(q)' = AssetOf(q)
  BY <1>3, <1>8 DEF AssetOf
<1>10. \A q \in DOMAIN daoProposals :
         daoProposals'[q].status = IF q = p THEN status ELSE daoProposals[q].status
  BY <1>3, <1>8
<1> QED BY <1>6, <1>7, <1>9, <1>10

LEMMA MajorityStays ==
  ASSUME NEW p, AssetOf(p)' = AssetOf(p), counted'[p] = counted[p], holding' = holding
  PROVE  Majority(p)' = Majority(p)
BY DEF Majority, AssetOf, SupplyOf

LEMMA WriteExecutedHolds ==
  ASSUME DaoInv, NEW r \in DaoRequests, WriteExecuted(r)
  PROVE  DaoInv'
<1> DEFINE p == daoRequest[r].proposal
           general == daoProposals[p].kind = "GENERAL"
           next == IF general THEN DaoIdle ELSE [step |-> "call", proposal |-> p]
<1>1. UNCHANGED <<powers, votes, holding, daoCron, counted>> /\ SetStatus(p, "EXECUTED")
      /\ Asks(r, next)
  BY DEF WriteExecuted
<1>2. daoExecuted' = [daoExecuted EXCEPT ![p] = @ + 1]
      /\ raced' = IF daoProposals[p].status = "PASSED" THEN raced ELSE raced \cup {p}
  BY DEF WriteExecuted
<1>3. p \in DOMAIN counted
  BY DEF WriteExecuted, DaoInv, RequestsOK, RequestOK
<1>4. p \in DOMAIN daoProposals /\ p \in DaoIds
  BY <1>3, Proposals DEF DaoInv, CountsOK
<1>5. next.step # "vote" /\ next.step # "execute"
  BY DEF DaoIdle
<1> HIDE DEF p, next
<1>6. /\ TablesOK'
      /\ DOMAIN daoProposals' = DOMAIN daoProposals
      /\ \A q \in DOMAIN daoProposals :
           /\ AssetOf(q)' = AssetOf(q)
           /\ daoProposals'[q].status = IF q = p THEN "EXECUTED" ELSE daoProposals[q].status
  BY <1>1, <1>4, StatusSet DEF DaoInv
<1>7. Stays
  BY <1>1, <1>6 DEF Stays, Grown, SupplyOf
<1>8. RequestsOK'
  BY <1>1, <1>5, <1>7, RequestSet DEF DaoInv
<1>9. RunsOK'
  BY <1>1, <1>6, <1>7, RunsStay DEF DaoInv
<1>10. CountsOK'
  <2>1. /\ DOMAIN counted \subseteq DOMAIN daoProposals
        /\ \A q \in DOMAIN counted : WeighedBy(counted[q], powers[q])
        /\ daoExecuted \in [DaoIds -> Nat]
        /\ \A q \in DaoIds : daoExecuted[q] > 0 => q \in DOMAIN counted
        /\ \A q \in DOMAIN daoProposals : daoProposals[q].status = "PASSED" => q \in DOMAIN counted
    BY DEF DaoInv, CountsOK
  <2>2. daoExecuted' \in [DaoIds -> Nat] /\ daoExecuted'[p] = daoExecuted[p] + 1
        /\ \A q \in DaoIds \ {p} : daoExecuted'[q] = daoExecuted[q]
    BY <1>2, <1>4, <2>1
  <2>3. \A q \in DaoIds : daoExecuted'[q] > 0 => q \in DOMAIN counted'
    BY <1>1, <1>3, <2>1, <2>2
  <2>4. \A q \in DOMAIN daoProposals' : daoProposals'[q].status = "PASSED" => q \in DOMAIN counted'
    BY <1>1, <1>3, <1>6, <2>1
  <2>5. ASSUME NEW q \in DOMAIN daoProposals' \ raced'
        PROVE  /\ daoProposals'[q].status \in {"PASSED", "EXECUTED"} => Majority(q)'
               /\ daoExecuted'[q] = IF daoProposals'[q].status = "EXECUTED" THEN 1 ELSE 0
    <3>1. q \in DOMAIN daoProposals \ raced /\ q \in DaoIds
      BY <1>2, <1>6, Proposals DEF DaoInv
    <3>2. /\ daoProposals[q].status \in {"PASSED", "EXECUTED"} => Majority(q)
          /\ daoExecuted[q] = IF daoProposals[q].status = "EXECUTED" THEN 1 ELSE 0
      BY <3>1 DEF DaoInv, CountsOK
    <3>3. Majority(q)' = Majority(q)
      BY <1>1, <1>6, <3>1, MajorityStays
    <3>4. CASE q = p
      <4>1. daoProposals[p].status = "PASSED"
        BY <1>2, <3>4
      <4> QED BY <1>6, <2>1, <2>2, <3>1, <3>2, <3>3, <3>4, <4>1
    <3>5. CASE q # p
      BY <1>6, <2>2, <3>1, <3>2, <3>3, <3>5
    <3> QED BY <3>4, <3>5
  <2> QED BY <1>1, <1>6, <2>1, <2>2, <2>3, <2>4, <2>5 DEF CountsOK
<1> QED BY <1>6, <1>8, <1>9, <1>10 DEF DaoInv

LEMMA DecideHolds ==
  ASSUME DaoInv, NEW c \in DaoCrons, Decide(c)
  PROVE  DaoInv'
<1> DEFINE p == daoCron[c].proposal
           vs == daoCron[c].votes
           status == IF daoCron[c].passes THEN "PASSED" ELSE "REJECTED"
<1>1. UNCHANGED <<powers, votes, holding, daoRequest, daoExecuted>> /\ SetStatus(p, status)
      /\ Runs(c, DaoIdle)
  BY DEF Decide, cronUnchanged
<1>2. /\ counted' = [i \in DOMAIN counted \cup {p} |-> IF i = p THEN vs ELSE counted[i]]
      /\ raced' = IF daoProposals[p].status = "ACTIVE" THEN raced ELSE raced \cup {p}
  BY DEF Decide
<1>3. p \in DOMAIN daoProposals /\ WeighedBy(vs, powers[p])
      /\ (status = "PASSED" => MajorityIn(vs, p))
  BY DEF Decide, DaoInv, RunsOK, RunOK
<1>4. status \in {"PASSED", "REJECTED"} /\ p \in DaoIds
  BY <1>3, Proposals DEF DaoInv
<1> HIDE DEF p, vs, status
<1>5. /\ TablesOK'
      /\ DOMAIN daoProposals' = DOMAIN daoProposals
      /\ \A q \in DOMAIN daoProposals :
           /\ AssetOf(q)' = AssetOf(q)
           /\ daoProposals'[q].status = IF q = p THEN status ELSE daoProposals[q].status
  BY <1>1, <1>3, <1>4, StatusSet DEF DaoInv
<1>6. DOMAIN counted' = DOMAIN counted \cup {p} /\ counted'[p] = vs
      /\ \A q \in DOMAIN counted \ {p} : counted'[q] = counted[q]
  BY <1>2
<1>7. Stays
  BY <1>1, <1>5, <1>6 DEF Stays, Grown, SupplyOf
<1>8. RequestsOK'
  BY <1>1, <1>7, RequestsStay DEF DaoInv
<1>9. RunsOK'
  <2>1. RunOK(DaoIdle)'
    BY DEF RunOK, DaoIdle
  <2> QED BY <1>1, <1>5, <1>7, <2>1, RunSet DEF DaoInv
<1>10. CountsOK'
  <2>1. /\ DOMAIN counted \subseteq DOMAIN daoProposals
        /\ \A q \in DOMAIN counted : WeighedBy(counted[q], powers[q])
        /\ daoExecuted \in [DaoIds -> Nat]
        /\ \A q \in DaoIds : daoExecuted[q] > 0 => q \in DOMAIN counted
        /\ \A q \in DOMAIN daoProposals : daoProposals[q].status = "PASSED" => q \in DOMAIN counted
    BY DEF DaoInv, CountsOK
  <2>2. \A q \in DOMAIN counted' : WeighedBy(counted'[q], powers'[q])
    BY <1>1, <1>3, <1>6, <2>1
  <2>3. DOMAIN counted' \subseteq DOMAIN daoProposals'
    BY <1>3, <1>5, <1>6, <2>1
  <2>4. \A q \in DaoIds : daoExecuted'[q] > 0 => q \in DOMAIN counted'
    BY <1>1, <1>6, <2>1
  <2>5. \A q \in DOMAIN daoProposals' : daoProposals'[q].status = "PASSED" => q \in DOMAIN counted'
    BY <1>5, <1>6, <2>1
  <2>6. ASSUME NEW q \in DOMAIN daoProposals' \ raced'
        PROVE  /\ daoProposals'[q].status \in {"PASSED", "EXECUTED"} => Majority(q)'
               /\ daoExecuted'[q] = IF daoProposals'[q].status = "EXECUTED" THEN 1 ELSE 0
    <3>1. q \in DOMAIN daoProposals \ raced
      BY <1>2, <1>5
    <3>2. /\ daoProposals[q].status \in {"PASSED", "EXECUTED"} => Majority(q)
          /\ daoExecuted[q] = IF daoProposals[q].status = "EXECUTED" THEN 1 ELSE 0
      BY <3>1 DEF DaoInv, CountsOK
    <3>3. CASE q = p
      <4>1. daoProposals[p].status = "ACTIVE"
        BY <1>2, <3>3
      <4>2. daoExecuted'[q] = 0 /\ daoProposals'[q].status = status
        BY <1>1, <1>5, <3>1, <3>2, <3>3, <4>1
      <4>3. counted'[q] = vs /\ AssetOf(q)' = AssetOf(p) /\ holding' = holding
        BY <1>1, <1>3, <1>5, <1>6, <3>3
      <4>4. MajorityIn(vs, p) => Majority(q)'
        BY <4>3 DEF MajorityIn, Majority, AssetOf, SupplyOf
      <4>5. daoProposals'[q].status \in {"PASSED", "EXECUTED"} => status = "PASSED"
        BY <1>4, <4>2
      <4>6. daoExecuted'[q] = IF daoProposals'[q].status = "EXECUTED" THEN 1 ELSE 0
        BY <1>4, <4>2
      <4> QED BY <1>3, <4>4, <4>5, <4>6
    <3>4. CASE q # p
      <4>1. daoProposals'[q].status = daoProposals[q].status
        BY <1>5, <3>1, <3>4
      <4>2. ASSUME daoProposals[q].status \in {"PASSED", "EXECUTED"}
            PROVE  Majority(q)'
        <5>1. Majority(q)
          BY <3>2, <4>2
        <5>2. q \in DOMAIN counted
          <6>1. CASE daoProposals[q].status = "PASSED"
            BY <2>1, <3>1, <6>1
          <6>2. CASE daoProposals[q].status = "EXECUTED"
            <7>1. q \in DaoIds /\ daoExecuted[q] > 0
              BY <3>1, <3>2, <6>2, Proposals DEF DaoInv
            <7> QED BY <2>1, <7>1
          <6> QED BY <4>2, <6>1, <6>2
        <5>3. counted'[q] = counted[q] /\ AssetOf(q)' = AssetOf(q)
          BY <1>5, <1>6, <3>1, <3>4, <5>2
        <5> QED BY <1>1, <5>1, <5>3, MajorityStays
      <4> QED BY <1>1, <3>2, <4>1, <4>2
    <3> QED BY <3>3, <3>4
  <2> QED BY <1>1, <2>1, <2>2, <2>3, <2>4, <2>5, <2>6 DEF CountsOK
<1> QED BY <1>5, <1>8, <1>9, <1>10 DEF DaoInv

\* A page is written: rows that are there stay.
LEMMA InsertHolds ==
  ASSUME DaoInv, NEW c \in DaoCrons, InsertPage(c)
  PROVE  DaoInv'
<1> DEFINE p == daoCron[c].proposal
           next == [step |-> "page", proposal |-> p, cursor |-> daoCron[c].cursor]
<1>1. UNCHANGED <<daoProposals, votes, holding, daoRequest, counted, daoExecuted, raced>>
      /\ powers' = [powers EXCEPT ![p] = WithRows(@, daoCron[c].rows)] /\ Runs(c, next)
  BY DEF InsertPage, cronUnchanged, daoHistory
<1>2. p \in DOMAIN daoProposals /\ p \in DaoIds /\ daoCron[c].cursor \in Nat
      /\ Powers(daoCron[c].rows)
  BY Proposals DEF InsertPage, DaoInv, RunsOK, RunOK
<1>3. next.step = "page" /\ next.proposal = p /\ next.cursor \in Nat
  BY <1>2
<1>4. PICK rows : rows = daoCron[c].rows
  OBVIOUS
<1>5. PICK old : old = powers[p]
  OBVIOUS
<1>6. PICK new : new = powers'[p]
  OBVIOUS
<1> HIDE DEF p, next
<1>7. Powers(old) /\ powers = [q \in DaoIds |-> powers[q]]
  BY <1>2, <1>5 DEF DaoInv, TablesOK
<1>8. powers' = [q \in DaoIds |-> powers'[q]] /\ new = WithRows(old, rows)
      /\ \A q \in DaoIds \ {p} : powers'[q] = powers[q]
  BY <1>1, <1>2, <1>4, <1>5, <1>6, <1>7
<1>9. Powers(new) /\ Grown(old, new)
  <2>1. DOMAIN new = DOMAIN old \cup DOMAIN rows /\ IsFunction(new)
        /\ \A h \in DOMAIN new : new[h] = IF h \in DOMAIN old THEN old[h] ELSE rows[h]
    BY <1>8 DEF WithRows, IsFunction
  <2>2. DOMAIN old \subseteq DaoHolders /\ DOMAIN rows \subseteq DaoHolders
        /\ (\A h \in DOMAIN old : old[h] \in Nat) /\ \A h \in DOMAIN rows : rows[h] \in Nat
    BY <1>2, <1>4, <1>7 DEF Powers
  <2>3. Grown(old, new)
    BY <2>1 DEF Grown
  <2>4. Powers(new)
    BY <2>1, <2>2 DEF Powers
  <2> QED BY <2>3, <2>4
<1>10. \A q \in DaoIds : Powers(powers'[q]) /\ Grown(powers[q], powers'[q])
  BY <1>5, <1>6, <1>8, <1>9 DEF DaoInv, TablesOK, Grown
<1>11. ASSUME NEW q \in DaoIds, NEW vs, WeighedBy(vs, powers[q])
       PROVE  WeighedBy(vs, powers'[q])
  BY <1>10, <1>11, WeighedStill
<1>12. TablesOK'
  BY <1>1, <1>8, <1>10, <1>11 DEF DaoInv, TablesOK
<1>13. Stays
  BY <1>1, <1>10 DEF Stays, Grown, AssetOf, SupplyOf
<1>14. RequestsOK'
  BY <1>1, <1>13, RequestsStay DEF DaoInv
<1>15. RunsOK'
  <2>1. PICK q : q = next
    OBVIOUS
  <2>2. RunOK(q)'
    BY <1>1, <1>2, <1>3, <2>1 DEF RunOK
  <2>3. Runs(c, q)
    BY <1>1, <2>1
  <2> QED BY <1>12, <1>13, <2>2, <2>3, RunSet DEF DaoInv
<1>16. CountsOK'
  <2>1. \A q \in DOMAIN counted : q \in DaoIds /\ WeighedBy(counted[q], powers[q])
    BY Proposals DEF DaoInv, CountsOK
  <2>2. \A q \in DOMAIN counted' : WeighedBy(counted'[q], powers'[q])
    BY <1>1, <1>11, <2>1
  <2>3. \A q : Majority(q)' = Majority(q)
    BY <1>1 DEF Majority, SupplyOf
  <2> QED BY <1>1, <2>2, <2>3 DEF DaoInv, CountsOK
<1> QED BY <1>12, <1>14, <1>15, <1>16 DEF DaoInv

------------------------------------------------------------------------------
(***************************************************************************)
(* Pages                                                                   *)
(***************************************************************************)
LEMMA MaxExists ==
  ASSUME NEW S, IsFiniteSet(S), S \subseteq Nat, S # {}
  PROVE  Max(S) \in S /\ \A y \in S : y <= Max(S)
<1> DEFINE Beyond(x) == {y \in S : y > x}
           T == {Cardinality(Beyond(x)) : x \in S}
<1>1. \A x \in S : IsFiniteSet(Beyond(x)) /\ Cardinality(Beyond(x)) \in Nat
  BY FS_Subset, FS_CardinalityType
<1>2. T \subseteq Nat /\ T # {}
  BY <1>1
<1>3. PICK x \in S : \A y \in S : Cardinality(Beyond(x)) <= Cardinality(Beyond(y))
  <2> HIDE DEF Beyond
  <2>1. PICK t \in T : \A u \in T : t <= u
    <3> HIDE DEF T
    <3> QED BY <1>2, LeastNatural
  <2> QED BY <2>1
<1>4. ASSUME NEW y \in S, y > x
      PROVE  FALSE
  <2>1. x \in Nat /\ y \in Nat
    OBVIOUS
  <2>2. \A z \in S : z \in Nat
    OBVIOUS
  <2>3. y \in Beyond(x) /\ y \notin Beyond(y) /\ Beyond(y) \in SUBSET Beyond(x)
    <3>1. ~ y > y /\ \A z \in S : z > y => z > x
      BY <1>4, <2>1, <2>2
    <3>2. \A z \in Beyond(y) : z \in Beyond(x)
      BY <3>1
    <3> QED BY <1>4, <3>1, <3>2
  <2>4. /\ Cardinality(Beyond(y)) \in Nat /\ Cardinality(Beyond(x)) \in Nat
        /\ Cardinality(Beyond(x)) <= Cardinality(Beyond(y)) /\ IsFiniteSet(Beyond(x))
    BY <1>1, <1>3
  <2> HIDE DEF Beyond
  <2>5. /\ Cardinality(Beyond(y)) <= Cardinality(Beyond(x))
        /\ Cardinality(Beyond(x)) = Cardinality(Beyond(y)) => Beyond(x) = Beyond(y)
    BY <2>3, <2>4, FS_Subset
  <2>6. Cardinality(Beyond(x)) = Cardinality(Beyond(y))
    BY <2>4, <2>5
  <2> QED BY <2>3, <2>5, <2>6
<1>5. \A y \in S : x >= y
  BY <1>4
<1>6. Max(S) \in S /\ \A y \in S : Max(S) >= y
  BY <1>5 DEF Max
<1> QED BY <1>6

Awaiting(x, cursor) == {h \in DaoHolders : h > cursor /\ holding[x][h] > 0}

LEMMA PageIs ==
  ASSUME NEW x, NEW cursor
  PROVE  Page(x, cursor) = {h \in Awaiting(x, cursor) :
                              Cardinality({g \in Awaiting(x, cursor) : g < h}) < SnapshotPage}
BY DEF Page, Awaiting

LEMMA PageFound ==
  ASSUME NEW x, NEW cursor \in Nat, Page(x, cursor) # {}
  PROVE  /\ Page(x, cursor) \subseteq Awaiting(x, cursor) /\ Max(Page(x, cursor)) \in Page(x, cursor)
         /\ \A h \in Awaiting(x, cursor) : h <= Max(Page(x, cursor)) => h \in Page(x, cursor)
<1> DEFINE A == Awaiting(x, cursor)
           m == Max(Page(x, cursor))
           Under(h) == {g \in A : g < h}
<1>1. A \subseteq DaoHolders /\ A \subseteq Nat /\ IsFiniteSet(A)
  BY FiniteDao, FS_Subset DEF Awaiting
<1>2. Page(x, cursor) = {h \in A : Cardinality(Under(h)) < SnapshotPage}
  BY PageIs
<1>3. Page(x, cursor) \subseteq A /\ IsFiniteSet(Page(x, cursor))
  BY <1>1, <1>2, FS_Subset
<1> HIDE DEF A
<1>4. m \in Page(x, cursor)
  BY <1>1, <1>3, MaxExists
<1> HIDE DEF m
<1>5. ASSUME NEW h \in A, h <= m
      PROVE  h \in Page(x, cursor)
  <2>1. h \in Nat /\ m \in Nat /\ m \in A /\ \A g \in A : g \in Nat
    BY <1>1, <1>3, <1>4
  <2>2. Under(h) \in SUBSET Under(m) /\ Under(m) \in SUBSET A
    <3>1. \A g \in A : g < h => g < m
      BY <1>5, <2>1
    <3>2. \A g \in Under(h) : g \in Under(m)
      BY <3>1
    <3>3. \A g \in Under(m) : g \in A
      OBVIOUS
    <3> QED BY <3>2, <3>3
  <2> HIDE DEF Under
  <2>3. IsFiniteSet(Under(m))
    BY <1>1, <2>2, FS_Subset
  <2>4. Cardinality(Under(h)) <= Cardinality(Under(m)) /\ IsFiniteSet(Under(h))
    BY <2>2, <2>3, FS_Subset
  <2>5. Cardinality(Under(h)) \in Nat /\ Cardinality(Under(m)) \in Nat
    BY <2>3, <2>4, FS_CardinalityType
  <2>6. Cardinality(Under(m)) < SnapshotPage
    BY <1>2, <1>4
  <2>7. Cardinality(Under(h)) < SnapshotPage
    BY <2>4, <2>5, <2>6, DaoAssumption
  <2> QED BY <1>2, <2>7
<1> QED BY <1>3, <1>4, <1>5 DEF A, m

LEMMA LastPage ==
  ASSUME NEW x, NEW cursor \in Nat, Page(x, cursor) = {}
  PROVE  Awaiting(x, cursor) = {}
<1> DEFINE A == Awaiting(x, cursor)
<1>1. SUFFICES ASSUME A # {}
               PROVE  FALSE
  OBVIOUS
<1>2. A \subseteq Nat
  BY FiniteDao DEF Awaiting
<1> HIDE DEF A
<1>3. PICK h \in A : \A g \in A : h <= g
  BY <1>1, <1>2, LeastNatural
<1>4. {g \in A : g < h} = {}
  <2>1. \A g \in A : ~ g < h
    BY <1>2, <1>3
  <2> QED BY <2>1
<1>5. Cardinality({g \in A : g < h}) < SnapshotPage
  BY <1>4, FS_EmptySet, DaoAssumption
<1>6. h \in Page(x, cursor)
  BY <1>3, <1>5, PageIs DEF A
<1> QED BY <1>6

\* What a page that has been read carries.
LEMMA RowsRead ==
  ASSUME TablesOK, NEW x \in DaoAssets, NEW cursor \in Nat, Page(x, cursor) # {}
  PROVE  /\ Max(Page(x, cursor)) \in Nat /\ Powers([h \in Page(x, cursor) |-> holding[x][h]])
<1> DEFINE P == Page(x, cursor)
           rows == [h \in P |-> holding[x][h]]
<1>1. P \subseteq DaoHolders /\ Max(P) \in P
  BY PageFound DEF Awaiting
<1>2. \A h \in P : holding[x][h] \in Nat
  BY <1>1 DEF TablesOK
<1> HIDE DEF P
<1>3. DOMAIN rows = P /\ IsFunction(rows) /\ \A h \in P : rows[h] \in Nat
  BY <1>2 DEF IsFunction
<1> HIDE DEF rows
<1>4. Powers(rows)
  BY <1>1, <1>3 DEF Powers
<1> QED BY <1>1, <1>4, FiniteDao DEF P, rows

------------------------------------------------------------------------------
(***************************************************************************)
(* The runs of the cron, and trading                                       *)
(***************************************************************************)
LEMMA StartRunHolds ==
  ASSUME DaoInv, NEW c \in DaoCrons, StartRun(c)
  PROVE  DaoInv'
<1>1. UNCHANGED <<daoTables, daoRequest, counted, daoExecuted, raced>>
  BY DEF StartRun, cronUnchanged, daoTables, daoHistory
<1>2. CASE Candidates(now) # {}
  <2>1. PICK p \in Candidates(now) : Runs(c, [step |-> "page", proposal |-> p, cursor |-> 0])
    BY <1>2 DEF StartRun
  <2>2. RunOK([step |-> "page", proposal |-> p, cursor |-> 0])
    BY DEF RunOK, Candidates
  <2> QED BY <1>1, <2>1, <2>2, RunGoes
<1>3. CASE Candidates(now) = {}
  <2>1. Runs(c, [step |-> "ended", time |-> now])
    BY <1>3 DEF StartRun
  <2>2. RunOK([step |-> "ended", time |-> now])
    BY DEF RunOK
  <2> QED BY <1>1, <2>1, <2>2, RunGoes
<1> QED BY <1>2, <1>3

LEMMA ReadPageHolds ==
  ASSUME DaoInv, NEW c \in DaoCrons, ReadPage(c)
  PROVE  DaoInv'
<1> DEFINE p == daoCron[c].proposal
           x == AssetOf(p)
           cursor == daoCron[c].cursor
           rows == [h \in Page(x, cursor) |-> holding[x][h]]
           next == [step |-> "insert", proposal |-> p, cursor |-> Max(Page(x, cursor)), rows |-> rows]
<1>1. UNCHANGED <<daoTables, daoRequest, counted, daoExecuted, raced>>
  BY DEF ReadPage, cronUnchanged, daoTables, daoHistory
<1>2. daoCron[c].step = "page" /\ Page(x, cursor) # {} /\ Runs(c, next)
  BY DEF ReadPage, AssetOf
<1>3. p \in DOMAIN daoProposals /\ cursor \in Nat
  BY <1>2 DEF DaoInv, RunsOK, RunOK
<1>4. x \in DaoAssets
  BY <1>3, Proposals DEF DaoInv
<1> HIDE DEF x, cursor
<1>5. Max(Page(x, cursor)) \in Nat /\ Powers(rows)
  BY <1>2, <1>3, <1>4, RowsRead DEF DaoInv
<1> HIDE DEF rows, p
<1>6. next.step = "insert" /\ next.proposal \in DOMAIN daoProposals
      /\ next.cursor \in Nat /\ Powers(next.rows)
  BY <1>3, <1>5
<1> HIDE DEF next
<1>7. RunOK(next)
  BY <1>6 DEF RunOK
<1> QED BY <1>1, <1>2, <1>7, RunGoes

LEMMA IdleIsOK == RunOK(DaoIdle)
BY DEF RunOK, DaoIdle

LEMMA RunEnds ==
  ASSUME DaoInv, NEW c \in DaoCrons, EndSnapshot(c) \/ DaoRestart(c)
  PROVE  DaoInv'
<1>1. UNCHANGED <<daoTables, daoRequest, counted, daoExecuted, raced>> /\ Runs(c, DaoIdle)
  BY DEF EndSnapshot, DaoRestart, cronUnchanged, daoTables, daoHistory
<1> QED BY <1>1, IdleIsOK, RunGoes

LEMMA PickEndedHolds ==
  ASSUME DaoInv, NEW c \in DaoCrons, PickEnded(c)
  PROVE  DaoInv'
<1>1. UNCHANGED <<daoTables, daoRequest, counted, daoExecuted, raced>>
  BY DEF PickEnded, cronUnchanged, daoTables, daoHistory
<1>2. CASE Ended(daoCron[c].time) = {}
  BY <1>1, <1>2, IdleIsOK, RunGoes DEF PickEnded
<1>3. CASE Ended(daoCron[c].time) # {}
  <2>1. PICK p \in Ended(daoCron[c].time) : Runs(c, [step |-> "sumFor", proposal |-> p])
    BY <1>3 DEF PickEnded
  <2>2. RunOK([step |-> "sumFor", proposal |-> p])
    BY DEF RunOK, Ended
  <2> QED BY <1>1, <2>1, <2>2, RunGoes
<1> QED BY <1>2, <1>3

LEMMA SumForHolds ==
  ASSUME DaoInv, NEW c \in DaoCrons, SumFor(c)
  PROVE  DaoInv'
<1> DEFINE p == daoCron[c].proposal
           next == [step |-> "sumAll", proposal |-> p, forPower |-> PowerFor(votes[p])]
<1>1. UNCHANGED <<daoTables, daoRequest, counted, daoExecuted, raced>> /\ Runs(c, next)
  BY DEF SumFor, cronUnchanged, daoTables, daoHistory
<1>2. p \in DOMAIN daoProposals /\ p \in DaoIds
  BY Proposals DEF SumFor, DaoInv, RunsOK, RunOK
<1>3. PowerFor(votes[p]) \in Int
  BY <1>2, PowersSummed DEF DaoInv, TablesOK
<1> HIDE DEF p
<1>4. next.step = "sumAll" /\ next.proposal = p /\ next.forPower = PowerFor(votes[p])
  OBVIOUS
<1> HIDE DEF next
<1>5. RunOK(next)
  BY <1>2, <1>3, <1>4 DEF RunOK
<1> QED BY <1>1, <1>5, RunGoes

\* A vote that has come since the first sum only adds to the second one and to
\* the votes for the proposal, so that what passes has the majority of the votes
\* there are now.
LEMMA SumAllHolds ==
  ASSUME DaoInv, NEW c \in DaoCrons, SumAll(c)
  PROVE  DaoInv'
<1> DEFINE p == daoCron[c].proposal
           vs == votes[p]
           f == daoCron[c].forPower
           passes == Passes(f, PowerOf(vs), SupplyOf(AssetOf(p)))
           next == [step |-> "decide", proposal |-> p, votes |-> vs, passes |-> passes]
<1>1. UNCHANGED <<daoTables, daoRequest, counted, daoExecuted, raced>> /\ Runs(c, next)
  BY DEF SumAll, cronUnchanged, daoTables, daoHistory, AssetOf
<1>2. p \in DOMAIN daoProposals /\ p \in DaoIds /\ AssetOf(p) \in DaoAssets
      /\ f \in Int /\ f <= PowerFor(vs)
  BY Proposals DEF SumAll, DaoInv, RunsOK, RunOK
<1>3. Powers(powers[p]) /\ WeighedBy(vs, powers[p])
  BY <1>2 DEF DaoInv, TablesOK
<1>4. PowerFor(vs) \in Int /\ PowerOf(vs) \in Int /\ SupplyOf(AssetOf(p)) \in Int
  BY <1>2, <1>3, PowersSummed, SupplyCounted DEF DaoInv
<1> HIDE DEF p, vs, f
<1>5. passes => MajorityIn(vs, p)
  BY <1>2, <1>4, PassesWithMore DEF MajorityIn
<1> HIDE DEF passes
<1>6. next.step = "decide" /\ next.proposal = p /\ next.votes = vs /\ next.passes = passes
  OBVIOUS
<1> HIDE DEF next
<1>7. RunOK(next)
  BY <1>2, <1>3, <1>5, <1>6 DEF RunOK
<1> QED BY <1>1, <1>7, RunGoes

\* Trading moves tokens and keeps the supply.
LEMMA MoveHolds ==
  ASSUME DaoInv, NEW x \in DaoAssets, NEW from \in DaoHolders, NEW to \in DaoHolders,
         DaoMove(x, from, to)
  PROVE  DaoInv'
<1>1. UNCHANGED <<daoProposals, powers, votes, daoRequest, daoCron, counted, daoExecuted, raced>>
      /\ from # to /\ holding[x][from] > 0
      /\ holding' = [holding EXCEPT ![x][from] = @ - 1, ![x][to] = @ + 1]
  BY DEF DaoMove
<1>2. holding \in [DaoAssets -> [DaoHolders -> Nat]]
  BY DEF DaoInv, TablesOK
<1>3. PICK new : new = holding'[x]
  OBVIOUS
<1>4. PICK old : old = holding[x]
  OBVIOUS
<1>5. /\ old \in [DaoHolders -> Nat] /\ old[from] > 0
      /\ new = [[old EXCEPT ![from] = @ - 1] EXCEPT ![to] = @ + 1]
      /\ holding' = [holding EXCEPT ![x] = new]
  BY <1>1, <1>2, <1>3, <1>4
<1>6. new \in [DaoHolders -> Nat] /\ new[from] = old[from] - 1 /\ new[to] = old[to] + 1
      /\ \A h \in DaoHolders \ {from, to} : new[h] = old[h]
  BY <1>1, <1>5
<1>7. SumFunctionOnSet(new, DaoHolders) = SumFunctionOnSet(old, DaoHolders)
  <2>1. \A h \in DaoHolders : new[h] \in Int /\ old[h] \in Int
    BY <1>5, <1>6
  <2>2. 1 \in Int
    OBVIOUS
  <2> QED BY <1>1, <1>6, <2>1, <2>2, FiniteDao, SumMoved
<1>8. holding' \in [DaoAssets -> [DaoHolders -> Nat]] /\ \A y \in DaoAssets \ {x} : holding'[y] = holding[y]
  BY <1>2, <1>5, <1>6
<1>9. ASSUME NEW y \in DaoAssets
      PROVE  SupplyOf(y)' = SupplyOf(y)
  <2>1. CASE y = x
    BY <1>3, <1>4, <1>7, <2>1 DEF SupplyOf
  <2>2. CASE y # x
    BY <1>8, <2>2 DEF SupplyOf
  <2> QED BY <2>1, <2>2
<1>10. TablesOK'
  BY <1>1, <1>8 DEF DaoInv, TablesOK
<1>11. Stays
  BY <1>1, <1>9 DEF Stays, Grown, AssetOf
<1>12. RequestsOK' /\ RunsOK'
  BY <1>1, <1>10, <1>11, RequestsStay, RunsStay DEF DaoInv
<1>13. CountsOK'
  <2>1. ASSUME NEW p \in DOMAIN daoProposals
        PROVE  Majority(p)' = Majority(p)
    <3>1. AssetOf(p) \in DaoAssets
      BY Proposals DEF DaoInv
    <3>2. PICK y \in DaoAssets : y = AssetOf(p)
      BY <3>1
    <3>3. SupplyOf(y)' = SupplyOf(y) /\ y = daoProposals[p].asset /\ y = daoProposals'[p].asset
      BY <1>1, <1>9, <3>2 DEF AssetOf
    <3> QED BY <1>1, <3>3 DEF Majority, SupplyOf
  <2> QED BY <1>1, <2>1 DEF DaoInv, CountsOK
<1> QED BY <1>10, <1>12, <1>13 DEF DaoInv

LEMMA ReadForExecuteHolds ==
  ASSUME DaoInv, NEW r \in DaoRequests, NEW p \in DaoIds, ReadForExecute(r, p)
  PROVE  DaoInv'
<1> DEFINE next == [step |-> "execute", proposal |-> p]
<1>1. UNCHANGED <<daoTables, daoCron, counted, daoExecuted, raced>> /\ Asks(r, next)
  BY DEF ReadForExecute, daoHistory
<1>2. p \in DOMAIN counted
  BY DEF ReadForExecute, DaoInv, CountsOK
<1>3. next.step = "execute" /\ next.proposal = p
  OBVIOUS
<1> HIDE DEF next
<1> QED BY <1>1, <1>2, <1>3, RequestAsks

LEMMA CallHolds ==
  ASSUME DaoInv, NEW r \in DaoRequests, CallContract(r)
  PROVE  DaoInv'
<1>1. UNCHANGED <<daoTables, daoCron, counted, daoExecuted, raced>> /\ Asks(r, DaoIdle)
  BY DEF CallContract, daoHistory
<1>2. DaoIdle.step # "vote" /\ DaoIdle.step # "execute"
  BY DEF DaoIdle
<1> QED BY <1>1, <1>2, RequestAsks

LEMMA DaoStepHolds ==
  ASSUME DaoInv, [DaoNext]_daoVars
  PROVE  DaoInv'
<1>1. CASE UNCHANGED daoVars
  BY <1>1, DaoRests DEF daoVars, daoHistory
<1>2. CASE RequestNext
  <2>1. CASE \E x \in DaoAssets, s, e \in 0 .. MaxTime, i \in ChainIds, kind \in {"GENERAL", "INCREASE"} :
               CreateProposal(x, s, e, kind, i)
    BY <2>1, CreateHolds
  <2>2. CASE \E r \in DaoRequests, p \in DaoIds :
               \/ \E u \in DaoHolders, isFor \in BOOLEAN : ReadForVote(r, p, u, isFor)
               \/ ReadForExecute(r, p)
    BY <2>2, ReadForVoteHolds, ReadForExecuteHolds
  <2>3. CASE \E r \in DaoRequests : CreateVote(r) \/ WriteExecuted(r) \/ CallContract(r)
    BY <2>3, CreateVoteHolds, WriteExecutedHolds, CallHolds
  <2> QED BY <1>2, <2>1, <2>2, <2>3 DEF RequestNext
<1>3. CASE CronNext
  <2>1. PICK c \in DaoCrons : CronStep(c) \/ DaoRestart(c)
    BY <1>3 DEF CronNext
  <2>2. CASE StartRun(c) \/ ReadPage(c) \/ InsertPage(c)
    BY <2>2, StartRunHolds, ReadPageHolds, InsertHolds
  <2>3. CASE EndSnapshot(c) \/ DaoRestart(c)
    BY <2>3, RunEnds
  <2>4. CASE PickEnded(c) \/ SumFor(c) \/ SumAll(c) \/ Decide(c)
    BY <2>4, PickEndedHolds, SumForHolds, SumAllHolds, DecideHolds
  <2> QED BY <2>1, <2>2, <2>3, <2>4 DEF CronStep
<1>4. CASE \E x \in DaoAssets, from, to \in DaoHolders : DaoMove(x, from, to)
  BY <1>4, MoveHolds
<1>5. CASE (Tick \/ OwnerNext) /\ UNCHANGED backend
  BY <1>5, DaoRests DEF backend, daoHistory
<1> QED BY <1>1, <1>2, <1>3, <1>4, <1>5 DEF DaoNext

LEMMA CountedByMajority ==
  ASSUME DaoInv
  PROVE  PassedByMajority
<1>1. \A p \in DaoIds : daoExecuted[p] > 0 => p \in DOMAIN counted
  BY DEF DaoInv, CountsOK
<1>2. ASSUME NEW p \in DOMAIN counted
      PROVE  /\ \A u \in DOMAIN counted[p] : counted[p][u].power = powers[p][u]
             /\ daoProposals[p].status \in {"PASSED", "EXECUTED"} => Majority(p) \/ p \in raced
             /\ daoExecuted[p] <= 1 \/ p \in raced
  <2>1. WeighedBy(counted[p], powers[p]) /\ p \in DOMAIN daoProposals
    BY DEF DaoInv, CountsOK
  <2>2. CASE p \in raced
    BY <2>1, <2>2 DEF WeighedBy, IsVote
  <2>3. CASE p \notin raced
    <3>1. /\ daoProposals[p].status \in {"PASSED", "EXECUTED"} => Majority(p)
          /\ daoExecuted[p] = IF daoProposals[p].status = "EXECUTED" THEN 1 ELSE 0
      BY <2>1, <2>3 DEF DaoInv, CountsOK
    <3>2. daoExecuted[p] <= 1
      BY <3>1
    <3> QED BY <2>1, <3>1, <3>2 DEF WeighedBy, IsVote
  <2> QED BY <2>2, <2>3
<1> QED BY <1>1, <1>2 DEF PassedByMajority

\* In every behaviour of any number of backends, requests and holders: votes
\* are counted with the power of the snapshot, what has passed had the quorum
\* and the majority of the votes there were at the count, and what is executed
\* was counted and is executed once, but for proposals whose status was written
\* over one that had changed since it was read.
THEOREM PassedHadMajority == DaoSpec => []PassedByMajority
<1>1. DaoInit => DaoInv
  BY DaoStarts
<1>2. DaoInv /\ [DaoNext]_daoVars => DaoInv'
  BY DaoStepHolds
<1>3. DaoInv => PassedByMajority
  BY CountedByMajority
<1> QED BY <1>1, <1>2, <1>3, PTL DEF DaoSpec

------------------------------------------------------------------------------
(***************************************************************************)
(* Whole snapshots                                                         *)
(***************************************************************************)
Hold(p) == holding[AssetOf(p)]

\* While no token has moved since a run began with a proposal, what has been
\* written is what is held, by holders of something, and so is what an earlier
\* run has found when it was over.
Current(p) ==
  /\ \A h \in DOMAIN powers[p] : powers[p][h] = Hold(p)[h] /\ Hold(p)[h] > 0
  /\ p \in DOMAIN held => \A h \in DaoHolders : held[p][h] = Hold(p)[h]

\* A snapshot that is over and has no row is one of an asset nobody holds: the
\* next run that takes it up finds nothing either.
Empty(p) == powers[p] = NoFunction => \A h \in DaoHolders : Hold(p)[h] = 0

\* A run has read all holders up to its cursor, and will write what it has read.
Pages(q) == q.step \in {"page", "insert"}
ReadTo(q) ==
  /\ \A h \in DaoHolders : h <= q.cursor /\ Hold(q.proposal)[h] > 0
       => h \in DOMAIN powers[q.proposal] \/ (q.step = "insert" /\ h \in DOMAIN q.rows)
  /\ q.step = "insert" => \A h \in DOMAIN q.rows : q.rows[h] = Hold(q.proposal)[h] /\ q.rows[h] > 0

HeldOK ==
  /\ DOMAIN held \subseteq DOMAIN daoProposals
  /\ \A p \in DOMAIN held : \A h \in DaoHolders : held[p][h] \in Nat

WholeInv ==
  /\ HeldOK /\ SnapshotIsWhole
  /\ \A p \in Snapshotting \ moved : Current(p)
  /\ \A p \in DOMAIN held \ moved : Empty(p)
  /\ \A c \in DaoCrons : Pages(daoCron[c]) /\ daoCron[c].proposal \notin moved => ReadTo(daoCron[c])

AssetsStay == \A p \in DOMAIN daoProposals : p \in DOMAIN daoProposals' /\ AssetOf(p)' = AssetOf(p)

LEMMA DaoAssetsStay ==
  ASSUME DaoInv, [DaoNext]_daoVars
  PROVE  AssetsStay
<1>1. CASE UNCHANGED daoProposals
  BY <1>1 DEF AssetsStay, AssetOf
<1>2. ASSUME NEW row, daoProposals' = Append(daoProposals, row)
      PROVE  AssetsStay
  BY <1>2, Proposals DEF AssetsStay, AssetOf, DaoInv, TablesOK
<1>3. ASSUME NEW p \in DOMAIN daoProposals, NEW status \in {"PASSED", "REJECTED", "EXECUTED"},
             SetStatus(p, status), UNCHANGED <<powers, votes, holding>>
      PROVE  AssetsStay
  BY <1>3, StatusSet DEF AssetsStay, DaoInv
<1>4. CASE RequestNext
  <2>1. CASE \E x \in DaoAssets, s, e \in 0 .. MaxTime, i \in ChainIds, kind \in {"GENERAL", "INCREASE"} :
               CreateProposal(x, s, e, kind, i)
    BY <1>2, <2>1 DEF CreateProposal
  <2>2. ASSUME NEW r \in DaoRequests, WriteExecuted(r)
        PROVE  AssetsStay
    <3>1. daoRequest[r].proposal \in DOMAIN daoProposals
      BY <2>2 DEF WriteExecuted, DaoInv, RequestsOK, RequestOK, CountsOK
    <3> QED BY <1>3, <2>2, <3>1 DEF WriteExecuted
  <2>3. CASE \E r \in DaoRequests, p \in DaoIds :
               \/ \E u \in DaoHolders, isFor \in BOOLEAN : ReadForVote(r, p, u, isFor)
               \/ ReadForExecute(r, p)
    BY <1>1, <2>3 DEF ReadForVote, ReadForExecute, daoTables
  <2>4. CASE \E r \in DaoRequests : CreateVote(r) \/ CallContract(r)
    BY <1>1, <2>4 DEF CreateVote, CallContract, daoTables
  <2> QED BY <1>4, <2>1, <2>2, <2>3, <2>4 DEF RequestNext
<1>5. CASE CronNext
  <2>1. PICK c \in DaoCrons : CronStep(c) \/ DaoRestart(c)
    BY <1>5 DEF CronNext
  <2>2. CASE Decide(c)
    <3>1. daoCron[c].proposal \in DOMAIN daoProposals
      BY <2>2 DEF Decide, DaoInv, RunsOK, RunOK
    <3>2. PICK status \in {"PASSED", "REJECTED"} : SetStatus(daoCron[c].proposal, status)
      BY <2>2 DEF Decide
    <3> QED BY <1>3, <2>2, <3>1, <3>2 DEF Decide, cronUnchanged
  <2>3. CASE ~ Decide(c)
    BY <1>1, <2>1, <2>3 DEF CronStep, DaoRestart, StartRun, ReadPage, InsertPage, EndSnapshot, PickEnded,
       SumFor, SumAll, daoTables
  <2> QED BY <2>2, <2>3
<1>6. CASE \E x \in DaoAssets, from, to \in DaoHolders : DaoMove(x, from, to)
  BY <1>1, <1>6 DEF DaoMove
<1>7. CASE UNCHANGED daoVars \/ ((Tick \/ OwnerNext) /\ UNCHANGED backend)
  BY <1>1, <1>7 DEF daoVars, backend, daoTables
<1> QED BY <1>4, <1>5, <1>6, <1>7 DEF DaoNext

\* The proposals that runs have taken up.
LEMMA TakenUp ==
  ASSUME DaoInv
  PROVE  /\ \A p : p \in Snapshotting
              <=> \E c \in DaoCrons : Pages(daoCron[c]) /\ p = daoCron[c].proposal
         /\ Snapshotting \subseteq DOMAIN daoProposals
<1>1. \A p : p \in Snapshotting <=> \E c \in DaoCrons : Pages(daoCron[c]) /\ p = daoCron[c].proposal
  BY DEF Snapshotting, Pages
<1>2. \A c \in DaoCrons : Pages(daoCron[c]) => daoCron[c].proposal \in DOMAIN daoProposals
  BY DEF DaoInv, RunsOK, RunOK, Pages
<1> QED BY <1>1, <1>2

LEMMA TakenUpNext ==
  \A p : p \in Snapshotting' <=> \E c \in DaoCrons : Pages(daoCron'[c]) /\ p = daoCron'[c].proposal
BY DEF Snapshotting, Pages

\* Steps that touch neither powers nor holdings, and start no run with a proposal.
LEMMA WholeRests ==
  ASSUME DaoInv, WholeInv, AssetsStay, UNCHANGED <<powers, holding, held, moved>>,
         \A c \in DaoCrons : Pages(daoCron'[c]) => daoCron'[c] = daoCron[c]
  PROVE  WholeInv'
<1>1. \A p \in DOMAIN daoProposals : Hold(p)' = Hold(p)
  BY DEF AssetsStay, Hold
<1>2. Snapshotting' \subseteq Snapshotting /\ Snapshotting \subseteq DOMAIN daoProposals
  BY TakenUp, TakenUpNext
<1>3. HeldOK' /\ SnapshotIsWhole' /\ DOMAIN held \subseteq DOMAIN daoProposals
  BY DEF WholeInv, HeldOK, SnapshotIsWhole, AssetsStay
<1>4. ASSUME NEW p \in Snapshotting' \ moved'
      PROVE  Current(p)'
  <2>1. p \in Snapshotting \ moved /\ p \in DOMAIN daoProposals
    BY <1>2
  <2>2. Current(p)
    BY <2>1 DEF WholeInv
  <2> QED BY <1>1, <2>1, <2>2 DEF Current
<1>5. ASSUME NEW p \in DOMAIN held' \ moved'
      PROVE  Empty(p)'
  <2>1. p \in DOMAIN held \ moved /\ p \in DOMAIN daoProposals
    BY <1>3
  <2>2. Empty(p)
    BY <2>1 DEF WholeInv
  <2> QED BY <1>1, <2>1, <2>2 DEF Empty
<1>6. ASSUME NEW c \in DaoCrons, Pages(daoCron'[c]), daoCron'[c].proposal \notin moved'
      PROVE  ReadTo(daoCron[c])'
  <2>1. daoCron'[c] = daoCron[c]
    BY <1>6
  <2>2. PICK q : q = daoCron[c]
    OBVIOUS
  <2>3. ReadTo(q) /\ q.proposal \in DOMAIN daoProposals
    BY <1>6, <2>1, <2>2, TakenUp DEF WholeInv
  <2>4. ReadTo(q)'
    BY <1>1, <2>3 DEF ReadTo
  <2> QED BY <2>1, <2>2, <2>4 DEF ReadTo
<1> QED BY <1>3, <1>4, <1>5, <1>6 DEF WholeInv, Pages

\* The run of c is another one next, the others stay.
LEMMA OneRuns ==
  ASSUME DaoInv, NEW c \in DaoCrons, NEW next, Runs(c, next)
  PROVE  daoCron'[c] = next /\ \A d \in DaoCrons \ {c} : daoCron'[d] = daoCron[d]
BY DEF DaoInv, RunsOK, Runs

LEMMA OtherRunRests ==
  ASSUME DaoInv, WholeInv, AssetsStay, UNCHANGED <<powers, holding, held, moved>>,
         NEW c \in DaoCrons, NEW next, Runs(c, next), ~ Pages(next)
  PROVE  WholeInv'
BY OneRuns, WholeRests

LEMMA StartRunWhole ==
  ASSUME DaoInv, WholeInv, AssetsStay, NEW c \in DaoCrons, StartRun(c)
  PROVE  WholeInv'
<1>1. UNCHANGED <<powers, holding, held, moved, daoProposals>>
  BY DEF StartRun, cronUnchanged, daoHistory
<1>2. CASE Candidates(now) = {}
  <2>1. Runs(c, [step |-> "ended", time |-> now])
    BY <1>2 DEF StartRun
  <2>2. ~ Pages([step |-> "ended", time |-> now])
    BY DEF Pages
  <2> QED BY <1>1, <2>1, <2>2, OtherRunRests
<1>3. ASSUME NEW p \in Candidates(now), Runs(c, [step |-> "page", proposal |-> p, cursor |-> 0])
      PROVE  WholeInv'
  <2> DEFINE next == [step |-> "page", proposal |-> p, cursor |-> 0]
  <2>1. next.step = "page" /\ next.proposal = p /\ next.cursor = 0
    OBVIOUS
  <2>2. Runs(c, next)
    BY <1>3
  <2> HIDE DEF next
  <2>3. daoCron'[c] = next /\ \A d \in DaoCrons \ {c} : daoCron'[d] = daoCron[d]
    BY <2>2, OneRuns
  <2>4. powers[p] = NoFunction /\ p \in DOMAIN daoProposals
    BY DEF Candidates
  <2>5. Snapshotting' \subseteq Snapshotting \cup {p}
    <3>1. \A d \in DaoCrons : d = c \/ daoCron'[d] = daoCron[d]
      BY <2>3
    <3> QED BY <2>1, <2>3, <3>1, TakenUp, TakenUpNext
  <2>6. \A q : Hold(q)' = Hold(q)
    BY <1>1 DEF Hold, AssetOf
  <2>7. HeldOK' /\ SnapshotIsWhole'
    BY <1>1 DEF WholeInv, HeldOK, SnapshotIsWhole
  <2>8. ASSUME NEW q \in Snapshotting' \ moved'
        PROVE  Current(q)'
    <3>1. CASE q \in Snapshotting
      <4>1. Current(q)
        BY <1>1, <3>1 DEF WholeInv
      <4> QED BY <1>1, <2>6, <4>1 DEF Current
    <3>2. CASE q = p
      <4>1. DOMAIN powers[q] = {}
        BY <2>4, <3>2, EmptyFunction
      <4>2. ASSUME q \in DOMAIN held, NEW h \in DaoHolders
            PROVE  held[q][h] = Hold(q)[h]
        <5>1. Empty(q) /\ q \in DOMAIN held \ moved
          BY <1>1, <4>2 DEF WholeInv
        <5>2. Hold(q)[h] = 0
          BY <2>4, <3>2, <5>1 DEF Empty
        <5>3. ~ held[q][h] > 0 /\ held[q][h] \in Nat
          BY <4>1, <5>1 DEF WholeInv, SnapshotIsWhole, HeldOK
        <5> QED BY <5>2, <5>3
      <4> QED BY <1>1, <2>6, <4>1, <4>2 DEF Current
    <3> QED BY <2>5, <3>1, <3>2
  <2>9. ASSUME NEW q \in DOMAIN held' \ moved'
        PROVE  Empty(q)'
    <3>1. Empty(q)
      BY <1>1 DEF WholeInv
    <3> QED BY <1>1, <2>6, <3>1 DEF Empty
  <2>10. ASSUME NEW d \in DaoCrons, Pages(daoCron'[d]), daoCron'[d].proposal \notin moved'
         PROVE  ReadTo(daoCron[d])'
    <3>1. PICK q : q = daoCron'[d]
      OBVIOUS
    <3>2. CASE d = c
      <4>1. q = next
        BY <2>3, <3>1, <3>2
      <4>2. \A h \in DaoHolders : ~ h <= 0
        BY DaoAssumption
      <4> QED BY <2>1, <3>1, <4>1, <4>2 DEF ReadTo
    <3>3. CASE d # c
      <4>1. ReadTo(q)
        BY <1>1, <2>3, <2>10, <3>1, <3>3 DEF WholeInv
      <4>2. ReadTo(q)'
        BY <1>1, <2>6, <4>1 DEF ReadTo
      <4> QED BY <3>1, <4>2 DEF ReadTo
    <3> QED BY <3>2, <3>3
  <2> QED BY <2>7, <2>8, <2>9, <2>10 DEF WholeInv, Pages
<1> QED BY <1>2, <1>3 DEF StartRun

\* A step of a run that keeps the run with its proposal.
LEMMA ReadPageWhole ==
  ASSUME DaoInv, WholeInv, AssetsStay, NEW c \in DaoCrons, ReadPage(c)
  PROVE  WholeInv'
<1> DEFINE p == daoCron[c].proposal
           x == AssetOf(p)
           cursor == daoCron[c].cursor
           P == Page(x, cursor)
           rows == [h \in P |-> holding[x][h]]
           next == [step |-> "insert", proposal |-> p, cursor |-> Max(P), rows |-> rows]
<1>1. UNCHANGED <<powers, holding, held, moved, daoProposals>>
  BY DEF ReadPage, cronUnchanged, daoHistory
<1>2. daoCron[c].step = "page" /\ P # {} /\ Runs(c, next)
  BY DEF ReadPage, AssetOf
<1>3. cursor \in Nat /\ Pages(daoCron[c])
  BY <1>2 DEF DaoInv, RunsOK, RunOK, Pages
<1> HIDE DEF x, cursor
<1>4. /\ P \subseteq Awaiting(x, cursor) /\ Max(P) \in P
      /\ \A h \in Awaiting(x, cursor) : h <= Max(P) => h \in P
  BY <1>2, <1>3, PageFound
<1> HIDE DEF P
<1>5. DOMAIN rows = P /\ \A h \in P : rows[h] = holding[x][h] /\ holding[x][h] > 0
  BY <1>4 DEF Awaiting
<1> HIDE DEF rows
<1>6. next.step = "insert" /\ next.proposal = p /\ next.cursor = Max(P) /\ next.rows = rows
  OBVIOUS
<1> HIDE DEF next, p
<1>7. daoCron'[c] = next /\ \A d \in DaoCrons \ {c} : daoCron'[d] = daoCron[d]
  BY <1>2, OneRuns
<1>8. \A q : Hold(q)' = Hold(q)
  BY <1>1 DEF Hold, AssetOf
<1>9. Snapshotting' \subseteq Snapshotting
  <2>1. \A d \in DaoCrons : d = c \/ daoCron'[d] = daoCron[d]
    BY <1>7
  <2>2. p \in Snapshotting
    BY <1>3, TakenUp DEF p
  <2> QED BY <1>6, <1>7, <2>1, <2>2, TakenUp, TakenUpNext
<1>10. HeldOK' /\ SnapshotIsWhole'
  BY <1>1 DEF WholeInv, HeldOK, SnapshotIsWhole
<1>11. ASSUME NEW q \in Snapshotting' \ moved'
       PROVE  Current(q)'
  <2>1. Current(q)
    BY <1>1, <1>9 DEF WholeInv
  <2> QED BY <1>1, <1>8, <2>1 DEF Current
<1>12. ASSUME NEW q \in DOMAIN held' \ moved'
       PROVE  Empty(q)'
  <2>1. Empty(q)
    BY <1>1 DEF WholeInv
  <2> QED BY <1>1, <1>8, <2>1 DEF Empty
<1>13. ASSUME NEW d \in DaoCrons, Pages(daoCron'[d]), daoCron'[d].proposal \notin moved'
       PROVE  ReadTo(daoCron[d])'
  <2>1. PICK q : q = daoCron'[d]
    OBVIOUS
  <2>2. CASE d = c
    <3>1. q = next
      BY <1>7, <2>1, <2>2
    <3>2. p \notin moved
      BY <1>1, <1>6, <1>13, <2>1, <3>1
    <3>3. ReadTo(daoCron[c])
      BY <1>3, <3>2 DEF WholeInv, p
    <3>4. \A h \in DaoHolders : h <= cursor /\ Hold(p)[h] > 0 => h \in DOMAIN powers[p]
      BY <1>2, <3>3 DEF ReadTo, p, cursor
    <3>5. ASSUME NEW h \in DaoHolders, h <= Max(P), Hold(p)[h] > 0
          PROVE  h \in DOMAIN powers[p] \/ h \in P
      <4>1. CASE h <= cursor
        BY <3>4, <3>5, <4>1
      <4>2. CASE h > cursor
        BY <1>4, <3>5, <4>2 DEF Awaiting, Hold, x
      <4> QED BY <1>3, <4>1, <4>2, FiniteDao
    <3>6. \A h \in P : rows[h] = Hold(p)[h] /\ rows[h] > 0
      BY <1>5 DEF Hold, x
    <3>7. q.step = "insert" /\ q.proposal = p /\ q.cursor = Max(P) /\ q.rows = rows
      BY <1>6, <3>1
    <3>8. \A h \in DaoHolders : h <= q.cursor /\ Hold(q.proposal)[h] > 0
            => h \in DOMAIN powers[q.proposal] \/ h \in DOMAIN q.rows
      BY <1>5, <3>5, <3>7
    <3>9. \A h \in DOMAIN q.rows : q.rows[h] = Hold(q.proposal)[h] /\ q.rows[h] > 0
      BY <1>5, <3>6, <3>7
    <3>10. ReadTo(q)
      BY <3>7, <3>8, <3>9 DEF ReadTo
    <3>11. ReadTo(q)'
      BY <1>1, <1>8, <3>10 DEF ReadTo
    <3> QED BY <2>1, <3>11 DEF ReadTo
  <2>3. CASE d # c
    <3>1. ReadTo(q)
      BY <1>1, <1>7, <1>13, <2>1, <2>3 DEF WholeInv
    <3>2. ReadTo(q)'
      BY <1>1, <1>8, <3>1 DEF ReadTo
    <3> QED BY <2>1, <3>2 DEF ReadTo
  <2> QED BY <2>2, <2>3
<1> QED BY <1>10, <1>11, <1>12, <1>13 DEF WholeInv, Pages

LEMMA InsertPageWhole ==
  ASSUME DaoInv, WholeInv, AssetsStay, NEW c \in DaoCrons, InsertPage(c)
  PROVE  WholeInv'
<1> DEFINE next == [step |-> "page", proposal |-> daoCron[c].proposal, cursor |-> daoCron[c].cursor]
<1>1. UNCHANGED <<holding, held, moved, daoProposals>>
  BY DEF InsertPage, cronUnchanged, daoHistory
<1>2. daoCron[c].step = "insert" /\ Runs(c, next)
      /\ powers' = [powers EXCEPT ![daoCron[c].proposal] = WithRows(@, daoCron[c].rows)]
  BY DEF InsertPage
<1>3. PICK p : p = daoCron[c].proposal
  OBVIOUS
<1>4. PICK rows : rows = daoCron[c].rows
  OBVIOUS
<1>5. next.step = "page" /\ next.proposal = p /\ next.cursor = daoCron[c].cursor
  BY <1>3
<1> HIDE DEF next
<1>6. p \in DOMAIN daoProposals /\ p \in DaoIds /\ Pages(daoCron[c])
  BY <1>2, <1>3, Proposals DEF DaoInv, RunsOK, RunOK, Pages
<1>7. powers' = [powers EXCEPT ![p] = WithRows(@, rows)] /\ powers = [q \in DaoIds |-> powers[q]]
  BY <1>2, <1>3, <1>4 DEF DaoInv, TablesOK
<1>8. /\ powers'[p] = WithRows(powers[p], rows)
      /\ \A q : q \in DaoIds /\ q # p => powers'[q] = powers[q]
  BY <1>6, <1>7
<1>9. /\ DOMAIN powers'[p] = DOMAIN powers[p] \cup DOMAIN rows
      /\ \A h \in DOMAIN powers[p] : powers'[p][h] = powers[p][h]
      /\ \A h \in DOMAIN rows \ DOMAIN powers[p] : powers'[p][h] = rows[h]
  BY <1>8 DEF WithRows
<1>10. /\ daoCron'[c] = next /\ \A d \in DaoCrons \ {c} : daoCron'[d] = daoCron[d]
  BY <1>2, OneRuns
<1>11. \A q : Hold(q)' = Hold(q)
  BY <1>1 DEF Hold, AssetOf
<1>12. Snapshotting' \subseteq Snapshotting /\ p \in Snapshotting
  <2>1. \A d \in DaoCrons : d = c \/ daoCron'[d] = daoCron[d]
    BY <1>10
  <2>2. p \in Snapshotting
    BY <1>3, <1>6, TakenUp
  <2> QED BY <1>5, <1>10, <2>1, <2>2, TakenUp, TakenUpNext
<1>13. p \notin moved => Current(p) /\ \A h \in DOMAIN rows : rows[h] = Hold(p)[h] /\ rows[h] > 0
  <2>1. p \notin moved => ReadTo(daoCron[c])
    BY <1>3, <1>6 DEF WholeInv
  <2> QED BY <1>2, <1>3, <1>4, <1>12, <2>1 DEF WholeInv, ReadTo
<1>14. \A q \in DaoIds : DOMAIN powers[q] \subseteq DOMAIN powers'[q]
  BY <1>8, <1>9
<1>15. HeldOK' /\ \A q \in DOMAIN held : q \in DaoIds
  BY <1>1, Proposals DEF WholeInv, HeldOK, DaoInv
<1>16. SnapshotIsWhole'
  <2>1. ASSUME NEW q \in DOMAIN held' \ moved', NEW h \in DaoHolders
        PROVE  IF held'[q][h] > 0 THEN h \in DOMAIN powers'[q] /\ powers'[q][h] = held'[q][h]
               ELSE h \notin DOMAIN powers'[q]
    <3>1. IF held[q][h] > 0 THEN h \in DOMAIN powers[q] /\ powers[q][h] = held[q][h]
          ELSE h \notin DOMAIN powers[q]
      BY <1>1 DEF WholeInv, SnapshotIsWhole
    <3>2. CASE q # p
      BY <1>1, <1>8, <1>15, <3>1, <3>2
    <3>3. CASE q = p
      <4>1. /\ held[p][h] = Hold(p)[h]
            /\ \A g \in DOMAIN rows : rows[g] = Hold(p)[g] /\ rows[g] > 0
        BY <1>1, <1>13, <3>3 DEF Current
      <4>2. CASE held[p][h] > 0
        BY <1>1, <1>9, <3>1, <3>3, <4>2
      <4>3. CASE ~ held[p][h] > 0
        <5>1. h \notin DOMAIN rows
          BY <4>1, <4>3
        <5> QED BY <1>1, <1>9, <3>1, <3>3, <4>3, <5>1
      <4> QED BY <4>2, <4>3
    <3> QED BY <3>2, <3>3
  <2> QED BY <2>1 DEF SnapshotIsWhole
<1>17. ASSUME NEW q \in Snapshotting' \ moved'
       PROVE  Current(q)'
  <2>1. Current(q) /\ q \in DaoIds
    BY <1>1, <1>12, TakenUp, Proposals DEF WholeInv, DaoInv
  <2>2. CASE q # p
    BY <1>1, <1>8, <1>11, <2>1, <2>2 DEF Current
  <2>3. CASE q = p
    <3>1. \A h \in DOMAIN powers'[p] : powers'[p][h] = Hold(p)[h] /\ Hold(p)[h] > 0
      BY <1>1, <1>9, <1>13, <2>1, <2>3 DEF Current
    <3> QED BY <1>1, <1>11, <2>1, <2>3, <3>1 DEF Current
  <2> QED BY <2>2, <2>3
<1>18. ASSUME NEW q \in DOMAIN held' \ moved'
       PROVE  Empty(q)'
  <2>1. Empty(q) /\ q \in DaoIds
    BY <1>1, <1>15 DEF WholeInv
  <2>2. ASSUME powers'[q] = NoFunction
        PROVE  powers[q] = NoFunction
    <3>1. DOMAIN powers[q] = {} /\ powers[q] = [h \in DOMAIN powers[q] |-> powers[q][h]]
      BY <1>14, <2>1, <2>2, EmptyFunction DEF DaoInv, TablesOK, Powers, IsFunction
    <3> QED BY <3>1 DEF NoFunction
  <2> QED BY <1>11, <2>1, <2>2 DEF Empty
<1>19. ASSUME NEW d \in DaoCrons, Pages(daoCron'[d]), daoCron'[d].proposal \notin moved'
       PROVE  ReadTo(daoCron[d])'
  <2>1. PICK q : q = daoCron'[d]
    OBVIOUS
  <2>2. CASE d = c
    <3>1. q = next
      BY <1>10, <2>1, <2>2
    <3>2. ReadTo(daoCron[c])
      BY <1>1, <1>3, <1>5, <1>6, <1>19, <2>1, <3>1 DEF WholeInv
    <3>3. \A h \in DaoHolders : h <= q.cursor /\ Hold(p)[h] > 0
            => h \in DOMAIN powers[p] \/ h \in DOMAIN rows
      BY <1>3, <1>4, <1>5, <3>1, <3>2 DEF ReadTo
    <3>4. \A h \in DaoHolders : h <= q.cursor /\ Hold(p)[h] > 0 => h \in DOMAIN powers'[p]
      BY <1>9, <3>3
    <3>5. q.step = "page" /\ q.proposal = p
      BY <1>5, <3>1
    <3>6. ReadTo(q)'
      BY <1>11, <3>4, <3>5 DEF ReadTo
    <3> QED BY <2>1, <3>6 DEF ReadTo
  <2>3. CASE d # c
    <3>1. daoCron[d] = q
      BY <1>10, <2>1, <2>3
    <3>2. ReadTo(q) /\ q.proposal \in DaoIds
      BY <1>1, <1>19, <2>1, <3>1, TakenUp, Proposals DEF WholeInv, DaoInv
    <3>3. ReadTo(q)'
      BY <1>11, <1>14, <3>2 DEF ReadTo
    <3> QED BY <2>1, <3>3 DEF ReadTo
  <2> QED BY <2>2, <2>3
<1> QED BY <1>15, <1>16, <1>17, <1>18, <1>19 DEF WholeInv, Pages

\* The page is empty: all holders are at or before the cursor.
LEMMA EndSnapshotWhole ==
  ASSUME DaoInv, WholeInv, AssetsStay, NEW c \in DaoCrons, EndSnapshot(c)
  PROVE  WholeInv'
<1>1. UNCHANGED <<powers, holding, moved, daoProposals>> /\ Runs(c, DaoIdle)
  BY DEF EndSnapshot, cronUnchanged
<1>2. PICK p : p = daoCron[c].proposal
  OBVIOUS
<1>3. PICK hs : hs = Hold(p)
  OBVIOUS
<1>4. /\ daoCron[c].step = "page" /\ Page(AssetOf(p), daoCron[c].cursor) = {}
      /\ held' = [q \in DOMAIN held \cup {p} |-> IF q = p THEN hs ELSE held[q]]
  BY <1>2, <1>3 DEF EndSnapshot, AssetOf, Hold
<1>5. p \in DOMAIN daoProposals /\ Pages(daoCron[c]) /\ daoCron[c].cursor \in Nat
  BY <1>2, <1>4 DEF DaoInv, RunsOK, RunOK, Pages
<1>6. DOMAIN held' = DOMAIN held \cup {p} /\ held'[p] = hs
      /\ \A q \in DOMAIN held \ {p} : held'[q] = held[q]
  BY <1>4
<1>7. p \in Snapshotting
  BY <1>2, <1>5, TakenUp
<1>8. daoCron'[c] = DaoIdle /\ \A d \in DaoCrons \ {c} : daoCron'[d] = daoCron[d]
  BY <1>1, OneRuns
<1>9. ~ Pages(DaoIdle)
  BY DEF Pages, DaoIdle
<1>10. Snapshotting' \subseteq Snapshotting
  BY <1>8, <1>9, TakenUp, TakenUpNext
<1>11. \A q : Hold(q)' = Hold(q)
  BY <1>1 DEF Hold, AssetOf
<1>12. \A h \in DaoHolders : hs[h] \in Nat
  BY <1>3, <1>5, Proposals DEF DaoInv, TablesOK, Hold
<1>13. HeldOK'
  BY <1>1, <1>5, <1>6, <1>12 DEF WholeInv, HeldOK
<1>14. ASSUME p \notin moved, NEW h \in DaoHolders
       PROVE  IF hs[h] > 0 THEN h \in DOMAIN powers[p] /\ powers[p][h] = hs[h]
              ELSE h \notin DOMAIN powers[p]
  <2>1. Current(p) /\ ReadTo(daoCron[c])
    BY <1>2, <1>5, <1>7, <1>14 DEF WholeInv
  <2>2. CASE hs[h] > 0
    <3>1. Awaiting(AssetOf(p), daoCron[c].cursor) = {}
      BY <1>4, <1>5, LastPage
    <3>2. ~ h > daoCron[c].cursor
      BY <1>3, <2>2, <3>1 DEF Awaiting, Hold
    <3>3. h <= daoCron[c].cursor
      BY <1>5, <3>2, FiniteDao
    <3>4. h \in DOMAIN powers[p]
      BY <1>2, <1>3, <1>4, <2>1, <2>2, <3>3 DEF ReadTo
    <3> QED BY <1>3, <2>1, <2>2, <3>4 DEF Current
  <2>3. CASE ~ hs[h] > 0
    BY <1>3, <2>1, <2>3 DEF Current
  <2> QED BY <2>2, <2>3
<1>15. SnapshotIsWhole'
  <2>1. ASSUME NEW q \in DOMAIN held' \ moved', NEW h \in DaoHolders
        PROVE  IF held'[q][h] > 0 THEN h \in DOMAIN powers'[q] /\ powers'[q][h] = held'[q][h]
               ELSE h \notin DOMAIN powers'[q]
    <3>1. CASE q = p
      BY <1>1, <1>6, <1>14, <3>1
    <3>2. CASE q # p
      BY <1>1, <1>6, <3>2 DEF WholeInv, SnapshotIsWhole
    <3> QED BY <3>1, <3>2
  <2> QED BY <2>1 DEF SnapshotIsWhole
<1>16. ASSUME NEW q \in Snapshotting' \ moved'
       PROVE  Current(q)'
  <2>1. Current(q)
    BY <1>1, <1>10 DEF WholeInv
  <2>2. q \in DOMAIN held' => \A h \in DaoHolders : held'[q][h] = Hold(q)[h]
    BY <1>3, <1>6, <2>1 DEF Current
  <2> QED BY <1>1, <1>11, <2>1, <2>2 DEF Current
<1>17. ASSUME NEW q \in DOMAIN held' \ moved'
       PROVE  Empty(q)'
  <2>1. CASE q = p
    <3>1. ASSUME powers[p] = NoFunction, NEW h \in DaoHolders
          PROVE  hs[h] = 0
      <4>1. ~ hs[h] > 0
        BY <1>1, <1>14, <1>17, <2>1, <3>1, EmptyFunction
      <4> QED BY <1>12, <4>1
    <3> QED BY <1>1, <1>3, <1>11, <2>1, <3>1 DEF Empty
  <2>2. CASE q # p
    <3>1. Empty(q)
      BY <1>1, <1>6, <2>2 DEF WholeInv
    <3> QED BY <1>1, <1>11, <3>1 DEF Empty
  <2> QED BY <2>1, <2>2
<1>18. ASSUME NEW d \in DaoCrons, Pages(daoCron'[d]), daoCron'[d].proposal \notin moved'
       PROVE  ReadTo(daoCron[d])'
  <2>1. PICK q : q = daoCron'[d]
    OBVIOUS
  <2>2. q = daoCron[d]
    BY <1>8, <1>9, <1>18, <2>1
  <2>3. ReadTo(q)
    BY <1>1, <1>18, <2>1, <2>2 DEF WholeInv
  <2>4. ReadTo(q)'
    BY <1>1, <1>11, <2>3 DEF ReadTo
  <2> QED BY <2>1, <2>4 DEF ReadTo
<1> QED BY <1>13, <1>15, <1>16, <1>17, <1>18 DEF WholeInv, Pages

\* Tokens move: the snapshots of the asset that runs have taken up are as they
\* may be, and an asset nobody holds has none to move.
LEMMA MoveWhole ==
  ASSUME DaoInv, WholeInv, AssetsStay, NEW x \in DaoAssets, NEW from \in DaoHolders,
         NEW to \in DaoHolders, DaoMove(x, from, to)
  PROVE  WholeInv'
<1>1. UNCHANGED <<daoProposals, powers, daoCron, held>> /\ holding[x][from] > 0
      /\ holding' = [holding EXCEPT ![x][from] = @ - 1, ![x][to] = @ + 1]
      /\ moved' = moved \cup {p \in Snapshotting : daoProposals[p].asset = x}
  BY DEF DaoMove
<1>2. \A y \in DaoAssets \ {x} : holding'[y] = holding[y]
  BY <1>1 DEF DaoInv, TablesOK
<1>3. Snapshotting' = Snapshotting
  BY <1>1 DEF Snapshotting
<1>4. ASSUME NEW p \in DOMAIN daoProposals, AssetOf(p) # x
      PROVE  Hold(p)' = Hold(p)
  <2>1. AssetOf(p) \in DaoAssets \ {x}
    BY <1>4, Proposals DEF DaoInv
  <2> QED BY <1>1, <1>2, <2>1 DEF Hold, AssetOf
<1>5. \A p \in Snapshotting \ moved' : p \notin moved /\ AssetOf(p) # x
  BY <1>1 DEF AssetOf
<1>6. HeldOK' /\ SnapshotIsWhole'
  BY <1>1 DEF WholeInv, HeldOK, SnapshotIsWhole
<1>7. ASSUME NEW p \in Snapshotting' \ moved'
      PROVE  Current(p)'
  <2>1. Current(p) /\ Hold(p)' = Hold(p)
    BY <1>3, <1>4, <1>5, <1>7, TakenUp DEF WholeInv
  <2> QED BY <1>1, <2>1 DEF Current
<1>8. ASSUME NEW p \in DOMAIN held' \ moved'
      PROVE  Empty(p)'
  <2>1. Empty(p) /\ p \in DOMAIN daoProposals
    BY <1>1 DEF WholeInv, HeldOK
  <2>2. CASE AssetOf(p) = x
    <3>1. powers[p] # NoFunction
      BY <1>1, <2>1, <2>2 DEF Empty, Hold
    <3> QED BY <1>1, <3>1 DEF Empty
  <2>3. CASE AssetOf(p) # x
    BY <1>1, <1>4, <2>1, <2>3 DEF Empty
  <2> QED BY <2>2, <2>3
<1>9. ASSUME NEW d \in DaoCrons, Pages(daoCron'[d]), daoCron'[d].proposal \notin moved'
      PROVE  ReadTo(daoCron[d])'
  <2>1. PICK q : q = daoCron[d]
    OBVIOUS
  <2>2. q.proposal \in Snapshotting \ moved'
    BY <1>1, <1>9, <2>1, TakenUp
  <2>3. ReadTo(q) /\ Hold(q.proposal)' = Hold(q.proposal)
    BY <1>1, <1>4, <1>5, <1>9, <2>1, <2>2, TakenUp DEF WholeInv
  <2>4. ReadTo(q)'
    BY <1>1, <2>3 DEF ReadTo
  <2> QED BY <1>1, <2>1, <2>4 DEF ReadTo
<1> QED BY <1>6, <1>7, <1>8, <1>9 DEF WholeInv, Pages

LEMMA WholeStepHolds ==
  ASSUME DaoInv, WholeInv, [DaoNext]_daoVars
  PROVE  WholeInv'
<1>1. AssetsStay
  BY DaoAssetsStay
<1>2. CASE UNCHANGED <<powers, holding, held, moved, daoCron>>
  BY <1>1, <1>2, WholeRests
<1>3. CASE RequestNext
  <2>1. \/ \E x, s, e, i, kind : CreateProposal(x, s, e, kind, i)
        \/ \E r, p, u, isFor : ReadForVote(r, p, u, isFor)
        \/ \E r, p : ReadForExecute(r, p)
        \/ \E r : CreateVote(r) \/ WriteExecuted(r) \/ CallContract(r)
    BY <1>3 DEF RequestNext
  <2>2. UNCHANGED <<powers, holding, held, moved, daoCron>>
    <3>1. CASE \E x, s, e, i, kind : CreateProposal(x, s, e, kind, i)
      BY <3>1 DEF CreateProposal, daoHistory
    <3>2. CASE \E r, p, u, isFor : ReadForVote(r, p, u, isFor)
      BY <3>2 DEF ReadForVote, daoTables, daoHistory
    <3>3. CASE \E r, p : ReadForExecute(r, p)
      BY <3>3 DEF ReadForExecute, daoTables, daoHistory
    <3>4. CASE \E r : CreateVote(r) \/ WriteExecuted(r) \/ CallContract(r)
      BY <3>4 DEF CreateVote, WriteExecuted, CallContract, daoTables, daoHistory
    <3> QED BY <2>1, <3>1, <3>2, <3>3, <3>4
  <2> QED BY <1>2, <2>2
<1>4. CASE CronNext
  <2>1. PICK c \in DaoCrons : CronStep(c) \/ DaoRestart(c)
    BY <1>4 DEF CronNext
  <2>2. CASE StartRun(c) \/ ReadPage(c) \/ InsertPage(c) \/ EndSnapshot(c)
    BY <1>1, <2>2, StartRunWhole, ReadPageWhole, InsertPageWhole, EndSnapshotWhole
  <2>3. CASE PickEnded(c) \/ SumFor(c) \/ SumAll(c) \/ Decide(c) \/ DaoRestart(c)
    <3>1. UNCHANGED <<powers, holding, held, moved>>
      BY <2>3 DEF PickEnded, SumFor, SumAll, Decide, DaoRestart, cronUnchanged, daoTables, daoHistory
    <3>2. PICK next : Runs(c, next) /\ ~ Pages(next)
      <4>1. CASE PickEnded(c)
        <5>1. CASE Ended(daoCron[c].time) = {}
          BY <4>1, <5>1 DEF PickEnded, Pages, DaoIdle
        <5>2. CASE Ended(daoCron[c].time) # {}
          <6>1. PICK p \in Ended(daoCron[c].time) : Runs(c, [step |-> "sumFor", proposal |-> p])
            BY <4>1, <5>2 DEF PickEnded
          <6>2. ~ Pages([step |-> "sumFor", proposal |-> p])
            BY DEF Pages
          <6> QED BY <6>1, <6>2
        <5> QED BY <5>1, <5>2
      <4>2. CASE SumFor(c)
        BY <4>2 DEF SumFor, Pages
      <4>3. CASE SumAll(c)
        BY <4>3 DEF SumAll, Pages
      <4>4. CASE Decide(c) \/ DaoRestart(c)
        BY <4>4 DEF Decide, DaoRestart, Pages, DaoIdle
      <4> QED BY <2>3, <4>1, <4>2, <4>3, <4>4
    <3> QED BY <1>1, <3>1, <3>2, OtherRunRests
  <2> QED BY <2>1, <2>2, <2>3 DEF CronStep
<1>5. CASE \E x \in DaoAssets, from, to \in DaoHolders : DaoMove(x, from, to)
  BY <1>1, <1>5, MoveWhole
<1>6. CASE UNCHANGED daoVars \/ ((Tick \/ OwnerNext) /\ UNCHANGED backend)
  BY <1>2, <1>6 DEF daoVars, backend, daoTables, daoHistory
<1> QED BY <1>3, <1>4, <1>5, <1>6 DEF DaoNext

LEMMA WholeStarts ==
  ASSUME DaoInit
  PROVE  WholeInv
<1>1. held = NoFunction /\ \A c \in DaoCrons : daoCron[c] = DaoIdle
  BY DEF DaoInit
<1>2. DOMAIN held = {} /\ ~ Pages(DaoIdle) /\ DaoIdle.step \notin {"page", "insert"}
  BY <1>1, EmptyFunction DEF Pages, DaoIdle
<1>3. Snapshotting = {}
  BY <1>1, <1>2 DEF Snapshotting
<1> QED BY <1>1, <1>2, <1>3 DEF WholeInv, HeldOK, SnapshotIsWhole

\* In every behaviour, whatever the size of the pages and however many backends
\* run the cron at once and restart: a snapshot that a run has brought to its end
\* gives every holder the power it held, and nobody else any, unless the tokens
\* moved while pages were read.
THEOREM SnapshotTakesAll == DaoSpec => []SnapshotIsWhole
<1>1. DaoInit => DaoInv /\ WholeInv
  BY DaoStarts, WholeStarts
<1>2. DaoInv /\ WholeInv /\ [DaoNext]_daoVars => DaoInv' /\ WholeInv'
  BY DaoStepHolds, WholeStepHolds
<1>3. WholeInv => SnapshotIsWhole
  BY DEF WholeInv
<1> QED BY <1>1, <1>2, <1>3, PTL DEF DaoSpec

------------------------------------------------------------------------------
(***************************************************************************)
(* Dividends                                                               *)
(***************************************************************************)
DistRow == [status : {"PENDING", "READY_FOR_CLAIM", "COMPLETED"}, due : BOOLEAN]
DivClaim == [amount : Nat, status : {"NONE", "PENDING", "CLAIMED"}]
Jobs == [dist : DistIds, user : Holders, left : Int]
Rewards == [dist : DistIds, user : Holders]

\* A run of processSnapshots that is in progress.
IsWalk(q) ==
  /\ q = [step |-> q.step, dist |-> q.dist, todo |-> q.todo, after |-> q.after, rows |-> q.rows,
          count |-> q.count]
  /\ q.step \in {"read", "insert", "queue"} /\ q.dist \in DistIds /\ q.todo \subseteq DistIds
  /\ q.after \in Nat /\ q.rows \subseteq Holders \X Nat

WalksTyped ==
  /\ holdings \in [Holders -> Nat]
  /\ distributions \in Seq(DistRow) /\ Len(distributions) <= Len(Totals)
  /\ snapshot = [r \in SnapshotRuns |-> snapshot[r]]
  /\ \A r \in SnapshotRuns : snapshot[r] = NoRun \/ IsWalk(snapshot[r])

ClaimsTyped == claims \in [DistIds -> [Holders -> DivClaim]] /\ paid \in [Holders -> Nat]

\* A request carries the amount of a claim that is there: amounts stay.
ClaimingOK(q) ==
  q.step = "claim" => /\ q.dist \in DistIds /\ q.user \in Holders /\ HasClaim(q.dist, q.user)
                      /\ q.amount = claims[q.dist][q.user].amount

ClaimingsOK ==
  claiming = [c \in ClaimClients |-> claiming[c]] /\ \A c \in ClaimClients : ClaimingOK(claiming[c])

\* While a distribution is being walked over, or left with claims to be walked
\* over again, its claims are the shares of what is held.
Taken(d) == d \in InSnapshot \cup Begun
SharesOK(d) == \A u \in Holders : HasClaim(d, u) => claims[d][u].amount = Share(d, u)
RowsAreShares(q) ==
  q.step = "insert" /\ q.dist \notin unsettled => \A row \in q.rows : row[2] = Share(q.dist, row[1])

SharesInv ==
  /\ SumFunctionOnSet(holdings, Holders) <= Supply
  /\ \A d \in DistIds \ unsettled : Claimed(d) <= Totals[d] /\ (Taken(d) => SharesOK(d))
  /\ \A r \in SnapshotRuns : RowsAreShares(snapshot[r])

\* A worker of the commissions that has taken a job.
IsWork(q) ==
  /\ q = [step |-> q.step, job |-> q.job, held |-> q.held]
  /\ q.step \in {"find", "create"} /\ q.job \in Jobs

QueueTyped ==
  /\ commissions \in Seq(Jobs) /\ rewards \in Seq(Rewards)
  /\ working = [w \in CommissionWorkers |-> working[w]]
  /\ \A w \in CommissionWorkers : working[w] = NoWork \/ IsWork(working[w])

\* Who will create a reward has found none of its claim and is the only one,
\* unless two had found none at a time.
ClaimOf(r) == <<r.dist, r.user>>
Creates(w) == working[w].step = "create" /\ ClaimOf(working[w].job) \notin foundTwice
CreatorsAlone ==
  \A w \in CommissionWorkers : Creates(w) =>
    /\ ~Rewarded(working[w].job)
    /\ \A v \in CommissionWorkers :
         Creates(v) /\ ClaimOf(working[v].job) = ClaimOf(working[w].job) => v = w

RewardInv == QueueTyped /\ CreatorsAlone /\ RewardedOnce
DivInv == ClaimsTyped /\ WalksTyped /\ ClaimingsOK /\ ClaimedIsCredited /\ SharesInv /\ RewardInv

LEMMA FiniteDividends ==
  /\ IsFiniteSet(Holders) /\ IsFiniteSet(DistIds) /\ DistIds = 1 .. Len(Totals) /\ Len(Totals) \in Nat
  /\ \A d \in DistIds : Totals[d] \in Nat
<1>1. DistIds = 1 .. Len(Totals) /\ Len(Totals) \in Nat
  BY DividendAssumption, LenProperties DEF DistIds
<1>2. \A d \in DistIds : Totals[d] \in Nat
  BY <1>1, DividendAssumption, ElementOfSeq
<1>3. IsFiniteSet(DistIds)
  BY <1>1, FS_Interval
<1> QED BY <1>1, <1>2, <1>3, DividendAssumption

LEMMA Distributions ==
  ASSUME WalksTyped
  PROVE  DOMAIN distributions \subseteq DistIds /\ \A d \in DOMAIN distributions : distributions[d] \in DistRow
<1>1. DOMAIN distributions = 1 .. Len(distributions) /\ Len(distributions) \in Nat
  BY LenProperties DEF WalksTyped
<1>2. DOMAIN distributions \subseteq DistIds
  BY <1>1, FiniteDividends DEF WalksTyped
<1>3. \A d \in DOMAIN distributions : distributions[d] \in DistRow
  BY <1>1, ElementOfSeq DEF WalksTyped
<1> QED BY <1>2, <1>3

\* The shares of all holders fit the amount of a distribution.
LEMMA SharesFit ==
  ASSUME NEW d \in DistIds, holdings \in [Holders -> Nat], SumFunctionOnSet(holdings, Holders) <= Supply
  PROVE  /\ \A u \in Holders : Share(d, u) \in Nat
         /\ SumFunctionOnSet([u \in Holders |-> Share(d, u)], Holders) <= Totals[d]
<1> DEFINE T == Totals[d]
           share == [u \in Holders |-> Share(d, u)]
           whole == [u \in Holders |-> Supply * share[u]]
           most == [u \in Holders |-> T * holdings[u]]
           A == SumFunctionOnSet(share, Holders)
           H == SumFunctionOnSet(holdings, Holders)
<1>1. T \in Nat /\ Supply \in Nat /\ Supply > 0 /\ IsFiniteSet(Holders)
  BY FiniteDividends, DividendAssumption
<1>2. ASSUME NEW u \in Holders
      PROVE  share[u] = Share(d, u) /\ share[u] \in Nat /\ Supply * share[u] <= T * holdings[u]
             /\ Supply * share[u] \in Int /\ T * holdings[u] \in Int
  <2>1. PICK h \in Nat : h = holdings[u]
    OBVIOUS
  <2> HIDE DEF T
  <2>2. PICK m \in Nat : m = T * h
    BY <1>1
  <2>3. m \div Supply \in Nat /\ Supply * (m \div Supply) <= m
    BY <1>1
  <2>4. share[u] = m \div Supply
    BY <2>1, <2>2 DEF Share, T
  <2> QED BY <2>1, <2>2, <2>3, <2>4, <1>1 DEF Share
<1> HIDE DEF T, share
<1>3. SumFunctionOnSet(whole, Holders) <= SumFunctionOnSet(most, Holders)
  <2>1. \A u \in Holders : whole[u] \in Int /\ most[u] \in Int /\ whole[u] <= most[u]
    BY <1>2
  <2> HIDE DEF whole, most
  <2> QED BY <1>1, <2>1, SumMonotonic
<1>4. SumFunctionOnSet(whole, Holders) = Supply * A
  <2>1. \A u \in Holders : share[u] \in Nat /\ whole[u] = Supply * share[u]
    BY <1>2
  <2> HIDE DEF whole
  <2> QED BY <1>1, <2>1, SumScaled
<1>5. SumFunctionOnSet(most, Holders) = T * H
  <2>1. \A u \in Holders : holdings[u] \in Nat /\ most[u] = T * holdings[u]
    OBVIOUS
  <2> HIDE DEF most
  <2> QED BY <1>1, <2>1, SumScaled
<1>6. A \in Int /\ H \in Int
  <2>1. \A u \in Holders : share[u] \in Int /\ holdings[u] \in Int
    BY <1>2
  <2> QED BY <1>1, <2>1, SumInt
<1> HIDE DEF A, H
<1>7. Supply * A <= T * H
  BY <1>3, <1>4, <1>5
<1>8. T * H <= T * Supply
  BY <1>1, <1>6 DEF H
<1>9. Supply * A <= T * Supply
  <2>1. T * H \in Int /\ Supply * A \in Int /\ T * Supply \in Int
    BY <1>1, <1>6
  <2> QED BY <1>7, <1>8, <2>1
<1>10. A <= T
  <2>1. SUFFICES ASSUME A >= T + 1
                 PROVE  FALSE
    BY <1>1, <1>6
  <2>2. Supply * A >= Supply * (T + 1)
    BY <1>1, <1>6, <2>1
  <2>3. Supply * (T + 1) = T * Supply + Supply
    BY <1>1
  <2>4. Supply * A \in Int /\ T * Supply \in Int
    BY <1>1, <1>6
  <2> QED BY <1>1, <1>9, <2>2, <2>3, <2>4
<1> QED BY <1>2, <1>10 DEF A, share, T

------------------------------------------------------------------------------
(***************************************************************************)
(* Commissions                                                             *)
(***************************************************************************)
LEMMA RewardedIs ==
  ASSUME QueueTyped, NEW job \in Jobs
  PROVE  Rewarded(job) <=> \E i \in DOMAIN rewards : ClaimOf(rewards[i]) = ClaimOf(job)
BY DEF Rewarded, ClaimOf

\* The invariant looks at no more than these.
LEMMA RewardsRest ==
  ASSUME RewardInv, commissions' \in Seq(Jobs), UNCHANGED <<rewards, working, foundTwice>>
  PROVE  RewardInv'
<1>1. QueueTyped'
  BY DEF RewardInv, QueueTyped, IsWork
<1>2. \A w \in CommissionWorkers : Creates(w)' <=> Creates(w)
  BY DEF Creates, ClaimOf
<1>3. CreatorsAlone' /\ RewardedOnce'
  BY <1>2 DEF RewardInv, CreatorsAlone, RewardedOnce, SameClaim, Rewarded, ClaimOf
<1> QED BY <1>1, <1>3 DEF RewardInv

LEMMA JobQueued ==
  ASSUME RewardInv, NEW d \in DistIds, NEW u \in Holders, UNCHANGED <<rewards, working, foundTwice>>,
         commissions' \in {commissions, Append(commissions, YieldJob(d, u))}
  PROVE  RewardInv'
<1>1. YieldJob(d, u) \in Jobs
  BY DividendAssumption DEF YieldJob, Jobs
<1>2. commissions \in Seq(Jobs)
  BY DEF RewardInv, QueueTyped
<1>3. Append(commissions, YieldJob(d, u)) \in Seq(Jobs)
  BY <1>1, <1>2, AppendProperties
<1> QED BY <1>2, <1>3, RewardsRest

LEMMA OneAppended ==
  ASSUME NEW S, NEW s \in Seq(S), NEW x \in S, NEW t, t = Append(s, x)
  PROVE  /\ t \in Seq(S) /\ Len(t) = Len(s) + 1 /\ t[Len(s) + 1] = x
         /\ \A i \in 1 .. Len(s) : t[i] = s[i]
BY AppendProperties

\* A worker that becomes idle, and the others as they were.
LEMMA WorkerIdles ==
  ASSUME QueueTyped, NEW w \in CommissionWorkers, working' = [working EXCEPT ![w] = NoWork]
  PROVE  /\ working' = [v \in CommissionWorkers |-> working'[v]]
         /\ \A v \in CommissionWorkers : working'[v] = NoWork \/ IsWork(working'[v])
         /\ working'[w] = NoWork /\ \A v \in CommissionWorkers \ {w} : working'[v] = working[v]
BY DEF QueueTyped

\* A worker becomes idle and creates nothing.
LEMMA NothingCreated ==
  ASSUME RewardInv, NEW w \in CommissionWorkers, working' = [working EXCEPT ![w] = NoWork],
         commissions' \in Seq(Jobs), UNCHANGED <<rewards, foundTwice>>
  PROVE  RewardInv'
<1>1. QueueTyped' /\ working'[w] = NoWork /\ \A v \in CommissionWorkers \ {w} : working'[v] = working[v]
  BY WorkerIdles DEF RewardInv, QueueTyped
<1>2. \A v \in CommissionWorkers : Creates(v)' => v # w /\ Creates(v)
  BY <1>1 DEF Creates, NoWork, ClaimOf
<1>3. CreatorsAlone'
  BY <1>1, <1>2 DEF RewardInv, CreatorsAlone, Rewarded, ClaimOf
<1> QED BY <1>1, <1>3 DEF RewardInv, RewardedOnce, SameClaim

\* A worker creates the reward and becomes idle.
LEMMA RewardCreated ==
  ASSUME RewardInv, NEW w \in CommissionWorkers, working[w].step = "create",
         rewards' = RewardsWith(working[w].job), working' = [working EXCEPT ![w] = NoWork],
         commissions' \in Seq(Jobs), UNCHANGED foundTwice
  PROVE  RewardInv'
<1> DEFINE job == working[w].job
           reward == [dist |-> job.dist, user |-> job.user]
           L == Len(rewards)
<1>1. working[w] # NoWork /\ job \in Jobs
  BY DEF RewardInv, QueueTyped, IsWork, NoWork
<1>2. reward \in Rewards /\ ClaimOf(reward) = ClaimOf(job)
  BY <1>1 DEF Jobs, Rewards, ClaimOf
<1>3. rewards' = Append(rewards, reward)
  BY DEF RewardsWith
<1> HIDE DEF job, reward
<1>4. rewards \in Seq(Rewards) /\ L \in Nat /\ DOMAIN rewards = 1 .. L
  BY LenProperties DEF RewardInv, QueueTyped
<1>5. /\ rewards' \in Seq(Rewards) /\ Len(rewards') = L + 1 /\ rewards'[L + 1] = reward
      /\ \A i \in 1 .. L : rewards'[i] = rewards[i]
  <2>1. PICK s \in Seq(Rewards), x \in Rewards : s = rewards /\ x = reward
    BY <1>2, <1>4
  <2>2. PICK new : new = rewards'
    OBVIOUS
  <2>3. new = Append(s, x)
    BY <1>3, <2>1, <2>2
  <2>4. /\ new \in Seq(Rewards) /\ Len(new) = Len(s) + 1 /\ new[Len(s) + 1] = x
        /\ \A i \in 1 .. Len(s) : new[i] = s[i]
    BY <2>3, OneAppended
  <2> QED BY <2>1, <2>2, <2>4
<1>6. DOMAIN rewards' = 1 .. (L + 1)
  BY <1>4, <1>5, LenProperties
<1>7. QueueTyped' /\ working'[w] = NoWork /\ \A v \in CommissionWorkers \ {w} : working'[v] = working[v]
  BY <1>5, WorkerIdles DEF RewardInv, QueueTyped
<1>8. ASSUME NEW i \in DOMAIN rewards'
      PROVE  \/ i \in DOMAIN rewards /\ rewards'[i] = rewards[i]
             \/ i = L + 1 /\ ClaimOf(rewards'[i]) = ClaimOf(job)
  BY <1>2, <1>4, <1>5, <1>6
<1>9. ClaimOf(job) \notin foundTwice => \A i \in DOMAIN rewards : ClaimOf(rewards[i]) # ClaimOf(job)
  <2>1. ClaimOf(job) \notin foundTwice => ~Rewarded(job)
    BY DEF RewardInv, CreatorsAlone, Creates, job
  <2> QED BY <1>1, <2>1, RewardedIs DEF RewardInv
<1>10. RewardedOnce'
  <2>1. SUFFICES ASSUME NEW i \in DOMAIN rewards', NEW k \in DOMAIN rewards',
                        ClaimOf(rewards'[i]) = ClaimOf(rewards'[k]), ClaimOf(rewards'[i]) \notin foundTwice
                 PROVE  i = k
    BY DEF RewardedOnce, SameClaim, ClaimOf
  <2>2. CASE i \in DOMAIN rewards /\ rewards'[i] = rewards[i] /\ k \in DOMAIN rewards /\ rewards'[k] = rewards[k]
    BY <2>1, <2>2 DEF RewardInv, RewardedOnce, SameClaim, ClaimOf
  <2>3. CASE i = L + 1 /\ ClaimOf(rewards'[i]) = ClaimOf(job)
    BY <1>4, <1>6, <1>8, <1>9, <2>1, <2>3
  <2>4. CASE k = L + 1 /\ ClaimOf(rewards'[k]) = ClaimOf(job)
    BY <1>4, <1>6, <1>8, <1>9, <2>1, <2>4
  <2> QED BY <1>8, <2>2, <2>3, <2>4
<1>11. ASSUME NEW v \in CommissionWorkers, Creates(v)'
       PROVE  v # w /\ Creates(v) /\ working'[v] = working[v] /\ ~Rewarded(working[v].job)'
  <2>1. v # w
    BY <1>7, <1>11 DEF Creates, NoWork
  <2>2. working'[v] = working[v] /\ Creates(v)
    BY <1>7, <1>11, <2>1 DEF Creates, ClaimOf
  <2>3. ClaimOf(working[v].job) # ClaimOf(job)
    BY <2>1, <2>2 DEF RewardInv, CreatorsAlone, Creates, job
  <2>4. working[v].job \in Jobs
    BY <2>2 DEF RewardInv, QueueTyped, IsWork, Creates, NoWork
  <2>5. \A i \in DOMAIN rewards : ClaimOf(rewards[i]) # ClaimOf(working[v].job)
    BY <2>2, <2>4, RewardedIs DEF RewardInv, CreatorsAlone
  <2>6. \A i \in DOMAIN rewards' : ClaimOf(rewards'[i]) # ClaimOf(working[v].job)
    BY <1>8, <2>3, <2>5
  <2>7. ~Rewarded(working[v].job)'
    BY <2>2, <2>6 DEF Rewarded, ClaimOf
  <2> QED BY <2>1, <2>2, <2>7
<1>12. CreatorsAlone'
  BY <1>11 DEF RewardInv, CreatorsAlone, Rewarded, ClaimOf
<1> QED BY <1>7, <1>10, <1>12 DEF RewardInv

\* A worker carries another record: it has taken a job, or its lock ran out.
LEMMA WorkCarried ==
  ASSUME RewardInv, NEW w \in CommissionWorkers, NEW q, IsWork(q), working' = [working EXCEPT ![w] = q],
         commissions' \in Seq(Jobs), UNCHANGED <<rewards, foundTwice>>,
         q.step = "create" => working[w].step = "create" /\ working[w].job = q.job
  PROVE  RewardInv'
<1>1. working'[w] = q /\ \A v \in CommissionWorkers \ {w} : working'[v] = working[v]
  BY DEF RewardInv, QueueTyped
<1>2. QueueTyped'
  BY <1>1 DEF RewardInv, QueueTyped, IsWork
<1>3. \A v \in CommissionWorkers : Creates(v)' => Creates(v) /\ working'[v].job = working[v].job
  BY <1>1 DEF Creates, ClaimOf
<1>4. CreatorsAlone'
  BY <1>3 DEF RewardInv, CreatorsAlone, Rewarded, ClaimOf
<1> QED BY <1>2, <1>4 DEF RewardInv, RewardedOnce, SameClaim

LEMMA TakeHolds ==
  ASSUME RewardInv, NEW w \in CommissionWorkers, TakeCommission(w)
  PROVE  RewardInv'
<1> DEFINE job == Head(commissions)
           q == [step |-> "find", job |-> job, held |-> TRUE]
<1>1. job \in Jobs /\ commissions' \in Seq(Jobs)
  BY HeadTailProperties DEF RewardInv, QueueTyped, TakeCommission
<1>2. IsWork(q) /\ q.step # "create"
  BY <1>1 DEF IsWork
<1>3. UNCHANGED <<rewards, foundTwice>> /\ working' \in {working, [working EXCEPT ![w] = q]}
  BY DEF TakeCommission
<1> HIDE DEF q
<1> QED BY <1>1, <1>2, <1>3, WorkCarried, RewardsRest

LEMMA FindHolds ==
  ASSUME RewardInv, NEW w \in CommissionWorkers, FindReward(w)
  PROVE  RewardInv'
<1> DEFINE job == working[w].job
<1>1. IsWork(working[w]) /\ job \in Jobs /\ commissions' \in Seq(Jobs) /\ UNCHANGED rewards
  BY DEF RewardInv, QueueTyped, FindReward, IsWork, NoWork
<1>2. CASE Rewarded(job)
  <2>1. working' = [working EXCEPT ![w] = NoWork] /\ UNCHANGED foundTwice
    BY <1>2 DEF FindReward
  <2> QED BY <1>1, <2>1, NothingCreated
<1>3. CASE ~Rewarded(job)
  <2>1. /\ working' = [working EXCEPT ![w].step = "create"]
        /\ foundTwice \subseteq foundTwice'
        /\ FoundNone(w, job) => ClaimOf(job) \in foundTwice'
    BY <1>3 DEF FindReward, ClaimOf
  <2>2. /\ working'[w] = [working[w] EXCEPT !.step = "create"]
        /\ \A v \in CommissionWorkers \ {w} : working'[v] = working[v]
    BY <2>1 DEF RewardInv, QueueTyped
  <2>3. IsWork(working'[w]) /\ working'[w].job = job
    BY <1>1, <2>2 DEF IsWork
  <2>4. QueueTyped'
    <3>1. working' = [v \in CommissionWorkers |-> working'[v]]
      BY <2>1 DEF RewardInv, QueueTyped
    <3>2. \A v \in CommissionWorkers : working'[v] = NoWork \/ IsWork(working'[v])
      BY <2>2, <2>3 DEF RewardInv, QueueTyped
    <3> QED BY <1>1, <3>1, <3>2 DEF RewardInv, QueueTyped
  <2>5. \A v \in CommissionWorkers \ {w} : Creates(v)' => Creates(v)
    BY <2>1, <2>2 DEF Creates, ClaimOf
  <2>6. ASSUME NEW v \in CommissionWorkers \ {w}, Creates(v)', Creates(w)'
        PROVE  ClaimOf(working'[v].job) # ClaimOf(job)
    <3>1. ClaimOf(job) \notin foundTwice'
      BY <2>3, <2>6 DEF Creates
    <3>2. working[v].step = "create" /\ working'[v].job = working[v].job
      BY <2>2, <2>6 DEF Creates
    <3> QED BY <2>1, <3>1, <3>2 DEF FoundNone, ClaimOf
  <2>7. \A v \in CommissionWorkers : Creates(v)' => ~Rewarded(working[v].job)
    BY <1>3, <2>5 DEF RewardInv, CreatorsAlone
  <2>8. \A v \in CommissionWorkers : working'[v].job = working[v].job
    BY <2>2, <2>3
  <2>9. CreatorsAlone'
    <3>1. ASSUME NEW v \in CommissionWorkers, NEW x \in CommissionWorkers, Creates(v)', Creates(x)',
                 ClaimOf(working'[x].job) = ClaimOf(working'[v].job)
          PROVE  x = v
      <4>1. CASE x # w /\ v # w
        BY <2>5, <2>8, <3>1, <4>1 DEF RewardInv, CreatorsAlone
      <4>2. CASE x = w \/ v = w
        BY <2>3, <2>6, <3>1, <4>2
      <4> QED BY <4>1, <4>2
    <3>2. \A v \in CommissionWorkers : Creates(v)' => ~Rewarded(working[v].job)'
      BY <1>1, <2>7, <2>8 DEF Rewarded
    <3> QED BY <2>8, <3>1, <3>2 DEF CreatorsAlone, ClaimOf, Rewarded
  <2>10. RewardedOnce'
    BY <1>1, <2>1 DEF RewardInv, RewardedOnce, SameClaim
  <2> QED BY <2>4, <2>9, <2>10 DEF RewardInv
<1> QED BY <1>2, <1>3

\* The queue after a worker has given its job back, or has not.
LEMMA GivenBack ==
  ASSUME RewardInv, NEW w \in CommissionWorkers, working[w] # NoWork,
         commissions' \in {commissions, Append(commissions, working[w].job),
                           Append(commissions, [working[w].job EXCEPT !.left = @ - 1])}
  PROVE  commissions' \in Seq(Jobs)
<1>1. working[w].job \in Jobs /\ commissions \in Seq(Jobs)
  BY DEF RewardInv, QueueTyped, IsWork
<1>2. [working[w].job EXCEPT !.left = @ - 1] \in Jobs
  BY <1>1 DEF Jobs
<1> QED BY <1>1, <1>2, AppendProperties

LEMMA Unheld ==
  ASSUME NEW s, NEW j, NEW h, NEW f
  PROVE  [[step |-> s, job |-> j, held |-> h] EXCEPT !.held = f] = [step |-> s, job |-> j, held |-> f]
OBVIOUS

LEMMA ThrowsHolds ==
  ASSUME RewardInv, NEW w \in CommissionWorkers, CommissionThrows(w) \/ CommissionStalls(w)
  PROVE  RewardInv'
<1>1. working[w] # NoWork /\ UNCHANGED foundTwice
  BY DEF CommissionThrows, CommissionStalls
<1>2. commissions' \in Seq(Jobs)
  BY <1>1, GivenBack DEF CommissionThrows, CommissionStalls
<1>3. CASE working' = [working EXCEPT ![w] = NoWork] /\ rewards' = rewards
  BY <1>1, <1>2, <1>3, NothingCreated
<1>4. CASE /\ working[w].step = "create" /\ rewards' = RewardsWith(working[w].job)
           /\ working' = [working EXCEPT ![w] = NoWork]
  BY <1>1, <1>2, <1>4, RewardCreated
<1>5. CASE working' = [working EXCEPT ![w].held = FALSE] /\ rewards' = rewards
  <2> DEFINE q == [step |-> working[w].step, job |-> working[w].job, held |-> FALSE]
  <2>1. PICK p : p = working[w] /\ IsWork(p)
    BY <1>1 DEF RewardInv, QueueTyped
  <2>2. [p EXCEPT !.held = FALSE] = q
    <3>1. PICK s, j, h : p = [step |-> s, job |-> j, held |-> h] /\ s = p.step /\ j = p.job
      BY <2>1 DEF IsWork
    <3>2. PICK f : f = FALSE
      OBVIOUS
    <3>3. [p EXCEPT !.held = f] = [step |-> s, job |-> j, held |-> f]
      BY <3>1, Unheld
    <3> QED BY <2>1, <3>1, <3>2, <3>3, Zenon
  <2>3. working' = [working EXCEPT ![w] = q]
    BY <1>5, <2>1, <2>2 DEF RewardInv, QueueTyped
  <2>4. IsWork(q) /\ q.step = working[w].step /\ q.job = working[w].job
    BY <2>1 DEF IsWork
  <2> HIDE DEF q
  <2> QED BY <1>1, <1>2, <1>5, <2>3, <2>4, WorkCarried
<1> QED BY <1>3, <1>4, <1>5 DEF CommissionThrows, CommissionStalls

LEMMA CommissionGoes ==
  ASSUME RewardInv, CommissionNext
  PROVE  RewardInv'
<1>1. CASE UpdateConfig
  BY <1>1, RewardsRest DEF UpdateConfig, RewardInv, QueueTyped
<1>2. ASSUME NEW w \in CommissionWorkers, CreateReward(w)
      PROVE  RewardInv'
  BY <1>2, RewardCreated DEF CreateReward, RewardInv, QueueTyped
<1> QED BY <1>1, <1>2, TakeHolds, FindHolds, ThrowsHolds DEF CommissionNext

------------------------------------------------------------------------------
(***************************************************************************)
(* Claims in cash                                                          *)
(***************************************************************************)
Credit(u, d) == IF claims[d][u].status = "CLAIMED" THEN claims[d][u].amount ELSE 0
CreditInv == ClaimsTyped /\ ClaimingsOK /\ ClaimedIsCredited

LEMMA CreditedIs ==
  ClaimedIsCredited
    <=> \A u \in Holders : paid[u] = SumFunctionOnSet([d \in DistIds |-> Credit(u, d)], DistIds)
BY DEF ClaimedIsCredited, Credit

LEMMA CreditRests ==
  ASSUME CreditInv, UNCHANGED <<claims, paid, claiming>>
  PROVE  CreditInv'
BY DEF CreditInv, ClaimsTyped, ClaimingsOK, ClaimingOK, HasClaim, ClaimedIsCredited

\* Requests come and go.
LEMMA ClaimingGoes ==
  ASSUME CreditInv, NEW c \in ClaimClients, NEW next, claiming' = [claiming EXCEPT ![c] = next],
         UNCHANGED <<claims, paid>>, ClaimingOK(next)
  PROVE  CreditInv'
<1>1. claiming' = [e \in ClaimClients |-> claiming'[e]] /\ claiming'[c] = next
      /\ \A e \in ClaimClients \ {c} : claiming'[e] = claiming[e]
  BY DEF CreditInv, ClaimingsOK
<1>2. \A e \in ClaimClients : ClaimingOK(claiming'[e])
  BY <1>1 DEF CreditInv, ClaimingsOK
<1>3. \A q : ClaimingOK(q)' <=> ClaimingOK(q)
  BY DEF ClaimingOK, HasClaim
<1>4. ASSUME NEW e \in ClaimClients
      PROVE  ClaimingOK(claiming[e])'
  <2>1. PICK q : q = claiming'[e]
    OBVIOUS
  <2>2. ClaimingOK(q)'
    BY <1>2, <1>3, <2>1
  <2> QED BY <2>1, <2>2 DEF ClaimingOK
<1> QED BY <1>1, <1>4 DEF CreditInv, ClaimsTyped, ClaimingsOK, ClaimedIsCredited

LEMMA NobodyClaims == ClaimingOK(NoClaiming)
BY DEF ClaimingOK, NoClaiming

LEMMA ReadClaimHolds ==
  ASSUME CreditInv, NEW c \in ClaimClients, NEW d \in DistIds, NEW u \in Holders, ReadClaim(c, d, u)
  PROVE  CreditInv'
<1> DEFINE next == [step |-> "claim", dist |-> d, user |-> u, amount |-> claims[d][u].amount]
<1>1. UNCHANGED <<claims, paid>> /\ HasClaim(d, u) /\ claiming' = [claiming EXCEPT ![c] = next]
  BY DEF ReadClaim
<1>2. next.dist = d /\ next.user = u /\ next.amount = claims[d][u].amount
  OBVIOUS
<1> HIDE DEF next
<1>3. ClaimingOK(next)
  BY <1>1, <1>2 DEF ClaimingOK
<1> QED BY <1>1, <1>3, ClaimingGoes

\* Claims that were there keep their amount.
Kept == \A d \in DistIds, u \in Holders : HasClaim(d, u) =>
          HasClaim(d, u)' /\ claims'[d][u].amount = claims[d][u].amount

LEMMA ClaimingsStay ==
  ASSUME ClaimingsOK, Kept, claiming' = [c \in ClaimClients |-> claiming'[c]],
         \A c \in ClaimClients : claiming'[c] \in {claiming[c], NoClaiming}
  PROVE  ClaimingsOK'
<1>1. ASSUME NEW c \in ClaimClients
      PROVE  ClaimingOK(claiming[c])'
  <2>1. PICK q : q = claiming'[c]
    OBVIOUS
  <2>2. ClaimingOK(q)
    BY <2>1, NobodyClaims DEF ClaimingsOK
  <2>3. ClaimingOK(q)'
    BY <2>2 DEF ClaimingOK, Kept
  <2> QED BY <2>1, <2>3 DEF ClaimingOK
<1> QED BY <1>1 DEF ClaimingsOK

\* The claim that is marked is the one whose amount is credited, and it was not
\* credited before.
LEMMA PostClaimHolds ==
  ASSUME CreditInv, NEW c \in ClaimClients, PostClaim(c)
  PROVE  CreditInv' /\ Kept /\ \A d \in DistIds, u \in Holders :
           (HasClaim(d, u)' <=> HasClaim(d, u)) /\ claims'[d][u].amount = claims[d][u].amount
<1> DEFINE e == claiming[c].dist
           v == claiming[c].user
           a == claiming[c].amount
<1>1. /\ claims' = [claims EXCEPT ![e][v].status = "CLAIMED"]
      /\ paid' = [paid EXCEPT ![v] = @ + a] /\ claims[e][v].status = "PENDING"
      /\ claiming' = [claiming EXCEPT ![c] = NoClaiming]
  BY DEF PostClaim, StillPending
<1>2. e \in DistIds /\ v \in Holders /\ HasClaim(e, v) /\ a = claims[e][v].amount
  BY DEF PostClaim, CreditInv, ClaimingsOK, ClaimingOK
<1> HIDE DEF e, v, a
<1>3. claims \in [DistIds -> [Holders -> DivClaim]] /\ paid \in [Holders -> Nat]
  BY DEF CreditInv, ClaimsTyped
<1>4. PICK old \in DivClaim : old = claims[e][v]
  BY <1>2, <1>3
<1>5. PICK new \in DivClaim : /\ new = [old EXCEPT !.status = "CLAIMED"]
                              /\ new.status = "CLAIMED" /\ new.amount = old.amount
  <2>1. old = [amount |-> old.amount, status |-> old.status] /\ old.amount \in Nat
    BY DEF DivClaim
  <2>2. [old EXCEPT !.status = "CLAIMED"] = [amount |-> old.amount, status |-> "CLAIMED"]
    BY <2>1
  <2>3. [amount |-> old.amount, status |-> "CLAIMED"] \in DivClaim
    BY <2>1 DEF DivClaim
  <2> QED BY <2>2, <2>3
<1>6. claims' = [claims EXCEPT ![e] = [claims[e] EXCEPT ![v] = new]]
  BY <1>1, <1>4, <1>5
<1>7. /\ claims' \in [DistIds -> [Holders -> DivClaim]] /\ claims'[e][v] = new
      /\ \A d \in DistIds, u \in Holders : d # e \/ u # v => claims'[d][u] = claims[d][u]
  BY <1>2, <1>3, <1>5, <1>6
<1>8. old.amount \in Nat /\ old.status = "PENDING" /\ new # NoClaim /\ a = old.amount
  BY <1>1, <1>2, <1>4, <1>5 DEF DivClaim, NoClaim
<1>9. /\ paid' \in [Holders -> Nat] /\ paid'[v] = paid[v] + a
      /\ \A u \in Holders \ {v} : paid'[u] = paid[u]
  BY <1>1, <1>2, <1>3, <1>8
<1>10. ASSUME NEW d \in DistIds, NEW u \in Holders
       PROVE  (HasClaim(d, u)' <=> HasClaim(d, u)) /\ claims'[d][u].amount = claims[d][u].amount
  <2>1. CASE d = e /\ u = v
    BY <1>2, <1>4, <1>5, <1>7, <1>8, <2>1 DEF HasClaim
  <2>2. CASE d # e \/ u # v
    BY <1>7, <2>2 DEF HasClaim
  <2> QED BY <2>1, <2>2
<1>11. Kept
  BY <1>10 DEF Kept
<1>12. ClaimingsOK'
  <2>1. claiming' = [f \in ClaimClients |-> claiming'[f]]
        /\ \A f \in ClaimClients : claiming'[f] \in {claiming[f], NoClaiming}
    BY <1>1 DEF CreditInv, ClaimingsOK
  <2> QED BY <1>11, <2>1, ClaimingsStay DEF CreditInv
<1>13. ASSUME NEW u \in Holders
       PROVE  paid'[u] = SumFunctionOnSet([d \in DistIds |-> Credit(u, d)'], DistIds)
  <2> DEFINE was == [d \in DistIds |-> Credit(u, d)]
             is == [d \in DistIds |-> Credit(u, d)']
  <2>1. paid[u] = SumFunctionOnSet(was, DistIds)
    BY CreditedIs DEF CreditInv
  <2>2. \A d \in DistIds : Credit(u, d) \in Int /\ Credit(u, d)' \in Int
    BY <1>3, <1>7 DEF Credit, DivClaim
  <2>3. \A d \in DistIds : was[d] = Credit(u, d) /\ is[d] = Credit(u, d)'
    OBVIOUS
  <2> HIDE DEF was, is
  <2>4. \A d \in DistIds : was[d] \in Int /\ is[d] \in Int
    BY <2>2, <2>3
  <2>5. CASE u = v
    <3>1. was[e] = 0 /\ is[e] = a
      BY <1>1, <1>2, <1>4, <1>5, <1>7, <1>8, <2>3, <2>5 DEF Credit
    <3>2. \A d \in DistIds \ {e} : is[d] = was[d]
      BY <1>7, <2>3 DEF Credit
    <3>3. SumFunctionOnSet(is, DistIds) = SumFunctionOnSet(was, DistIds) + is[e] - was[e]
      <4>1. IsFiniteSet(DistIds) /\ e \in DistIds
        BY <1>2, FiniteDividends
      <4>2. \A d \in DistIds : is[d] \in Int /\ was[d] \in Int
        BY <2>4
      <4> QED BY <3>2, <4>1, <4>2, SumChange
    <3>4. SumFunctionOnSet(was, DistIds) \in Int
      BY <2>4, FiniteDividends, SumInt
    <3>5. paid'[u] = SumFunctionOnSet(is, DistIds)
      BY <1>8, <1>9, <2>1, <2>5, <3>1, <3>3, <3>4
    <3> QED BY <3>5 DEF is
  <2>6. CASE u # v
    <3>1. \A d \in DistIds : is[d] = was[d]
      BY <1>7, <2>3, <2>6 DEF Credit
    <3>2. SumFunctionOnSet(is, DistIds) = SumFunctionOnSet(was, DistIds)
      BY <3>1, FiniteDividends, SumSame
    <3> QED BY <1>9, <2>1, <2>6, <3>2 DEF is
  <2> QED BY <2>5, <2>6
<1>14. ClaimedIsCredited'
  BY <1>13 DEF ClaimedIsCredited, Credit
<1> QED BY <1>7, <1>9, <1>10, <1>11, <1>12, <1>14 DEF CreditInv, ClaimsTyped

------------------------------------------------------------------------------
(***************************************************************************)
(* Snapshots of the holdings                                               *)
(***************************************************************************)
\* Claims that are there stay, and the new ones are those of the batch.
NewClaims(d, rows) ==
  \A e \in DistIds, u \in Holders :
    \/ claims'[e][u] = claims[e][u]
    \/ /\ e = d /\ ~ HasClaim(e, u) /\ claims'[e][u].status = "PENDING"
       /\ \E row \in rows : row[1] = u /\ claims'[e][u].amount = row[2]

LEMMA Inserted ==
  ASSUME ClaimsTyped, NEW d \in DistIds, NEW rows, rows \subseteq Holders \X Nat,
         claims' = [claims EXCEPT ![d] = WithClaims(d, rows)], paid' = paid
  PROVE  ClaimsTyped' /\ NewClaims(d, rows)
<1>1. claims \in [DistIds -> [Holders -> DivClaim]]
  BY DEF ClaimsTyped
<1>2. PICK new : new = WithClaims(d, rows)
  OBVIOUS
<1>3. claims'[d] = new /\ \A e \in DistIds \ {d} : claims'[e] = claims[e]
  BY <1>1, <1>2
<1>4. ASSUME NEW u \in Holders
      PROVE  \/ new[u] = claims[d][u]
             \/ /\ ~ HasClaim(d, u)
                /\ \E row \in rows : row[1] = u /\ new[u] = [amount |-> row[2], status |-> "PENDING"]
  <2>1. CASE ~ HasClaim(d, u) /\ \E row \in rows : row[1] = u
    <3>1. PICK row \in rows : row = CHOOSE x \in rows : x[1] = u
      BY <2>1
    <3>2. row[1] = u
      BY <2>1, <3>1
    <3>3. new[u] = [amount |-> row[2], status |-> "PENDING"]
      BY <1>2, <2>1, <3>1 DEF WithClaims
    <3> QED BY <2>1, <3>2, <3>3
  <2>2. CASE ~ (~ HasClaim(d, u) /\ \E row \in rows : row[1] = u)
    BY <1>2, <2>2 DEF WithClaims
  <2> QED BY <2>1, <2>2
<1>5. ASSUME NEW u \in Holders
      PROVE  new[u] \in DivClaim
  <2>1. ASSUME NEW row \in rows
        PROVE  [amount |-> row[2], status |-> "PENDING"] \in DivClaim
    BY DEF DivClaim
  <2>2. claims[d][u] \in DivClaim
    BY <1>1
  <2>3. CASE new[u] = claims[d][u]
    BY <2>2, <2>3
  <2>4. CASE \E row \in rows : row[1] = u /\ new[u] = [amount |-> row[2], status |-> "PENDING"]
    BY <2>1, <2>4
  <2> QED BY <1>4, <2>3, <2>4
<1>6. new = [u \in Holders |-> new[u]]
  BY <1>2 DEF WithClaims
<1>7. new \in [Holders -> DivClaim]
  BY <1>5, <1>6
<1>8. claims' \in [DistIds -> [Holders -> DivClaim]]
  BY <1>1, <1>2, <1>7
<1>9. ClaimsTyped'
  BY <1>8 DEF ClaimsTyped
<1>10. ASSUME NEW e \in DistIds, NEW u \in Holders, claims'[e][u] # claims[e][u]
       PROVE  /\ e = d /\ ~ HasClaim(e, u) /\ claims'[e][u].status = "PENDING"
              /\ \E row \in rows : row[1] = u /\ claims'[e][u].amount = row[2]
  <2>1. e = d /\ claims'[e][u] = new[u]
    BY <1>3, <1>10
  <2>2. ~ HasClaim(e, u)
    BY <1>4, <1>10, <2>1
  <2>3. PICK row \in rows : row[1] = u /\ new[u] = [amount |-> row[2], status |-> "PENDING"]
    BY <1>4, <1>10, <2>1
  <2> QED BY <2>1, <2>2, <2>3
<1> QED BY <1>9, <1>10 DEF NewClaims

\* A claim that is inserted is not credited yet.
LEMMA InsertCredit ==
  ASSUME CreditInv, NEW d \in DistIds, NEW rows, rows \subseteq Holders \X Nat,
         claims' = [claims EXCEPT ![d] = WithClaims(d, rows)], UNCHANGED <<paid, claiming>>
  PROVE  CreditInv'
<1>1. ClaimsTyped' /\ NewClaims(d, rows)
  BY Inserted DEF CreditInv
<1>2. Kept
  <2>1. ASSUME NEW e \in DistIds, NEW u \in Holders, HasClaim(e, u)
        PROVE  claims'[e][u] = claims[e][u]
    BY <1>1, <2>1 DEF NewClaims
  <2> QED BY <2>1 DEF Kept, HasClaim
<1>3. ClaimingsOK'
  BY <1>2, ClaimingsStay DEF CreditInv, ClaimingsOK
<1>4. ASSUME NEW e \in DistIds, NEW u \in Holders
      PROVE  Credit(u, e)' = Credit(u, e)
  <2>1. CASE claims'[e][u] = claims[e][u]
    BY <2>1 DEF Credit
  <2>2. CASE claims'[e][u] # claims[e][u]
    <3>1. ~ HasClaim(e, u) /\ claims'[e][u].status = "PENDING"
      BY <1>1, <2>2 DEF NewClaims
    <3> QED BY <3>1 DEF HasClaim, Credit, NoClaim
  <2> QED BY <2>1, <2>2
<1>5. ASSUME NEW u \in Holders
      PROVE  paid'[u] = SumFunctionOnSet([e \in DistIds |-> Credit(u, e)'], DistIds)
  <2>1. [e \in DistIds |-> Credit(u, e)'] = [e \in DistIds |-> Credit(u, e)]
    BY <1>4
  <2> QED BY <2>1, CreditedIs DEF CreditInv
<1>6. ClaimedIsCredited'
  BY <1>5 DEF ClaimedIsCredited, Credit
<1> QED BY <1>1, <1>3, <1>6 DEF CreditInv

------------------------------------------------------------------------------
WalkInv == WalksTyped /\ SharesInv

LEMMA WalkRests ==
  ASSUME WalkInv, UNCHANGED <<holdings, distributions, snapshot, unsettled>>,
         \A d \in DistIds, u \in Holders :
           (HasClaim(d, u)' <=> HasClaim(d, u)) /\ claims'[d][u].amount = claims[d][u].amount
  PROVE  WalkInv'
<1>1. WalksTyped' /\ SumFunctionOnSet(holdings', Holders) <= Supply
  BY DEF WalkInv, WalksTyped, IsWalk, SharesInv
<1>2. ASSUME NEW d \in DistIds
      PROVE  Claimed(d)' = Claimed(d)
  <2>1. [u \in Holders |-> claims'[d][u].amount] = [u \in Holders |-> claims[d][u].amount]
    OBVIOUS
  <2> QED BY <2>1 DEF Claimed
<1>3. InSnapshot' = InSnapshot
  BY DEF InSnapshot
<1>4. \A d \in DistIds : d \in Begun' <=> d \in Begun
  BY DEF Begun
<1>5. \A d \in DistIds : Taken(d)' <=> Taken(d)
  BY <1>3, <1>4 DEF Taken
<1>6. ASSUME NEW d \in DistIds, SharesOK(d)
      PROVE  SharesOK(d)'
  BY <1>6 DEF SharesOK, Share
<1>7. \A r \in SnapshotRuns : RowsAreShares(snapshot[r])'
  BY DEF WalkInv, SharesInv, RowsAreShares, Share
<1> QED BY <1>1, <1>2, <1>5, <1>6, <1>7 DEF WalkInv, SharesInv

LEMMA WalkAndClaimsRest ==
  ASSUME WalkInv, UNCHANGED <<holdings, distributions, snapshot, unsettled, claims>>
  PROVE  WalkInv'
BY WalkRests DEF HasClaim

\* A run goes on to a distribution that is taken already, or is nobody's yet.
Takes(q) ==
  q # NoRun => /\ IsWalk(q)
               /\ \A d \in {q.dist} \cup q.todo : Taken(d) \/ \A u \in Holders : ~ HasClaim(d, u)

LEMMA NoRunIsNoWalk == ~ IsWalk(NoRun) /\ NoRun.step = "idle"
BY DEF NoRun, IsWalk

LEMMA WalkGoes ==
  ASSUME WalkInv, NEW r \in SnapshotRuns, NEW next, snapshot' = [snapshot EXCEPT ![r] = next],
         UNCHANGED <<holdings, claims, unsettled>>,
         distributions' \in Seq(DistRow), Len(distributions') <= Len(Totals), Begun' \subseteq Begun,
         Takes(next), next # NoRun => RowsAreShares(next)
  PROVE  WalkInv'
<1>1. /\ snapshot' = [s \in SnapshotRuns |-> snapshot'[s]] /\ snapshot'[r] = next
      /\ \A s \in SnapshotRuns \ {r} : snapshot'[s] = snapshot[s]
  BY DEF WalkInv, WalksTyped
<1>2. \A s \in SnapshotRuns : snapshot'[s] = NoRun \/ IsWalk(snapshot'[s])
  BY <1>1 DEF WalkInv, WalksTyped, Takes
<1>3. WalksTyped'
  BY <1>1, <1>2 DEF WalkInv, WalksTyped, IsWalk
<1>4. ASSUME NEW d \in DistIds, Taken(d)', ~ Taken(d)
      PROVE  \A u \in Holders : ~ HasClaim(d, u)
  <2>1. PICK s \in SnapshotRuns : snapshot'[s] # NoRun /\ d \in {snapshot'[s].dist} \cup snapshot'[s].todo
    BY <1>4 DEF Taken, InSnapshot
  <2>2. s = r
    BY <1>1, <1>4, <2>1 DEF Taken, InSnapshot
  <2> QED BY <1>1, <1>4, <2>1, <2>2 DEF Takes
<1>5. ASSUME NEW d \in DistIds \ unsettled
      PROVE  Claimed(d)' <= Totals[d] /\ (Taken(d)' => SharesOK(d)')
  <2>1. Claimed(d) <= Totals[d] /\ (Taken(d) => SharesOK(d))
    BY DEF WalkInv, SharesInv
  <2>2. Claimed(d)' = Claimed(d) /\ (SharesOK(d)' <=> SharesOK(d))
    BY DEF Claimed, SharesOK, Share, HasClaim
  <2>3. CASE Taken(d)'
    BY <1>4, <2>1, <2>2, <2>3 DEF SharesOK
  <2>4. CASE ~ Taken(d)'
    BY <2>1, <2>2, <2>4
  <2> QED BY <2>3, <2>4
<1>6. ASSUME NEW s \in SnapshotRuns
      PROVE  RowsAreShares(snapshot[s])'
  <2>1. PICK q : q = snapshot'[s]
    OBVIOUS
  <2>2. RowsAreShares(q)
    <3>1. CASE s = r /\ next # NoRun
      BY <1>1, <2>1, <3>1
    <3>2. CASE s = r /\ next = NoRun
      BY <1>1, <2>1, <3>2, NoRunIsNoWalk DEF RowsAreShares
    <3>3. CASE s # r
      BY <1>1, <2>1, <3>3 DEF WalkInv, SharesInv
    <3> QED BY <3>1, <3>2, <3>3
  <2>3. RowsAreShares(q)'
    BY <2>2 DEF RowsAreShares, Share
  <2> QED BY <2>1, <2>3 DEF RowsAreShares
<1> QED BY <1>3, <1>5, <1>6 DEF WalkInv, SharesInv

LEMMA OpenIsTaken ==
  ASSUME WalkInv, NEW r \in SnapshotRuns, snapshot[r] # NoRun
  PROVE  /\ IsWalk(snapshot[r])
         /\ \A d \in {snapshot[r].dist} \cup snapshot[r].todo : d \in DistIds /\ Taken(d)
BY DEF WalkInv, WalksTyped, IsWalk, Taken, InSnapshot

\* The distributions that are due: those with claims have been begun.
LEMMA DueIsFree ==
  ASSUME WalkInv, NEW d \in Due
  PROVE  d \in DistIds /\ (Taken(d) \/ \A u \in Holders : ~ HasClaim(d, u))
BY Distributions DEF WalkInv, Due, Taken, Begun

LEMMA WalkStarts ==
  ASSUME NEW d \in DistIds, NEW todo, todo \subseteq DistIds
  PROVE  /\ IsWalk(Walk(d, todo)) /\ RowsAreShares(Walk(d, todo)) /\ Walk(d, todo) # NoRun
         /\ Walk(d, todo).dist = d /\ Walk(d, todo).todo = todo
BY DEF Walk, IsWalk, RowsAreShares, NoRun

LEMMA StartSnapshotsHolds ==
  ASSUME WalkInv, NEW r \in SnapshotRuns, StartSnapshots(r)
  PROVE  WalkInv'
<1>1. UNCHANGED <<holdings, claims, unsettled, distributions>>
  BY DEF StartSnapshots, snapshotUnchanged
<1>2. PICK d \in Due : snapshot' = [snapshot EXCEPT ![r] = Walk(d, Due \ {d})]
  BY DEF StartSnapshots
<1>3. \A e \in Due : e \in DistIds /\ (Taken(e) \/ \A u \in Holders : ~ HasClaim(e, u))
  BY DueIsFree
<1>4. PICK next : next = Walk(d, Due \ {d})
  OBVIOUS
<1>5. IsWalk(next) /\ RowsAreShares(next) /\ next.dist = d /\ next.todo = Due \ {d}
  BY <1>3, <1>4, WalkStarts
<1>6. Takes(next)
  BY <1>3, <1>5 DEF Takes
<1>7. Begun' \subseteq Begun
  BY <1>1 DEF Begun, HasClaim
<1> QED BY <1>1, <1>2, <1>4, <1>5, <1>6, <1>7, WalkGoes DEF WalkInv, WalksTyped

LEMMA NextWalkHolds ==
  ASSUME WalkInv, NEW r \in SnapshotRuns, snapshot[r] # NoRun, NextWalk(r),
         UNCHANGED <<holdings, claims, unsettled, distributions>>
  PROVE  WalkInv'
<1>1. Begun' \subseteq Begun
  BY DEF Begun, HasClaim
<1>2. PICK todo : todo = snapshot[r].todo
  OBVIOUS
<1>3. \A d \in todo : d \in DistIds /\ Taken(d)
  BY <1>2, OpenIsTaken
<1>4. CASE todo = {}
  <2>1. snapshot' = [snapshot EXCEPT ![r] = NoRun] /\ Takes(NoRun)
    BY <1>2, <1>4 DEF NextWalk, Takes
  <2> QED BY <1>1, <2>1, WalkGoes DEF WalkInv, WalksTyped
<1>5. CASE todo # {}
  <2>1. PICK d \in todo : snapshot' = [snapshot EXCEPT ![r] = Walk(d, todo \ {d})]
    BY <1>2, <1>5 DEF NextWalk
  <2>2. PICK next : next = Walk(d, todo \ {d})
    OBVIOUS
  <2>3. IsWalk(next) /\ RowsAreShares(next) /\ next.dist = d /\ next.todo = todo \ {d}
    BY <1>3, <2>2, WalkStarts
  <2>4. Takes(next)
    BY <1>3, <2>3 DEF Takes
  <2> QED BY <1>1, <2>1, <2>2, <2>3, <2>4, WalkGoes DEF WalkInv, WalksTyped
<1> QED BY <1>4, <1>5

\* A run goes on with its distribution.
LEMMA SameWalk ==
  ASSUME WalkInv, NEW r \in SnapshotRuns, snapshot[r] # NoRun,
         NEW next, IsWalk(next), next.dist = snapshot[r].dist, next.todo = snapshot[r].todo
  PROVE  Takes(next)
BY OpenIsTaken DEF Takes

LEMMA ReadBatchHolds ==
  ASSUME WalkInv, NEW r \in SnapshotRuns, ReadBatch(r)
  PROVE  WalkInv'
<1>1. UNCHANGED <<holdings, claims, unsettled, distributions>>
  BY DEF ReadBatch, snapshotUnchanged
<1>2. PICK q : q = snapshot[r]
  OBVIOUS
<1>3. PICK S : S = Rows(q.after)
  OBVIOUS
<1>4. PICK rows : rows = {<<u, Share(q.dist, u)>> : u \in {v \in S : Share(q.dist, v) > 0}}
  OBVIOUS
<1>5. PICK next : next = [q EXCEPT !.step = "insert", !.after = Max(S), !.rows = rows]
  OBVIOUS
<1>6. q.step = "read" /\ S # {} /\ snapshot' = [snapshot EXCEPT ![r] = next]
  BY <1>2, <1>3, <1>4, <1>5 DEF ReadBatch
<1>7. q # NoRun /\ IsWalk(q)
  BY <1>2, <1>6, NoRunIsNoWalk DEF WalkInv, WalksTyped
<1>8. S \subseteq Holders /\ Max(S) \in Nat
  <2>1. S \subseteq Holders /\ S \subseteq Nat
    BY <1>3, DividendAssumption DEF Rows
  <2>2. IsFiniteSet(S)
    BY <2>1, FiniteDividends, FS_Subset
  <2> QED BY <1>6, <2>1, <2>2, MaxExists
<1>9. \A u \in Holders : Share(q.dist, u) \in Nat
  BY <1>7, SharesFit DEF WalkInv, WalksTyped, SharesInv, IsWalk
<1>10. rows \subseteq Holders \X Nat /\ \A row \in rows : row[2] = Share(q.dist, row[1])
  BY <1>4, <1>8, <1>9
<1>11. next = [step |-> "insert", dist |-> q.dist, todo |-> q.todo, after |-> Max(S), rows |-> rows,
               count |-> q.count]
  BY <1>5, <1>7 DEF IsWalk
<1>12. IsWalk(next) /\ next.dist = q.dist /\ next.todo = q.todo /\ next.rows = rows
  BY <1>7, <1>8, <1>10, <1>11 DEF IsWalk
<1>13. RowsAreShares(next)
  BY <1>10, <1>12 DEF RowsAreShares
<1>14. Takes(next)
  BY <1>2, <1>7, <1>12, SameWalk
<1>15. Begun' \subseteq Begun
  BY <1>1 DEF Begun, HasClaim
<1> QED BY <1>1, <1>6, <1>13, <1>14, <1>15, WalkGoes DEF WalkInv, WalksTyped

LEMMA SetDistributionHolds ==
  ASSUME WalkInv, NEW r \in SnapshotRuns, SetDistributionStatus(r)
  PROVE  WalkInv'
<1>1. UNCHANGED <<holdings, claims, unsettled>>
  BY DEF SetDistributionStatus, snapshotUnchanged
<1>2. PICK q : q = snapshot[r]
  OBVIOUS
<1>3. PICK next : next = [q EXCEPT !.step = "queue"]
  OBVIOUS
<1>4. PICK status \in {"READY_FOR_CLAIM", "COMPLETED"} :
        distributions' = [distributions EXCEPT ![q.dist].status = status]
  BY <1>2 DEF SetDistributionStatus
<1>5. q.step = "read" /\ snapshot' = [snapshot EXCEPT ![r] = next]
  BY <1>2, <1>3 DEF SetDistributionStatus, EndOfWalk
<1>6. q # NoRun /\ IsWalk(q)
  BY <1>2, <1>5, NoRunIsNoWalk DEF WalkInv, WalksTyped
<1>7. next = [step |-> "queue", dist |-> q.dist, todo |-> q.todo, after |-> q.after, rows |-> q.rows,
              count |-> q.count]
  BY <1>3, <1>6 DEF IsWalk
<1>8. IsWalk(next) /\ next.dist = q.dist /\ next.todo = q.todo /\ RowsAreShares(next)
  BY <1>6, <1>7 DEF IsWalk, RowsAreShares
<1>9. Takes(next)
  BY <1>2, <1>6, <1>8, SameWalk
<1>10. distributions \in Seq(DistRow) /\ Len(distributions) <= Len(Totals)
       /\ DOMAIN distributions = 1 .. Len(distributions)
  BY LenProperties DEF WalkInv, WalksTyped
<1>11. /\ distributions' \in Seq(DistRow) /\ Len(distributions') <= Len(Totals)
       /\ Begun' \subseteq Begun
  <2>1. CASE q.dist \notin DOMAIN distributions
    <3>1. distributions' = distributions
      BY <1>4, <1>10, <2>1
    <3> QED BY <1>1, <1>10, <3>1 DEF Begun, HasClaim
  <2>2. CASE q.dist \in DOMAIN distributions
    <3>1. PICK row : row = [distributions[q.dist] EXCEPT !.status = status]
      OBVIOUS
    <3>2. distributions[q.dist] \in DistRow
      BY <2>2, Distributions DEF WalkInv
    <3>3. row \in DistRow /\ row.status = status
      BY <3>1, <3>2 DEF DistRow
    <3>4. distributions' = [distributions EXCEPT ![q.dist] = row]
      BY <1>4, <3>1
    <3>5. /\ distributions' \in Seq(DistRow) /\ Len(distributions') = Len(distributions)
          /\ \A i \in 1 .. Len(distributions) :
               distributions'[i] = IF i = q.dist THEN row ELSE distributions[i]
      BY <1>10, <2>2, <3>3, <3>4, ExceptSeq
    <3>6. DOMAIN distributions' = DOMAIN distributions
      BY <3>4
    <3>7. \A i \in DOMAIN distributions' : distributions'[i].status = "PENDING" => distributions[i].status = "PENDING"
      BY <1>10, <3>3, <3>5, <3>6
    <3>8. Begun' \subseteq Begun
      BY <1>1, <3>6, <3>7 DEF Begun, HasClaim
    <3> QED BY <1>10, <3>5, <3>8
  <2> QED BY <2>1, <2>2
<1> QED BY <1>1, <1>5, <1>8, <1>9, <1>11, WalkGoes

\* Claims that are shares fit the amount.
LEMMA ClaimsFit ==
  ASSUME WalkInv, NEW d \in DistIds, NEW amounts \in [Holders -> Nat],
         \A u \in Holders : amounts[u] = 0 \/ amounts[u] = Share(d, u)
  PROVE  SumFunctionOnSet(amounts, Holders) <= Totals[d]
<1> DEFINE shares == [u \in Holders |-> Share(d, u)]
<1>1. /\ \A u \in Holders : Share(d, u) \in Nat
      /\ SumFunctionOnSet(shares, Holders) <= Totals[d]
  BY SharesFit DEF WalkInv, WalksTyped, SharesInv
<1>2. \A u \in Holders : amounts[u] \in Int /\ shares[u] \in Int /\ amounts[u] <= shares[u]
  BY <1>1
<1> HIDE DEF shares
<1>3. SumFunctionOnSet(amounts, Holders) <= SumFunctionOnSet(shares, Holders)
  BY <1>2, FiniteDividends, SumMonotonic
<1>4. SumFunctionOnSet(amounts, Holders) \in Int /\ SumFunctionOnSet(shares, Holders) \in Int
  BY <1>2, FiniteDividends, SumInt
<1>5. Totals[d] \in Int
  BY FiniteDividends
<1> QED BY <1>1, <1>3, <1>4, <1>5

\* A batch is inserted, by the run of it or by another one with the same rows.
LEMMA InsertWalk ==
  ASSUME WalkInv, ClaimsTyped, NEW r \in SnapshotRuns, InsertClaims(r)
  PROVE  WalkInv'
<1>1. UNCHANGED <<holdings, distributions, unsettled, paid>> /\ snapshot[r].step = "insert"
  BY DEF InsertClaims, snapshotUnchanged
<1>2. PICK q : q = snapshot[r]
  OBVIOUS
<1>3. PICK next : next = [q EXCEPT !.step = "read", !.rows = {}, !.count = @ + Cardinality(q.rows)]
  OBVIOUS
<1>4. /\ claims' = [claims EXCEPT ![q.dist] = WithClaims(q.dist, q.rows)]
      /\ snapshot' = [snapshot EXCEPT ![r] = next]
  BY <1>2, <1>3 DEF InsertClaims
<1>5. q # NoRun /\ IsWalk(q)
  BY <1>1, <1>2, NoRunIsNoWalk DEF WalkInv, WalksTyped
<1>6. PICK d \in DistIds : d = q.dist
  BY <1>5 DEF IsWalk
<1>7. Taken(d) /\ q.rows \subseteq Holders \X Nat
  BY <1>2, <1>5, <1>6, OpenIsTaken DEF IsWalk
<1>8. next = [step |-> "read", dist |-> q.dist, todo |-> q.todo, after |-> q.after, rows |-> {},
              count |-> q.count + Cardinality(q.rows)]
  BY <1>3, <1>5 DEF IsWalk
<1>9. IsWalk(next) /\ next.dist = q.dist /\ next.todo = q.todo /\ next.step = "read"
  BY <1>5, <1>8 DEF IsWalk
<1>10. /\ snapshot' = [s \in SnapshotRuns |-> snapshot'[s]] /\ snapshot'[r] = next
       /\ \A s \in SnapshotRuns \ {r} : snapshot'[s] = snapshot[s]
  BY <1>4 DEF WalkInv, WalksTyped
<1>11. ClaimsTyped' /\ NewClaims(d, q.rows)
  BY <1>1, <1>4, <1>6, <1>7, Inserted
<1>12. WalksTyped'
  <2>1. \A s \in SnapshotRuns : snapshot'[s] = NoRun \/ IsWalk(snapshot'[s])
    BY <1>9, <1>10 DEF WalkInv, WalksTyped
  <2> QED BY <1>1, <1>10, <2>1 DEF WalkInv, WalksTyped, IsWalk
<1>13. InSnapshot' \subseteq InSnapshot
  <2>1. ASSUME NEW e \in InSnapshot'
        PROVE  e \in InSnapshot
    <3>1. PICK s \in SnapshotRuns : snapshot'[s] # NoRun /\ e \in {snapshot'[s].dist} \cup snapshot'[s].todo
      BY <2>1 DEF InSnapshot
    <3>2. CASE s = r
      BY <1>2, <1>5, <1>9, <1>10, <3>1, <3>2 DEF InSnapshot
    <3>3. CASE s # r
      BY <1>10, <3>1, <3>3 DEF InSnapshot
    <3> QED BY <3>2, <3>3
  <2> QED BY <2>1
<1>14. ASSUME NEW e \in DistIds \ unsettled'
       PROVE  Claimed(e)' <= Totals[e] /\ (Taken(e)' => SharesOK(e)')
  <2>1. Claimed(e) <= Totals[e] /\ (Taken(e) => SharesOK(e))
    BY <1>1 DEF WalkInv, SharesInv
  <2>2. CASE e # d
    <3>1. \A u \in Holders : claims'[e][u] = claims[e][u]
      BY <1>11, <2>2 DEF NewClaims
    <3>2. [u \in Holders |-> claims'[e][u].amount] = [u \in Holders |-> claims[e][u].amount]
      BY <3>1
    <3>3. Claimed(e)' = Claimed(e)
      BY <3>2 DEF Claimed
    <3>4. Taken(e)' => Taken(e)
      BY <1>1, <1>13, <3>1 DEF Taken, Begun, HasClaim
    <3>5. SharesOK(e) => SharesOK(e)'
      BY <1>1, <3>1 DEF SharesOK, Share, HasClaim
    <3> QED BY <2>1, <3>3, <3>4, <3>5
  <2>3. CASE e = d
    <3>1. SharesOK(e)
      BY <1>7, <2>1, <2>3
    <3>2. \A row \in q.rows : row[2] = Share(e, row[1])
      BY <1>1, <1>2, <1>6, <2>3 DEF WalkInv, SharesInv, RowsAreShares
    <3>3. ASSUME NEW u \in Holders, claims'[e][u] # NoClaim
          PROVE  claims'[e][u].amount = Share(e, u)
      <4>1. CASE claims'[e][u] = claims[e][u]
        BY <3>1, <3>3, <4>1 DEF SharesOK, HasClaim
      <4>2. CASE claims'[e][u] # claims[e][u]
        BY <1>11, <3>2, <4>2 DEF NewClaims
      <4> QED BY <4>1, <4>2
    <3>4. SharesOK(e)'
      BY <1>1, <3>3 DEF SharesOK, HasClaim, Share
    <3>5. PICK amounts : amounts = [u \in Holders |-> claims'[e][u].amount]
      OBVIOUS
    <3>6. amounts \in [Holders -> Nat]
      BY <1>11, <3>5 DEF ClaimsTyped, DivClaim
    <3>7. \A u \in Holders : amounts[u] = 0 \/ amounts[u] = Share(e, u)
      BY <3>3, <3>5 DEF NoClaim
    <3>8. SumFunctionOnSet(amounts, Holders) <= Totals[e]
      BY <3>6, <3>7, ClaimsFit
    <3>9. Claimed(e)' = SumFunctionOnSet(amounts, Holders)
      BY <3>5 DEF Claimed
    <3> QED BY <3>4, <3>8, <3>9
  <2> QED BY <2>2, <2>3
<1>15. ASSUME NEW s \in SnapshotRuns
       PROVE  RowsAreShares(snapshot[s])'
  <2>1. PICK p : p = snapshot'[s]
    OBVIOUS
  <2>2. RowsAreShares(p)
    <3>1. CASE s = r
      BY <1>9, <1>10, <2>1, <3>1 DEF RowsAreShares
    <3>2. CASE s # r
      BY <1>10, <2>1, <3>2 DEF WalkInv, SharesInv
    <3> QED BY <3>1, <3>2
  <2>3. RowsAreShares(p)'
    BY <1>1, <2>2 DEF RowsAreShares, Share
  <2> QED BY <2>1, <2>3 DEF RowsAreShares
<1> QED BY <1>1, <1>12, <1>14, <1>15 DEF WalkInv, SharesInv

\* A distribution that is new or comes due: no claim of it is there, or it has
\* been begun already.
LEMMA DistributionsGrow ==
  ASSUME WalkInv, UNCHANGED <<holdings, snapshot, unsettled, claims>>,
         distributions' \in Seq(DistRow), Len(distributions') <= Len(Totals), Begun' \subseteq Begun
  PROVE  WalkInv'
<1>1. WalksTyped'
  BY DEF WalkInv, WalksTyped, IsWalk
<1>2. InSnapshot' = InSnapshot
  BY DEF InSnapshot
<1>3. \A d \in DistIds : Taken(d)' => Taken(d)
  BY <1>2 DEF Taken
<1>4. \A d \in DistIds : Claimed(d)' = Claimed(d) /\ (SharesOK(d)' <=> SharesOK(d))
  BY DEF Claimed, SharesOK, Share, HasClaim
<1>5. \A r \in SnapshotRuns : RowsAreShares(snapshot[r])'
  BY DEF WalkInv, SharesInv, RowsAreShares, Share
<1> QED BY <1>1, <1>3, <1>4, <1>5 DEF WalkInv, SharesInv

\* What is begun when holdings move is not settled any more, and the rest of
\* the claims are there or not begun.
LEMMA HoldingMovesHolds ==
  ASSUME WalkInv, NEW u \in Holders, NEW v \in Holders, HoldingMoves(u, v)
  PROVE  WalkInv'
<1>1. /\ UNCHANGED <<distributions, claims, snapshot>> /\ u # v /\ holdings[u] > 0
      /\ holdings' = [holdings EXCEPT ![u] = @ - 1, ![v] = @ + 1]
      /\ unsettled' = unsettled \cup InSnapshot \cup Begun
  BY DEF HoldingMoves
<1>2. holdings \in [Holders -> Nat]
  BY DEF WalkInv, WalksTyped
<1>3. /\ holdings' \in [Holders -> Nat] /\ holdings'[u] = holdings[u] - 1 /\ holdings'[v] = holdings[v] + 1
      /\ \A z \in Holders \ {u, v} : holdings'[z] = holdings[z]
  BY <1>1, <1>2
<1>4. SumFunctionOnSet(holdings', Holders) = SumFunctionOnSet(holdings, Holders)
  <2>1. \A z \in Holders : holdings'[z] \in Int /\ holdings[z] \in Int
    BY <1>2, <1>3
  <2>2. 1 \in Int /\ IsFiniteSet(Holders)
    BY FiniteDividends
  <2>3. PICK new : new = holdings'
    OBVIOUS
  <2>4. PICK old : old = holdings
    OBVIOUS
  <2>5. new[u] = old[u] - 1 /\ new[v] = old[v] + 1 /\ \A z \in Holders \ {u, v} : new[z] = old[z]
    BY <1>3, <2>3, <2>4
  <2>6. \A z \in Holders : new[z] \in Int /\ old[z] \in Int
    BY <2>1, <2>3, <2>4
  <2>7. SumFunctionOnSet(new, Holders) = SumFunctionOnSet(old, Holders)
    BY <1>1, <2>2, <2>5, <2>6, SumMoved
  <2> QED BY <2>3, <2>4, <2>7
<1>5. WalksTyped'
  BY <1>1, <1>3 DEF WalkInv, WalksTyped, IsWalk
<1>6. ASSUME NEW d \in DistIds \ unsettled'
      PROVE  Claimed(d)' <= Totals[d] /\ ~ Taken(d)'
  <2>1. d \notin unsettled /\ ~ Taken(d)
    BY <1>1 DEF Taken
  <2>2. Claimed(d)' = Claimed(d)
    BY <1>1 DEF Claimed
  <2>3. Taken(d)' <=> Taken(d)
    BY <1>1 DEF Taken, InSnapshot, Begun, HasClaim
  <2> QED BY <2>1, <2>2, <2>3 DEF WalkInv, SharesInv
<1>7. ASSUME NEW r \in SnapshotRuns, snapshot[r].step = "insert"
      PROVE  snapshot[r].dist \in unsettled'
  <2>1. snapshot[r] # NoRun
    BY <1>7, NoRunIsNoWalk
  <2>2. Taken(snapshot[r].dist)
    BY <2>1, OpenIsTaken
  <2> QED BY <1>1, <2>2 DEF Taken
<1>8. \A r \in SnapshotRuns : RowsAreShares(snapshot[r])'
  BY <1>1, <1>7 DEF RowsAreShares
<1> QED BY <1>4, <1>5, <1>6, <1>8 DEF WalkInv, SharesInv

LEMMA RunsGone ==
  ASSUME WalkInv, UNCHANGED <<holdings, distributions, claims, unsettled>>,
         snapshot' = [r \in SnapshotRuns |-> NoRun]
  PROVE  WalkInv'
<1>1. \A r \in SnapshotRuns : snapshot'[r] = NoRun
  OBVIOUS
<1>2. WalksTyped'
  BY <1>1 DEF WalkInv, WalksTyped
<1>3. \A d \in DistIds : Taken(d)' => Taken(d)
  BY <1>1 DEF Taken, InSnapshot, Begun, HasClaim
<1>4. \A d \in DistIds : Claimed(d)' = Claimed(d) /\ (SharesOK(d)' <=> SharesOK(d))
  BY DEF Claimed, SharesOK, Share, HasClaim
<1>5. \A r \in SnapshotRuns : RowsAreShares(snapshot[r])'
  BY <1>1, NoRunIsNoWalk DEF RowsAreShares
<1> QED BY <1>2, <1>3, <1>4, <1>5 DEF WalkInv, SharesInv

------------------------------------------------------------------------------
(***************************************************************************)
(* All steps of the dividends                                              *)
(***************************************************************************)
LEMMA DivParts ==
  DivInv <=> CreditInv /\ WalkInv /\ RewardInv
BY DEF DivInv, CreditInv, WalkInv

LEMMA RewardRests ==
  ASSUME RewardInv, UNCHANGED <<commissions, rewards, working, foundTwice>>
  PROVE  RewardInv'
BY RewardsRest DEF RewardInv, QueueTyped

LEMMA DivStarts ==
  ASSUME DivInit
  PROVE  CreditInv /\ WalkInv /\ RewardInv
<1>1. /\ holdings = OpeningHoldings /\ distributions = <<>> /\ commissions = <<>> /\ rewards = <<>>
      /\ claims = [d \in DistIds |-> [u \in Holders |-> NoClaim]]
      /\ snapshot = [r \in SnapshotRuns |-> NoRun]
      /\ claiming = [c \in ClaimClients |-> NoClaiming]
      /\ paid = [u \in Holders |-> 0] /\ unsettled = {}
      /\ working = [w \in CommissionWorkers |-> NoWork]
  BY DEF DivInit
<1>2. NoClaim \in DivClaim /\ NoClaim.amount = 0 /\ NoClaim.status = "NONE"
  BY DEF NoClaim, DivClaim
<1>3. \A d \in DistIds, u \in Holders : claims[d][u] = NoClaim
  BY <1>1
<1>4. ClaimsTyped
  BY <1>1, <1>2 DEF ClaimsTyped
<1>5. ClaimingsOK
  BY <1>1 DEF ClaimingsOK, ClaimingOK, NoClaiming
<1>6. ClaimedIsCredited
  <2>1. ASSUME NEW u \in Holders
        PROVE  paid[u] = SumFunctionOnSet([d \in DistIds |-> Credit(u, d)], DistIds)
    <3> DEFINE w == [d \in DistIds |-> Credit(u, d)]
    <3>1. \A d \in DistIds : w[d] = 0
      BY <1>2, <1>3 DEF Credit
    <3> HIDE DEF w
    <3>2. SumFunctionOnSet(w, DistIds) = 0
      BY <3>1, FiniteDividends, SumZero
    <3> QED BY <1>1, <3>2 DEF w
  <2> QED BY <2>1, CreditedIs
<1>7. WalksTyped
  <2>1. distributions \in Seq(DistRow) /\ Len(distributions) = 0
    BY <1>1, EmptySeq
  <2> QED BY <1>1, <2>1, FiniteDividends, DividendAssumption DEF WalksTyped
<1>8. SharesInv
  <2>1. SumFunctionOnSet(holdings, Holders) <= Supply
    BY <1>1, DividendAssumption
  <2>2. ASSUME NEW d \in DistIds
        PROVE  Claimed(d) <= Totals[d] /\ SharesOK(d)
    <3> DEFINE w == [u \in Holders |-> claims[d][u].amount]
    <3>1. \A u \in Holders : w[u] = 0
      BY <1>2, <1>3
    <3> HIDE DEF w
    <3>2. SumFunctionOnSet(w, Holders) = 0
      BY <3>1, FiniteDividends, SumZero
    <3>3. Claimed(d) = 0
      BY <3>2 DEF Claimed, w
    <3>4. SharesOK(d)
      BY <1>3 DEF SharesOK, HasClaim
    <3> QED BY <3>3, <3>4, FiniteDividends
  <2>3. \A r \in SnapshotRuns : RowsAreShares(snapshot[r])
    BY <1>1, NoRunIsNoWalk DEF RowsAreShares
  <2> QED BY <2>1, <2>2, <2>3 DEF SharesInv
<1>9. RewardInv
  BY <1>1, EmptySeq DEF RewardInv, QueueTyped, CreatorsAlone, Creates, NoWork, RewardedOnce
<1> QED BY <1>4, <1>5, <1>6, <1>7, <1>8, <1>9 DEF CreditInv, WalkInv

\* Claims and runs are of distributions that are there.
KnownInv ==
  /\ InSnapshot \subseteq DOMAIN distributions
  /\ \A d \in DistIds, u \in Holders : HasClaim(d, u) => d \in DOMAIN distributions

LEMMA CreateDistributionHolds ==
  ASSUME WalkInv, KnownInv, NEW due \in BOOLEAN, CreateDistribution(due)
  PROVE  WalkInv'
<1>1. UNCHANGED <<holdings, snapshot, unsettled, claims>>
  BY DEF CreateDistribution
<1>2. PICK row : row = [status |-> "PENDING", due |-> due]
  OBVIOUS
<1>3. distributions' = Append(distributions, row) /\ Len(distributions) < Len(Totals) /\ row \in DistRow
  BY <1>2 DEF CreateDistribution, DistRow
<1>4. distributions \in Seq(DistRow) /\ Len(distributions) \in Nat
      /\ DOMAIN distributions = 1 .. Len(distributions)
  BY LenProperties DEF WalkInv, WalksTyped
<1>5. /\ distributions' \in Seq(DistRow) /\ Len(distributions') = Len(distributions) + 1
      /\ \A i \in 1 .. Len(distributions) : distributions'[i] = distributions[i]
  BY <1>3, <1>4, AppendProperties
<1>6. Len(distributions') <= Len(Totals)
  BY <1>3, <1>4, <1>5, FiniteDividends
<1>7. Begun' \subseteq Begun
  <2>1. ASSUME NEW d \in Begun'
        PROVE  d \in Begun
    <3>1. DOMAIN distributions' = 1 .. (Len(distributions) + 1)
      BY <1>5, LenProperties
    <3>2. PICK u \in Holders : HasClaim(d, u)
      BY <1>1, <2>1 DEF Begun, HasClaim
    <3>3. d \in DistIds
      BY <1>4, <1>6, <2>1, <3>1, <1>5, FiniteDividends DEF Begun
    <3>4. d \in DOMAIN distributions
      BY <3>2, <3>3 DEF KnownInv
    <3>5. distributions'[d] = distributions[d]
      BY <1>4, <1>5, <3>4
    <3> QED BY <2>1, <3>2, <3>4, <3>5 DEF Begun
  <2> QED BY <2>1
<1> QED BY <1>1, <1>5, <1>6, <1>7, DistributionsGrow

LEMMA DateComesHolds ==
  ASSUME WalkInv, NEW d \in DistIds, SnapshotDateComes(d)
  PROVE  WalkInv'
<1>1. UNCHANGED <<holdings, snapshot, unsettled, claims>> /\ d \in DOMAIN distributions
  BY DEF SnapshotDateComes, IsDist
<1>2. PICK row : row = [distributions[d] EXCEPT !.due = TRUE]
  OBVIOUS
<1>3. distributions[d] \in DistRow
  BY <1>1, Distributions DEF WalkInv
<1>4. row \in DistRow /\ row.status = distributions[d].status
  BY <1>2, <1>3 DEF DistRow
<1>5. distributions' = [distributions EXCEPT ![d] = row]
  BY <1>2 DEF SnapshotDateComes
<1>6. distributions \in Seq(DistRow) /\ Len(distributions) <= Len(Totals)
      /\ DOMAIN distributions = 1 .. Len(distributions)
  BY LenProperties DEF WalkInv, WalksTyped
<1>7. /\ distributions' \in Seq(DistRow) /\ Len(distributions') = Len(distributions)
      /\ \A i \in 1 .. Len(distributions) : distributions'[i] = IF i = d THEN row ELSE distributions[i]
  BY <1>1, <1>4, <1>5, <1>6, ExceptSeq
<1>8. DOMAIN distributions' = DOMAIN distributions
  BY <1>5
<1>9. \A i \in DOMAIN distributions : distributions'[i].status = distributions[i].status
  BY <1>4, <1>6, <1>7
<1>10. Begun' \subseteq Begun
  BY <1>1, <1>8, <1>9 DEF Begun, HasClaim
<1> QED BY <1>1, <1>6, <1>7, <1>10, DistributionsGrow

LEMMA KnownStays ==
  ASSUME KnownInv, DOMAIN distributions \subseteq DOMAIN distributions',
         InSnapshot' \subseteq InSnapshot \cup DOMAIN distributions,
         \A d \in DistIds, u \in Holders : HasClaim(d, u)' => HasClaim(d, u) \/ d \in InSnapshot
  PROVE  KnownInv'
BY DEF KnownInv

LEMMA RunTakes ==
  ASSUME WalkInv, NEW r \in SnapshotRuns, NEW next, snapshot' = [snapshot EXCEPT ![r] = next],
         NEW T, next # NoRun => {next.dist} \cup next.todo \subseteq InSnapshot \cup T
  PROVE  InSnapshot' \subseteq InSnapshot \cup T
<1>1. snapshot'[r] = next /\ \A s \in SnapshotRuns \ {r} : snapshot'[s] = snapshot[s]
  BY DEF WalkInv, WalksTyped
<1>2. ASSUME NEW d \in InSnapshot'
      PROVE  d \in InSnapshot \cup T
  <2>1. d \in DistIds
    BY <1>2 DEF InSnapshot
  <2>2. PICK s \in SnapshotRuns : snapshot'[s] # NoRun /\ d \in {snapshot'[s].dist} \cup snapshot'[s].todo
    BY <1>2 DEF InSnapshot
  <2>3. CASE s = r
    BY <1>1, <2>2, <2>3
  <2>4. CASE s # r
    BY <1>1, <2>1, <2>2, <2>4 DEF InSnapshot
  <2> QED BY <2>3, <2>4
<1> QED BY <1>2

\* A run that goes on with its distribution, or with the next one it has read.
LEMMA RunKeeps ==
  ASSUME WalkInv, NEW r \in SnapshotRuns, snapshot[r] # NoRun, NEW next,
         snapshot' = [snapshot EXCEPT ![r] = next],
         next # NoRun => {next.dist} \cup next.todo \subseteq {snapshot[r].dist} \cup snapshot[r].todo
  PROVE  InSnapshot' \subseteq InSnapshot
<1>1. {snapshot[r].dist} \cup snapshot[r].todo \subseteq InSnapshot
  BY OpenIsTaken DEF InSnapshot
<1>2. next # NoRun => {next.dist} \cup next.todo \subseteq InSnapshot \cup {}
  BY <1>1
<1>3. InSnapshot' \subseteq InSnapshot \cup {}
  BY <1>2, RunTakes
<1> QED BY <1>3

LEMMA KnownStep ==
  ASSUME KnownInv, WalkInv, ClaimsTyped, [DivNext]_divVars
  PROVE  KnownInv'
<1>1. CASE UNCHANGED <<snapshot, claims>> /\ DOMAIN distributions \subseteq DOMAIN distributions'
  BY <1>1, KnownStays DEF InSnapshot, HasClaim
<1>2. CASE UNCHANGED <<snapshot, claims, distributions>>
  BY <1>1, <1>2
<1>3. CASE UNCHANGED <<claims, distributions>> /\ InSnapshot' \subseteq InSnapshot \cup DOMAIN distributions
  BY <1>3, KnownStays DEF HasClaim
<1>4. ASSUME NEW r \in SnapshotRuns, StartSnapshots(r)
      PROVE  KnownInv'
  <2>1. PICK d \in Due : snapshot' = [snapshot EXCEPT ![r] = Walk(d, Due \ {d})]
    BY <1>4 DEF StartSnapshots
  <2>2. Due \subseteq DOMAIN distributions
    BY DEF Due
  <2>3. PICK next : next = Walk(d, Due \ {d})
    OBVIOUS
  <2>4. next.dist = d /\ next.todo = Due \ {d}
    BY <2>3 DEF Walk
  <2>5. {next.dist} \cup next.todo \subseteq InSnapshot \cup DOMAIN distributions
    BY <2>2, <2>4
  <2>6. InSnapshot' \subseteq InSnapshot \cup DOMAIN distributions
    BY <2>1, <2>3, <2>5, RunTakes
  <2> QED BY <1>3, <1>4, <2>6 DEF StartSnapshots
<1>5. ASSUME NEW r \in SnapshotRuns, snapshot[r] # NoRun, NextWalk(r), UNCHANGED <<claims, distributions>>
      PROVE  KnownInv'
  <2>1. CASE snapshot[r].todo = {}
    <3>1. InSnapshot' \subseteq InSnapshot
      BY <1>5, <2>1, RunKeeps DEF NextWalk
    <3> QED BY <1>3, <1>5, <3>1
  <2>2. CASE snapshot[r].todo # {}
    <3>1. PICK d \in snapshot[r].todo : snapshot' = [snapshot EXCEPT ![r] = Walk(d, snapshot[r].todo \ {d})]
      BY <1>5, <2>2 DEF NextWalk
    <3>2. PICK next : next = Walk(d, snapshot[r].todo \ {d})
      OBVIOUS
    <3>3. next.dist = d /\ next.todo = snapshot[r].todo \ {d}
      BY <3>2 DEF Walk
    <3>4. InSnapshot' \subseteq InSnapshot
      BY <1>5, <3>1, <3>2, <3>3, RunKeeps
    <3> QED BY <1>3, <1>5, <3>4
  <2> QED BY <2>1, <2>2
<1>6. ASSUME NEW r \in SnapshotRuns, ReadBatch(r) \/ InsertClaims(r) \/ SetDistributionStatus(r)
      PROVE  KnownInv'
  <2>1. snapshot[r].step \in {"read", "insert"}
    BY <1>6 DEF ReadBatch, InsertClaims, SetDistributionStatus, EndOfWalk
  <2>2. PICK q : q = snapshot[r]
    OBVIOUS
  <2>3. q # NoRun /\ IsWalk(q) /\ q.dist \in InSnapshot
    BY <2>1, <2>2, NoRunIsNoWalk DEF WalkInv, WalksTyped, InSnapshot, IsWalk
  <2>4. PICK next : snapshot' = [snapshot EXCEPT ![r] = next] /\ next.dist = q.dist /\ next.todo = q.todo
    <3>1. CASE ReadBatch(r)
      <4>1. PICK S : S = Rows(q.after)
        OBVIOUS
      <4>2. PICK rows : rows = {<<u, Share(q.dist, u)>> : u \in {v \in S : Share(q.dist, v) > 0}}
        OBVIOUS
      <4>3. PICK a : a = Max(S)
        OBVIOUS
      <4>4. PICK next : next = [q EXCEPT !.step = "insert", !.after = a, !.rows = rows]
        OBVIOUS
      <4>5. snapshot' = [snapshot EXCEPT ![r] = next]
        BY <2>2, <3>1, <4>1, <4>2, <4>3, <4>4 DEF ReadBatch
      <4>6. next = [step |-> "insert", dist |-> q.dist, todo |-> q.todo, after |-> a, rows |-> rows,
                    count |-> q.count]
        BY <2>3, <4>4 DEF IsWalk
      <4>7. next.dist = q.dist /\ next.todo = q.todo
        BY <4>6
      <4> QED BY <4>5, <4>7
    <3>2. CASE InsertClaims(r)
      <4>1. PICK n : n = q.count + Cardinality(q.rows)
        OBVIOUS
      <4>2. PICK next : next = [q EXCEPT !.step = "read", !.rows = {}, !.count = n]
        OBVIOUS
      <4>3. snapshot' = [snapshot EXCEPT ![r] = next]
        BY <2>2, <3>2, <4>1, <4>2 DEF InsertClaims
      <4>4. next = [step |-> "read", dist |-> q.dist, todo |-> q.todo, after |-> q.after, rows |-> {},
                    count |-> n]
        BY <2>3, <4>2 DEF IsWalk
      <4>5. next.dist = q.dist /\ next.todo = q.todo
        BY <4>4
      <4> QED BY <4>3, <4>5
    <3>3. CASE SetDistributionStatus(r)
      <4>1. PICK next : next = [q EXCEPT !.step = "queue"]
        OBVIOUS
      <4>2. snapshot' = [snapshot EXCEPT ![r] = next]
        BY <2>2, <3>3, <4>1 DEF SetDistributionStatus
      <4>3. next = [step |-> "queue", dist |-> q.dist, todo |-> q.todo, after |-> q.after, rows |-> q.rows,
                    count |-> q.count]
        BY <2>3, <4>1 DEF IsWalk
      <4>4. next.dist = q.dist /\ next.todo = q.todo
        BY <4>3
      <4> QED BY <4>2, <4>4
    <3> QED BY <1>6, <3>1, <3>2, <3>3
  <2>5. InSnapshot' \subseteq InSnapshot
    BY <2>2, <2>3, <2>4, RunKeeps
  <2>6. DOMAIN distributions' = DOMAIN distributions
    <3>1. CASE ReadBatch(r) \/ InsertClaims(r)
      BY <3>1 DEF ReadBatch, InsertClaims
    <3>2. CASE SetDistributionStatus(r)
      <4>1. PICK f : distributions' = [distributions EXCEPT ![q.dist] = f]
        BY <2>2, <3>2 DEF SetDistributionStatus
      <4> QED BY <4>1
    <3> QED BY <1>6, <3>1, <3>2
  <2>7. ASSUME NEW d \in DistIds, NEW u \in Holders, HasClaim(d, u)'
        PROVE  HasClaim(d, u) \/ d \in InSnapshot
    <3>1. CASE InsertClaims(r)
      <4>1. claims' = [claims EXCEPT ![q.dist] = WithClaims(q.dist, q.rows)] /\ paid' = paid
        BY <2>2, <3>1 DEF InsertClaims, snapshotUnchanged
      <4>2. d # q.dist => claims'[d] = claims[d]
        BY <4>1 DEF ClaimsTyped
      <4> QED BY <2>3, <2>7, <4>2 DEF HasClaim
    <3>2. CASE ~ InsertClaims(r)
      BY <1>6, <2>7, <3>2 DEF ReadBatch, SetDistributionStatus, HasClaim
    <3> QED BY <3>1, <3>2
  <2> QED BY <2>5, <2>6, <2>7, KnownStays
<1>7. ASSUME NEW d \in DistIds, SnapshotDateComes(d)
      PROVE  KnownInv'
  <2>1. PICK f : distributions' = [distributions EXCEPT ![d] = f]
    BY <1>7 DEF SnapshotDateComes
  <2>2. DOMAIN distributions' = DOMAIN distributions
    BY <2>1
  <2> QED BY <1>1, <1>7, <2>2 DEF SnapshotDateComes
<1>8. ASSUME NEW due \in BOOLEAN, CreateDistribution(due)
      PROVE  KnownInv'
  <2>1. PICK row : distributions' = Append(distributions, row)
    BY <1>8 DEF CreateDistribution
  <2>2. distributions \in Seq(DistRow) /\ DOMAIN distributions = 1 .. Len(distributions)
        /\ Len(distributions) \in Nat
    BY LenProperties DEF WalkInv, WalksTyped
  <2>3. DOMAIN distributions' = 1 .. (Len(distributions) + 1)
    BY <2>1, <2>2
  <2> QED BY <1>1, <1>8, <2>2, <2>3 DEF CreateDistribution
<1>9. CASE SnapshotNext
  <2>1. CASE DistributeYield \/ \E due \in BOOLEAN : CreateDistribution(due)
    BY <1>8, <2>1 DEF DistributeYield
  <2>2. CASE \E d \in DistIds : SnapshotDateComes(d)
    BY <1>7, <2>2
  <2>3. CASE BuildTree \/ \E u, v \in Holders : HoldingMoves(u, v)
    BY <1>2, <2>3 DEF BuildTree, HoldingMoves
  <2>4. ASSUME NEW r \in SnapshotRuns, SnapshotStep(r) \/ WalkThrows(r)
        PROVE  KnownInv'
    <3>1. CASE WalkThrows(r)
      BY <1>5, <3>1 DEF WalkThrows
    <3>2. CASE QueueTree(r)
      <4>1. snapshot[r] # NoRun
        BY <3>2 DEF QueueTree, NoRun
      <4> QED BY <1>5, <3>2, <4>1 DEF QueueTree
    <3> QED BY <1>4, <1>6, <2>4, <3>1, <3>2 DEF SnapshotStep
  <2>5. CASE RestartDividends
    <3>1. InSnapshot' = {}
      BY <2>5 DEF RestartDividends, InSnapshot
    <3> QED BY <1>3, <2>5, <3>1 DEF RestartDividends
  <2> QED BY <1>9, <2>1, <2>2, <2>3, <2>4, <2>5 DEF SnapshotNext
<1>10. CASE ClaimNext
  <2>1. UNCHANGED <<snapshot, distributions>>
    BY <1>10 DEF ClaimNext, ReadClaim, PostClaim, ClaimRefused, ClaimRollsBack, claimUnchanged
  <2>2. ASSUME NEW d \in DistIds, NEW u \in Holders, HasClaim(d, u)'
        PROVE  HasClaim(d, u)
    <3>1. ASSUME NEW c \in ClaimClients, PostClaim(c)
          PROVE  HasClaim(d, u)
      <4>1. claims' = [claims EXCEPT ![claiming[c].dist][claiming[c].user].status = "CLAIMED"]
            /\ claims[claiming[c].dist][claiming[c].user].status = "PENDING"
        BY <3>1 DEF PostClaim, StillPending
      <4>2. CASE d = claiming[c].dist /\ u = claiming[c].user
        BY <4>1, <4>2 DEF HasClaim, NoClaim
      <4>3. CASE ~ (d = claiming[c].dist /\ u = claiming[c].user)
        BY <2>2, <4>1, <4>3 DEF HasClaim, ClaimsTyped
      <4> QED BY <4>2, <4>3
    <3>2. CASE ~ \E c \in ClaimClients : PostClaim(c)
      BY <1>10, <2>2, <3>2 DEF ClaimNext, ReadClaim, ClaimRefused, ClaimRollsBack, HasClaim
    <3> QED BY <3>1, <3>2
  <2>3. InSnapshot' = InSnapshot
    BY <2>1 DEF InSnapshot
  <2> QED BY <2>1, <2>2, <2>3, KnownStays
<1>11. CASE ChainNext \/ CommissionNext \/ InterestNext \/ DivRest \/ UNCHANGED divVars
  BY <1>2, <1>11 DEF ChainNext, LinkWallet, ChainCreate, ChainClaim, distributorUnchanged, CommissionNext,
     TakeCommission, FindReward, CreateReward, CommissionThrows, CommissionStalls, UpdateConfig,
     commissionUnchanged, InterestNext, ApplyPenalty,
     ReadLatePayments, interestUnchanged, DivRest, divVars
<1> QED BY <1>9, <1>10, <1>11 DEF DivNext

LEMMA KnownStarts ==
  ASSUME DivInit
  PROVE  KnownInv
<1>1. InSnapshot = {}
  BY DEF DivInit, InSnapshot
<1>2. \A d \in DistIds, u \in Holders : ~ HasClaim(d, u)
  BY DEF DivInit, HasClaim
<1> QED BY <1>1, <1>2 DEF KnownInv

LEMMA CreditStep ==
  ASSUME CreditInv, WalkInv, [DivNext]_divVars
  PROVE  CreditInv'
<1>1. CASE UNCHANGED <<claims, paid, claiming>>
  BY <1>1, CreditRests
<1>2. ASSUME NEW r \in SnapshotRuns, InsertClaims(r)
      PROVE  CreditInv'
  <2>1. PICK q : q = snapshot[r]
    OBVIOUS
  <2>2. /\ q.step = "insert" /\ claims' = [claims EXCEPT ![q.dist] = WithClaims(q.dist, q.rows)]
        /\ UNCHANGED <<paid, claiming>>
    BY <1>2, <2>1 DEF InsertClaims, snapshotUnchanged
  <2>3. IsWalk(q)
    BY <2>1, <2>2, NoRunIsNoWalk DEF WalkInv, WalksTyped
  <2>4. q.dist \in DistIds /\ q.rows \subseteq Holders \X Nat
    BY <2>3 DEF IsWalk
  <2>5. PICK d \in DistIds : d = q.dist
    BY <2>4
  <2>6. PICK rows : rows = q.rows
    OBVIOUS
  <2> QED BY <2>2, <2>4, <2>5, <2>6, InsertCredit
<1>3. CASE SnapshotNext
  <2>1. CASE RestartDividends
    <3>1. UNCHANGED <<claims, paid>> /\ claiming' = [c \in ClaimClients |-> NoClaiming]
      BY <2>1 DEF RestartDividends
    <3>2. \A c \in ClaimClients : claiming'[c] = NoClaiming
      BY <3>1
    <3>3. Kept
      BY <3>1 DEF Kept, HasClaim
    <3>4. ClaimingsOK'
      BY <3>1, <3>2, <3>3, ClaimingsStay DEF CreditInv
    <3> QED BY <3>1, <3>4 DEF CreditInv, ClaimsTyped, ClaimedIsCredited
  <2>2. CASE \E r \in SnapshotRuns : SnapshotStep(r) \/ WalkThrows(r)
    BY <1>1, <1>2, <2>2 DEF SnapshotStep, StartSnapshots, ReadBatch, SetDistributionStatus, QueueTree,
       WalkThrows, snapshotUnchanged
  <2>3. CASE ~ RestartDividends /\ ~ \E r \in SnapshotRuns : SnapshotStep(r) \/ WalkThrows(r)
    BY <1>1, <1>3, <2>3 DEF SnapshotNext, CreateDistribution, DistributeYield, SnapshotDateComes,
       HoldingMoves, BuildTree
  <2> QED BY <2>1, <2>2, <2>3
<1>4. CASE ClaimNext
  <2>1. PICK c \in ClaimClients : \/ \E d \in DistIds, u \in Holders : ReadClaim(c, d, u)
                                  \/ PostClaim(c) \/ ClaimRefused(c) \/ ClaimRollsBack(c)
    BY <1>4 DEF ClaimNext
  <2>2. CASE ClaimRefused(c) \/ ClaimRollsBack(c)
    <3>1. UNCHANGED <<claims, paid>> /\ claiming' = [claiming EXCEPT ![c] = NoClaiming]
      BY <2>2 DEF ClaimRefused, ClaimRollsBack
    <3> QED BY <3>1, NobodyClaims, ClaimingGoes
  <2> QED BY <2>1, <2>2, ReadClaimHolds, PostClaimHolds
<1>5. CASE ChainNext \/ CommissionNext \/ InterestNext \/ DivRest \/ UNCHANGED divVars
  BY <1>1, <1>5 DEF ChainNext, LinkWallet, ChainCreate, ChainClaim, distributorUnchanged, CommissionNext,
     TakeCommission, FindReward, CreateReward, CommissionThrows, CommissionStalls, UpdateConfig,
     commissionUnchanged, InterestNext, ApplyPenalty,
     ReadLatePayments, interestUnchanged, DivRest, divVars
<1> QED BY <1>3, <1>4, <1>5 DEF DivNext

LEMMA WalkStep ==
  ASSUME CreditInv, WalkInv, KnownInv, [DivNext]_divVars
  PROVE  WalkInv'
<1>1. CASE UNCHANGED <<holdings, distributions, snapshot, unsettled, claims>>
  BY <1>1, WalkAndClaimsRest
<1>2. CASE SnapshotNext
  <2>1. CASE RestartDividends
    BY <2>1, RunsGone DEF RestartDividends
  <2>2. ASSUME NEW r \in SnapshotRuns, SnapshotStep(r)
        PROVE  WalkInv'
    <3>1. CASE QueueTree(r)
      <4>1. snapshot[r] # NoRun
        BY <3>1 DEF QueueTree, NoRun
      <4>2. NextWalk(r) /\ UNCHANGED <<holdings, claims, unsettled, distributions>>
        BY <3>1 DEF QueueTree, snapshotUnchanged
      <4> QED BY <4>1, <4>2, NextWalkHolds
    <3>2. CASE InsertClaims(r)
      BY <3>2, InsertWalk DEF CreditInv
    <3> QED BY <2>2, <3>1, <3>2, StartSnapshotsHolds, ReadBatchHolds, SetDistributionHolds DEF SnapshotStep
  <2>3. ASSUME NEW r \in SnapshotRuns, WalkThrows(r)
        PROVE  WalkInv'
    BY <2>3, NextWalkHolds DEF WalkThrows, snapshotUnchanged
  <2>4. CASE DistributeYield \/ \E due \in BOOLEAN : CreateDistribution(due)
    BY <2>4, CreateDistributionHolds DEF DistributeYield
  <2>5. CASE BuildTree
    BY <1>1, <2>5 DEF BuildTree
  <2> QED BY <1>2, <2>1, <2>2, <2>3, <2>4, <2>5, DateComesHolds, HoldingMovesHolds DEF SnapshotNext
<1>3. CASE ClaimNext
  <2>1. PICK c \in ClaimClients : \/ \E d \in DistIds, u \in Holders : ReadClaim(c, d, u)
                                  \/ PostClaim(c) \/ ClaimRefused(c) \/ ClaimRollsBack(c)
    BY <1>3 DEF ClaimNext
  <2>2. CASE PostClaim(c)
    <3>1. UNCHANGED <<holdings, distributions, snapshot, unsettled>>
      BY <2>2 DEF PostClaim, claimUnchanged
    <3> QED BY <2>2, <3>1, PostClaimHolds, WalkRests
  <2>3. CASE ~ PostClaim(c)
    BY <1>1, <2>1, <2>3 DEF ReadClaim, ClaimRefused, ClaimRollsBack, claimUnchanged
  <2> QED BY <2>2, <2>3
<1>4. CASE ChainNext \/ CommissionNext \/ InterestNext \/ DivRest \/ UNCHANGED divVars
  BY <1>1, <1>4 DEF ChainNext, LinkWallet, ChainCreate, ChainClaim, distributorUnchanged, CommissionNext,
     TakeCommission, FindReward, CreateReward, CommissionThrows, CommissionStalls, UpdateConfig,
     commissionUnchanged, InterestNext, ApplyPenalty,
     ReadLatePayments, interestUnchanged, DivRest, divVars
<1> QED BY <1>2, <1>3, <1>4 DEF DivNext

LEMMA RewardStep ==
  ASSUME CreditInv, RewardInv, [DivNext]_divVars
  PROVE  RewardInv'
<1>1. CASE UNCHANGED <<commissions, rewards, working, foundTwice>>
  BY <1>1, RewardRests
<1>2. CASE SnapshotNext
  BY <1>1, <1>2 DEF SnapshotNext, SnapshotStep, StartSnapshots, ReadBatch, InsertClaims,
     SetDistributionStatus, QueueTree, WalkThrows, snapshotUnchanged, CreateDistribution, DistributeYield,
     SnapshotDateComes, HoldingMoves, BuildTree, RestartDividends
<1>3. CASE ClaimNext
  <2>1. PICK c \in ClaimClients : \/ \E d \in DistIds, u \in Holders : ReadClaim(c, d, u)
                                  \/ PostClaim(c) \/ ClaimRefused(c) \/ ClaimRollsBack(c)
    BY <1>3 DEF ClaimNext
  <2>2. CASE PostClaim(c) \/ ClaimRollsBack(c)
    <3>1. PICK q : q = claiming[c]
      OBVIOUS
    <3>2. q.step = "claim" /\ UNCHANGED <<rewards, working, foundTwice>>
          /\ commissions' \in {commissions, Append(commissions, YieldJob(q.dist, q.user))}
      BY <2>2, <3>1 DEF PostClaim, ClaimRollsBack, claimUnchanged
    <3>3. q.dist \in DistIds /\ q.user \in Holders
      BY <3>1, <3>2 DEF CreditInv, ClaimingsOK, ClaimingOK
    <3> QED BY <3>2, <3>3, JobQueued
  <2>3. CASE ~ (PostClaim(c) \/ ClaimRollsBack(c))
    BY <1>1, <2>1, <2>3 DEF ReadClaim, ClaimRefused, claimUnchanged
  <2> QED BY <2>2, <2>3
<1>4. CASE CommissionNext
  BY <1>4, CommissionGoes
<1>5. CASE ChainNext \/ InterestNext \/ DivRest \/ UNCHANGED divVars
  BY <1>1, <1>5 DEF ChainNext, LinkWallet, ChainCreate, ChainClaim, distributorUnchanged, InterestNext,
     ApplyPenalty, ReadLatePayments, interestUnchanged, DivRest, divVars
<1> QED BY <1>2, <1>3, <1>4, <1>5 DEF DivNext

LEMMA DividendsInvariant == DivSpec => [](CreditInv /\ WalkInv /\ RewardInv /\ KnownInv)
<1>1. DivInit => CreditInv /\ WalkInv /\ RewardInv /\ KnownInv
  BY DivStarts, KnownStarts
<1>2. CreditInv /\ WalkInv /\ RewardInv /\ KnownInv /\ [DivNext]_divVars
        => (CreditInv /\ WalkInv /\ RewardInv /\ KnownInv)'
  BY CreditStep, WalkStep, RewardStep, KnownStep DEF CreditInv
<1> QED BY <1>1, <1>2, PTL DEF DivSpec

\* processSnapshots: a share is rounded down, the holdings add up to no more
\* than the supply, and skipDuplicates leaves a claim as it is, so that the
\* claims never promise more than the distribution has, however many runs
\* overlap or fail, as long as nobody trades the asset while one goes on.
THEOREM DividendsFit == DivSpec => []ClaimsFitTotal
<1>1. WalkInv => ClaimsFitTotal
  BY DEF WalkInv, SharesInv, ClaimsFitTotal
<1> QED BY <1>1, DividendsInvariant, PTL

\* claimDividend: of the requests that read a claim one finds it PENDING, and
\* credits the amount it read, which nothing has changed since.
THEOREM DividendsAreCredited == DivSpec => []ClaimedIsCredited
<1>1. CreditInv => ClaimedIsCredited
  BY DEF CreditInv
<1> QED BY <1>1, DividendsInvariant, PTL

\* CommissionsProcessor, for any number of workers, jobs of one claim, attempts
\* and stalled jobs: a claim is rewarded twice only if two workers at a time had
\* looked and found no reward of it before either created one.
THEOREM ClaimRewardedOnce == DivSpec => []RewardedOnce
<1>1. RewardInv => RewardedOnce
  BY DEF RewardInv
<1> QED BY <1>1, DividendsInvariant, PTL
------------------------------------------------------------------------------
(***************************************************************************)
(* Trees of hashes, for any number of leaves.  A recursive function is a   *)
(* CHOOSE; that there is one is shown for one more argument at a time.     *)
(***************************************************************************)
\* A sequence of anything: its elements need not be from a set known beforehand.
Listed(s) == Len(s) \in Nat /\ s = [i \in 1 .. Len(s) |-> s[i]]

LEMMA ListedSeq ==
  ASSUME NEW s, Listed(s), NEW x
  PROVE  /\ Listed(Append(s, x)) /\ Len(Append(s, x)) = Len(s) + 1
         /\ Append(s, x)[Len(s) + 1] = x
         /\ \A i \in 1 .. Len(s) : Append(s, x)[i] = s[i]
<1> DEFINE S == {s[i] : i \in 1 .. Len(s)} \cup {x}
<1>1. PICK n \in Nat : n = Len(s)
  BY DEF Listed
<1>2. s \in [1 .. n -> S]
  BY <1>1 DEF Listed
<1> HIDE DEF S
<1>3. s \in Seq(S)
  BY <1>2, SeqDef
<1>4. x \in S
  BY DEF S
<1>5. /\ Append(s, x) \in Seq(S) /\ Len(Append(s, x)) = Len(s) + 1
      /\ \A i \in 1 .. Len(s) : Append(s, x)[i] = s[i]
      /\ Append(s, x)[Len(s) + 1] = x
  BY <1>3, <1>4, AppendProperties
<1>6. Listed(Append(s, x))
  BY <1>5, LenProperties DEF Listed
<1> QED BY <1>5, <1>6

LEMMA ListedFunction ==
  ASSUME NEW n \in Nat, NEW s, s = [i \in 1 .. n |-> s[i]]
  PROVE  Listed(s) /\ Len(s) = n /\ DOMAIN s = 1 .. n
<1> DEFINE S == {s[i] : i \in 1 .. n}
<1>1. s \in [1 .. n -> S]
  OBVIOUS
<1> HIDE DEF S
<1>2. s \in Seq(S) /\ DOMAIN s = 1 .. n
  BY <1>1, SeqDef
<1>3. Len(s) \in Nat /\ 1 .. Len(s) = 1 .. n
  BY <1>2, LenProperties
<1>4. Len(s) = n
  BY <1>3
<1> QED BY <1>2, <1>4 DEF Listed

LEMMA Halves ==
  ASSUME NEW n \in Nat
  PROVE  /\ (n + 1) \div 2 \in Nat
         /\ n % 2 = 0 => n = 2 * ((n + 1) \div 2)
         /\ n % 2 # 0 => n = 2 * ((n + 1) \div 2) - 1
OBVIOUS

LEMMA HalvesShrink ==
  ASSUME NEW n \in Nat, n >= 2
  PROVE  (n + 1) \div 2 \in Nat /\ (n + 1) \div 2 >= 1 /\ (n + 1) \div 2 + 1 <= n
OBVIOUS

LEMMA LayerAbove ==
  ASSUME NEW layer, Listed(layer), Len(layer) >= 1
  PROVE  /\ Listed(Above(layer)) /\ Len(Above(layer)) = (Len(layer) + 1) \div 2
         /\ \A i \in 1 .. (Len(layer) + 1) \div 2 :
              Above(layer)[i] = HashPair(layer[2 * i - 1], At(layer, 2 * i))
<1>1. PICK n \in Nat : n = (Len(layer) + 1) \div 2
  BY Halves DEF Listed
<1>2. Above(layer) = [i \in 1 .. n |-> HashPair(layer[2 * i - 1], At(layer, 2 * i))]
  BY <1>1 DEF Above
<1>3. \A i \in 1 .. n : Above(layer)[i] = HashPair(layer[2 * i - 1], At(layer, 2 * i))
  BY <1>2
<1>4. Above(layer) = [i \in 1 .. n |-> Above(layer)[i]]
  BY <1>2
<1>5. Listed(Above(layer)) /\ Len(Above(layer)) = n
  BY <1>4, ListedFunction
<1> QED BY <1>1, <1>3, <1>5

\* One turn of the loop that builds the layers.
Turn(below) ==
  LET top == below[Len(below)] IN IF Len(top) = 1 THEN below ELSE Append(below, Above(top))

LayersUpTo(leaves, n, f) ==
  f = [k \in 1 .. n |-> IF k = 1 THEN <<leaves>> ELSE Turn(f[k - 1])]

LEMMA LayersExist ==
  ASSUME NEW leaves, NEW n \in Nat
  PROVE  \E f : LayersUpTo(leaves, n, f)
<1> DEFINE Good == {m \in Nat : \E f : LayersUpTo(leaves, m, f)}
<1>1. 0 \in Good
  <2>1. LayersUpTo(leaves, 0, [k \in 1 .. 0 |-> leaves])
    BY DEF LayersUpTo
  <2> QED BY <2>1
<1>2. ASSUME NEW m \in Nat, m \in Good PROVE m + 1 \in Good
  <2>1. PICK f : LayersUpTo(leaves, m, f)
    BY <1>2
  <2> DEFINE g == [k \in 1 .. m + 1 |-> IF k = 1 THEN <<leaves>> ELSE Turn(f[k - 1])]
  <2>2. ASSUME NEW k \in 1 .. m + 1, k # 1 PROVE g[k - 1] = f[k - 1]
    <3>1. k - 1 \in 1 .. m /\ k - 1 \in 1 .. m + 1
      BY <2>2
    <3> QED BY <2>1, <3>1 DEF LayersUpTo
  <2>3. LayersUpTo(leaves, m + 1, g)
    BY <2>2 DEF LayersUpTo
  <2> QED BY <2>3
<1>3. Nat \subseteq Good
  <2> HIDE DEF Good
  <2> QED BY <1>1, <1>2, Climb
<1> QED BY <1>3

\* What is built of the tree after k turns.
Tower(layers, leaves, k) ==
  /\ Listed(layers) /\ Len(layers) >= 1 /\ layers[1] = leaves
  /\ \A j \in 1 .. Len(layers) : Listed(layers[j]) /\ Len(layers[j]) >= 1
  /\ \A j \in 1 .. Len(layers) : j # Len(layers) => layers[j + 1] = Above(layers[j])
  /\ Len(layers[Len(layers)]) = 1 \/ Len(layers[Len(layers)]) + k <= Len(leaves) + 1

LEMMA TowerTurns ==
  ASSUME NEW layers, NEW leaves, NEW k \in Nat, Tower(layers, leaves, k), Listed(leaves)
  PROVE  Tower(Turn(layers), leaves, k + 1)
<1> DEFINE n == Len(layers)
           top == layers[n]
<1>1. n \in Nat /\ n >= 1 /\ Listed(top) /\ Len(top) >= 1 /\ Len(top) \in Nat /\ Len(leaves) \in Nat
  BY DEF Tower, Listed
<1>2. CASE Len(top) = 1
  BY <1>2 DEF Tower, Turn
<1>3. CASE Len(top) # 1
  <2> DEFINE higher == Append(layers, Above(top))
  <2>1. Turn(layers) = higher
    BY <1>3 DEF Turn
  <2>2. /\ Listed(higher) /\ Len(higher) = n + 1 /\ higher[n + 1] = Above(top)
        /\ \A j \in 1 .. n : higher[j] = layers[j]
    BY ListedSeq DEF Tower
  <2>3. Listed(Above(top)) /\ Len(Above(top)) = (Len(top) + 1) \div 2
    BY <1>1, LayerAbove
  <2>4. Len(Above(top)) \in Nat /\ Len(Above(top)) >= 1 /\ Len(Above(top)) + 1 <= Len(top)
    <3>1. PICK m, h : m \in Nat /\ m = Len(top) /\ h = Len(Above(top)) /\ h = (m + 1) \div 2
      BY <1>1, <2>3
    <3>2. m >= 2
      <4>1. m \in Nat /\ m = Len(top)
        BY <3>1
      <4>2. m >= 1 /\ m # 1
        BY <1>1, <1>3, <4>1
      <4> HIDE DEF n, top, higher
      <4> QED BY <4>1, <4>2
    <3>3. h \in Nat /\ h >= 1 /\ h + 1 <= m
      BY <3>1, <3>2, HalvesShrink
    <3> QED BY <3>1, <3>3
  <2>5. Len(top) + k <= Len(leaves) + 1
    BY <1>3 DEF Tower
  <2>6. Len(Above(top)) + (k + 1) <= Len(leaves) + 1
    BY <1>1, <2>4, <2>5
  <2> HIDE DEF n, top, higher
  <2>7. \A j \in 1 .. n : Listed(layers[j]) /\ Len(layers[j]) >= 1
    BY DEF Tower, n
  <2>8. ASSUME NEW j \in 1 .. n + 1 PROVE Listed(higher[j]) /\ Len(higher[j]) >= 1
    <3>1. CASE j \in 1 .. n
      BY <2>2, <2>7, <3>1
    <3>2. CASE j = n + 1
      BY <2>2, <2>3, <2>4, <3>2
    <3> QED BY <1>1, <3>1, <3>2
  <2>9. ASSUME NEW j \in 1 .. n + 1, j # n + 1 PROVE higher[j + 1] = Above(higher[j])
    <3>1. j \in 1 .. n
      BY <1>1, <2>9
    <3>2. CASE j = n
      BY <2>2, <3>1, <3>2 DEF top
    <3>3. CASE j # n
      <4>1. j + 1 \in 1 .. n /\ layers[j + 1] = Above(layers[j])
        BY <1>1, <3>1, <3>3 DEF Tower, n
      <4> QED BY <2>2, <3>1, <4>1
    <3> QED BY <3>2, <3>3
  <2>10. higher[1] = leaves
    <3>1. 1 \in 1 .. n /\ layers[1] = leaves
      BY <1>1 DEF Tower
    <3> QED BY <2>2, <3>1
  <2>11. n + 1 >= 1
    BY <1>1
  <2> QED BY <2>1, <2>2, <2>6, <2>8, <2>9, <2>10, <2>11 DEF Tower
<1> QED BY <1>2, <1>3

\* The tree: each layer is the one above the last, and the last is the root alone.
LEMMA LayersAre ==
  ASSUME NEW leaves, Listed(leaves), Len(leaves) >= 1
  PROVE  /\ Tower(MerkleLayers(leaves), leaves, Len(leaves))
         /\ Len(MerkleLayers(leaves)[Len(MerkleLayers(leaves))]) = 1
<1>1. PICK n \in Nat : n = Len(leaves)
  BY DEF Listed
<1> DEFINE f == CHOOSE g : LayersUpTo(leaves, n, g)
<1>2. MerkleLayers(leaves) = f[n]
  BY <1>1 DEF MerkleLayers, LayersUpTo, Turn
<1>3. LayersUpTo(leaves, n, f)
  BY LayersExist
<1> HIDE DEF f
<1> DEFINE Good == {m \in Nat : m + 1 \in 1 .. n => Tower(f[m + 1], leaves, m + 1)}
<1>4. 0 \in Good
  <2> SUFFICES ASSUME 1 \in 1 .. n PROVE Tower(f[1], leaves, 1)
    OBVIOUS
  <2>1. PICK one : one = <<leaves>>
    OBVIOUS
  <2>2. f[1] = one
    BY <1>3, <2>1 DEF LayersUpTo
  <2>3. Len(one) = 1 /\ one[1] = leaves /\ one = [i \in 1 .. 1 |-> one[i]]
    BY <2>1
  <2>4. Listed(one)
    BY <2>3 DEF Listed
  <2> QED BY <1>1, <2>2, <2>3, <2>4 DEF Tower
<1>5. ASSUME NEW m \in Nat, m \in Good PROVE m + 1 \in Good
  <2> SUFFICES ASSUME m + 2 \in 1 .. n PROVE Tower(f[m + 2], leaves, m + 2)
    OBVIOUS
  <2>1. m + 1 \in 1 .. n /\ m + 2 # 1 /\ (m + 2) - 1 = m + 1 /\ m + 1 \in Nat
    BY <1>1
  <2>2. f[m + 2] = Turn(f[m + 1])
    BY <1>3, <2>1 DEF LayersUpTo
  <2>3. Tower(f[m + 1], leaves, m + 1)
    BY <1>5, <2>1
  <2>4. Tower(Turn(f[m + 1]), leaves, (m + 1) + 1)
    BY <2>1, <2>3, TowerTurns
  <2>5. (m + 1) + 1 = m + 2
    OBVIOUS
  <2> QED BY <2>2, <2>4, <2>5
<1>6. Nat \subseteq Good
  <2> HIDE DEF Good
  <2> QED BY <1>4, <1>5, Climb
<1>7. Tower(f[n], leaves, n)
  <2>1. n - 1 \in Nat /\ (n - 1) + 1 = n /\ n \in 1 .. n
    BY <1>1
  <2>2. n - 1 \in Good
    BY <1>6, <2>1
  <2> QED BY <2>1, <2>2
<1>8. Len(f[n][Len(f[n])]) = 1
  <2>1. Len(f[n]) \in 1 .. Len(f[n])
    BY <1>7 DEF Tower, Listed
  <2>2. Len(f[n][Len(f[n])]) >= 1 /\ Len(f[n][Len(f[n])]) \in Nat
    BY <1>7, <2>1 DEF Tower, Listed
  <2>3. Len(f[n][Len(f[n])]) = 1 \/ Len(f[n][Len(f[n])]) + n <= n + 1
    BY <1>1, <1>7 DEF Tower
  <2>4. PICK m \in Nat : m = Len(f[n][Len(f[n])])
    BY <2>2
  <2>5. m >= 1 /\ (m = 1 \/ m + n <= n + 1)
    BY <2>2, <2>3, <2>4
  <2>6. m = 1
    BY <2>5
  <2> QED BY <2>4, <2>6
<1> QED BY <1>1, <1>2, <1>7, <1>8

\* Where the ancestor of leaf i is in each of n layers.
PlacesUpTo(i, D, f) == f = [k \in D |-> IF k = 1 THEN i ELSE (f[k - 1] + 1) \div 2]

LEMMA PlacesExist ==
  ASSUME NEW i, NEW n \in Nat
  PROVE  \E f : PlacesUpTo(i, 1 .. n, f)
<1> DEFINE Good == {m \in Nat : \E f : PlacesUpTo(i, 1 .. m, f)}
<1>1. 0 \in Good
  <2>1. PlacesUpTo(i, 1 .. 0, [k \in 1 .. 0 |-> i])
    BY DEF PlacesUpTo
  <2> QED BY <2>1
<1>2. ASSUME NEW m \in Nat, m \in Good PROVE m + 1 \in Good
  <2>1. PICK f : PlacesUpTo(i, 1 .. m, f)
    BY <1>2
  <2> DEFINE g == [k \in 1 .. m + 1 |-> IF k = 1 THEN i ELSE (f[k - 1] + 1) \div 2]
  <2>2. ASSUME NEW k \in 1 .. m + 1, k # 1 PROVE g[k - 1] = f[k - 1]
    <3>1. k - 1 \in 1 .. m /\ k - 1 \in 1 .. m + 1
      BY <2>2
    <3> QED BY <2>1, <3>1 DEF PlacesUpTo
  <2>3. PlacesUpTo(i, 1 .. m + 1, g)
    BY <2>2 DEF PlacesUpTo
  <2> QED BY <2>3
<1>3. Nat \subseteq Good
  <2> HIDE DEF Good
  <2> QED BY <1>1, <1>2, Climb
<1> QED BY <1>3

\* What verification computes on the way up.
HashesUpTo(leaf, proof, n, f) ==
  f = [k \in 0 .. n |-> IF k = 0 THEN leaf ELSE HashPair(f[k - 1], proof[k])]

LEMMA HashesExist ==
  ASSUME NEW leaf, NEW proof, NEW n \in Nat
  PROVE  \E f : HashesUpTo(leaf, proof, n, f)
<1> DEFINE Good == {m \in Nat : \E f : HashesUpTo(leaf, proof, m, f)}
<1>1. 0 \in Good
  <2>1. HashesUpTo(leaf, proof, 0, [k \in 0 .. 0 |-> leaf])
    BY DEF HashesUpTo
  <2> QED BY <2>1
<1>2. ASSUME NEW m \in Nat, m \in Good PROVE m + 1 \in Good
  <2>1. PICK f : HashesUpTo(leaf, proof, m, f)
    BY <1>2
  <2> DEFINE g == [k \in 0 .. m + 1 |-> IF k = 0 THEN leaf ELSE HashPair(f[k - 1], proof[k])]
  <2>2. ASSUME NEW k \in 0 .. m + 1, k # 0 PROVE g[k - 1] = f[k - 1]
    <3>1. k - 1 \in 0 .. m /\ k - 1 \in 0 .. m + 1
      BY <2>2
    <3> QED BY <2>1, <3>1 DEF HashesUpTo
  <2>3. HashesUpTo(leaf, proof, m + 1, g)
    BY <2>2 DEF HashesUpTo
  <2> QED BY <2>3
<1>3. Nat \subseteq Good
  <2> HIDE DEF Good
  <2> QED BY <1>1, <1>2, Climb
<1> QED BY <1>3

\* One layer up: the pair of an element and its sibling is the element above.
LEMMA OneUp ==
  ASSUME NEW layer, Listed(layer), NEW p \in 1 .. Len(layer), NEW q, q = (p + 1) \div 2,
         NEW beside, beside = IF Sibling(p) \in DOMAIN layer THEN layer[Sibling(p)] ELSE layer[p]
  PROVE  q \in 1 .. Len(Above(layer)) /\ Above(layer)[q] = HashPair(layer[p], beside)
<1>1. PICK n \in Nat : n = Len(layer) /\ DOMAIN layer = 1 .. n /\ p \in 1 .. n
  BY DEF Listed
<1>2. /\ Len(Above(layer)) = (n + 1) \div 2
      /\ \A i \in 1 .. (n + 1) \div 2 : Above(layer)[i] = HashPair(layer[2 * i - 1], At(layer, 2 * i))
  BY <1>1, LayerAbove
<1>3. PICK m \in Nat : m = (n + 1) \div 2 /\ (n = 2 * m \/ n = 2 * m - 1)
  BY Halves
<1>4. /\ q \in Nat /\ (p % 2 = 0 => p = 2 * q) /\ (p % 2 # 0 => p = 2 * q - 1)
  BY <1>1, Halves
<1>5. q \in 1 .. m
  BY <1>1, <1>3, <1>4
<1>6. Above(layer)[q] = HashPair(layer[2 * q - 1], At(layer, 2 * q))
  BY <1>2, <1>3, <1>5
<1>7. CASE p % 2 = 0
  <2>1. Sibling(p) = 2 * q - 1 /\ p = 2 * q /\ 2 * q - 1 \in 1 .. n
    BY <1>1, <1>4, <1>5, <1>7 DEF Sibling
  <2>2. beside = layer[2 * q - 1] /\ At(layer, 2 * q) = layer[p]
    BY <1>1, <2>1 DEF At
  <2> QED BY <1>2, <1>3, <1>5, <1>6, <2>2 DEF HashPair
<1>8. CASE p % 2 # 0
  <2>1. Sibling(p) = 2 * q /\ p = 2 * q - 1
    BY <1>1, <1>4, <1>5, <1>8 DEF Sibling
  <2>2. At(layer, 2 * q) = beside
    <3>1. CASE 2 * q \in DOMAIN layer
      BY <2>1, <3>1 DEF At
    <3>2. CASE 2 * q \notin DOMAIN layer
      BY <2>1, <3>2 DEF At
    <3> QED BY <3>1, <3>2
  <2> QED BY <1>2, <1>3, <1>5, <1>6, <2>1, <2>2 DEF HashPair
<1> QED BY <1>7, <1>8

\* Whatever the leaves, the proof buildMerkleProof makes for one of them leads
\* from it to the root buildMerkleTree makes of all.
THEOREM MerkleProofsVerify ==
  ASSUME NEW leaves, Listed(leaves), NEW i \in 1 .. Len(leaves)
  PROVE  Verifies(MerkleProof(leaves, i), MerkleRoot(leaves), leaves[i])
<1>1. Len(leaves) \in Nat /\ Len(leaves) >= 1 /\ i \in Nat
  BY DEF Listed
<1>2. PICK layers : layers = MerkleLayers(leaves)
  OBVIOUS
<1>3. Tower(layers, leaves, Len(leaves)) /\ Len(layers[Len(layers)]) = 1
  BY <1>1, <1>2, LayersAre
<1>4. PICK n \in Nat : n = Len(layers) /\ n >= 1 /\ DOMAIN layers = 1 .. n
  BY <1>3 DEF Tower, Listed
<1>5. /\ layers[1] = leaves /\ Len(layers[n]) = 1
      /\ \A j \in 1 .. n : Listed(layers[j]) /\ Len(layers[j]) >= 1
      /\ \A j \in 1 .. n : j # n => layers[j + 1] = Above(layers[j])
  BY <1>3, <1>4 DEF Tower
<1>6. PICK place : /\ PlacesUpTo(i, 1 .. n, place)
                   /\ MerkleProof(leaves, i) =
                        [k \in 1 .. n - 1 |->
                           IF Sibling(place[k]) \in DOMAIN layers[k]
                           THEN layers[k][Sibling(place[k])] ELSE layers[k][place[k]]]
  <2> DEFINE f == CHOOSE g : PlacesUpTo(i, 1 .. n, g)
  <2>1. PlacesUpTo(i, 1 .. n, f)
    BY PlacesExist
  <2>2. MerkleProof(leaves, i) =
          [k \in 1 .. n - 1 |->
             IF Sibling(f[k]) \in DOMAIN layers[k]
             THEN layers[k][Sibling(f[k])] ELSE layers[k][f[k]]]
    BY <1>2, <1>4 DEF MerkleProof, PlacesUpTo
  <2> HIDE DEF f
  <2> QED BY <2>1, <2>2
<1>7. PICK proof : proof = MerkleProof(leaves, i)
  OBVIOUS
<1>8. Len(proof) = n - 1 /\ n - 1 \in Nat
  <2>1. n - 1 \in Nat
    BY <1>4
  <2>2. proof = [k \in 1 .. n - 1 |-> proof[k]]
    BY <1>6, <1>7
  <2> QED BY <2>1, <2>2, ListedFunction
<1>9. PICK hash : /\ HashesUpTo(leaves[i], proof, n - 1, hash)
                  /\ Verifies(proof, MerkleRoot(leaves), leaves[i]) <=> hash[n - 1] = MerkleRoot(leaves)
  <2> DEFINE f == CHOOSE g : HashesUpTo(leaves[i], proof, n - 1, g)
  <2>1. HashesUpTo(leaves[i], proof, n - 1, f)
    BY <1>8, HashesExist
  <2>2. Verifies(proof, MerkleRoot(leaves), leaves[i]) <=> f[n - 1] = MerkleRoot(leaves)
    BY <1>8 DEF Verifies, HashesUpTo
  <2> HIDE DEF f
  <2> QED BY <2>1, <2>2
<1> DEFINE Good == {k \in Nat : k + 1 \in 1 .. n =>
                      place[k + 1] \in 1 .. Len(layers[k + 1]) /\ hash[k] = layers[k + 1][place[k + 1]]}
<1>10. 0 \in Good
  <2>1. 1 \in 1 .. n /\ 0 \in 0 .. n - 1
    BY <1>4
  <2>2. place[1] = i /\ hash[0] = leaves[i]
    BY <1>6, <1>9, <2>1 DEF PlacesUpTo, HashesUpTo
  <2> QED BY <1>5, <2>2
<1>11. ASSUME NEW k \in Nat, k \in Good PROVE k + 1 \in Good
  <2> SUFFICES ASSUME k + 2 \in 1 .. n
               PROVE  /\ place[k + 2] \in 1 .. Len(layers[k + 2])
                      /\ hash[k + 1] = layers[k + 2][place[k + 2]]
    OBVIOUS
  <2>1. /\ k + 1 \in 1 .. n /\ k + 1 # n /\ k + 2 # 1 /\ (k + 2) - 1 = k + 1 /\ (k + 1) + 1 = k + 2
        /\ k + 1 \in 0 .. n - 1 /\ k + 1 # 0 /\ (k + 1) - 1 = k /\ k + 1 \in 1 .. n - 1
    BY <1>4
  <2>2. PICK p, layer : p = place[k + 1] /\ layer = layers[k + 1]
    OBVIOUS
  <2>3. p \in 1 .. Len(layer) /\ hash[k] = layer[p]
    BY <1>11, <2>1, <2>2
  <2>4. Listed(layer) /\ layers[k + 2] = Above(layer)
    BY <1>5, <2>1, <2>2
  <2>5. place[k + 2] = (p + 1) \div 2
    BY <1>6, <2>1, <2>2 DEF PlacesUpTo
  <2>6. hash[k + 1] = HashPair(layer[p], proof[k + 1])
    BY <1>9, <2>1, <2>3 DEF HashesUpTo
  <2>7. proof[k + 1] = IF Sibling(p) \in DOMAIN layer THEN layer[Sibling(p)] ELSE layer[p]
    BY <1>6, <1>7, <2>1, <2>2
  <2>8. place[k + 2] \in 1 .. Len(Above(layer))
        /\ Above(layer)[place[k + 2]] = HashPair(layer[p], proof[k + 1])
    BY <2>3, <2>4, <2>5, <2>7, OneUp
  <2> QED BY <2>4, <2>6, <2>8
<1>12. Nat \subseteq Good
  <2> HIDE DEF Good
  <2> QED BY <1>10, <1>11, Climb
<1>13. place[n] \in 1 .. Len(layers[n]) /\ hash[n - 1] = layers[n][place[n]]
  <2>1. n - 1 \in Good /\ (n - 1) + 1 = n /\ n \in 1 .. n
    BY <1>4, <1>12
  <2> QED BY <2>1
<1>14. hash[n - 1] = layers[n][1]
  BY <1>5, <1>13
<1>15. MerkleRoot(leaves) = layers[n][1]
  BY <1>2, <1>4 DEF MerkleRoot
<1> QED BY <1>7, <1>9, <1>14, <1>15

------------------------------------------------------------------------------
(***************************************************************************)
(* Proofs of claims                                                        *)
(***************************************************************************)
\* A claim's place in the order of users is that of its leaf.
LEMMA ClaimPlace ==
  ASSUME NEW d, NEW u \in Claimants(d)
  PROVE  /\ Cardinality(Claimants(d)) \in Nat
         /\ \E i \in 1 .. Cardinality(Claimants(d)) : ClaimOrder(d)[i] = u
<1> DEFINE C == Claimants(d)
           Before(v) == {w \in C : w < v}
<1>1. IsFiniteSet(C) /\ C \subseteq Nat
  BY FS_Subset, DividendAssumption DEF Claimants
<1>2. \A v : IsFiniteSet(Before(v)) /\ Cardinality(Before(v)) \in Nat
  BY <1>1, FS_Subset, FS_CardinalityType
<1>3. Cardinality(C) \in Nat
  BY <1>1, FS_CardinalityType
<1>4. ASSUME NEW v \in C, NEW w \in C, v < w
      PROVE  Cardinality(Before(v)) < Cardinality(Before(w))
  <2>1. v \in Before(w) /\ v \notin Before(v) /\ Before(v) \subseteq Before(w)
    BY <1>1, <1>4
  <2>2. Cardinality(Before(v)) <= Cardinality(Before(w))
        /\ (Cardinality(Before(v)) = Cardinality(Before(w)) => Before(v) = Before(w))
    BY <1>2, <2>1, FS_Subset
  <2> HIDE DEF Before
  <2> QED BY <1>2, <2>1, <2>2
<1>5. ASSUME NEW v \in C, NEW w \in C, Cardinality(Before(v)) = Cardinality(Before(w))
      PROVE  v = w
  <2> HIDE DEF Before, C
  <2>1. v \in Nat /\ w \in Nat /\ Cardinality(Before(v)) \in Nat
    BY <1>1, <1>2
  <2>2. ~ v < w /\ ~ w < v
    BY <1>2, <1>4, <1>5
  <2> QED BY <2>1, <2>2
<1>6. Cardinality(Before(u)) < Cardinality(C)
  <2>1. u \in C /\ u \notin Before(u) /\ Before(u) \subseteq C
    BY <1>1
  <2>2. Cardinality(Before(u)) <= Cardinality(C)
        /\ (Cardinality(Before(u)) = Cardinality(C) => Before(u) = C)
    BY <1>1, <2>1, FS_Subset
  <2> HIDE DEF Before
  <2> QED BY <1>2, <1>3, <2>1, <2>2
<1>7. PICK i \in 1 .. Cardinality(C) : i - 1 = Cardinality(Before(u))
  <2> HIDE DEF Before, C
  <2>1. Cardinality(Before(u)) + 1 \in 1 .. Cardinality(C)
    BY <1>2, <1>3, <1>6
  <2>2. (Cardinality(Before(u)) + 1) - 1 = Cardinality(Before(u))
    BY <1>2
  <2> QED BY <2>1, <2>2
<1>8. ClaimOrder(d)[i] = CHOOSE v \in C : Cardinality(Before(v)) = i - 1
  BY <1>7 DEF ClaimOrder
<1>9. u \in C /\ \A v \in C : Cardinality(Before(v)) = i - 1 => v = u
  <2>1. u \in C
    OBVIOUS
  <2> HIDE DEF Before, C
  <2> QED BY <1>5, <1>7, <2>1
<1>10. ClaimOrder(d)[i] = u
  <2> HIDE DEF Before, C
  <2> QED BY <1>7, <1>8, <1>9
<1> QED BY <1>3, <1>7, <1>10

LEMMA ClaimVerifies ==
  ASSUME NEW d, NEW u \in Claimants(d)
  PROVE  Verifies(ClaimProof(d, u), MerkleRoot(Leaves(d)), HashLeaf(d, u))
<1>1. PICK n \in Nat : n = Cardinality(Claimants(d)) /\ \E i \in 1 .. n : ClaimOrder(d)[i] = u
  BY ClaimPlace
<1>2. DOMAIN ClaimOrder(d) = 1 .. n
  BY <1>1 DEF ClaimOrder
<1>3. PICK i \in 1 .. n : i = CHOOSE k \in 1 .. n : ClaimOrder(d)[k] = u
  BY <1>1
<1>4. ClaimOrder(d)[i] = u
  BY <1>1, <1>3
<1>5. PICK leaves : leaves = Leaves(d)
  OBVIOUS
<1>6. leaves = [k \in 1 .. n |-> HashLeaf(d, ClaimOrder(d)[k])]
  BY <1>2, <1>5 DEF Leaves
<1>7. leaves[i] = HashLeaf(d, u) /\ leaves = [k \in 1 .. n |-> leaves[k]]
  BY <1>4, <1>6
<1>8. Listed(leaves) /\ i \in 1 .. Len(leaves)
  BY <1>7, ListedFunction
<1>9. ClaimProof(d, u) = MerkleProof(leaves, i)
  BY <1>2, <1>3, <1>5 DEF ClaimProof
<1> QED BY <1>5, <1>7, <1>8, <1>9, MerkleProofsVerify

\* Every claim's proof leads from its leaf to the root of its distribution's
\* tree, so that DividendDistributor pays what the backend promised.
THEOREM EveryProofVerifies == DivSpec => []ProofsVerify
<1>1. ProofsVerify
  BY ClaimVerifies DEF ProofsVerify
<1> QED BY <1>1, PTL
==============================================================================
