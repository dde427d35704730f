------------------------------ MODULE DaoService ------------------------------
(***************************************************************************)
(* DaoService and the cron that runs it every minute: proposals of assets, *)
(* the snapshot of the holders' voting power page by page, votes, the      *)
(* count of the votes after the end, and the execution by an               *)
(* administrator.  Every backend runs the cron.                            *)
(*                                                                         *)
(* The audit entries of the cron are written for a performer 'SYSTEM' that *)
(* is no user; the foreign key of AuditLog refuses them, and the run ends  *)
(* there, after the first proposal it has handled.                         *)
(***************************************************************************)
EXTENDS DaoGovernance, Sequences, FiniteSetsExt, Functions

CONSTANTS
  DaoAssets,      \* assets
  DaoHolders,     \* 1 .. n, in the order of the ids of their balance rows
  DaoHoldings,    \* opening tokens of each holder of each asset
  DaoRequests,    \* requests to vote or to execute in progress at a time
  DaoCrons,       \* backends
  SnapshotPage,   \* take: 500
  MaxDaoProposals, MaxDaoMoves, MaxDaoFailures  \* bounds

ASSUME DaoAssumption ==
  /\ DaoHolders \subseteq Nat \ {0} /\ IsFiniteSet(DaoHolders)
  /\ DaoHoldings \in [DaoAssets -> [DaoHolders -> Nat]]
  /\ SnapshotPage \in Nat \ {0} /\ MaxDaoProposals \in Nat

VARIABLES
  daoProposals,  \* table DaoProposal
  powers,        \* table DaoVotingSnapshot: by proposal, the holders' power
  votes,         \* table ProposalVote: by proposal, the users' votes
  holding,       \* total of the holders' balances
  daoRequest,    \* what each request carries
  daoCron,       \* what each run of the cron carries
  daoMoves, daoFailures,
  held,          \* history: by proposal, the holdings when a snapshot was over
  moved,         \* history: proposals whose asset moved while they were snapshot
  counted,       \* history: by proposal, the votes at the last count
  daoExecuted,   \* history: how often executeProposal has gone through
  raced          \* history: proposals whose status was written over a change

daoTables == <<daoProposals, powers, votes, holding>>
daoHistory == <<held, moved, counted, daoExecuted, raced>>
daoVars == <<now, contractVars, daoTables, daoRequest, daoCron, daoMoves, daoFailures, daoHistory>>

DaoIds == 1 .. MaxDaoProposals
DaoIdle == [step |-> "idle"]
NoFunction == [x \in {} |-> 0]

DaoInit ==
  /\ ContractInit
  /\ daoProposals = <<>> /\ holding = DaoHoldings
  /\ powers = [p \in DaoIds |-> NoFunction] /\ votes = [p \in DaoIds |-> NoFunction]
  /\ daoRequest = [r \in DaoRequests |-> DaoIdle] /\ daoCron = [c \in DaoCrons |-> DaoIdle]
  /\ daoMoves = 0 /\ daoFailures = 0
  /\ held = NoFunction /\ moved = {} /\ counted = NoFunction
  /\ daoExecuted = [p \in DaoIds |-> 0] /\ raced = {}

Asks(r, next) == daoRequest' = [daoRequest EXCEPT ![r] = next]
Runs(c, next) == daoCron' = [daoCron EXCEPT ![c] = next]
SetStatus(p, status) == daoProposals' = [daoProposals EXCEPT ![p].status = status]
SupplyOf(x) == SumFunctionOnSet(holding[x], DaoHolders)
boundsUnchanged == <<daoMoves, daoFailures>>

------------------------------------------------------------------------------
\* createProposal; the on-chain id is drawn at random.
CreateProposal(x, snapshotAt, endAt, kind, chainId) ==
  /\ Len(daoProposals) < MaxDaoProposals
  /\ endAt > snapshotAt
  /\ daoProposals' = Append(daoProposals,
       [asset |-> x, snapshotAt |-> snapshotAt, endAt |-> endAt, status |-> "ACTIVE",
        kind |-> kind, chainId |-> chainId])
  /\ UNCHANGED <<now, contractVars, powers, votes, holding, daoRequest, daoCron, boundsUnchanged,
                 daoHistory>>

\* vote: the proposal and the power are read, then the vote is created.
MayVote(p, u) ==
  /\ daoProposals[p].status = "ACTIVE"
  /\ daoProposals[p].snapshotAt <= now /\ now <= daoProposals[p].endAt
  /\ u \in DOMAIN powers[p]

ReadForVote(r, p, u, isFor) ==
  /\ daoRequest[r] = DaoIdle /\ p \in DOMAIN daoProposals /\ MayVote(p, u)
  /\ Asks(r, [step |-> "vote", proposal |-> p, user |-> u,
              vote |-> [isFor |-> isFor, power |-> powers[p][u]]])
  /\ UNCHANGED <<now, contractVars, daoTables, daoCron, boundsUnchanged, daoHistory>>

\* A second vote of a user is refused by the unique key.
CreateVote(r) ==
  LET q == daoRequest[r]
  IN  /\ q.step = "vote"
      /\ votes' = IF q.user \in DOMAIN votes[q.proposal] THEN votes
                  ELSE [votes EXCEPT ![q.proposal] =
                          [u \in DOMAIN @ \cup {q.user} |-> IF u = q.user THEN q.vote ELSE @[u]]]
      /\ Asks(r, DaoIdle)
      /\ UNCHANGED <<now, contractVars, daoProposals, powers, holding, daoCron, boundsUnchanged,
                     daoHistory>>

\* executeProposal: read, write, then call the contract.
ReadForExecute(r, p) ==
  /\ daoRequest[r] = DaoIdle /\ p \in DOMAIN daoProposals /\ daoProposals[p].status = "PASSED"
  /\ Asks(r, [step |-> "execute", proposal |-> p])
  /\ UNCHANGED <<now, contractVars, daoTables, daoCron, boundsUnchanged, daoHistory>>

WriteExecuted(r) ==
  LET p == daoRequest[r].proposal
  IN  /\ daoRequest[r].step = "execute"
      /\ SetStatus(p, "EXECUTED")
      /\ daoExecuted' = [daoExecuted EXCEPT ![p] = @ + 1]
      /\ raced' = IF daoProposals[p].status = "PASSED" THEN raced ELSE raced \cup {p}
      /\ Asks(r, IF daoProposals[p].kind = "GENERAL" THEN DaoIdle
                 ELSE [step |-> "call", proposal |-> p])
      /\ UNCHANGED <<now, contractVars, powers, votes, holding, daoCron, boundsUnchanged, held, moved,
                     counted>>

\* A call that reverts is swallowed.
CallContract(r) ==
  /\ daoRequest[r].step = "call"
  /\ LET i == daoProposals[daoRequest[r].proposal].chainId
     IN  IF Executable(i) THEN Execute(i) ELSE UNCHANGED contractVars
  /\ Asks(r, DaoIdle)
  /\ UNCHANGED <<now, daoTables, daoCron, boundsUnchanged, daoHistory>>

------------------------------------------------------------------------------
(***************************************************************************)
(* The cron: processSnapshots, then finalizeProposals.  The order in which *)
(* a query without orderBy answers is any.                                 *)
(***************************************************************************)
Candidates(time) ==
  {p \in DOMAIN daoProposals : /\ daoProposals[p].status = "ACTIVE"
                               /\ daoProposals[p].snapshotAt <= time
                               /\ powers[p] = NoFunction}
\* Mutant: the end itself does not count.
EndedBefore(time) ==
  {p \in DOMAIN daoProposals : daoProposals[p].status = "ACTIVE" /\ daoProposals[p].endAt < time}

Ended(time) ==
  {p \in DOMAIN daoProposals : daoProposals[p].status = "ACTIVE" /\ daoProposals[p].endAt <= time}

cronUnchanged == <<now, contractVars, holding, daoRequest, boundsUnchanged>>

StartRun(c) ==
  /\ daoCron[c] = DaoIdle /\ Candidates(now) \cup Ended(now) # {}
  /\ IF Candidates(now) # {}
     THEN \E p \in Candidates(now) :
            Runs(c, [step |-> "page", proposal |-> p, cursor |-> 0])
     ELSE Runs(c, [step |-> "ended", time |-> now])
  /\ UNCHANGED <<cronUnchanged, daoProposals, powers, votes, daoHistory>>

\* Mutant: the page skips the row after the cursor.
PageSkipping(x, cursor) ==
  LET after == {h \in DaoHolders : h > cursor + 1 /\ holding[x][h] > 0}
  IN  {h \in after : Cardinality({g \in after : g < h}) < SnapshotPage}

\* The next holders after the cursor, at most SnapshotPage of them.
Page(x, cursor) ==
  LET after == {h \in DaoHolders : h > cursor /\ holding[x][h] > 0}
  IN  {h \in after : Cardinality({g \in after : g < h}) < SnapshotPage}

ReadPage(c) ==
  LET q == daoCron[c]
      x == daoProposals[q.proposal].asset
  IN  /\ q.step = "page" /\ Page(x, q.cursor) # {}
      /\ Runs(c, [step |-> "insert", proposal |-> q.proposal, cursor |-> Max(Page(x, q.cursor)),
                  rows |-> [h \in Page(x, q.cursor) |-> holding[x][h]]])
      /\ UNCHANGED <<cronUnchanged, daoProposals, powers, votes, daoHistory>>

\* createMany with skipDuplicates: a row there is stays.
WithRows(there, rows) ==
  [h \in DOMAIN there \cup DOMAIN rows |-> IF h \in DOMAIN there THEN there[h] ELSE rows[h]]

InsertPage(c) ==
  LET q == daoCron[c]
  IN  /\ q.step = "insert"
      /\ powers' = [powers EXCEPT ![q.proposal] = WithRows(@, q.rows)]
      /\ Runs(c, [step |-> "page", proposal |-> q.proposal, cursor |-> q.cursor])
      /\ UNCHANGED <<cronUnchanged, daoProposals, votes, daoHistory>>

\* The page is empty; the audit entry is refused and the run is over.
EndSnapshot(c) ==
  LET q == daoCron[c]
      x == daoProposals[q.proposal].asset
  IN  /\ q.step = "page" /\ Page(x, q.cursor) = {}
      /\ held' = [p \in DOMAIN held \cup {q.proposal} |->
                    IF p = q.proposal THEN holding[x] ELSE held[p]]
      /\ Runs(c, DaoIdle)
      /\ UNCHANGED <<cronUnchanged, daoProposals, powers, votes, moved, counted, daoExecuted, raced>>

PickEnded(c) ==
  /\ daoCron[c].step = "ended"
  /\ IF Ended(daoCron[c].time) = {} THEN Runs(c, DaoIdle)
     ELSE \E p \in Ended(daoCron[c].time) : Runs(c, [step |-> "sumFor", proposal |-> p])
  /\ UNCHANGED <<cronUnchanged, daoProposals, powers, votes, daoHistory>>

PowerFor(vs) ==
  SumFunctionOnSet([u \in DOMAIN vs |-> IF vs[u].isFor THEN vs[u].power ELSE 0], DOMAIN vs)
PowerOf(vs) == SumFunctionOnSet([u \in DOMAIN vs |-> vs[u].power], DOMAIN vs)

\* Mutant: the votes against are summed too.
SumForAnyVote(c) ==
  LET q == daoCron[c]
  IN  /\ q.step = "sumFor"
      /\ Runs(c, [step |-> "sumAll", proposal |-> q.proposal, forPower |-> PowerOf(votes[q.proposal])])
      /\ UNCHANGED <<cronUnchanged, daoProposals, powers, votes, daoHistory>>

SumFor(c) ==
  LET q == daoCron[c]
  IN  /\ q.step = "sumFor"
      /\ Runs(c, [step |-> "sumAll", proposal |-> q.proposal, forPower |-> PowerFor(votes[q.proposal])])
      /\ UNCHANGED <<cronUnchanged, daoProposals, powers, votes, daoHistory>>

\* A quorum of 20 % of the supply, and more than 51 % of the votes.
Passes(forPower, totalPower, supply) ==
  /\ totalPower > 0 /\ 10 * totalPower >= 2 * supply
  /\ 100 * forPower > 51 * totalPower

SumAll(c) ==
  LET q     == daoCron[c]
      total == PowerOf(votes[q.proposal])
  IN  /\ q.step = "sumAll"
      /\ Runs(c, [step |-> "decide", proposal |-> q.proposal, votes |-> votes[q.proposal],
                  passes |-> Passes(q.forPower, total, SupplyOf(daoProposals[q.proposal].asset))])
      /\ UNCHANGED <<cronUnchanged, daoProposals, powers, votes, daoHistory>>

\* The status is written, whatever it has become; the audit entry is refused.
Decide(c) ==
  LET q == daoCron[c]
      p == q.proposal
  IN  /\ q.step = "decide"
      /\ SetStatus(p, IF q.passes THEN "PASSED" ELSE "REJECTED")
      /\ counted' = [i \in DOMAIN counted \cup {p} |-> IF i = p THEN q.votes ELSE counted[i]]
      /\ raced' = IF daoProposals[p].status = "ACTIVE" THEN raced ELSE raced \cup {p}
      /\ Runs(c, DaoIdle)
      /\ UNCHANGED <<cronUnchanged, powers, votes, held, moved, daoExecuted>>

CronStep(c) ==
  \/ StartRun(c) \/ ReadPage(c) \/ InsertPage(c) \/ EndSnapshot(c)
  \/ PickEnded(c) \/ SumFor(c) \/ SumAll(c) \/ Decide(c)

------------------------------------------------------------------------------
\* A backend restarts; its run is lost.
DaoRestart(c) ==
  /\ daoCron[c] # DaoIdle
  /\ daoFailures < MaxDaoFailures /\ daoFailures' = daoFailures + 1
  /\ Runs(c, DaoIdle)
  /\ UNCHANGED <<now, contractVars, daoTables, daoRequest, daoMoves, daoHistory>>

Snapshotting == {daoCron[c].proposal : c \in {d \in DaoCrons : daoCron[d].step \in {"page", "insert"}}}

\* Tokens are traded.
DaoMove(x, from, to) ==
  /\ daoMoves < MaxDaoMoves /\ daoMoves' = daoMoves + 1
  /\ from # to /\ holding[x][from] > 0
  /\ holding' = [holding EXCEPT ![x][from] = @ - 1, ![x][to] = @ + 1]
  /\ moved' = moved \cup {p \in Snapshotting : daoProposals[p].asset = x}
  /\ UNCHANGED <<now, contractVars, daoProposals, powers, votes, daoRequest, daoCron, daoFailures, held,
                 counted, daoExecuted, raced>>

RequestNext ==
  \/ \E x \in DaoAssets, s, e \in 0 .. MaxTime, i \in ChainIds, kind \in {"GENERAL", "INCREASE"} :
       CreateProposal(x, s, e, kind, i)
  \/ \E r \in DaoRequests, p \in DaoIds :
       \/ \E u \in DaoHolders, isFor \in BOOLEAN : ReadForVote(r, p, u, isFor)
       \/ ReadForExecute(r, p)
  \/ \E r \in DaoRequests : CreateVote(r) \/ WriteExecuted(r) \/ CallContract(r)

CronNext == \E c \in DaoCrons : CronStep(c) \/ DaoRestart(c)

backend == <<daoTables, daoRequest, daoCron, boundsUnchanged, daoHistory>>

DaoNext ==
  \/ RequestNext \/ CronNext
  \/ \E x \in DaoAssets, from, to \in DaoHolders : DaoMove(x, from, to)
  \/ (Tick \/ OwnerNext) /\ UNCHANGED backend

DaoFairness == \A c \in DaoCrons : WF_daoVars(CronStep(c))
DaoSpec == DaoInit /\ [][DaoNext]_daoVars /\ DaoFairness

------------------------------------------------------------------------------
\* Once a snapshot is over, every holder, those of the last page too, has the
\* voting power it held, if the tokens did not move while the pages were read.
\* The run that is over took all pages itself, so that a run lost before it
\* leaves no gap.
SnapshotIsWhole ==
  \A p \in DOMAIN held \ moved :
    \A h \in DaoHolders :
      IF held[p][h] > 0 THEN h \in DOMAIN powers[p] /\ powers[p][h] = held[p][h]
      ELSE h \notin DOMAIN powers[p]

\* Votes are weighed by the snapshot, and what was decided follows from the
\* votes there were when the count was over: a vote that slips in between the
\* two sums cannot make a proposal pass that had no majority then.  Only what was
\* counted is executed, and once, unless a count or an execution wrote the
\* status over one that had changed since it was read.
Majority(p) ==
  Passes(PowerFor(counted[p]), PowerOf(counted[p]), SupplyOf(daoProposals[p].asset))

PassedByMajority ==
  /\ \A p \in DaoIds : daoExecuted[p] > 0 => p \in DOMAIN counted
  /\ \A p \in DOMAIN counted :
       /\ \A u \in DOMAIN counted[p] : counted[p][u].power = powers[p][u]
       /\ daoProposals[p].status \in {"PASSED", "EXECUTED"} => Majority(p) \/ p \in raced
       /\ daoExecuted[p] <= 1 \/ p \in raced

\* A proposal on an asset nobody holds has no snapshot, so that every run of
\* the cron ends with it.
Blocked ==
  \E p \in DOMAIN daoProposals :
    daoProposals[p].status = "ACTIVE" /\ SupplyOf(daoProposals[p].asset) = 0

\* A proposal whose end has come is decided, unless such a proposal blocks.
Undecided(p) ==
  p \in DOMAIN daoProposals /\ daoProposals[p].status = "ACTIVE" /\ daoProposals[p].endAt <= now

EndedIsDecided == \A p \in DaoIds : Undecided(p) ~> (~Undecided(p) \/ Blocked)
==============================================================================
