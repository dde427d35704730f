---------------------------- MODULE DaoGovernance ----------------------------
(***************************************************************************)
(* The contract DaoGovernance.sol: proposals about the split of an asset's *)
(* tokens, voted on by weight and executed after their end, all of it by   *)
(* the contract's owner.  An id that was never created reads as a proposal *)
(* that is zero in every field, and can be executed like one.              *)
(***************************************************************************)
EXTENDS Naturals, FiniteSets

CONSTANTS
  ChainIds,    \* on-chain proposal ids: 1 .. n
  Voters,      \* addresses with a weight
  Weight,      \* weight the owner gives each voter
  Splits,      \* retained percentages proposals ask for
  MaxTime      \* bound: the clock, shared with the backend

ASSUME ContractAssumption ==
  /\ ChainIds \subseteq Nat \ {0}
  /\ Weight \in [Voters -> Nat]
  /\ Splits \subseteq Nat /\ MaxTime \in Nat

VARIABLES
  now,          \* block.timestamp, and the backend's clock
  proposalCount,
  onChain,      \* proposals
  hasVoted,
  retained,     \* the token's retainedTokenPercentage; released is the rest
  asked         \* history: executions that have changed the split

contractVars == <<proposalCount, onChain, hasVoted, retained, asked>>

Zero == [split |-> 0, forVotes |-> 0, againstVotes |-> 0, endTime |-> 0,
         status |-> "ACTIVE", tokenomics |-> FALSE, executed |-> FALSE]

ContractInit ==
  /\ now = 0 /\ proposalCount = 0
  /\ onChain = [i \in ChainIds |-> Zero]
  /\ hasVoted = [i \in ChainIds |-> {}]
  /\ retained = 0 /\ asked = {}

createTokenomicsProposal(split, duration) ==
  /\ proposalCount + 1 \in ChainIds
  /\ proposalCount' = proposalCount + 1
  /\ onChain' = [onChain EXCEPT ![proposalCount'] =
                   [@ EXCEPT !.split = split, !.endTime = now + duration,
                             !.status = "ACTIVE", !.tokenomics = TRUE]]
  /\ UNCHANGED <<now, hasVoted, retained, asked>>

WithVote(p, weight, support) ==
  IF support THEN [p EXCEPT !.forVotes = @ + weight] ELSE [p EXCEPT !.againstVotes = @ + weight]

\* Mutant: the end is not looked at.
castVoteAnyTime(i, v, support) ==
  /\ v \notin hasVoted[i]
  /\ onChain' = [onChain EXCEPT ![i] = WithVote(@, Weight[v], support)]
  /\ hasVoted' = [hasVoted EXCEPT ![i] = @ \cup {v}]
  /\ UNCHANGED <<now, proposalCount, retained, asked>>

castVote(i, v, support) ==
  /\ now < onChain[i].endTime
  /\ v \notin hasVoted[i]
  /\ onChain' = [onChain EXCEPT ![i] = WithVote(@, Weight[v], support)]
  /\ hasVoted' = [hasVoted EXCEPT ![i] = @ \cup {v}]
  /\ UNCHANGED <<now, proposalCount, retained, asked>>

Executable(i) == now >= onChain[i].endTime /\ ~onChain[i].executed
Carried(i) == onChain[i].forVotes > onChain[i].againstVotes

\* What executeProposal does when it does not revert.
Execute(i) ==
  /\ Executable(i)
  /\ onChain' = [onChain EXCEPT ![i] =
                   [@ EXCEPT !.status = IF Carried(i) THEN "PASSED" ELSE "REJECTED",
                             !.executed = TRUE]]
  /\ LET updates == Carried(i) /\ onChain[i].tokenomics
     IN  /\ retained' = IF updates THEN onChain[i].split ELSE retained
         /\ asked' = IF updates THEN asked \cup {i} ELSE asked
  /\ UNCHANGED <<proposalCount, hasVoted>>

Tick == now < MaxTime /\ now' = now + 1 /\ UNCHANGED contractVars

OwnerNext ==
  \/ \E split \in Splits, duration \in 1 .. MaxTime : createTokenomicsProposal(split, duration)
  \/ \E i \in ChainIds :
       \/ \E v \in Voters, support \in BOOLEAN : castVote(i, v, support)
       \/ Execute(i) /\ UNCHANGED now

------------------------------------------------------------------------------
\* An id is executed once, and for good: after its end nothing changes an
\* executed proposal, not even a vote, and the split of the tokens changes only
\* after the end of a proposal, by the votes cast before it.
ExecutionIsFinal ==
  [][\A i \in ChainIds :
       /\ onChain[i].executed /\ i <= proposalCount /\ now >= onChain[i].endTime => onChain'[i] = onChain[i]
       /\ i \in asked' \ asked => now >= onChain[i].endTime /\ Carried(i)]_<<now, contractVars>>
==============================================================================
