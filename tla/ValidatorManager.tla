-------------------------- MODULE ValidatorManager --------------------------
(***************************************************************************)
(* Governance of the validator set, crates/consensus/src/validator_manager.rs. *)
(*                                                                         *)
(* Validators propose to add or remove a validator and vote.  The checks   *)
(* on the size of the set and on membership are made when a proposal is    *)
(* created; the change is made when a vote completes a quorum, and by then *)
(* the set may be a different one.                                         *)
(***************************************************************************)
EXTENDS ValidatorConfig

VARIABLES
  validators,   \* Vec<Address>: a sequence, which may repeat an address
  proposals,    \* the proposals in order of their id (id = position)
  history,      \* the changes made: block, type and address
  block,        \* the current_block the callers pass
  overlap       \* history: a proposal was made while another was pending

vars == <<validators, proposals, history, block, overlap>>

ProposalState == {"Pending", "Rejected", "Executed", "Expired"}

\* The proposer of a proposal is the first of its votes_for.
Proposal ==
  [proposal_type : {"Add", "Remove"}, target : Candidate,
   votes_for : Seq(Candidate), votes_against : Seq(Candidate),
   expires_at : Nat, state : ProposalState]

TypeOK ==
  /\ validators \in Seq(Candidate)
  /\ proposals \in Seq(Proposal)
  /\ history \in Seq([block : Nat, proposal_type : {"Add", "Remove"}, target : Candidate])
  /\ block \in Nat
  /\ overlap \in BOOLEAN

Elements(s) == {s[i] : i \in 1..Len(s)}

IsValidator(a) == a \in Elements(validators)

Pending == {i \in 1..Len(proposals) : proposals[i].state = "Pending"}

\* validators.retain(|v| *v != target): the addresses that stay, in order.
Retain(vs, target) ==
  LET keep == {i \in 1..Len(vs) : vs[i] # target}
      nth(k) == CHOOSE i \in keep : Cardinality(keep \cap (1..i)) = k
  IN  [k \in 1..Cardinality(keep) |-> vs[nth(k)]]

\* validators.push(target) or validators.retain
Change(vs, proposal_type, target) ==
  IF proposal_type = "Add" THEN Append(vs, target) ELSE Retain(vs, target)

Init ==
  /\ validators = initial_validators
  /\ proposals = <<>>
  /\ history = <<>>
  /\ block = 0
  /\ overlap = FALSE

-----------------------------------------------------------------------------
(* Variants of the definitions below with a plausible bug each; Next does  *)
(* not use them.                                                           *)

\* The quorum is rounded down.
QuorumThreshold_Floor == (Len(validators) * quorum_numerator) \div quorum_denominator

\* A validator may vote again.
MayVote_Again(id, voter) == IsValidator(voter) /\ proposals[id].state = "Pending"
-----------------------------------------------------------------------------
\* ceil(total * numerator / denominator)
QuorumThreshold ==
  (Len(validators) * quorum_numerator + quorum_denominator - 1) \div quorum_denominator

(* check_and_execute(id), with ps the proposals as the caller left them.   *)
CheckAndExecute(ps, id) ==
  \/ /\ Len(ps[id].votes_for) >= QuorumThreshold
     /\ validators' = Change(validators, ps[id].proposal_type, ps[id].target)
     /\ proposals' = [ps EXCEPT ![id].state = "Executed"]
     /\ history' = Append(history, [block |-> block, proposal_type |-> ps[id].proposal_type,
                                    target |-> ps[id].target])
  \/ /\ Len(ps[id].votes_for) < QuorumThreshold
     /\ Len(ps[id].votes_against) >= QuorumThreshold
     /\ proposals' = [ps EXCEPT ![id].state = "Rejected"]
     /\ UNCHANGED <<validators, history>>
  \/ /\ Len(ps[id].votes_for) < QuorumThreshold
     /\ Len(ps[id].votes_against) < QuorumThreshold
     /\ proposals' = ps
     /\ UNCHANGED <<validators, history>>

\* The checks propose makes on the change itself.
Admissible(proposal_type, target) ==
  \/ /\ proposal_type = "Add"
     /\ ~IsValidator(target)
     /\ Len(validators) < max_validators
  \/ /\ proposal_type = "Remove"
     /\ IsValidator(target)
     /\ Len(validators) > min_validators

NewProposal(proposer, proposal_type, target) ==
  [proposal_type |-> proposal_type, target |-> target,
   votes_for |-> <<proposer>>, votes_against |-> <<>>,
   expires_at |-> block + proposal_ttl_blocks, state |-> "Pending"]

Propose(proposer, proposal_type, target) ==
  /\ Len(proposals) < MaxProposals
  /\ Cardinality(Pending) < MaxPending
  /\ IsValidator(proposer)
  /\ Admissible(proposal_type, target)
  /\ LET ps == Append(proposals, NewProposal(proposer, proposal_type, target))
     IN  \/ QuorumThreshold <= 1 /\ CheckAndExecute(ps, Len(ps))
         \/ QuorumThreshold > 1 /\ proposals' = ps /\ UNCHANGED <<validators, history>>
  /\ overlap' = (overlap \/ Pending # {})
  /\ UNCHANGED block

\* The checks vote makes before it records the vote.
MayVote(id, voter) ==
  /\ IsValidator(voter)
  /\ proposals[id].state = "Pending"
  /\ voter \notin Elements(proposals[id].votes_for) \cup Elements(proposals[id].votes_against)

Vote(id, voter, approve) ==
  /\ MayVote(id, voter)
  /\ LET ps == IF approve
                 THEN [proposals EXCEPT ![id].votes_for = Append(@, voter)]
                 ELSE [proposals EXCEPT ![id].votes_against = Append(@, voter)]
     IN  CheckAndExecute(ps, id)
  /\ UNCHANGED <<block, overlap>>

ExpireProposals ==
  /\ proposals' = [i \in 1..Len(proposals) |->
                     IF proposals[i].state = "Pending" /\ block >= proposals[i].expires_at
                       THEN [proposals[i] EXCEPT !.state = "Expired"]
                       ELSE proposals[i]]
  /\ UNCHANGED <<validators, history, block, overlap>>

\* The chain grows; current_block of later calls is larger.
NextBlock ==
  /\ block < LastBlock
  /\ block' = block + 1
  /\ UNCHANGED <<validators, proposals, history, overlap>>

Next ==
  \/ \E proposer, target \in Candidate :
       Propose(proposer, "Add", target) \/ Propose(proposer, "Remove", target)
  \/ \E id \in 1..Len(proposals), voter \in Candidate, approve \in BOOLEAN :
       Vote(id, voter, approve)
  \/ ExpireProposals
  \/ NextBlock

Spec == Init /\ [][Next]_vars

-----------------------------------------------------------------------------
(* Properties                                                              *)

\* As long as no proposal was made while another was pending, the set stays within
\* min_validators and max_validators: propose checks the limits, and nothing
\* changes the set before the vote completes.
SizeWithinLimits ==
  ~overlap => Len(validators) >= min_validators /\ Len(validators) <= max_validators

\* "Minimum number of validators allowed", "Maximum number of validators allowed"
\* (validator_manager.rs:115, 117), for every sequence of proposals and votes.
SizeAlwaysWithinLimits ==
  Len(validators) >= min_validators /\ Len(validators) <= max_validators

\* With one proposal at a time no address is twice in the round-robin: propose
\* refuses an Add of a validator, and nothing turns the target into one before the
\* vote completes.
NoDuplicates ==
  ~overlap => \A i, j \in 1..Len(validators) : validators[i] = validators[j] => i = j

\* One vote per address and proposal, for or against, whatever happens to the
\* validator set between votes.
OneVoteEach ==
  \A id \in 1..Len(proposals) :
    LET ballots == proposals[id].votes_for \o proposals[id].votes_against
    IN  \A i, j \in 1..Len(ballots) : ballots[i] = ballots[j] => i = j

\* A proposal that is executed, rejected or expired never changes again.
DecisionIsFinal ==
  [][\A id \in 1..Len(proposals) :
       proposals[id].state # "Pending" => proposals'[id] = proposals[id]]_vars

\* Proposals that a step executes.
ExecutedNow ==
  {id \in 1..Len(proposals') : /\ proposals'[id].state = "Executed"
                               /\ id \in 1..Len(proposals) => proposals[id].state = "Pending"}

\* The quorum is a "Fraction of validators" (validator_manager.rs:111): with one
\* proposal at a time a change is made only when that fraction of the addresses
\* that are validators at that moment voted for it.
QuorumOfCurrentValidators ==
  [][~overlap' => \A id \in ExecutedNow :
       Cardinality(Elements(proposals'[id].votes_for) \cap Elements(validators))
         * quorum_denominator >= Cardinality(Elements(validators)) * quorum_numerator]_vars

\* With one proposal at a time, a step that records a vote against a proposal does
\* not execute it: the quorum that vote checks is the one the earlier votes missed.
NoVoteAgainstExecutes ==
  [][~overlap' => \A id \in ExecutedNow :
       id \in 1..Len(proposals) => proposals'[id].votes_against = proposals[id].votes_against]_vars

\* With one proposal at a time, a change is executed by a quorum of the validators
\* of that moment, by the vote that completed it, and leaves a set within its
\* limits and without duplicates; no later vote or expiry revises a decision.
ExecutedRightly ==
  /\ DecisionIsFinal
  /\ QuorumOfCurrentValidators /\ NoVoteAgainstExecutes
  /\ [](SizeWithinLimits /\ NoDuplicates)

\* expires_at is the "Block number when the proposal expires"
\* (validator_manager.rs:54): no proposal is executed at or after that block.
NotExecutedAfterExpiry ==
  [][\A id \in ExecutedNow : block < proposals'[id].expires_at]_vars

-----------------------------------------------------------------------------
(* One proposal at a time                                                  *)

Distinct(s) == \A i, j \in 1..Len(s) : s[i] = s[j] => i = j

\* The set the manager is created with.
InitialSetSound ==
  /\ Distinct(initial_validators)
  /\ Len(initial_validators) >= min_validators /\ Len(initial_validators) <= max_validators

\* What propose checked of the only pending proposal still holds, its votes are
\* those of validators, and they are no quorum.
OneSoundProposal ==
  /\ Distinct(validators)
  /\ Len(validators) >= min_validators /\ Len(validators) <= max_validators
  /\ \A id, other \in Pending : id = other
  /\ \A id \in Pending :
       /\ Admissible(proposals[id].proposal_type, proposals[id].target)
       /\ Elements(proposals[id].votes_for) \subseteq Elements(validators)
       /\ Len(proposals[id].votes_for) < QuorumThreshold

\* The inductive invariant of ExecutedRightly.
GovernanceInv == ~overlap => OneSoundProposal
=============================================================================
