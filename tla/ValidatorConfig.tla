-------------------------- MODULE ValidatorConfig --------------------------
(* ValidatorManagerConfig and what else a ValidatorManager starts with.     *)
EXTENDS Naturals, Sequences, FiniteSets

CONSTANTS
  Candidate,            \* addresses that can be validators
  initial_validators,   \* the sequence given to ValidatorManager::new
  proposal_ttl_blocks, quorum_numerator, quorum_denominator,
  min_validators, max_validators,   \* ValidatorManagerConfig
  MaxProposals,         \* bound on the proposals ever made
  MaxPending,           \* bound on the proposals pending at one time
  LastBlock             \* bound on the block number

ASSUME ValidatorManagerAssumption ==
  /\ initial_validators \in Seq(Candidate)
  /\ proposal_ttl_blocks \in Nat
  /\ quorum_numerator \in Nat /\ quorum_denominator \in Nat \ {0}
  /\ min_validators \in Nat /\ max_validators \in Nat
  /\ MaxProposals \in Nat /\ MaxPending \in Nat /\ LastBlock \in Nat
============================================================================
