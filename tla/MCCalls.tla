------------------------------ MODULE MCCalls ------------------------------
(***************************************************************************)
(* Three parts of the node that threads or validators call: the            *)
(* transaction pool, the players' sessions and the governance of the       *)
(* validators.  They share no state; one of them is called in each         *)
(* behaviour, and the others keep their initial state.                     *)
(***************************************************************************)
EXTENDS TxPoolConfig, SessionConfig, ValidatorConfig

CONSTANTS
  h1, h2, h3, h4, alice, bob,  \* TxPool and Session
  v1, v2, v3,                  \* ValidatorManager
  Parts                        \* those that are called

VARIABLES
  part,                                                          \* the part called
  by_hash, by_sender, entries, pool_pc, pool_arg, pool_overlap,  \* TxPool
  sessions, active, last_activity, address_index, clock,
  session_pc, session_arg, session_overlap,                      \* Session
  validators, proposals, history, block, proposal_overlap        \* ValidatorManager

Pool == INSTANCE TxPool WITH pc <- pool_pc, arg <- pool_arg, overlap <- pool_overlap
Ses == INSTANCE Session WITH
  pc <- session_pc, arg <- session_arg, overlap <- session_overlap
Gov == INSTANCE ValidatorManager WITH overlap <- proposal_overlap

\* Two senders, two transactions that compete for one nonce, and more transactions
\* than the pool has room for.
MCTx == {[hash |-> h1, sender |-> alice, nonce |-> 0],
         [hash |-> h2, sender |-> alice, nonce |-> 0],
         [hash |-> h3, sender |-> alice, nonce |-> 1],
         [hash |-> h4, sender |-> bob,   nonce |-> 0]}
MCHash == {h1, h2, h3, h4}
MCAddress == {alice, bob}

\* One player, whose session times out after a second of silence.
MCPlayer == {alice}

\* Two validators and a candidate, who fills the set.
MCCandidate == {v1, v2, v3}
TwoValidators == <<v1, v2>>

poolVars == <<by_hash, by_sender, entries, pool_pc, pool_arg, pool_overlap>>
sessionVars == <<sessions, active, last_activity, address_index, clock,
                 session_pc, session_arg, session_overlap>>
validatorVars == <<validators, proposals, history, block, proposal_overlap>>
allvars == <<part, poolVars, sessionVars, validatorVars>>

MCInit == part \in Parts /\ Pool!Init /\ Ses!Init /\ Gov!Init

CallPool == part = "pool" /\ Pool!Next /\ UNCHANGED <<part, sessionVars, validatorVars>>

CallSessions == part = "sessions" /\ Ses!Next /\ UNCHANGED <<part, poolVars, validatorVars>>

Vote == part = "validators" /\ Gov!Next /\ UNCHANGED <<part, poolVars, sessionVars>>

MCNext == CallPool \/ CallSessions \/ Vote

\* The fairness of the threads that call the sessions.
MCSpec ==
  /\ MCInit /\ [][MCNext]_allvars
  /\ \A t \in Threads : SF_sessionVars(part = "sessions" /\ Ses!Continue(t))

-----------------------------------------------------------------------------
\* However its callers interleave, the pool exceeds its capacity by fewer
\* transactions than there are callers.
CapacityOvershoot == Pool!CapacityOvershoot

\* As long as calls do not overlap, the pool's two maps agree and keep to its
\* capacity.
PoolConsistent == Pool!PoolConsistent

\* A validator's vote on a proposal counts once.
OneVoteEach == Gov!OneVoteEach

\* A proposal takes effect when a vote completes its quorum, before it expires.
ExecutedRightly == Gov!ExecutedRightly

\* connect never finds an indexed id that has no session.
IndexSound == Ses!IndexSound

\* Every call of the session manager returns or waits for a lock that is never
\* released.
CallsReturn == Ses!CallsReturn

\* "Returns a session ID for subsequent requests." (session.rs:190): connect does
\* return.
ConnectReturns == Ses!ConnectReturns

\* Claims of the documentation that no run checks, since they fail; README says how.
\* The pool's maps agree whenever no call is in progress.
IndexesAlwaysAgree == Pool!IndexesAlwaysAgree

\* Sessions are ended only when they have timed out.
OnlyTimedOutExpire == Ses!OnlyTimedOutExpire

\* The set of validators keeps to its limits.
SizeAlwaysWithinLimits == Gov!SizeAlwaysWithinLimits

\* A proposal is not executed once its time has passed.
NotExecutedAfterExpiry == Gov!NotExecutedAfterExpiry
============================================================================
