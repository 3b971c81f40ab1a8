--------------------------- MODULE SessionConfig ---------------------------
(* The players, ids and times of the sessions of module Session.            *)
EXTENDS Integers

CONSTANTS
  Player,        \* player addresses
  timeout_secs,  \* the session timeout
  U64,           \* the modulus of u64 arithmetic, 2^64 in the code
  MaxTime,       \* bound on the clock
  NoSession

Time == 0..MaxTime

\* generate_session_id hashes the address and the second of the call.
SessionId == Player \X Time

ASSUME SessionAssumption ==
  /\ timeout_secs \in Nat /\ MaxTime \in Nat
  /\ U64 \in Nat /\ timeout_secs + MaxTime < U64
  /\ NoSession \notin SessionId
============================================================================
