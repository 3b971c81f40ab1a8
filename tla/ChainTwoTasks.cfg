\* Two tasks and no fault.
SPECIFICATION Spec
CONSTANTS
  Tasks = {producer, network}
  g = g  a1 = a1  a2 = a2  b1 = b1  b2 = b2  x2 = x2  alice = alice  bob = bob
  NoHash = NoHash  NoAccount = NoAccount
  Hash <- ForkHash
  genesis = g
  number <- ForkNumber
  parent_hash <- ForkParent
  Account <- OnePerson
  sender <- ForkParty
  receiver <- ForkParty
  nonce_after <- ForkNonces
  FailingTick <- NoBlock
  MaxHeight = 2
  MaxRestarts = 0
  CrashAllowed = FALSE
  MaxReorgs = 0
  MaxErrors = 0
CHECK_DEADLOCK FALSE
INVARIANTS CanonicalWhenQuiet
