\* Two tasks, a restart and a failed write.
SPECIFICATION Spec
CONSTANTS
  Tasks = {producer, network}
  g = g  a1 = a1  a2 = a2  b1 = b1  b2 = b2  x2 = x2  alice = alice  bob = bob
  NoHash = NoHash  NoAccount = NoAccount
  Hash <- ForkHash
  genesis = g
  number <- ForkNumber
  parent_hash <- ForkParent
  Account <- OnePerson
  sender <- ForkParty
  receiver <- ForkParty
  nonce_after <- ForkNonces
  FailingTick <- OneFails
  MaxHeight = 2
  MaxRestarts = 1
  CrashAllowed = TRUE
  MaxReorgs = 0
  MaxErrors = 1
CHECK_DEADLOCK FALSE
INVARIANTS Restorable
