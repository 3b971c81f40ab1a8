\* One task that also reorganises; the process may be killed between any two writes.
SPECIFICATION Spec
CONSTANTS
  Tasks = {producer}
  g = g  a1 = a1  a2 = a2  b1 = b1  b2 = b2  x2 = x2  alice = alice  bob = bob
  NoHash = NoHash  NoAccount = NoAccount
  Hash <- SmallHash
  genesis = g
  number <- SmallNumber
  parent_hash <- SmallParent
  Account <- People
  sender <- SmallSender
  receiver <- SmallReceiver
  nonce_after <- SmallNonces
  FailingTick <- NoBlock
  MaxHeight = 2
  MaxRestarts = 2
  CrashAllowed = TRUE
  MaxReorgs = 1
  MaxErrors = 0
CHECK_DEADLOCK FALSE
INVARIANTS CanonicalChain 
PROPERTIES Finality ChainIsLedger
