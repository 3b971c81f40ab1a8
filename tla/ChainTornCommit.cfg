\* One task; the process may be killed between two puts of one commit.
SPECIFICATION Spec
CONSTANTS
  Tasks = {producer}
  g = g  a1 = a1  a2 = a2  b1 = b1  b2 = b2  x2 = x2  alice = alice  bob = bob
  NoHash = NoHash  NoAccount = NoAccount
  Hash <- SmallHash
  genesis = g
  number <- SmallNumber
  parent_hash <- SmallParent
  Account <- People
  sender <- SmallSender
  receiver <- SmallReceiver
  nonce_after <- SmallNonces
  FailingTick <- NoBlock
  MaxHeight = 2
  MaxRestarts = 1
  CrashAllowed = TRUE
  MaxReorgs = 0
  MaxErrors = 0
CHECK_DEADLOCK FALSE
INVARIANTS CommittedWhole
