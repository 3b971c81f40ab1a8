\* Three blocks and a crash.
SPECIFICATION Spec
CONSTANTS
  alice = alice  bob = bob  contract = contract  zero = zero
  Address <- MCAddress
  coinbase = zero
  initial <- MCInitial
  Tx <- MCTx
  NoPrice = NoPrice
  NoAddress = NoAddress
  MaxTxs = 2
  MaxBlocks = 3
  MaxCrashes = 1
CHECK_DEADLOCK FALSE
INVARIANTS NoMint SucceedsOnce
PROPERTIES StoredNonceGrows
