\* A payment and a game action of one sender, executed at the same time.
SPECIFICATION Spec
CONSTANTS
  alice = alice  bob = bob  zero = zero
  Address <- MCAddress
  coinbase = zero
  initial <- MCInitial
  Tx <- MCTx
  NoPrice = NoPrice
  NoAddress = NoAddress
  MaxTxs = 1
  MaxBlocks = 2
  MaxCrashes = 0
CHECK_DEADLOCK FALSE
INVARIANTS NoMintTogether
