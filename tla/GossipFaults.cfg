\* One validator, one follower; a loss, restarts and a failing apply_block.
CONSTANTS
  v = v
  w = w
  f = f
  g = g
  Nodes = {v, f}
  Validators <- OneValidator
  Payloads = {"p", "q"}
  MaxHeight = 3
  MaxBuffer = 3
  MaxLoss = 1
  MaxRestarts = 2
  MaxErrors = 1
SPECIFICATION FairSpec
INVARIANTS NoFork
PROPERTIES KeepsProducing
CHECK_DEADLOCK FALSE
