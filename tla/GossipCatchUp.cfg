\* One validator, two followers, a lost message.
CONSTANTS
  v = v
  w = w
  f = f
  g = g
  Nodes = {v, f, g}
  Validators <- OneValidator
  Payloads = {"p"}
  MaxHeight = 3
  MaxBuffer = 3
  MaxLoss = 1
  MaxRestarts = 0
  MaxErrors = 0
SPECIFICATION FairSpec
INVARIANTS GapsAreFilled
PROPERTIES CatchesUp
CHECK_DEADLOCK FALSE
