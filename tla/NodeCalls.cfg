\* Two threads; two of three proposals may be pending at a time.
SPECIFICATION MCSpec
CONSTANTS
  Parts = {"pool", "sessions", "validators"}
  Threads = {t1, t2}
  h1 = h1  h2 = h2  h3 = h3  h4 = h4
  alice = alice  bob = bob
  Tx <- MCTx
  TxHash <- MCHash
  Address <- MCAddress
  max_size = 2
  NoTx = NoTx
  Player <- MCPlayer
  timeout_secs = 1
  U64 = 16
  MaxTime = 2
  NoSession = NoSession
  v1 = v1  v2 = v2  v3 = v3
  Candidate <- MCCandidate
  initial_validators <- TwoValidators
  proposal_ttl_blocks = 1
  quorum_numerator = 2
  quorum_denominator = 3
  min_validators = 1
  max_validators = 3
  MaxProposals = 3
  MaxPending = 2
  LastBlock = 1
INVARIANTS CapacityOvershoot PoolConsistent IndexSound OneVoteEach
PROPERTIES CallsReturn ExecutedRightly
CHECK_DEADLOCK FALSE
