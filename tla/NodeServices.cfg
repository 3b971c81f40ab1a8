SPECIFICATION MCSpec
CONSTANTS
  MaxBlock = 3
  Branches = {"a", "b"}
  ForkAt = 1
  headers_per_request = 2
  bodies_per_request = 2
  request_timeout_ticks = 0
  max_retries = 1
  max_header_requests = 2
  max_body_requests = 1
  NoTarget = NoTarget
  Peer = {"p1", "p2", "p3"}
  Events = {"InvalidBlock", "WrongChainId"}
  max_peers = 2
  max_inbound = 1
  max_outbound = 2
  idle_timeout_ticks = 0
  decay_interval_ticks = 2
  decay_amount = 150
  First = 1
  keep = 2
  batch_size = 2
  interval_blocks = 2
  MaxHead = 7
  Task = {"t1"}
  Topics = {"newHeads", "subscribeChatMessages", "logs"}
  Kind = {"NewBlock", "ChatMessage"}
  capacity = 2
  MaxEvents = 5
  Caller = {"c1", "c2"}
  Waiter = {"w1", "w2"}
  Subscriber = {"s1"}
INVARIANTS
  RequestsDisjoint
  PeersSound
  PrunedPrefix
  RestoreSound
  StreamsFaithful
PROPERTIES
  QueuesLinkedBlocks
  SyncCompletes
  BanIsFinal
  ShutdownIsHeard
\* Pruning, snapshots, broadcasts and a finished shutdown may all come to rest.
CHECK_DEADLOCK FALSE
