----------------------------- MODULE MCServices -----------------------------
(***************************************************************************)
(* Six parts of the node that share no state: synchronisation, the table   *)
(* of peers, pruning, snapshots, subscriptions and shutdown.  One of them  *)
(* runs in each behaviour; the others keep their initial state.            *)
(***************************************************************************)
EXTENDS SyncEngine

CONSTANTS
  Peer, Events, max_peers, max_inbound, max_outbound,
  idle_timeout_ticks, decay_interval_ticks, decay_amount,   \* PeerManager
  First, keep, batch_size, interval_blocks, MaxHead,        \* Pruning
  Task, Topics, Kind, capacity, MaxEvents,                  \* Subscriptions
  Caller, Waiter, Subscriber                                \* Shutdown

VARIABLES
  part,                                                 \* the part that runs
  peers, banned, since_decay,                           \* PeerManager
  mode, chain_head, lowest_block, pending_queue, last_prune_block,
  next_queued, targeted, highest,                       \* Pruning
  index, latest, world, file, importing, fits, mixed, done,  \* Snapshot
  events, task, sink,                                   \* Subscriptions
  initiated, caller, waiter, receiver, asked, early     \* Shutdown

P == INSTANCE PeerManager
R == INSTANCE Pruning
N == INSTANCE Snapshot
U == INSTANCE Subscriptions
D == INSTANCE Shutdown

ASSUME PeerAssumption ==
  /\ max_peers \in Nat /\ max_inbound \in Nat /\ max_outbound \in Nat
  /\ idle_timeout_ticks \in Nat /\ decay_interval_ticks \in Nat /\ decay_amount \in Nat
  /\ Events \subseteq DOMAIN P!ScoreDelta

ASSUME PruneAssumption ==
  First \in Nat /\ keep \in Nat /\ batch_size \in Nat /\ MaxHead \in Nat

ASSUME SnapshotAssumption == "trunk" \notin Branches /\ N!None \notin Branches

ASSUME StreamAssumption == capacity \in Nat

peerVars == <<peers, banned, since_decay>>
pruneVars == <<mode, chain_head, lowest_block, pending_queue, last_prune_block,
               next_queued, targeted, highest>>
snapshotVars == <<index, latest, world, file, importing, fits, mixed, done>>
streamVars == <<events, task, sink>>
shutdownVars == <<initiated, caller, waiter, receiver, asked, early>>

allvars == <<part, vars, peerVars, pruneVars, snapshotVars, streamVars,
             shutdownVars>>

MCInit ==
  /\ part \in {"sync", "peers", "pruning", "snapshot", "subscriptions", "shutdown"}
  /\ Init /\ (part # "sync" => prompt)
  /\ P!Init /\ U!Init /\ D!Init
  /\ R!Init /\ (part # "pruning" => mode = "Archive")
  /\ N!Init /\ (part # "snapshot" => latest = 0 /\ file.height = 0)

Synchronise ==
  /\ part = "sync" /\ Next
  /\ UNCHANGED <<part, peerVars, pruneVars, snapshotVars, streamVars, shutdownVars>>

ManagePeers ==
  /\ part = "peers" /\ P!Next
  /\ UNCHANGED <<part, vars, pruneVars, snapshotVars, streamVars, shutdownVars>>

Prune ==
  /\ part = "pruning" /\ R!Next
  /\ UNCHANGED <<part, vars, peerVars, snapshotVars, streamVars, shutdownVars>>

MoveSnapshots ==
  /\ part = "snapshot" /\ N!Next
  /\ UNCHANGED <<part, vars, peerVars, pruneVars, streamVars, shutdownVars>>

Broadcast ==
  /\ part = "subscriptions" /\ U!Next
  /\ UNCHANGED <<part, vars, peerVars, pruneVars, snapshotVars, shutdownVars>>

ShutDown ==
  /\ part = "shutdown" /\ D!Next
  /\ UNCHANGED <<part, vars, peerVars, pruneVars, snapshotVars, streamVars>>

MCNext ==
  \/ Synchronise \/ ManagePeers \/ Prune
  \/ MoveSnapshots \/ Broadcast \/ ShutDown

\* The fairness of the part that runs.
MCSpec ==
  /\ MCInit /\ [][MCNext]_allvars
  /\ Fairness
  /\ WF_shutdownVars(part = "shutdown" /\ D!Proceed)

-----------------------------------------------------------------------------
\* on_peer_connected keeps the table and both directions within their limits,
\* and a banned peer that is still connected is listed for disconnection.
PeersSound == P!WithinLimits /\ P!BannedIsLeaving

\* A ban lasts: no connection or event brings a banned peer back.
BanIsFinal == P!BanIsFinal

\* on_new_block prunes without holes and never inside the window it keeps.
PrunedPrefix == R!PrunedPrefix

\* import_snapshot restores the chain and the world of the file, and one that
\* continues the stored chain survives a crash between any two writes.
RestoreSound == N!RestoreSound

\* A subscription's sink holds exactly the events of its kind that its task
\* has passed and not lagged over, in order.
StreamsFaithful == U!StreamsFaithful

\* shutdown() reaches every waiting task and every earlier receiver.
ShutdownIsHeard == D!ShutdownIsHeard
=============================================================================
