# VeloChain: a TLA+ verification of the node

VeloChain is a game blockchain node in Rust: validators produce a block per game
tick, a block holds EVM transactions and game actions, and every node executes both
and keeps the accounts, the game world and the chain in RocksDB. This directory
models the parts of the node that decide whether that goes right, checks them with
TLC on small instances, and proves the most important facts with TLAPS for every
value of the constants. Paths below are relative to `src/crates/`.

## 1. Inventory

| Component | State | Operations | Hard about it | Correct when |
|---|---|---|---|---|
| Transaction pool, `txpool/src/pool.rs` | two concurrent maps: by hash, by sender and nonce | add, remove, remove_included, clear, get_pending | called by RPC handlers, network handler and block appliers at the same time; no lock over both maps | the maps hold the same transactions, one per sender and nonce, at most `max_size` |
| Validator governance, `consensus/src/validator_manager.rs` | validator list, proposals, history | propose, vote (which may execute), expire | checks at proposal time, execution later, in another validator set | size limits, no duplicates, quorum of the current set, a vote counts once, a decision is final |
| Proof of authority, `consensus/src/poa.rs` | validators, tick counter | prepare, seal, verify header and block | tick counter in memory, chain on disk | the blocks of a node pass the checks of every other |
| Block producer, `node/src/block_producer.rs` | none | timer loop: prepare, apply, publish | runs beside the network handler | goes on producing, publishes only what it applied |
| Chain, `node/src/chain.rs`, `storage/src/db.rs` | head; headers, bodies, indexes, receipts, latest number on disk | apply_block, set_head, restore_head | two tasks apply at once; a dozen separate puts per block; crash between any two; a put may fail | the stored index is a chain, the head is durable, a restart finds it, no stored nonce is behind it |
| Block execution, `chain.rs`, `evm/src/executor.rs`, `state/src/world_state.rs` | account cache, dirty set, the EVM's own database, receipts | EVM pass, flush, game pass, tick, commit | balances kept twice; accounts the EVM reads without loading; passes out of block order; commit account by account; two tasks, of which only the EVM pass excludes the other | no wei is created, a transaction succeeds once, nonces grow, receipts tell what happened |
| Reorganisation, `node/src/reorg.rs` | none | detect_fork, find_common_ancestor, execute_reorg | moves a head other state depends on | the index follows the new branch |
| Network event handler, `node-cli/src/main.rs` | block buffer, requested set | receive block, receive request, receive transaction | lost, repeated, reordered messages; limit of the buffer | no gap is forgotten, the node catches up |
| Network service, `network/src/service.rs` | libp2p swarm, topics | publish, deliver | publishing errors are only logged | medium of the handlers |
| Start and stop, `main.rs` cmd_run, `node/src/shutdown.rs` | flag, notification, broadcast | start, signal, wait, subscribe, save the world, exit | tasks run on while the world is saved; the flag is tested before a task registers | nothing durable is lost, everyone hears of the shutdown |
| Sync engine, `network/src/sync.rs` | state, target, headers, header and body requests, import queue | status, polls, answers, verification, import, timer | timeouts and retries against late answers; mixed branches | requests do not overlap, what is queued is a chain, a sync ends |
| Peer manager, `network/src/peer_manager.rs` | peers with scores, bans | connect, disconnect, event, tick | limits interact with eviction, reconnection resets a score | limits hold, a banned peer stays out |
| Sessions, `rpc/src/session.rs` | two locked maps | connect, disconnect, heartbeat, lookup, cleanup | opposite lock orders | no deadlock, one active session per address |
| Subscriptions, `rpc/src/subscriptions.rs` | a bounded broadcast channel, a task per subscription | subscribe, send, receive | receivers that lag | each stream is what was sent, in order, less what was overwritten |
| RPC, `rpc/src/*_api.rs` | none | queries, sendRawTransaction | reads while blocks are applied | conversions are right |
| Game world, `game-engine/src/world.rs`, `ecs.rs`, `systems.rs`, `npc_ai.rs` | entities, tick, spawn points | tick with the block's actions, save, restart | an action that fails in the middle of a tick; what a restart forgets | players alive, one entity each, NPCs as counted |
| World events, `game-engine/src/events.rs` | event buffer, items on the ground, day, weather | drop, pick up, periodic events, drain | expiry against pickup; periods | the buffer tells what happened |
| Trading, `game-engine/src/trading.rs` | trades, the active trade of each player | propose, accept, add item, confirm, cancel, expire | changes between two confirmations; several trades | items move once, as both agreed |
| Shops, crafting, items, `game-engine/src/*` | stock, demand windows; inventories; registries | buy, sell, tick; craft; roll a drop table | integer prices and decay; recipes that form a cycle; boundaries of the roll | prices return, crafting consumes, odds as the weights say |
| Quests, skills, `game-engine/src/*` | progress, completions; levels and points | accept, report, complete; award, allocate | long sequences, repeats, prerequisites | rewards and levels are earned |
| Pruning, `storage/src/pruning.rs` | window, queue | new block, enqueue, generate targets | boundaries, a head that goes back | nothing in the window is pruned, nothing is skipped |
| Snapshots, `node/src/snapshot.rs` | file | export, import | interruption, an existing store | an import gives the exported node |
| Client: touches, panels, sound, particles, `game-client/src/*` | tracked touches and gestures; open panels, notifications; music and effects; particles | one system each per frame | systems in an order the schedule leaves open; limits | one gesture per touch, what is shown is what is open, the music asked for last, a bounded number of particles |
| Combat, terrain, cache, batches, rendering, client SDK, primitives, configuration, metrics | | | formulas, conversions, I/O | not modelled |

How they interact: `cmd_run` starts the producer, the network handler and the RPC
server as tasks that share `Chain`, `TransactionPool`, `WorldState` and `GameWorld`.
The producer takes pending transactions from the pool, builds a block, calls
`apply_block` and publishes; the network handler calls `apply_block` for received
blocks and answers requests; `apply_block` executes on the shared account state and
game world, writes RocksDB and removes the included transactions from the pool.
Nothing holds a lock across these steps. `GameWorld::tick` runs the systems, the spawn
points and the event manager. The sync engine, the peer manager, the validator manager,
`execute_reorg`, the pruning engine, the chain cache, trading, shops, crafting, quests and
skills are libraries that the running node does not call; they are modelled as what
any caller may do with them. The client's systems run once per frame in an order
that Bevy's schedule leaves open wherever the plugin does not fix it.

`PROJECT.json` lists the hazards, each at its line, with the properties that would
catch it going wrong.

## 2. Plan

Done, in the order of importance:

1. `TxPool`, `Chain`, `Execution`, `BlockGossip`, `ValidatorManager`, their runs, and the
   proof modules `TxPoolProofs`, `ChainProofs`, `ExecutionProofs`, `BlockGossipProofs`,
   `ValidatorManagerProofs`.
2. `Session` and `SessionProofs`. What threads and validators call, the pool, the sessions and
   the governance, is checked together in `MCCalls`.
3. The services of the node: `SyncEngine` with its liveness, `PeerManager`, `Pruning`,
   `Snapshot`, `Subscriptions`, `Shutdown`, checked together in `MCServices`; the safety
   of the first five is proved in `ServicesProofs`.
4. The game: `Trading` with its abstract specification `Exchange`, the refinement
   included; `Items`, `Crafting`, `Shops`, `Skills`, `Quests`, `WorldEvents` and `GameWorld`,
   which composes the world with its events.
5. The client: `TouchInput`, `Panels`, `Sound`, `Particles`. Steps 4 and 5 are checked
   together in `MCGame`.
6. `GameProofs`: the safety of every part of `MCGame`. With it, and `NoWeiCreated` in
   `ExecutionProofs`, every invariant that a passing run checks is also a theorem.
7. `Ledger`, an abstract list of blocks that `Chain` with one task implements, checked in
   ChainOneTask and proved in `ChainProofs`.
8. `Executions`: two tasks that execute blocks on one account cache.

Not done, and worth doing when the code it is about is called by the node:

9. detect_fork and find_common_ancestor as functions over an index, and get_pending.

## 3. Modules

Each component is one module; `MC<module>` gives its constants small values, and each
`.cfg` is one run. `MCCalls`, `MCServices` and `MCGame` hold several components that share no
state, of which each behaviour runs one (`part`). The constants of `TxPool`, `ValidatorManager` and `Session`
and the assumptions on them are in `TxPoolConfig`, `ValidatorConfig` and `SessionConfig`. Modules hold, before the operations, variants of a few of them with
a plausible bug (`AddCapacity_OffByOne`, `PutHeader_LatestFirst`, `NotifyOne`...). `Next` never uses
them: each shows a bug of the code that a property would catch.

### TxPool

State: `by_hash`, `by_sender` (the union of the queues) and `entries` (the senders
that have a queue) are the DashMaps; `pc` and `arg` are the position and argument of each thread's
call. One step is one DashMap call, since DashMap makes single calls atomic and
nothing else is. `AddStart`/`AddCapacity`/`AddNonce`/`AddHash`/`AddSender` are
`add_transaction`; `RemoveStart`/`RemoveSender`/`RemoveEntry` are `remove_transaction`;
`ClearHash`/`ClearSender` are `clear`. `overlap` is a history variable: a call has
begun while another was in progress. `get_pending` and the queries change nothing and
are left out.

### ValidatorManager

State: `validators` (a sequence, as the `Vec` in the code, which may repeat an address),
`proposals`, `history`, and `block`, the number callers pass. `Propose`, `Vote` (with
`CheckAndExecute`), `ExpireProposals` are the methods behind its locks, atomic because each
method holds `&mut self`. `Retain` is the `retain` that removes an address from the list.
`overlap` records that a proposal was made while another was pending.

### Chain

A block holds one EVM transaction, from `sender` to `receiver`; an account is its nonce and how often
the transaction of each block has taken effect on it, so that a lost, a skipped and a
repeated effect show. State in memory: `head`, `state` (the account cache), `dirty` (its keys that are
not committed), `draining` (what a task's commit has drained and not put yet), `world` (the
blocks ticked, in order), the position of each task, and the state of a shutdown. On disk: one
variable per column family. `apply_block` is a step per put, from `Start` to `UpdateHead`, because
every put is durable by itself and `apply_block` holds no lock. Of the commit, `Commit`
drains the dirty accounts, `PutAccount` is one put of one of them, in any order as a DashMap gives them, and
`Committed` ends the loop. `Execute` runs the transaction only if its nonce is the sender's
(`AfterTx`): a block that is applied again after a kill is skipped where the nonce was stored, as
chain.rs:188-196 does. A block is its hash; `number` and `parent_hash` are constant functions, so that
a run is given a block tree with forks. `VerifyBlock` keeps the checks that relate a block to its parent.
`WriteError` is a failed put, those of `set_head` and of the commit included, which loses what was
drained; `Tick` may fail for the blocks of `FailingTick` and then
leaves what it did. `ReorgStart`/`SetLatest`/`SetHead` are `execute_reorg` up to the
moment it applies the new branch by `apply_block`. `Crash` restarts from the disk at any point;
`ShutdownSerialize`/`ShutdownPut`/`Exit` are the end of `cmd_run`, while tasks go on.

`Ledger` is what all this promises: a list of blocks that grows by a child of its last block
or is cut back, neither while the announced head is behind, and a head that catches up with its end.
`ChainBlocks`, the indexed blocks up to the latest number, is the list and `head` the
announced head (`L` in `Chain`); `ChainIsLedger` says that `Chain` implements it.

Left out: that `execute_reorg` returns transactions to the pool (`TxPool` covers
additions), the case that the fork block is missing (it then applies the blocks on the
old head), failures of sender recovery (blocks hold transactions that passed it), and that a restored world
starts at tick 0.

### Execution

`apply_block` from inside: `Begin` collects the game actions and loads the senders and receivers of
the EVM transactions into the EVM's database; `EvmTx` runs the next one; `FlushToState`
copies the database back, every account of it; `GameCheck`, `PutNonce` and `PutFee` are the
next game transaction: its checks with the read of the account, and the two puts of the copy; `Tick` hands all
actions to the game world; `Commit` drains the dirty accounts and `PutAccount` puts one of them;
`Finish` makes the block the head. `todo` holds the positions of the block that a pass has not come
to (`GamePositions`, `EvmPositions`), and `IsNext` takes the first of them. `Flushed` is what the
flush writes for an account; `Books` tells which of the two copies of an account counts. revm is external:
`EvmValid`, `EvmTouch` and `EvmCreate` say what `executor.rs` relies on (nonce and funds are
validated; fees are paid by the sender to the coinbase, the value moves only on success; a
halted transaction still pays, although the code treats it as an error). What a transaction's code does is given with it: the
accounts it reads (`touched`), the one that ends up with the value (`payee`) and those it
creates. An account of these that nobody loaded is empty in the EVM, since its database
lies over `EmptyDB`, and the flush writes it over the stored one; `unloaded` remembers which. The
unit of gas is a plain transaction's.

`Execution!Spec` is one `apply_block` at a time. The node runs two, and only the EVM pass, from
the reset to the flush, excludes the other task's.

### Executions

Two instances of `Execution`, the producer's call and the network handler's, on one account
cache, one dirty set and one disk; `Step` of either is a step of the whole, and the EVM passes exclude
each other. A transaction of the EVM's pass, the flush and the two inserts of `put_account`
are one step each, which leaves interleavings out: what the run finds the code can do, and
what it does not find is not excluded.

### BlockGossip

A block is the sequence of contents from block 1 to itself, which is what a hash chain
commits to. Each node has its chain, the tick counter of its `PoaConsensus`, and the
buffer and the requested set of its network handler; `inbox` is a bag of messages on
their way, so order is arbitrary, and gossipsub's message ids do not merge equal
contents. `Produce` is one turn of the production loop; `ReceiveOld`, `ReceiveNext` (with
`Drain`, the loop over the buffer), `ReceiveNextFails`, `ReceiveAhead` and `ReceiveGet`
are the branches of the handler. `Lose`, `Restart` and the failing `apply_block` are the
faults. `apply_block` is atomic here (its steps are in Chain), and only blocks made by
validators exist: a block with an empty `extra_data`, whose signer poa.rs:200 does not check,
is made by none of them and is left out.

### Session

State: `sessions` (the ids in the map, which only grows), `active` and `last_activity`
(the fields of a session that change), `address_index`, and the clock in seconds, from
which `generate_session_id` makes the id. `pc` and `arg` are each thread's position and
what it has read. A step ends where a thread waits for one lock while it holds the
other, or has let both go, so that the locks held follow from the positions:
`SessionsFree` and `IndexFree` are the guards. `ConnectStart`, then `ConnectExisting`
or `ConnectInsert` and `ConnectIndex`, are `connect`; `LookupStart`/`Lookup` are
`get_session_by_address`; `DisconnectStart`/`DisconnectIndex`, `Heartbeat` and
`CleanupStart`/`CleanupLock`/`Cleanup` are the other methods. `Expired` subtracts in u64.
A lookup of an unknown id or address returns at once and is no step.

### SyncEngine

`header_requests`, `body_requests`, `headers` and `import_ready` are the engine's maps and
queues. `OnPeerStatus`, `PollHeaderRequests`, `OnHeadersReceived`, `PollBodyRequests`,
`OnBodiesReceived`, `VerifyChain`, `Tick` and `UpdateLocalHead` are its methods; `Import`
is the driver that takes the queue and moves the head. An answer is matched by what
it holds, as in the code, never by an id. `Numbers` are the numbers of the blocks there are. Two networks are chosen from in `Init`: a
`prompt` one, which answers every request once, and one that sends headers and bodies
of any branch at any time, so that answers are late, repeated, partial and mixed.

### PeerManager, Pruning, Snapshot, Subscriptions, Shutdown

`PeerManager`: scores, directions and idle times of the connected peers and the set of
bans; `OnPeerConnected` evicts before it looks at the limit of the direction, as the code
does, and keeps the eviction. `Pruning`: the caller's chain head moves freely;
`OnNewBlock` hands out targets by `GeneratePruneTargets`, which first takes blocks from the
queue as long as they are below the cutoff (`Ready`, `Taken`) and then fills the batch with
made-up ones above `lowest_block` (`MadeUp`); both loops are written in closed form. `Snapshot`: `ImportSnapshot`, `PutBlock`,
`PutLatest` and `PutGameState` are the writes of an import, `Crash` cuts it off, `Grow`
is the running chain and `ExportSnapshot` replaces the file. `Subscriptions`: `Send`
is the holder of the sender, `Recv` and `Lagged` a turn of a forwarding task. `Shutdown`:
`Swap`, `NotifyWaiters`, `Send` are shutdown(); `Check` and `Register` are
wait_for_shutdown, with the gap between them.

### Trading and Exchange

`Exchange` says what a secure exchange is: offers of two sides, any change voids what was
agreed, and the items move once, when both agree to the present offers. `Trading` is the
trade manager with its states, expiry and index of active trades; `Sides` and the
`INSTANCE` are the refinement mapping.

### Items, Crafting, Shops, Skills, Quests

The registries of the code as data (all items, drop tables, recipes, shops, skills and
quests), and the methods that change a player's or a shop's state. Tables that proofs look
into are functions by cases. Prices are exact where the code computes in f32
(`price_multiplier`, `buy_price`), which is the same in balance and differs by at most one coin out
of it; its integer halving and stock limits are those of the code. `Shops` counts time in units that
divide all its intervals. `Crafting` is fed by `Loot`, a roll of the drop table of a
`Creature`. `Quests` takes quests beyond the code's (`registered`), as `register` does.

### WorldEvents and GameWorld

`WorldEvents` is the event manager; `GameWorld` instantiates it and adds entities and spawn
points. `Tick` is one call of `GameWorld::tick`: actions in order (an action that fails
ends the tick there, with what was done before it: `Processed` folds `ProcessNext` over
them), the systems in their order, spawns and periodic events; `Restart` restores what the
database has. `Retain` is `Vec::retain`, which these and the client modules call on their lists.

### TouchInput, Panels, Sound, Particles

One `Frame` per frame. Where the plugin leaves the order of two systems open, the
frame has a disjunct for each order. Positions, times and lifetimes are integers in the
unit that the module names.

`TouchInput`: a frame takes the events of all fingers at once, a finger's release and next press in one frame
included, which `retain` of touch_input.rs:336 answers by dropping the new point; `lost` holds
the fingers this has happened to. Left out: that a finger moves in the frame it goes down, and
that a touch is cancelled and pressed again in one frame. The positions of pinches are kept, the
zoom and move events they send are not. `Panels`: any set of the five hotkeys in a frame.
`Sound`: any number of requests between two frames (`Ask`), in order.

## 4. Runs

| Run | Instance | Checks | Result |
|---|---|---|---|
| NodeCalls | the pool, the sessions or the governance, one per behaviour: 2 threads, 4 transactions of 2 senders, two competing for a nonce, a capacity of 2; 1 player, a timeout of 1 second and 2 seconds; 2 validators, a candidate, 3 proposals, 2 of them pending | capacity; agreement of the indexes, unique nonces, no empty queue; single votes, rightful execution (final, by a quorum, size limits, no duplicates); the session index is sound, the only hang is the known one | pass |
| ChainOneTask | one task, 6 blocks in two branches plus one with a wrong parent, 2 restarts, 1 reorganisation | the stored chain; accounts, world and head match it; finality; it implements `Ledger` | pass |
| ChainTornCommit | one task, killed once | what a block changes is stored whole before the block is | violated: a kill between two puts of a commit |
| ChainFaults | two tasks, a failed write or tick, a restart | a restart finds its head | pass |
| ChainTwoTasks | two tasks, no fault | the index is a chain between applications | violated: both apply a child of one head |
| ExecutionBlocks | 8 transactions, a contract creation that reads an account nobody loads among them, blocks of up to 2, 3 blocks, 1 crash | no wei created; but for accounts the EVM has held unloaded, success once, nonces grow | pass |
| ExecutionsMint | two tasks, a payment and a game action of one sender, no crash | no wei created | violated: a flush puts back what the game pass deducts |
| GossipCatchUp | 1 validator, 2 followers, 1 lost message | gaps are requested and the requests stay live; everyone catches up | pass |
| GossipFaults | 1 validator, 1 follower, loss, 2 restarts, 1 failing block | no fork, production goes on | pass |
| SessionsHang | 2 threads, 1 player | connect returns | violated: opposite lock orders |
| NodeServices | the six services, one per behaviour: 3 blocks in 2 branches to sync; 3 peers for a table of 2; heads up to 7 with a window of 2; a capacity of 2 for 5 events; 2 callers, 2 waiters and a receiver of a shutdown | disjoint requests, linked blocks, a sync ends; limits and bans; no hole and no loss by pruning; restores are whole; streams are faithful; everyone hears of the shutdown | pass |
| GameRules | eleven parts, one per behaviour: 3 players and 2 trades; 3 deals; 5 looted units; quests of the first levels; levels to 9; 3 blocks with 2 players and a restart; 7 ticks of events; 2 fingers; 3 frames of keys; 2 tracks; batches that exceed the limit of particles | one property per part, see the modules; `TradeIsExchange` is the refinement | pass |

NodeCalls, NodeServices and GameRules are sums: their parts share no variables and no code calls,
so a behaviour of one part beside another would show nothing that the part alone does not.
The initial state chooses the part (`part`), all others keep their initial values, and
each property is that of the part, named in its own module. `Parts` are the parts that run, all but in
SessionsHang, which is `MCCalls` with the sessions alone. `MCServices` and `MCGame` take the limits,
windows, capacities and sets of their parts as constants, with assumptions that the proofs use
and TLC evaluates; `NodeServices.cfg` and `GameRules.cfg` give their values. The tables of the
code are definitions, not constants. The `MC...` definitions of `MCGame` are values for TLC only.

Bounds and why they are enough. Two threads or tasks are what a race between two calls
needs, and all the code's races are between two calls; the theorems about the pool and the
stored head hold for any number. Four transactions contain a pair that competes for a
nonce, a second nonce and a second sender, and exceed the capacity. A height of two in
Chain has a fork below the head and a head above the fork; in BlockGossip a height
of three leaves a gap of two below a buffered block. One crash shows what one torn
block does; two restarts show what the first leaves behind. `MaxLoss`,
`MaxRestarts`, `MaxCrashes`, `MaxErrors`, `MaxReorgs`, `MaxProposals`, `MaxPending`, `LastBlock`,
`MaxTxs` and `MaxBlocks` bound the runs and are in no guard of the code; `MaxBuffer` is
the code's limit of 1000. In the sync engine three blocks with a fork above the first
need two requests, whose answers can come in either order, be of different branches, or
leave a gap; one retry distinguishes a request that is retried from one that is
given up. Three peers for two places and one inbound place reach both limits and
every eviction. Seven heads give pruning three intervals and room to go back. Five events
overrun a channel of two twice. Two trades share a player; one item and a timeout of
one tick reach changes, expiries and cancellations between confirmations. The game's
tables are those of the code, so the bounds (`MaxLoot`, `MaxDeals`, `MaxLevel`,
`MaxUnits`, `MaxTick`, `MaxTime`, `MaxNotices`, the numbers of frames) only limit how long a player plays; a quest
that pays once and builds on another is added to those of the code, so that one of that
kind completes within few events. No run uses symmetry.
Deadlock is not checked: every bounded run ends when its budget is used up.

Conditions in properties. Some properties hold only as long as a hazard has not
happened, and say so: `~overlap` (pool calls one after the other; one pending
proposal), `FaultFree`, `reorgs' = 0`, `crashes = 0`, `errors = 0`, `unloaded` (an account the EVM held without
loading it), `overruled` (a request for the track that is fading out was ignored), `lost` (a
finger lifted and pressed in one frame). What the excepted case does is a violated run or
stated in section 6. The histories they
refer to are variables of the model, so the run contains the behaviours on both sides
of the condition.

Fairness (`BlockGossip!FairSpec`): weak fairness of each validator's production, since
`BlockProducer::start` is a timer loop that survives every error, and of each node's
handler, which reads its channel in a loop to the end. Loss, restarts and failures
have no fairness, and no message is assumed to arrive before another.
`SyncEngine!FairSpec`: with a prompt network, weak fairness of the driver's polls,
verification and import (a loop that calls them is what the engine is written for) and
of the answer to each pending request; other networks and the timer have none.
`Shutdown`: weak fairness of a call of shutdown() or wait_for_shutdown() that has
begun, since tokio runs a task that is ready; nobody is assumed to ask for a shutdown.
`Shops`: weak fairness of `TickShops`, the clock of the game.
`Session!FairSpec`: strong fairness of the rest of each thread's call, since parking_lot's
locks are fair in the long run: a thread that waits for a lock that is free again and
again gets it. No call is assumed to begin, and the clock may stop.

## 5. Proofs

* `TxPoolProofs`. `TypeCorrect`. `CapacityTheorem`: the pool holds fewer than `max_size`
  plus one transaction per thread. The bound is not inductive; `CapacityInv` adds the
  threads that have passed the check and not inserted yet. Needs only that the threads are
  finitely many. `SerialInvariant` and `SerialPool`: while calls have not overlapped, what the
  indexes hold at every step of the call in progress (`SerialStep`), hence `PoolConsistent`:
  agreement, unique nonces and no empty queues between calls; and the capacity, from `RoomInv`: a call
  past the capacity check still finds room for one more. These two and the theorems about `MCCalls`
  below hold of the specification of the run, by a lemma that each of its behaviours is
  one of the component (`PoolCalls`, `SessionCalls`, `GovernanceCalls`).
* `ValidatorManagerProofs`. `VotesAreSingle`: votes for and against a proposal repeat
  nobody. `DecisionsAreFinal`: an action property, part of `ExecutedRightly`; only pending proposals change.
  Both for every configuration and any number of proposals. `TypesHold`.
  `ChangesAreRight`: an executed proposal had the quorum of the validators of its moment, and leaves a
  set within its limits that repeats nobody, as long as at most one proposal is pending.
  `GovernanceInv` is the strengthening: the one pending proposal is still admissible in the
  present set, only validators have voted for it, and they are fewer than the quorum. It
  assumes `InitialSetSound`, a genesis set within the limits and without duplicates. That
  `retain` removes one address and keeps the order of the rest (`Retain`) rests on counting
  the kept positions below each position, by least counterexamples instead of induction.
* `ChainProofs`. `TypeCorrect`. `AlwaysRestorable`: for any number of tasks and any faults
  the latest number names a stored header; `IndexInv` is the strengthening: index entries
  are never emptied and hold headers of their own number, and a task about to publish
  a number has filled its entry. `OneTaskKeepsTheChain` and `OneTaskIsFinal`, under the
  assumptions `SingleTask` and `NoErrors`: `ChainInv` ties the position of the task
  to how far its block is stored (`TaskInv`), which gives the canonical chain and the durable head in
  spite of crashes and reorganisations. ChainTwoTasks shows that `SingleTask` is needed.
  What it says of the accounts is `StateCoversChain`: wherever the process is killed, also between two
  puts of one commit, the stored nonces are past every transaction of the durable chain.
  `AccountsInv` is the strengthening: it relates the cache, what a commit has drained (`CommitInv`)
  and what is stored, account by account. It does not say that effects are stored whole, which
  ChainTornCommit refutes. `OneTaskStateMatches` adds what is in memory and the
  game world, the whole of `StateMatchesChain`: a transaction is charged to its sender
  once (`SentOnce`), and on a node that has met no fault accounts and world hold exactly the chain. `WorldInv`
  says which blocks the accounts and the world
  have executed at each position of the task, also beside a shutdown that saves the world.
  `OneTaskIsLedger` proves, under the same assumptions, that `Chain` implements `Ledger`, one
  lemma per kind of step: the put of the latest number is the one put that extends the
  ledger, by the block in hand (`LatestExtends`); that of `set_latest` cuts it back to
  the fork point (`SetLatestCuts`); the steps that move the head and a restart announce its end
  (`HeadAnnounces`); all others stutter (`LedgerStutters`). It needs besides `ChainInv` that genesis
  stays the block at number 0 (`GenesisInvariant`).
* `ExecutionProofs`, for one `apply_block` at a time (ExecutionsMint shows that two break the
  sums). `TypesHold`: balances, nonces and gas are numbers, so that no
  subtraction goes below zero, in either of the two books. `TransactionsSucceedOnce` and
  `StoredNoncesGrow`, for any blocks, any number of them and crashes at any point, also between the puts of a commit,
  but for accounts in `unloaded`:
  `NoncesInv` says that the nonce that counts (`Book`: the EVM's copy while the EVM
  pass runs, the account cache otherwise) is above every transaction that has succeeded
  and never below the stored nonce, that the stored nonce is above the transactions of
  applied blocks, and that an account that is neither dirty nor being drained is as stored; `CopyInv` says of
  the copy the game pass works on what it differs in. An account the EVM has held unloaded can have its nonce set
  back to 0, and its transactions succeed again (`NonceUsedUp`, section 6). Both assume
  `CoinbaseIsIdle`: nobody signs for the account that fees go to. The code sets no
  coinbase, so this is the zero address; the flush replaces its account by a
  fresh one with nonce 0 (see section 6), and only an account without transactions can bear it.
  `NoWeiCreated`, for any finite set of accounts: without a crash, executing blocks creates no
  wei, unloaded accounts included, since what the EVM reads as empty it cannot spend. `SupplyInv` says so of
  `Books`, what the accounts would be worth after a flush, at
  every step, `PassInv` what each pass may hold; each step of the EVM pass, the game pass and
  the flush has a lemma about the supply it moves.
* `BlockGossipProofs`. `TypeCorrect`. `TicksStayBehind`: no assumption but the constants'.
  `OneValidatorNoFork` under `SingleValidator`: `AllFromValidator` says that every
  block held, buffered or on its way is a prefix of the validator's chain. With two
  validators `NoFork` fails (section 6). `OneValidatorNoSilentGap`, for any number of
  nodes, losses and restarts, if no `apply_block` fails (`NoErrors`) and the buffer can hold what exists
  (`BufferSuffices`): every number in a gap is buffered or has been requested. `GapInv` adds
  that the loop over the buffer refuses no block and leaves only what is beyond the
  next one. `OneLossGapsAreFilled`: with at most one loss (`OneLoss`) and no restart
  (`NoRestarts`) the requests stay live too. `DeliveryInv` counts copies: a block that a
  node does not have is on its way, and one it has requested is on its way twice, as
  a request or as a block, but for the loss. Two losses can take both, so
  `OneLoss` is needed.
* `SessionProofs`. `IndexNamesStored`, for any number of threads: `StoredInv` adds that a
  thread about to index a session, or to reactivate one, holds a stored id.
  `IndexNamesActive`, for calls that have not overlapped: `SerialInv`
  says that one thread is inside a call and which call in progress
  explains an index entry without an active session. `IndexIsSound` joins the two facts
  about the index.
* `ServicesProofs`, about the specification of the run, for every value of its constants.
  `PeersStaySound` and `BansLast`: the limits of the peer table, and that a ban is never
  lifted; `PeerInv` adds that the entry of a banned peer is marked for disconnection.
  `RestoresAreSound`: what a completed import leaves is the exported chain, also after
  crashes; `SnapInv` says how far an import has copied, and that an import that fits its
  store writes only what is there already until it sets the latest number. `StreamsAreFaithful`:
  `StreamInv` relates each stream to the events its task has passed, less those the
  channel has overwritten. `PrunesAPrefix`: `PruneInv` says that the queue holds
  consecutive blocks and that everything before its first has been handed out, so that targets
  have no hole and stay out of the window. `RequestsStayDisjoint` and `QueuesAreChains`: pending header
  requests never overlap, and what is queued for import is linked; `SyncInv` bounds the
  requests by the block numbers there are. Arguments about "the first" or "the last" block of a
  range pick a least element of a set of numbers (`WFMin`) where a proof on paper would use
  induction; lemmas such as `PeersCount` relate an operator of an instance to the library's.

* `GameProofs`, about the specification of `GameRules`, for every value of its constants. The
  assumptions of `MCGame` are that numbers are numbers, that the spawn points in use are some of the
  code's, that no player is named like a kind of NPC, and that no finger touches the place
  that stands for none.
  - `TypeCorrect` and `TradesAreExchanges`, the latter for any players, items, number of
    trades and timeout: `Trading` implements `Exchange`. Each action has a lemma that names
    the step of `Exchange` it is (`ConfirmRefines`: an agreement, with the swap when it is
    the second; `AddItemRefines`: a change; `TickRefines`: one step that closes all trades
    that expire), or that it is none (`AcceptRefines`); type correctness is the only invariant they need.
  - `CraftsAreFinite`: `CraftInv` says that raw material held and crafts made are together at most
    what was looted; each recipe of the code is shown to use up more raw material than it gives.
  - `DropsAreFair`, that a drop's odds are its weight's share of the sum (not the documented percentage): `TableIsFair` holds of any table with distinct items, at most five
    quantities per entry and any weights (`Table`); `Boundaries` are its cumulative weights, and a
    residue hits the entry between whose boundaries it lies. The tables of the code are such (`TablesRegistered`).
  - `SkillsArePaidFor`: `SkillInv` says that the points earned and the points paid are totals over the
    levels reached and the skills learnt, and differ by those available.
  - `RewardsAreEarned`: `QuestInv` says that each reward has used up its own full count of
    events and that progress counts further ones.
  - `EventsAreTrue`: `EventInv`; an item said to be picked up is gone (`Truthful`) and what
    lies on the ground is young and in the order of its drops (`Lying`).
  - `WorldStaysSettled`: `WorldInv` relates the entities, those saved for a restart and the
    counts of the spawn points (`Populated`): the NPCs of a kind are at most the counted ones
    and the maximum once per restart. `Tally` and `Most` are the sums over the points of a kind.
  - `TouchesAreOneGesture`: `TouchInv` says which touches are tracked (`Tracks`) and that a gesture
    is told only with the touch consumed (`ToldOnce`), in either order of the systems, for any events of any fingers
    in a frame; that a finger that is down is tracked excepts those in `lost`, which are not.
  - `PanelsStayInStep`: `PanelInv`; events split anywhere are handled as if together
    (`Continues`), and the numbers in the queue rise, so that what is pushed out is older
    than a full queue (`Queued`).
  - `SoundsAreSettled`: `SoundInv`; the music is, or becomes, the one asked for last unless the last request
    was for the track being faded out (`AskKept`, `FadeKept`; `overruled` is that exception), and queued effects of one
    kind are a cooldown apart (`Spaced`, `QueueSpaced`).
  - `ParticlesStayBounded`: `ParticleInv`; what has a lifetime left is younger than the last thing
    spawned (`Fading`), and events are admitted while there is room (`Room`, `Fits`).

  Sums over finite sets are functions on the subsets of the set (`Sums`, `Total`). Their laws,
  that `Vec::retain` keeps the order (`KeptFacts`), and what a fold over a list yields are
  proved by least counterexamples (of a cardinality or a position), where a proof on
  paper would use induction.

Only model-checked, and why: the liveness properties `CatchesUp`, `KeepsProducing`,
`CallsReturn`, `SyncCompletes`, `ShutdownIsHeard` and `ShopsSettle`, since the prover has no
fairness. Where a theorem needs one task, one validator, one loss or no failed write, its
module assumes so by name (above), and the run that checks the property meets the assumption.

## 6. Where the code and its documentation part

The violated runs are findings in `PROJECT.json`: ChainTwoTasks, ChainTornCommit, ExecutionsMint,
SessionsHang. The modules also state these claims, which the code does not keep; each is refuted
when its definition is named, as INVARIANT or (marked *) as PROPERTY, in the configuration given:

* NodeCalls: `IndexesAlwaysAgree` (pool.rs:26, 28): two overlapping calls leave a transaction
  in `by_hash` that no queue holds, where it takes up capacity and is never returned.
  `OnlyTimedOutExpire`* (session.rs:154): a heartbeat that comes between cleanup's reading of the clock and its lock makes
  a session fresher than that time; the subtraction of session.rs:163 wraps and the session is ended.
  `SizeAlwaysWithinLimits` (validator_manager.rs:115-117): two pending
  removals take the set below `min_validators`. `NotExecutedAfterExpiry`* (:54): a vote
  after the expiry block executes a proposal that `expire_proposals` has not swept.
* ChainTornCommit: `TickedOncePerBlock` (world.rs:160, "called once per block"): a crash after
  the world is saved and before the block is published makes the world tick that block
  again. ChainOneTask: `AbandonedIsUndone` (reorg.rs:4): `execute_reorg` unwinds neither accounts
  nor world. ChainOneTask with `CrashAllowed = FALSE`: `ShutdownKeepsWorld` (main.rs:561): the shutdown
  puts the world it has serialised over a newer one that a task has saved since.
* ExecutionBlocks: `FlushSyncsModified`* (executor.rs:185): the flush overwrites accounts that
  no transaction modified, and one that was never loaded with balance and nonce 0. It also replaces
  the account of the fee collector, unless the block mentions it, by one that holds this
  block's fees alone: fees collected before are lost, which `NoMint` allows.
  `NoMintByCrash` (batch.rs:3): the accounts are not written as a batch.
  `ReceiptTellsExecution` (chain.rs:28): `apply_block` hands the actions of all game
  transactions to the tick before it checks any nonce, so that one whose receipt says it
  failed is executed nevertheless.
  `CumulativeGas` (chain.rs:32): the EVM receipts include the gas of the game
  transactions after them. `ReceiptIndex` (chain.rs:26): receipts are numbered in the
  order of the passes. `NonceUsedUp` (chain.rs:255): the flush sets the nonce of a
  refused transaction back.
* ExecutionsMint: `SucceedsOnceTogether` (chain.rs:188, 288): both tasks read a nonce before either
  has put the next one, and one transaction succeeds in two blocks.
* GameRules: `NothingIsAPercentage` (items.rs:126): `nothing_weight` is documented as a chance
  from 0 to 100 and used as a weight; with the code's tables it is a share of 120 (merchant) or 67 (dragon).
  `PricesAsDocumented` (shops.rs:102): a net sale is said to take 1% off a price, the code takes 2%.
  `ActiveTouchesTracked` (touch_input.rs:149): a finger lifted and pressed again in one frame is
  down and not tracked. `MusicIsAsked` (sound.rs:136): a request for the track that is being faded out is
  ignored, and the music fades to the one that was asked for before.
* Two validators: `BlockGossip!TurnTaking` (poa.rs:3): turns are logged, not enforced; with two
  validators `NoFork` fails too, both produce at one height and nothing resolves the fork.
  `ProducesAfterFailure` (block_producer.rs:1): after one failed block the
  tick counter is ahead of the chain for good and no later block is accepted.
  With a buffer at its limit or as many losses as copies of a request, a node stays
  behind, since a number is requested once.

Met while modelling, and not stated as a definition:

* Sessions: the node never calls `cleanup_expired`, although CLIENT_PROTOCOL.md:35
  promises a timeout of 300 seconds; a `disconnect` repeated with an old id takes the
  player's newer session out of the index.
* Sync engine: a tick between `on_peer_status` and the first poll makes the engine Stalled
  for good; a status in the middle of a sync can leave it Synced with a target above the head; a
  request that is given up leaves a gap that is never asked for again; bodies that come
  twice are queued twice; headers at or below the head re-enter; `verify_chain` checks
  neither bodies nor the link to the local head; `banned_peers` is never consulted.
* Trading: "one trade at a time" (trading.rs:110) is not kept, since only the initiator
  is entered when a trade is proposed; a trade with oneself never completes.
* Shops: `tick_shops` has no caller.
* Skills: `total_allocated` adds up levels, not points.
* Quests: nothing reports Explore, TalkTo or Deliver events, so that quests 1 and 11
  never complete and those that build on them are never available.
* Game world: a restart loses the spawn counts and the tick, so that NPCs are repeated, although
  world.rs:161 calls a tick "completely deterministic"; `notify_death` and `drain_events` have
  no caller in the tick; the hash of the state goes over a HashMap.
* Snapshots: the accounts that snapshot.rs:4 mentions are not exported; the chain id is not compared
  on import; a failed export destroys the file before it; an import over another branch that
  is cut off mixes the two.
* Subscriptions: the node keeps the sender (main.rs:374) but sends nothing; an unknown
  kind of `eth_subscribe` is accepted and never answered.
* Shutdown: a task that has tested the flag and not yet registered misses the notification;
  `ShutdownIsHeard` excepts exactly that task.
* Client: the order of the touch systems is open, and in one of the orders taps and swipes
  are never seen; cancelled touches are never removed; `push_timed` does not trim the queue
  of notifications; nothing drains `sfx_queue`; particles exceed `max_particles` by up to a burst, floating numbers are not
  counted, and an event that meets the limit is lost.

## 7. Not modelled

See the components of `PROJECT.json`. Cryptography, encodings, timestamps, gas
schedules and revm are abstract values or external operators. Combat formulas, terrain
noise, camera motion and rendering are floating-point and out of reach of both tools. RPC
queries, fork detection and the selection of pending transactions change no state. The
chain cache and the write batch wrap library structures and are not wired into the node.
