-------------------------------- MODULE Chain --------------------------------
(***************************************************************************)
(* One node's chain: Chain::apply_block and its durable effects,           *)
(* crates/node/src/chain.rs, crates/storage/src/db.rs, reorg.rs, and the   *)
(* start and stop of the node in crates/node-cli/src/main.rs.              *)
(*                                                                         *)
(* apply_block takes no lock over the chain: the block producer and the    *)
(* network handler run it at the same time.  Every write to RocksDB is a   *)
(* put of its own, so a crash can fall between any two of them.  Each step *)
(* below is one such put, or the work between two puts.                    *)
(*                                                                         *)
(* A block is known by its hash and holds one EVM transaction, which       *)
(* changes the accounts of its sender and of its receiver.  An account is  *)
(* its nonce and how often the transaction of each block has taken effect  *)
(* on it; the game world is the sequence of the blocks it has ticked.      *)
(* What a block with several transactions does to accounts is module       *)
(* Execution.                                                              *)
(***************************************************************************)
EXTENDS Naturals, Sequences, FiniteSets

CONSTANTS
  Tasks,        \* the tasks that apply blocks: producer, network handler
  Hash,         \* the blocks that exist, by hash
  genesis,      \* the genesis block
  number,       \* the block number in a block's header
  parent_hash,  \* the parent hash in a block's header
  Account,      \* the accounts
  sender,       \* who sends the transaction of a block
  receiver,     \* who receives its value
  nonce_after,  \* how many of the transactions up to a block an account sent
  FailingTick,  \* blocks whose game actions can make GameWorld::tick fail
  NoHash, NoAccount,
  MaxHeight,    \* bound on block numbers
  MaxRestarts,  \* bound on the restarts of the node
  CrashAllowed, \* whether the process may be killed
  MaxReorgs,    \* bound on the calls of execute_reorg
  MaxErrors     \* bound on the writes and game ticks that fail

Height == 0..MaxHeight

AccountData == [nonce : Nat, applied : [Hash -> Nat]]

ASSUME ChainAssumption ==
  /\ MaxHeight \in Nat /\ MaxRestarts \in Nat /\ MaxErrors \in Nat
  /\ number \in [Hash -> Height]
  /\ parent_hash \in [Hash -> Hash \cup {NoHash}]
  /\ genesis \in Hash /\ number[genesis] = 0
  /\ NoHash \notin Hash
  /\ FailingTick \subseteq Hash
  /\ CrashAllowed \in BOOLEAN /\ MaxReorgs \in Nat

ASSUME AccountAssumption ==
  /\ sender \in [Hash -> Account] /\ receiver \in [Hash -> Account]
  /\ nonce_after \in [Hash -> [Account -> Nat]]
  /\ \A a \in Account : nonce_after[genesis][a] = 0
  /\ \A b \in Hash : parent_hash[b] \in Hash =>
       \A a \in Account :
         nonce_after[b][a] = nonce_after[parent_hash[b]][a] + (IF a = sender[b] THEN 1 ELSE 0)
  /\ NoAccount \notin AccountData

VARIABLES
  \* in memory
  head,        \* Chain::head
  state,       \* WorldState::account_cache, over what is stored
  dirty,       \* the keys of WorldState::dirty_accounts
  draining,    \* what each task's commit has drained and not put yet
  world,       \* the blocks the game world has ticked, or begun to, in order
  pc, cur,     \* each task's position and its block
  stop,        \* how far the shutdown is
  snapshot,    \* the world the shutdown serialised
  \* in RocksDB
  headers,             \* column family HEADERS
  block_number_to_hash,
  bodies,
  transactions,        \* blocks whose transactions are indexed
  latest_block_number,
  receipts,            \* blocks whose receipts are stored
  disk_state,          \* the accounts under their addresses
  disk_world,          \* the game world under the key "world"
  \* bounds
  restarts, errors, reorgs

memory == <<head, state, dirty, draining, world, pc, cur, stop, snapshot>>
blocks == <<headers, block_number_to_hash, bodies, transactions>>
disk == <<headers, block_number_to_hash, bodies, transactions,
          latest_block_number, receipts, disk_state, disk_world>>
vars == <<memory, disk, restarts, errors, reorgs>>

ApplySteps == {"execute", "tick", "save_world", "commit", "put_accounts", "header", "index",
               "body", "tx_index", "latest", "receipts", "head"}
ReorgSteps == {"set_latest", "set_head"}

NewAccount == [nonce |-> 0, applied |-> [b \in Hash |-> 0]]

\* The accounts that the transaction of a block changes.
Parties(b) == IF b = genesis THEN {} ELSE {sender[b], receiver[b]}

NothingDrained == [a \in Account |-> NoAccount]

TypeOK ==
  /\ head \in Hash \cup {NoHash}
  /\ state \in [Account -> AccountData] /\ dirty \in SUBSET Account
  /\ draining \in [Tasks -> [Account -> AccountData \cup {NoAccount}]]
  /\ world \in Seq(Hash) /\ disk_world \in Seq(Hash) /\ snapshot \in Seq(Hash)
  /\ pc \in [Tasks -> {"idle"} \cup ApplySteps \cup ReorgSteps]
  /\ cur \in [Tasks -> Hash \cup {NoHash}]
  /\ \A t \in Tasks : pc[t] # "idle" => cur[t] \in Hash
  /\ stop \in {"running", "saving", "stopping"}
  /\ headers \in SUBSET Hash /\ bodies \in SUBSET Hash
  /\ transactions \in SUBSET Hash /\ receipts \in SUBSET Hash
  /\ disk_state \in [Account -> AccountData]
  /\ block_number_to_hash \in [Height -> Hash \cup {NoHash}]
  /\ latest_block_number \in Height
  /\ restarts \in Nat /\ errors \in Nat /\ reorgs \in Nat

\* The chain as init_genesis left it, opened for the first time.
Init ==
  /\ headers = {genesis} /\ bodies = {genesis}
  /\ block_number_to_hash = [n \in Height |-> IF n = 0 THEN genesis ELSE NoHash]
  /\ latest_block_number = 0
  /\ transactions = {} /\ receipts = {} /\ disk_world = <<>>
  /\ disk_state = [a \in Account |-> NewAccount]
  /\ head = genesis /\ state = disk_state /\ dirty = {} /\ world = <<>>
  /\ draining = [t \in Tasks |-> NothingDrained]
  /\ pc = [t \in Tasks |-> "idle"] /\ cur = [t \in Tasks |-> NoHash]
  /\ stop = "running" /\ snapshot = <<>>
  /\ restarts = 0 /\ errors = 0 /\ reorgs = 0

Goto(t, step) == pc' = [pc EXCEPT ![t] = step] /\ UNCHANGED cur

Return(t) == pc' = [pc EXCEPT ![t] = "idle"] /\ cur' = [cur EXCEPT ![t] = NoHash]

-----------------------------------------------------------------------------
(* Variants of the steps below with a plausible bug each; Next does not    *)
(* use them.                                                               *)

\* The parent hash is not compared.
VerifyBlock_NoParent(b, parent) == number[b] = number[parent] + 1

\* The head is published before the block is stored.
PutHeader_LatestFirst(t) ==
  /\ pc[t] = "header"
  /\ headers' = headers \cup {cur[t]}
  /\ latest_block_number' = number[cur[t]]
  /\ Goto(t, "index")
  /\ UNCHANGED <<head, state, dirty, draining, world, stop, snapshot, block_number_to_hash, bodies,
                 transactions, receipts, disk_state, disk_world, restarts, errors, reorgs>>

\* The accounts are not committed.
Commit_Forgotten(t) ==
  /\ pc[t] = "commit"
  /\ Goto(t, "header")
  /\ UNCHANGED <<head, state, dirty, draining, world, stop, snapshot, disk, restarts, errors, reorgs>>

\* The node starts from the highest block it finds.
RestoredHead_Highest == CHOOSE h \in headers : \A other \in headers : number[other] <= number[h]
-----------------------------------------------------------------------------
(* apply_block                                                             *)

\* The checks of verify_block and verify_header that relate a block to its
\* parent.  What they check of a block alone holds for every block of Hash.
VerifyBlock(b, parent) ==
  /\ number[b] = number[parent] + 1
  /\ parent_hash[b] = parent

\* The parent is the head at this moment.  A block that fails the check is
\* rejected and nothing changes.
Start(t, b) ==
  /\ pc[t] = "idle"
  /\ head # NoHash
  /\ VerifyBlock(b, head)
  /\ pc' = [pc EXCEPT ![t] = "execute"]
  /\ cur' = [cur EXCEPT ![t] = b]
  /\ UNCHANGED <<head, state, dirty, draining, world, stop, snapshot, disk, restarts, errors, reorgs>>

\* The nonce of the transaction of b: how many its sender sent before it.
TxNonce(b) == nonce_after[parent_hash[b]][sender[b]]

\* An account after the transaction of b.
AfterTx(a, b) ==
  [nonce   |-> state[a].nonce + (IF a = sender[b] THEN 1 ELSE 0),
   applied |-> [state[a].applied EXCEPT ![b] = @ + 1]]

\* Under the evm lock: the transaction changes the accounts in memory if its nonce
\* is the sender's, and is skipped otherwise.  The flush puts the accounts back
\* in both cases, and they are dirty.
Execute(t) ==
  /\ pc[t] = "execute"
  /\ state' = IF TxNonce(cur[t]) = state[sender[cur[t]]].nonce
              THEN [a \in Account |-> IF a \in Parties(cur[t]) THEN AfterTx(a, cur[t])
                                                              ELSE state[a]]
              ELSE state
  /\ dirty' = dirty \cup Parties(cur[t])
  /\ Goto(t, "tick")
  /\ UNCHANGED <<head, draining, world, stop, snapshot, disk, restarts, errors, reorgs>>

\* GameWorld::tick; when an action fails apply_block returns, and neither the
\* account state nor what the tick has already done to the world is undone.
Tick(t) ==
  /\ pc[t] = "tick"
  /\ world' = Append(world, cur[t])
  /\ \/ Goto(t, "save_world") /\ UNCHANGED errors
     \/ /\ cur[t] \in FailingTick /\ Return(t)
        /\ errors < MaxErrors /\ errors' = errors + 1
  /\ UNCHANGED <<head, state, dirty, draining, stop, snapshot, disk, restarts, reorgs>>

\* put_game_state("world"); a failure is only logged.
SaveWorld(t) ==
  /\ pc[t] = "save_world"
  /\ \/ disk_world' = world /\ UNCHANGED errors
     \/ errors < MaxErrors /\ errors' = errors + 1 /\ UNCHANGED disk_world
  /\ Goto(t, "commit")
  /\ UNCHANGED <<head, state, dirty, draining, world, stop, snapshot, blocks, latest_block_number,
                 receipts, disk_state, restarts, reorgs>>

\* WorldState::commit drains the dirty accounts ...
Commit(t) ==
  /\ pc[t] = "commit"
  /\ draining' = [draining EXCEPT ![t] = [a \in Account |->
                                            IF a \in dirty THEN state[a] ELSE NoAccount]]
  /\ dirty' = {}
  /\ Goto(t, "put_accounts")
  /\ UNCHANGED <<head, state, world, stop, snapshot, disk, restarts, errors, reorgs>>

\* ... and puts them one by one, in the order of a hash map.
PutAccount(t, a) ==
  /\ pc[t] = "put_accounts"
  /\ draining[t][a] # NoAccount
  /\ disk_state' = [disk_state EXCEPT ![a] = draining[t][a]]
  /\ draining' = [draining EXCEPT ![t][a] = NoAccount]
  /\ UNCHANGED <<head, state, dirty, world, pc, cur, stop, snapshot, blocks,
                 latest_block_number, receipts, disk_world, restarts, errors, reorgs>>

Committed(t) ==
  /\ pc[t] = "put_accounts"
  /\ draining[t] = NothingDrained
  /\ Goto(t, "header")
  /\ UNCHANGED <<head, state, dirty, draining, world, stop, snapshot, disk, restarts, errors,
                 reorgs>>

PutHeader(t) ==
  /\ pc[t] = "header"
  /\ headers' = headers \cup {cur[t]}
  /\ Goto(t, "index")
  /\ UNCHANGED <<head, state, dirty, draining, world, stop, snapshot, block_number_to_hash, bodies,
                 transactions, latest_block_number, receipts, disk_state, disk_world,
                 restarts, errors, reorgs>>

PutNumberToHash(t) ==
  /\ pc[t] = "index"
  /\ block_number_to_hash' = [block_number_to_hash EXCEPT ![number[cur[t]]] = cur[t]]
  /\ Goto(t, "body")
  /\ UNCHANGED <<head, state, dirty, draining, world, stop, snapshot, headers, bodies,
                 transactions, latest_block_number, receipts, disk_state, disk_world,
                 restarts, errors, reorgs>>

PutBody(t) ==
  /\ pc[t] = "body"
  /\ bodies' = bodies \cup {cur[t]}
  /\ Goto(t, "tx_index")
  /\ UNCHANGED <<head, state, dirty, draining, world, stop, snapshot, headers, block_number_to_hash,
                 transactions, latest_block_number, receipts, disk_state, disk_world,
                 restarts, errors, reorgs>>

PutTransactions(t) ==
  /\ pc[t] = "tx_index"
  /\ transactions' = transactions \cup {cur[t]}
  /\ Goto(t, "latest")
  /\ UNCHANGED <<head, state, dirty, draining, world, stop, snapshot, headers, block_number_to_hash,
                 bodies, latest_block_number, receipts, disk_state, disk_world,
                 restarts, errors, reorgs>>

PutLatest(t) ==
  /\ pc[t] = "latest"
  /\ latest_block_number' = number[cur[t]]
  /\ Goto(t, "receipts")
  /\ UNCHANGED <<head, state, dirty, draining, world, stop, snapshot, blocks, receipts, disk_state,
                 disk_world, restarts, errors, reorgs>>

StoreReceipts(t) ==
  /\ pc[t] = "receipts"
  /\ receipts' = receipts \cup {cur[t]}
  /\ Goto(t, "head")
  /\ UNCHANGED <<head, state, dirty, draining, world, stop, snapshot, blocks, latest_block_number,
                 disk_state, disk_world, restarts, errors, reorgs>>

\* remove_included (module TxPool) and the write of the head.
UpdateHead(t) ==
  /\ pc[t] = "head"
  /\ head' = cur[t]
  /\ Return(t)
  /\ UNCHANGED <<state, dirty, draining, world, stop, snapshot, disk, restarts, errors, reorgs>>

\* A put of apply_block or of set_head fails: it returns the error and undoes
\* nothing.  A failed commit has drained accounts that nobody puts any more.
WriteError(t) ==
  /\ errors < MaxErrors
  /\ \/ pc[t] \in {"header", "index", "body", "tx_index", "latest", "receipts", "set_latest"}
     \/ pc[t] = "put_accounts" /\ draining[t] # NothingDrained
  /\ draining' = [draining EXCEPT ![t] = NothingDrained]
  /\ errors' = errors + 1
  /\ Return(t)
  /\ UNCHANGED <<head, state, dirty, world, stop, snapshot, disk, restarts, reorgs>>

-----------------------------------------------------------------------------
(* execute_reorg: the head is set back to the fork point, then the new     *)
(* blocks are applied as above.  Nothing else is undone.                   *)

ReorgStart(t, fork_point) ==
  /\ reorgs < MaxReorgs
  /\ reorgs' = reorgs + 1
  /\ pc[t] = "idle"
  /\ head # NoHash /\ fork_point <= number[head]
  /\ block_number_to_hash[fork_point] \in headers \cap bodies
  /\ pc' = [pc EXCEPT ![t] = "set_latest"]
  /\ cur' = [cur EXCEPT ![t] = block_number_to_hash[fork_point]]
  /\ UNCHANGED <<head, state, dirty, draining, world, stop, snapshot, disk, restarts, errors>>

SetLatest(t) ==
  /\ pc[t] = "set_latest"
  /\ latest_block_number' = number[cur[t]]
  /\ Goto(t, "set_head")
  /\ UNCHANGED <<head, state, dirty, draining, world, stop, snapshot, blocks, receipts, disk_state,
                 disk_world, restarts, errors, reorgs>>

SetHead(t) ==
  /\ pc[t] = "set_head"
  /\ head' = cur[t]
  /\ Return(t)
  /\ UNCHANGED <<state, dirty, draining, world, stop, snapshot, disk, restarts, errors, reorgs>>

-----------------------------------------------------------------------------
(* Stop and start of the node.                                             *)

\* restore_head: the header of the block the index names for latest_block_number.
RestoredHead ==
  LET h == block_number_to_hash[latest_block_number]
  IN  IF h \in headers THEN h ELSE NoHash

\* cmd_run with an empty memory.
Restart ==
  /\ restarts < MaxRestarts
  /\ restarts' = restarts + 1
  /\ head' = RestoredHead
  /\ state' = disk_state /\ dirty' = {} /\ draining' = [t \in Tasks |-> NothingDrained]
  /\ world' = disk_world
  /\ pc' = [t \in Tasks |-> "idle"] /\ cur' = [t \in Tasks |-> NoHash]
  /\ stop' = "running" /\ snapshot' = <<>>
  /\ UNCHANGED <<disk, errors, reorgs>>

\* The process is killed, at any point.
Crash == CrashAllowed /\ Restart

\* After the signal, cmd_run serialises the game world ...
ShutdownSerialize ==
  /\ stop = "running" /\ restarts < MaxRestarts
  /\ stop' = "saving" /\ snapshot' = world
  /\ UNCHANGED <<head, state, dirty, draining, world, pc, cur, disk, restarts, errors, reorgs>>

\* ... and puts it, while the other tasks keep running.
ShutdownPut ==
  /\ stop = "saving"
  /\ stop' = "stopping"
  /\ disk_world' = snapshot
  /\ UNCHANGED <<head, state, dirty, draining, world, pc, cur, snapshot, blocks, latest_block_number,
                 receipts, disk_state, restarts, errors, reorgs>>

\* The runtime waits for a task that is inside apply_block, which never yields.
Exit ==
  /\ stop = "stopping"
  /\ \A t \in Tasks : pc[t] = "idle"
  /\ Restart

-----------------------------------------------------------------------------
TaskStep(t) ==
  \/ \E b \in Hash : Start(t, b)
  \/ Execute(t) \/ Tick(t) \/ SaveWorld(t)
  \/ Commit(t) \/ (\E a \in Account : PutAccount(t, a)) \/ Committed(t)
  \/ PutHeader(t) \/ PutNumberToHash(t) \/ PutBody(t) \/ PutTransactions(t)
  \/ PutLatest(t) \/ StoreReceipts(t) \/ UpdateHead(t) \/ WriteError(t)
  \/ \E n \in Height : ReorgStart(t, n)
  \/ SetLatest(t) \/ SetHead(t)

Next ==
  \/ \E t \in Tasks : TaskStep(t)
  \/ Crash \/ ShutdownSerialize \/ ShutdownPut \/ Exit

Spec == Init /\ [][Next]_vars

-----------------------------------------------------------------------------
(* Properties                                                              *)

Quiescent == \A t \in Tasks : pc[t] = "idle"

\* The blocks the index names up to the latest block number.
Canonical == {block_number_to_hash[n] : n \in 0..latest_block_number}

\* Whatever is written when, by however many tasks, the node finds a head when it
\* starts: the index names a stored header for the latest block number.
Restorable == block_number_to_hash[latest_block_number] \in headers

\* The index "tracks the canonical chain" (chain.rs:1): up to the latest block
\* number it names complete blocks, each the parent of the next.
CanonicalChain ==
  /\ \A n \in 0..latest_block_number :
       block_number_to_hash[n] \in headers \cap bodies
  /\ \A n \in 1..latest_block_number :
       /\ block_number_to_hash[n] \in transactions
       /\ parent_hash[block_number_to_hash[n]] = block_number_to_hash[n - 1]

\* The same, only between two applications: what is wrong then stays wrong.
CanonicalWhenQuiet == Quiescent => CanonicalChain

\* Between two applications the head in memory is the durable one, so that a
\* crash loses no block that apply_block reported as applied.
HeadIsDurable ==
  Quiescent => block_number_to_hash[latest_block_number] = head

\* The transactions of a chain that ends in b cannot run on these accounts any more.
NoncesPast(accounts, b) == \A a \in Account : accounts[a].nonce >= nonce_after[b][a]

\* commit comes before put_latest_block_number: wherever the process is killed, the
\* stored nonces are past every transaction of the durable chain, so that none of
\* them can run again after the restart.
StateCoversChain == \A b \in Canonical : NoncesPast(disk_state, b)

\* The nonce check (chain.rs:193) lets no transaction charge its sender twice, even
\* when a kill inside commit has stored some of its accounts and not others and
\* the block is applied again, or when a reorganisation applies it again.
SentOnce ==
  \A b \in Hash : b # genesis => disk_state[sender[b]].applied[b] <= 1

\* Until execute_reorg is called, the latest block number never moves back and no
\* block below it is replaced, whatever crashes there are.
Finality ==
  [][reorgs' = 0 =>
     /\ latest_block_number' >= latest_block_number
     /\ \A n \in 0..latest_block_number :
          block_number_to_hash'[n] = block_number_to_hash[n]]_vars

FaultFree == restarts = 0 /\ reorgs = 0 /\ errors = 0

\* On a node that has met no fault, between two applications the game world has
\* ticked the blocks of the chain, each once and in order.
WorldFollowsChain ==
  FaultFree /\ Quiescent => world = [n \in 1..number[head] |-> block_number_to_hash[n]]

\* The accounts after the transactions of a set of blocks, each of them once, that
\* are a chain which ends in tip.
HoldExactly(accounts, set, tip) ==
  \A a \in Account :
    /\ accounts[a].nonce = nonce_after[tip][a]
    /\ \A b \in Hash :
         accounts[a].applied[b] = IF b \in set /\ a \in Parties(b) THEN 1 ELSE 0

\* And every account holds the transactions of the chain that are its own, each
\* once, and no other.
StateIsOfChain == FaultFree /\ Quiescent => HoldExactly(state, Canonical, head)

\* What is in memory and on disk fits the chain: the head is the durable one, the
\* stored nonces are past all of its transactions, nobody is charged twice and, on
\* a node without faults, world and accounts hold what the chain says and nothing
\* else.
StateMatchesChain ==
  HeadIsDurable /\ StateCoversChain /\ SentOnce /\ WorldFollowsChain /\ StateIsOfChain

\* apply_block does "commit account state changes to persistent storage"
\* (chain.rs:332) before it stores the block: every account that a block of the
\* durable chain changes holds that change once.
CommittedWhole ==
  \A b \in Canonical : \A a \in Parties(b) : disk_state[a].applied[b] = 1

\* GameWorld::tick is "called once per block" (world.rs:160): no block is ticked
\* again when it is applied again after a kill.
TickedOncePerBlock ==
  \A i, j \in DOMAIN world : world[i] = world[j] => i = j

\* A graceful shutdown is to "persist game world state before exit" (main.rs:561):
\* the world the node goes on with after it has ticked every block of its chain.
ShutdownKeepsWorld ==
  Quiescent =>
    \A n \in 1..latest_block_number :
      \E i \in DOMAIN world : world[i] = block_number_to_hash[n]

\* A reorganisation is "unwinding the current chain back to the common ancestor"
\* (reorg.rs:4): no effect of an abandoned block stays in the account state.
AbandonedIsUndone ==
  Quiescent => \A a \in Account : \A b \in Hash \ Canonical : state[a].applied[b] = 0

\* The durable chain above genesis, in order.
ChainBlocks == [n \in 1..latest_block_number |-> block_number_to_hash[n]]

L == INSTANCE Ledger WITH ledger <- ChainBlocks

\* The node "tracks the canonical chain" (chain.rs:1) through twelve puts per block,
\* crashes between any two of them, restarts, shutdowns and reorganisations: of
\* all this one sees a list of blocks that grows by a child of its last block or is
\* cut back, never while the head is behind, and a head that catches up with it.
ChainIsLedger == L!Spec

-----------------------------------------------------------------------------
(* Inductive invariants                                                    *)

\* Of Restorable: entries of the index are filled with stored headers of that
\* number and never emptied, and a task that will publish a number has filled
\* its entry.
IndexInv ==
  /\ \A n \in Height :
       block_number_to_hash[n] # NoHash =>
         block_number_to_hash[n] \in headers /\ number[block_number_to_hash[n]] = n
  /\ block_number_to_hash[latest_block_number] # NoHash
  /\ \A t \in Tasks :
       /\ pc[t] = "index" => cur[t] \in headers
       /\ pc[t] \in {"body", "tx_index", "latest", "set_latest"} =>
            block_number_to_hash[number[cur[t]]] # NoHash

\* One task at a time, and every write succeeds.
SingleTask == \A t, u \in Tasks : t = u
NoErrors == MaxErrors = 0

\* Where the only task is tells how far its block is stored and where the head is.
TaskInv(t) ==
  /\ pc[t] \notin {"receipts", "head", "set_head"} =>
       block_number_to_hash[latest_block_number] = head
  /\ pc[t] \in ApplySteps \ {"receipts", "head"} =>
       /\ number[cur[t]] = latest_block_number + 1
       /\ parent_hash[cur[t]] = head
  /\ pc[t] \in {"body", "tx_index", "latest"} =>
       block_number_to_hash[number[cur[t]]] = cur[t] /\ cur[t] \in headers
  /\ pc[t] \in {"tx_index", "latest"} => cur[t] \in bodies
  /\ pc[t] = "latest" => cur[t] \in transactions
  /\ pc[t] \in {"receipts", "head", "set_head"} =>
       number[cur[t]] = latest_block_number /\ block_number_to_hash[latest_block_number] = cur[t]
  /\ pc[t] = "set_latest" =>
       number[cur[t]] <= latest_block_number /\ block_number_to_hash[number[cur[t]]] = cur[t]

\* Of the chain kept by one task: the canonical chain and the position of the task
\* fit together.
ChainInv == TypeOK /\ IndexInv /\ CanonicalChain /\ \A t \in Tasks : TaskInv(t)

\* And the position tells how far the accounts of its block are stored.
CommitInv(t) ==
  /\ pc[t] \in {"tick", "save_world", "commit", "put_accounts"} => NoncesPast(state, cur[t])
  /\ pc[t] \in {"header", "index", "body", "tx_index", "latest"} =>
       NoncesPast(disk_state, cur[t])
  /\ pc[t] = "put_accounts" => dirty = {}
  /\ pc[t] # "put_accounts" => draining[t] = NothingDrained
  /\ \A a \in Account : draining[t][a] \in {state[a], NoAccount}

\* The sender's side of the transaction of b has taken effect at most once, and a
\* sender that holds it has a higher nonce.
EffectUsesNonce(account, b) ==
  /\ account.applied[b] <= 1
  /\ account.applied[b] = 1 => parent_hash[b] \in Hash /\ account.nonce > TxNonce(b)

\* Of the accounts: what is not stored is dirty or being put, stored nonces are
\* past the durable chain, and an effect uses up a nonce.
AccountsInv ==
  /\ StateCoversChain
  /\ \A a \in Account :
       a \notin dirty /\ (\A t \in Tasks : draining[t][a] = NoAccount) => disk_state[a] = state[a]
  /\ \A a \in Account : state[a].nonce >= disk_state[a].nonce
  /\ \A b \in Hash \ {genesis} :
       EffectUsesNonce(state[sender[b]], b) /\ EffectUsesNonce(disk_state[sender[b]], b)
  /\ \A t \in Tasks : CommitInv(t)

\* On a node that has met no fault the world has ticked the durable chain, and
\* from the tick on to the new latest block number also the block in hand, whose
\* account effects are in the state from its execution on.
WorldInv(t) ==
  FaultFree =>
    /\ pc[t] \notin ReorgSteps
    /\ world = IF pc[t] \in ApplySteps \ {"execute", "tick", "receipts", "head"}
               THEN Append(ChainBlocks, cur[t])
               ELSE ChainBlocks
    /\ IF pc[t] \in ApplySteps \ {"execute", "receipts", "head"}
       THEN HoldExactly(state, Canonical \cup {cur[t]}, cur[t])
       ELSE HoldExactly(state, Canonical, block_number_to_hash[latest_block_number])
=============================================================================
