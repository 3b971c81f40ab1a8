------------------------------ MODULE Execution ------------------------------
(***************************************************************************)
(* The execution of a block's transactions inside Chain::apply_block,      *)
(* crates/node/src/chain.rs, with the account cache of                     *)
(* crates/state/src/world_state.rs and the executor of                     *)
(* crates/evm/src/executor.rs.                                             *)
(*                                                                         *)
(* A block is executed in passes: the EVM transactions, in a database of   *)
(* their own that is loaded before and flushed after them; then the game   *)
(* transactions, on the account cache; then the game tick; then the commit *)
(* of the changed accounts, one put each.  The process may be killed       *)
(* between any two puts.                                                   *)
(*                                                                         *)
(* Spec is one apply_block at a time.  The passes after the EVM's run      *)
(* outside of its lock; what a second task does between them is module     *)
(* Executions, which is why a game transaction is read, put and put here.  *)
(*                                                                         *)
(* Of what a transaction's code does the accounts see which of them it     *)
(* reads, which one ends up with the value and which ones it creates.      *)
(* Accounts are loaded without code, so that only contracts of the same    *)
(* block have any; wei such a contract had before is not spent here.       *)
(*                                                                         *)
(* Gas and wei are counted in units: a plain transaction uses one unit of  *)
(* gas (21 000 in the code), and gas prices are 0 or 1.                    *)
(***************************************************************************)
EXTENDS Naturals, Sequences, FiniteSets, Functions, FiniteSetsExt

CONSTANTS
  Address,     \* the accounts
  coinbase,    \* the account revm credits with the fees (the zero address)
  initial,     \* the accounts of the genesis state
  Tx,          \* transactions: [hash, sender, to, nonce, value, gas, price, kind,
               \*                touched, payee, created]
  NoAddress,   \* a to of None: a contract is created
  NoPrice,     \* a gas_price of None
  MaxTxs,      \* bound on the transactions of a block
  MaxBlocks,   \* bound on the blocks applied
  MaxCrashes   \* bound on the crashes

GameGas == 1
NoAccount == [balance |-> 0, nonce |-> 0]
Kind == {"success", "revert", "halt", "game"}

ASSUME ExecutionAssumption ==
  /\ IsFiniteSet(Address) /\ coinbase \in Address
  /\ initial \in [Address -> [balance : Nat, nonce : Nat]]
  /\ NoAddress \notin Address
  /\ \A x \in Tx : /\ x.sender \in Address /\ x.to \in Address \cup {NoAddress} /\ x.kind \in Kind
                    /\ x.touched \subseteq Address /\ x.payee \in x.touched
                    /\ x.created \subseteq x.touched
                    /\ x.nonce \in Nat /\ x.value \in Nat /\ x.gas \in Nat
                    /\ x.price \in Nat \cup {NoPrice}
  /\ MaxTxs \in Nat /\ MaxBlocks \in Nat /\ MaxCrashes \in Nat

VARIABLES
  pc,          \* the pass apply_block is in
  txs,         \* the transactions of the block
  todo,        \* the positions of those the current pass has still to process
  evm,         \* the accounts in the EVM's database
  accounts,    \* the account cache of WorldState
  dirty,       \* the addresses commit will put
  draining,    \* the accounts commit has drained and not put yet
  copy,        \* the account the game pass has read and not put yet
  disk,        \* the accounts in RocksDB
  receipts,    \* the receipts of the block, in the order they are made
  total_gas_used, game_cumulative_gas,
  ticked,      \* the game transactions of the block the game world executed
  succeeded,   \* history: the transactions that succeeded in applied blocks
  unloaded,    \* history: the accounts the EVM has held without loading them
  applied,     \* the number of applied blocks
  crashes

vars == <<pc, txs, todo, evm, accounts, dirty, draining, copy, disk, receipts, total_gas_used,
          game_cumulative_gas, ticked, succeeded, unloaded, applied, crashes>>

IsGame(x) == x.kind = "game"
IsEvm(x) == x.kind # "game"

\* The positions of a block's transactions of one sort, which a pass visits in
\* their order.
GamePositions(block) == {i \in DOMAIN block : IsGame(block[i])}
EvmPositions(block) == {i \in DOMAIN block : IsEvm(block[i])}

\* The position and the transaction that the pass is at; it is done with it.
At(i) == i \in todo /\ \A j \in todo : i <= j
IsAt(x) == \E i \in todo : At(i) /\ x = txs[i]
IsNext(x) == \E i \in todo : At(i) /\ x = txs[i] /\ todo' = todo \ {i}

\* The accounts that are loaded for a block's EVM transactions.
Loaded(block) ==
  (UNION {{block[i].sender, block[i].to} : i \in EvmPositions(block)}) \ {NoAddress}

Account == [balance : Nat, nonce : Nat]

ReceiptRecord == [tx : Tx, success : BOOLEAN, gas_used : Nat, cumulative_gas_used : Nat]

\* Balances, nonces and gas stay numbers: no subtraction goes below zero.
TypeOK ==
  /\ pc \in {"idle", "evm", "game", "put_nonce", "put_fee", "commit", "put_accounts"}
  /\ txs \in Seq(Tx) /\ todo \subseteq DOMAIN txs
  /\ pc \in {"idle", "commit", "put_accounts"} => todo = {}
  /\ DOMAIN evm \subseteq Address /\ \A a \in DOMAIN evm : evm[a] \in Account
  /\ accounts \in [Address -> Account] /\ disk \in [Address -> Account]
  /\ DOMAIN draining \subseteq Address /\ \A a \in DOMAIN draining : draining[a] \in Account
  /\ copy \in Account
  /\ dirty \subseteq Address /\ succeeded \subseteq Tx /\ unloaded \subseteq Address
  /\ receipts \in Seq(ReceiptRecord)
  /\ total_gas_used \in Nat /\ game_cumulative_gas \in Nat

Init ==
  /\ pc = "idle" /\ txs = <<>> /\ todo = {} /\ evm = <<>>
  /\ accounts = initial /\ disk = initial /\ dirty = {} /\ draining = <<>> /\ copy = NoAccount
  /\ receipts = <<>> /\ total_gas_used = 0 /\ game_cumulative_gas = 0
  /\ ticked = <<>> /\ succeeded = {} /\ unloaded = {} /\ applied = 0 /\ crashes = 0

\* gas_price.unwrap_or(default)
PriceOr(x, default) == IF x.price = NoPrice THEN default ELSE x.price

\* The EVM reads an account it does not have as an empty one.
EvmAccount(db, a) == IF a \in DOMAIN db THEN db[a] ELSE NoAccount

EvmPut(db, a, acc) == [x \in DOMAIN db \cup {a} |-> IF x = a THEN acc ELSE db[x]]

EvmAdd(db, a, amount) ==
  EvmPut(db, a, [EvmAccount(db, a) EXCEPT !.balance = @ + amount])

\* From then on it has it, an account that is only read included.
EvmTouch(db, s) == [a \in DOMAIN db \cup s |-> EvmAccount(db, a)]

\* A new contract has nonce 1.
EvmCreate(db, s) ==
  [a \in DOMAIN db |-> IF a \in s /\ db[a].nonce = 0 THEN [db[a] EXCEPT !.nonce = 1] ELSE db[a]]

\* revm validates the nonce and the funds for value and fees.
EvmValid(db, x) ==
  /\ x.nonce = EvmAccount(db, x.sender).nonce
  /\ EvmAccount(db, x.sender).balance >= x.value + x.gas * PriceOr(x, 0)

\* WorldState::increment_nonce, then nothing or a sub_balance that may fail.
IncrementNonce(accs, a) == [accs EXCEPT ![a].nonce = @ + 1]

SubBalance(accs, a, amount) ==
  IF accs[a].balance < amount THEN accs ELSE [accs EXCEPT ![a].balance = @ - amount]

Receipt(x, success, gas, cumulative) ==
  [tx |-> x, success |-> success, gas_used |-> gas, cumulative_gas_used |-> cumulative]

-----------------------------------------------------------------------------
(* Variants of the definitions below with a plausible bug each; Next does  *)
(* not use them.                                                           *)

\* The nonce of the transaction is not compared with the account.
NonceOk_Always(x) == TRUE

\* The account is loaded without its nonce, as set_balance does.
LoadAccount_NoNonce(a) == [balance |-> accounts[a].balance, nonce |-> 0]

\* flush_to_state adds to the balance instead of setting it.
FlushToState_Adds ==
  /\ pc = "evm" /\ todo = {}
  /\ accounts' = [a \in Address |->
       IF a \in DOMAIN evm
         THEN [evm[a] EXCEPT !.balance = @ + accounts[a].balance] ELSE accounts[a]]
  /\ dirty' = dirty \cup DOMAIN evm
  /\ todo' = GamePositions(txs)
  /\ game_cumulative_gas' = total_gas_used
  /\ pc' = "game"
  /\ UNCHANGED <<txs, evm, draining, copy, disk, receipts, total_gas_used, ticked, succeeded,
                 unloaded, applied, crashes>>
-----------------------------------------------------------------------------
(* apply_block, pass by pass.                                              *)

\* The database transact_commit leaves behind for a valid transaction: what it has
\* read, the nonce and the fees always, the value and new contracts only if it
\* succeeds.
EvmCommit(db, x) ==
  LET fee == x.gas * PriceOr(x, 0)
      s == EvmAccount(db, x.sender)
      value == IF x.kind = "success" THEN x.value ELSE 0
      created == IF x.kind = "success" THEN x.created ELSE {}
      paid == EvmPut(EvmTouch(db, x.touched), x.sender,
                     [balance |-> s.balance - fee - value, nonce |-> s.nonce + 1])
  IN  EvmAdd(EvmCreate(EvmAdd(paid, x.payee, value), created), coinbase, fee)

LoadAccount(a) == accounts[a]

\* The game actions are collected and charged to total_gas_used, the EVM is reset
\* and the senders and receivers of the EVM transactions are loaded, not what their
\* code will read, pay or create.
Begin(block) ==
  /\ pc = "idle" /\ applied < MaxBlocks
  /\ txs' = block
  /\ todo' = EvmPositions(block)
  /\ total_gas_used' = Cardinality(GamePositions(block)) * GameGas
  /\ evm' = [a \in Loaded(block) |-> LoadAccount(a)]
  /\ receipts' = <<>> /\ ticked' = <<>> /\ game_cumulative_gas' = 0
  /\ pc' = "evm"
  /\ UNCHANGED <<accounts, dirty, draining, copy, disk, succeeded, unloaded, applied, crashes>>

\* The check apply_block makes of a transaction's nonce, on the account cache.
NonceOk(x) == x.nonce = accounts[x.sender].nonce

\* The next EVM transaction: skipped, executed (also when it reverts), or failed
\* (revm refuses it, or it halts and its fees are committed nevertheless).
EvmTx ==
  /\ pc = "evm"
  /\ \E x \in Tx :
       /\ IsNext(x)
       /\ \/ /\ ~NonceOk(x)
             /\ receipts' = Append(receipts, Receipt(x, FALSE, 0, total_gas_used))
             /\ UNCHANGED <<evm, accounts, dirty, total_gas_used>>
          \/ /\ NonceOk(x) /\ EvmValid(evm, x) /\ x.kind # "halt"
             /\ evm' = EvmCommit(evm, x)
             /\ total_gas_used' = total_gas_used + x.gas
             /\ accounts' = IncrementNonce(SubBalance(accounts, x.sender, x.gas * PriceOr(x, 1)),
                                           x.sender)
             /\ dirty' = dirty \cup {x.sender}
             /\ receipts' = Append(receipts, Receipt(x, x.kind = "success", x.gas, total_gas_used'))
          \/ /\ NonceOk(x) /\ (~EvmValid(evm, x) \/ x.kind = "halt")
             /\ evm' = IF EvmValid(evm, x) THEN EvmCommit(evm, x) ELSE evm
             /\ accounts' = IncrementNonce(accounts, x.sender)
             /\ dirty' = dirty \cup {x.sender}
             /\ receipts' = Append(receipts, Receipt(x, FALSE, 0, total_gas_used))
             /\ UNCHANGED total_gas_used
  /\ unloaded' = unloaded \cup (DOMAIN evm' \ Loaded(txs))
  /\ UNCHANGED <<pc, txs, draining, copy, disk, game_cumulative_gas, ticked, succeeded, applied,
                 crashes>>

\* flush_to_state overwrites balance and nonce of every account the EVM has.
Flushed(db, accs) == [a \in Address |-> IF a \in DOMAIN db THEN db[a] ELSE accs[a]]

FlushToState ==
  /\ pc = "evm" /\ todo = {}
  /\ accounts' = Flushed(evm, accounts)
  /\ dirty' = dirty \cup DOMAIN evm
  /\ todo' = GamePositions(txs)
  /\ game_cumulative_gas' = total_gas_used
  /\ pc' = "game"
  /\ UNCHANGED <<txs, evm, draining, copy, disk, receipts, total_gas_used, ticked, succeeded,
                 unloaded, applied, crashes>>

GameReceipt(x, success) ==
  /\ game_cumulative_gas' = game_cumulative_gas + GameGas
  /\ receipts' = Append(receipts, Receipt(x, success, GameGas, game_cumulative_gas'))

\* The next game transaction: its nonce is checked, and increment_nonce reads the
\* account ...
GameCheck ==
  /\ pc = "game"
  /\ \E x \in Tx :
       \/ /\ IsAt(x) /\ NonceOk(x)
          /\ copy' = accounts[x.sender]
          /\ pc' = "put_nonce"
          /\ UNCHANGED <<todo, game_cumulative_gas, receipts>>
       \/ IsNext(x) /\ ~NonceOk(x) /\ GameReceipt(x, FALSE) /\ UNCHANGED <<pc, copy>>
  /\ UNCHANGED <<txs, evm, accounts, dirty, draining, disk, total_gas_used, ticked, succeeded,
                 unloaded, applied, crashes>>

\* ... and puts it; sub_balance reads it again ...
PutNonce ==
  /\ pc = "put_nonce"
  /\ \E x \in Tx :
       /\ IsAt(x)
       /\ copy' = [copy EXCEPT !.nonce = @ + 1]
       /\ accounts' = [accounts EXCEPT ![x.sender] = copy']
       /\ dirty' = dirty \cup {x.sender}
  /\ pc' = "put_fee"
  /\ UNCHANGED <<txs, todo, evm, draining, disk, receipts, total_gas_used, game_cumulative_gas,
                 ticked, succeeded, unloaded, applied, crashes>>

\* ... and puts it without the fixed fee, if it has that much.
PutFee ==
  /\ pc = "put_fee"
  /\ \E x \in Tx :
       /\ IsNext(x)
       /\ \/ /\ copy.balance >= GameGas
             /\ accounts' = [accounts EXCEPT ![x.sender] = [copy EXCEPT !.balance = @ - GameGas]]
             /\ dirty' = dirty \cup {x.sender}
          \/ copy.balance < GameGas /\ UNCHANGED <<accounts, dirty>>
       /\ GameReceipt(x, TRUE)
  /\ pc' = "game"
  /\ UNCHANGED <<txs, evm, draining, copy, disk, total_gas_used, ticked, succeeded, unloaded,
                 applied, crashes>>

\* GameWorld::tick gets the actions collected at the start.
Tick ==
  /\ pc = "game" /\ todo = {}
  /\ ticked' = SelectSeq(txs, IsGame)
  /\ pc' = "commit"
  /\ UNCHANGED <<txs, todo, evm, accounts, dirty, draining, copy, disk, receipts, total_gas_used,
                 game_cumulative_gas, succeeded, unloaded, applied, crashes>>

\* WorldState::commit drains the dirty accounts ...
Commit ==
  /\ pc = "commit"
  /\ draining' = [a \in dirty |-> accounts[a]]
  /\ dirty' = {}
  /\ pc' = "put_accounts"
  /\ UNCHANGED <<txs, todo, evm, accounts, copy, disk, receipts, total_gas_used,
                 game_cumulative_gas, ticked, succeeded, unloaded, applied, crashes>>

\* ... and puts them one by one, in the order of a hash map.
PutAccount(a) ==
  /\ pc = "put_accounts" /\ a \in DOMAIN draining
  /\ disk' = [disk EXCEPT ![a] = draining[a]]
  /\ draining' = [b \in DOMAIN draining \ {a} |-> draining[b]]
  /\ UNCHANGED <<pc, txs, todo, evm, accounts, dirty, copy, receipts, total_gas_used,
                 game_cumulative_gas, ticked, succeeded, unloaded, applied, crashes>>

\* The block is stored and becomes the head (module Chain).
Finish ==
  /\ pc = "put_accounts" /\ DOMAIN draining = {}
  /\ applied' = applied + 1
  /\ succeeded' = succeeded \cup {r.tx : r \in {s \in Range(receipts) : s.success}}
  /\ pc' = "idle"
  /\ txs' = <<>> /\ receipts' = <<>> /\ ticked' = <<>> /\ evm' = <<>> /\ copy' = NoAccount
  /\ total_gas_used' = 0 /\ game_cumulative_gas' = 0
  /\ UNCHANGED <<todo, accounts, dirty, draining, disk, unloaded, crashes>>

\* The process is killed and restarted; the block is not the head.
Crash ==
  /\ crashes < MaxCrashes
  /\ crashes' = crashes + 1
  /\ pc' = "idle" /\ txs' = <<>> /\ todo' = {} /\ evm' = <<>>
  /\ accounts' = disk /\ dirty' = {} /\ draining' = <<>> /\ copy' = NoAccount
  /\ receipts' = <<>> /\ ticked' = <<>>
  /\ total_gas_used' = 0 /\ game_cumulative_gas' = 0
  /\ UNCHANGED <<disk, succeeded, unloaded, applied>>

Block == UNION {[1..n -> Tx] : n \in 0..MaxTxs}

\* The steps of a call of apply_block once it has begun.
Pass ==
  \/ EvmTx \/ FlushToState
  \/ GameCheck \/ PutNonce \/ PutFee \/ Tick
  \/ Commit \/ (\E a \in Address : PutAccount(a)) \/ Finish

Next ==
  \/ \E block \in Block : Begin(block)
  \/ Pass
  \/ Crash

Spec == Init /\ [][Next]_vars

-----------------------------------------------------------------------------
(* Properties                                                              *)

Supply(accs) == MapThenSumSet(LAMBDA a : accs[a].balance, Address)

\* As long as the node has not crashed and applies one block at a time, executing
\* blocks creates no wei: the double bookkeeping in the account cache and the EVM's
\* database never leaves more in the accounts than genesis did.
NoMint == crashes = 0 /\ pc = "idle" => Supply(accounts) <= Supply(initial)

\* What the accounts are worth at any point: what a flush would leave of them.
Books == IF pc = "evm" THEN Flushed(evm, accounts) ELSE accounts

\* What the game pass puts of the transaction it is at is what the cache holds,
\* while nobody else writes to it.
CopyInv ==
  \A x \in Tx : IsAt(x) =>
    /\ pc \in {"put_nonce", "put_fee"} => copy = accounts[x.sender]
    /\ pc = "put_nonce" => x.nonce = copy.nonce
    /\ pc = "put_fee" => x.nonce < copy.nonce

\* The inductive invariant of NoMint.
SupplyInv == crashes \in Nat /\ (crashes = 0 => Supply(Books) <= Supply(initial))

\* The stored nonce of an account never goes back while blocks are applied one at a
\* time, so that no transaction that used it up can run again; except for
\* accounts that the EVM has held without loading them, whose nonce the flush
\* overwrites.
StoredNonceGrows == [][\A a \in Address \ unloaded : disk'[a].nonce >= disk[a].nonce]_vars

Success(i) == receipts[i].success /\ receipts[i].tx.sender \notin unloaded

\* A transaction succeeds in at most one applied block, and once in it, however
\* often producers include it and whatever a crash left on disk, with the same
\* exception.
SucceedsOnce ==
  /\ \A i \in DOMAIN receipts : Success(i) => receipts[i].tx \notin succeeded
  /\ \A i, j \in DOMAIN receipts :
       Success(i) /\ Success(j) /\ receipts[i].tx = receipts[j].tx => i = j

\* The nonce that counts: the EVM's copy of an account while it has one, since
\* the flush overwrites the cache with it.
Book(a) == IF pc = "evm" /\ a \in DOMAIN evm THEN evm[a].nonce ELSE accounts[a].nonce

NoncesUsedUp ==
  \A i \in DOMAIN receipts : Success(i) => receipts[i].tx.nonce < Book(receipts[i].tx.sender)

\* A transaction that has not succeeded yet, in this block or before.
Fresh(x) ==
  x.sender \notin unloaded =>
    x \notin succeeded /\ \A i \in DOMAIN receipts : Success(i) => receipts[i].tx # x

\* What the EVM holds, what commit has drained and what the cache holds agree with
\* the pass.
PassInv ==
  /\ pc = "evm" => /\ todo \subseteq EvmPositions(txs)
                   /\ Loaded(txs) \subseteq DOMAIN evm
                   /\ DOMAIN evm \subseteq Loaded(txs) \cup unloaded
  /\ pc = "idle" => receipts = <<>>
  /\ pc = "put_accounts" => dirty = {}
  /\ pc # "put_accounts" => DOMAIN draining = {}
  /\ \A a \in DOMAIN draining : draining[a] = accounts[a]
  /\ \A a \in Address \ (dirty \cup DOMAIN draining) : accounts[a] = disk[a]

\* Successful transactions lie below the nonce that counts, and those of applied
\* blocks below the stored one, which the former never undercuts.
NoncesInv ==
  /\ TypeOK /\ PassInv /\ CopyInv
  /\ \A a \in Address \ unloaded : disk[a].nonce <= Book(a)
  /\ \A x \in succeeded : x.sender \notin unloaded => x.nonce < disk[x.sender].nonce
  /\ pc = "put_fee" => \A x \in Tx : IsAt(x) => Fresh(x)
  /\ NoncesUsedUp /\ SucceedsOnce

\* flush_to_state is to sync "balances and nonces modified by EVM transactions"
\* (executor.rs:185): an account that no transaction of the block sends from,
\* pays or creates keeps its own.
Modified(block) ==
  {coinbase} \cup UNION {{block[i].sender, block[i].payee} \cup block[i].created :
                           i \in EvmPositions(block)}

FlushSyncsModified ==
  [][pc = "evm" /\ pc' = "game" =>
       \A a \in Address \ Modified(txs) : accounts'[a] = accounts[a]]_vars

\* The changed accounts of a block are "a single atomic write batch" (batch.rs:3) to
\* disk: a crash creates no wei either.
NoMintByCrash == pc = "idle" => Supply(accounts) <= Supply(initial)

\* "Cumulative gas used in the block up to and including this transaction."
\* (chain.rs:32): the sum of the gas of the receipts so far.
CumulativeGas ==
  \A i \in DOMAIN receipts :
    receipts[i].cumulative_gas_used =
      MapThenSumSet(LAMBDA j : receipts[j].gas_used, 1..i)

\* "Index of the transaction within the block." (chain.rs:26): a receipt's index
\* is its position among the receipts, and that is its transaction's position.
ReceiptIndex ==
  \A i \in DOMAIN receipts : receipts[i].tx = txs[i]

\* "Still increment nonce on failure (Ethereum behavior)" (chain.rs:255): a
\* transaction whose nonce is right uses it up, whether it succeeds or fails.
NonceUsedUp ==
  pc = "commit" =>
    \A i \in DOMAIN receipts :
      receipts[i].tx.nonce < accounts[receipts[i].tx.sender].nonce
        \/ receipts[i].tx.nonce > disk[receipts[i].tx.sender].nonce

\* "Whether the transaction executed successfully." (chain.rs:28): the world
\* executes the action of a game transaction only if its receipt is a success.
ReceiptTellsExecution ==
  \A x \in Range(ticked) :
    \E r \in Range(receipts) : r.tx = x /\ r.success
=============================================================================
