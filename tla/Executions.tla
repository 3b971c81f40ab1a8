----------------------------- MODULE Executions ------------------------------
(***************************************************************************)
(* Two calls of Chain::apply_block at the same time, the block producer's  *)
(* (crates/node/src/block_producer.rs) and the network handler's           *)
(* (crates/node-cli/src/main.rs), on one account cache.  Each executes its *)
(* block as module Execution says; only the EVM's pass excludes the other  *)
(* one's, since it holds the evm lock from the reset to the flush.         *)
(*                                                                         *)
(* The EVM's database is one in the code; what it holds between a flush    *)
(* and the next reset is not read, so that each task has its own here.     *)
(* A transaction of the EVM's pass, the flush and the two inserts of       *)
(* put_account are one step each, which leaves interleavings out.          *)
(***************************************************************************)
EXTENDS Naturals

CONSTANTS Address, coinbase, initial, Tx, NoAddress, NoPrice, MaxTxs, MaxBlocks, MaxCrashes

VARIABLES
  accounts, dirty, disk, succeeded, unloaded, applied, crashes,  \* of the node
  p_pc, p_txs, p_todo, p_evm, p_draining, p_copy, p_receipts, p_total_gas_used,
  p_game_cumulative_gas, p_ticked,                               \* of the producer's call
  h_pc, h_txs, h_todo, h_evm, h_draining, h_copy, h_receipts, h_total_gas_used,
  h_game_cumulative_gas, h_ticked                                \* of the handler's call

Producer ==
  INSTANCE Execution WITH pc <- p_pc, txs <- p_txs, todo <- p_todo, evm <- p_evm,
    draining <- p_draining, copy <- p_copy, receipts <- p_receipts,
    total_gas_used <- p_total_gas_used, game_cumulative_gas <- p_game_cumulative_gas,
    ticked <- p_ticked

Handler ==
  INSTANCE Execution WITH pc <- h_pc, txs <- h_txs, todo <- h_todo, evm <- h_evm,
    draining <- h_draining, copy <- h_copy, receipts <- h_receipts,
    total_gas_used <- h_total_gas_used, game_cumulative_gas <- h_game_cumulative_gas,
    ticked <- h_ticked

shared == <<accounts, dirty, disk, succeeded, unloaded, applied, crashes>>
producer == <<p_pc, p_txs, p_todo, p_evm, p_draining, p_copy, p_receipts, p_total_gas_used,
              p_game_cumulative_gas, p_ticked>>
handler == <<h_pc, h_txs, h_todo, h_evm, h_draining, h_copy, h_receipts, h_total_gas_used,
             h_game_cumulative_gas, h_ticked>>
vars == <<shared, producer, handler>>

Init == Producer!Init /\ Handler!Init

\* self.evm.lock()
EvmIsFree == p_pc # "evm" /\ h_pc # "evm"

ProducerStep ==
  /\ \/ EvmIsFree /\ \E block \in Producer!Block : Producer!Begin(block)
     \/ Producer!Pass
  /\ UNCHANGED handler

HandlerStep ==
  /\ \/ EvmIsFree /\ \E block \in Handler!Block : Handler!Begin(block)
     \/ Handler!Pass
  /\ UNCHANGED producer

Crash == Producer!Crash /\ Handler!Crash

Next == ProducerStep \/ HandlerStep \/ Crash

Spec == Init /\ [][Next]_vars

-----------------------------------------------------------------------------
(* Properties                                                              *)

\* "Nonce verification: sender nonce must match tx nonce" (chain.rs:188, and of
\* game actions chain.rs:288): no transaction succeeds in two applied blocks,
\* though both are executed at the same time.
SucceedsOnceTogether ==
  /\ \A i \in DOMAIN p_receipts : Producer!Success(i) => p_receipts[i].tx \notin succeeded
  /\ \A i \in DOMAIN h_receipts : Handler!Success(i) => h_receipts[i].tx \notin succeeded

\* "Nonce management and gas cost deduction for both EVM and game action
\* transactions" (CHANGELOG.md:23): what one block has deducted from an account
\* stays deducted when the other one's deductions are done.
NoMintTogether ==
  crashes = 0 /\ p_pc = "idle" /\ h_pc = "idle" =>
    Producer!Supply(accounts) <= Producer!Supply(initial)
=============================================================================
