---------------------------- MODULE TxPoolConfig ----------------------------
(* What a transaction pool (module TxPool) is used with.                    *)
EXTENDS Naturals, FiniteSets

CONSTANTS
  Threads,   \* the threads that call the pool
  Tx,        \* the transactions that exist, records with the fields below
  Address,   \* account addresses
  TxHash,    \* transaction hashes
  max_size,  \* capacity of the pool
  NoTx       \* the argument of a thread that is in no operation

ASSUME TxPoolAssumption ==
  /\ IsFiniteSet(Threads) /\ Threads # {}
  /\ IsFiniteSet(Tx)
  /\ Tx \subseteq [hash : TxHash, sender : Address, nonce : Nat]
  /\ \A a, b \in Tx : a.hash = b.hash => a = b
  /\ max_size \in Nat
  /\ NoTx \notin Tx
=============================================================================
