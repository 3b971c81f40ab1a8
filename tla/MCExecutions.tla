---------------------------- MODULE MCExecutions -----------------------------
(* An instance of Executions for TLC: alice pays bob and plays, in blocks of    *)
(* one transaction each.                                                        *)
EXTENDS Executions, TLC

CONSTANTS alice, bob, zero

MCAddress == {alice, bob, zero}
MCInitial == alice :> [balance |-> 3, nonce |-> 0]
               @@ [a \in {bob, zero} |-> [balance |-> 0, nonce |-> 0]]

Transaction(n, v, p, k) ==
  [hash |-> <<n, k>>, sender |-> alice, to |-> bob, nonce |-> n, value |-> v, gas |-> 1,
   price |-> p, kind |-> k, touched |-> {bob}, payee |-> bob, created |-> {}]

MCTx == {Transaction(0, 2, 1, "success"), Transaction(0, 0, NoPrice, "game")}
=============================================================================
