----------------------------- MODULE MCExecution -----------------------------
(* Instances of Execution for TLC: alice pays bob, reverts, halts, plays and    *)
(* creates a contract whose code reads bob's account; bob pays without a gas    *)
(* price.                                                                       *)
EXTENDS Execution, TLC

CONSTANTS alice, bob, contract, zero

MCAddress == {alice, bob, contract, zero}
MCInitial == alice :> [balance |-> 3, nonce |-> 0] @@ bob :> [balance |-> 1, nonce |-> 0]
               @@ [a \in {contract, zero} |-> [balance |-> 0, nonce |-> 0]]

Transaction(h, s, t, n, v, p, k) ==
  [hash |-> h, sender |-> s, to |-> t, nonce |-> n, value |-> v, gas |-> 1, price |-> p, kind |-> k,
   touched |-> {t}, payee |-> t, created |-> {}]

Creation(h, s, c, n, v, p, others) ==
  [hash |-> h, sender |-> s, to |-> NoAddress, nonce |-> n, value |-> v, gas |-> 1, price |-> p,
   kind |-> "success", touched |-> {c} \cup others, payee |-> c, created |-> {c}]

MCTx == {Transaction(1, alice, bob, 0, 1, 1, "success"),
         Transaction(2, alice, bob, 1, 1, 1, "revert"),
         Transaction(3, alice, bob, 0, 0, 1, "halt"),
         Transaction(4, alice, bob, 0, 5, 1, "success"),
         Transaction(5, bob, alice, 0, 1, NoPrice, "success"),
         Transaction(6, alice, bob, 0, 0, NoPrice, "game"),
         Transaction(7, alice, bob, 1, 0, NoPrice, "game"),
         Creation(8, alice, contract, 0, 1, NoPrice, {bob})}
=============================================================================
