------------------------------- MODULE Ledger -------------------------------
(***************************************************************************)
(* What a node's chain promises: a list of blocks that grows at its end,   *)
(* each block the child of the one before it, and that only a              *)
(* reorganisation cuts back.  The head that the node announces follows     *)
(* the end of the list, and nothing is put on the list or cut off it       *)
(* before it has.  Nothing is said of crashes, restarts or shutdowns:      *)
(* they leave no trace but that the head may catch up.                     *)
(***************************************************************************)
EXTENDS Naturals, Sequences

CONSTANTS
  Hash,        \* the blocks
  genesis,     \* the block below the list
  parent_hash  \* the parent of each block

VARIABLES
  ledger,      \* the blocks above genesis, in order
  head         \* the block announced as the last one

vars == <<ledger, head>>

Tip == IF ledger = <<>> THEN genesis ELSE ledger[Len(ledger)]

Init == ledger = <<>> /\ head = genesis

Extend(b) ==
  /\ head = Tip /\ parent_hash[b] = head
  /\ ledger' = Append(ledger, b)
  /\ UNCHANGED head

CutBack(n) ==
  /\ head = Tip
  /\ ledger' = SubSeq(ledger, 1, n)
  /\ UNCHANGED head

Announce == head' = Tip /\ UNCHANGED ledger

Next ==
  \/ \E b \in Hash : Extend(b)
  \/ \E n \in 0..Len(ledger) : CutBack(n)
  \/ Announce

Spec == Init /\ [][Next]_vars
=============================================================================
