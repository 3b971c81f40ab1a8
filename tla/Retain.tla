-------------------------------- MODULE Retain --------------------------------
(***************************************************************************)
(* Vec::retain of Rust's library, which the client and the event manager   *)
(* call on their lists, and loops that take some entries of a list.        *)
(***************************************************************************)
EXTENDS Naturals, FiniteSets

\* The entries of list at the positions kept, in their order.
Kept(list, kept) ==
  [k \in 1..Cardinality(kept) |->
     list[CHOOSE i \in kept : Cardinality(kept \cap (1..i)) = k]]
=============================================================================
