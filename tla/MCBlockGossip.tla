---------------------------- MODULE MCBlockGossip ----------------------------
(* Instances of BlockGossip for TLC: one validator v with two followers, or  *)
(* two validators v and w.                                                   *)
EXTENDS BlockGossip

CONSTANTS v, w, f, g   \* nodes

OneValidator == <<v>>
TwoValidators == <<v, w>>
=============================================================================
