------------------------------ MODULE Exchange ------------------------------
(***************************************************************************)
(* What a secure exchange of items promises: two sides put up offers, any  *)
(* change of an offer voids what has been agreed, and the items change     *)
(* hands once, when both sides have agreed to exactly these offers.        *)
(***************************************************************************)
EXTENDS Naturals, Sequences

CONSTANT Offer     \* what a side may put up

VARIABLES
  offers,   \* for each exchange, the offers of side 1 and side 2
  agreed,   \* for each exchange, the sides that agree to the present offers
  open,     \* for each exchange, whether it can still change
  swaps     \* the swaps that have taken place, in order

vars == <<offers, agreed, open, swaps>>

Init == offers = <<>> /\ agreed = <<>> /\ open = <<>> /\ swaps = <<>>

Begin(offer) ==
  /\ offers' = Append(offers, <<offer, offer>>)
  /\ agreed' = Append(agreed, {})
  /\ open' = Append(open, TRUE)
  /\ UNCHANGED swaps

Change(e, side, offer) ==
  /\ open[e]
  /\ offers' = [offers EXCEPT ![e] = [@ EXCEPT ![side] = offer]]
  /\ agreed' = [agreed EXCEPT ![e] = {}]
  /\ UNCHANGED <<open, swaps>>

Agree(e, side) ==
  /\ open[e]
  /\ agreed' = [agreed EXCEPT ![e] = @ \cup {side}]
  /\ IF agreed'[e] = {1, 2}
     THEN /\ swaps' = Append(swaps, [of |-> e, to |-> <<offers[e][2], offers[e][1]>>])
          /\ open' = [open EXCEPT ![e] = FALSE]
     ELSE UNCHANGED <<swaps, open>>
  /\ UNCHANGED offers

Close(es) ==
  /\ open' = [e \in DOMAIN open |-> open[e] /\ e \notin es]
  /\ UNCHANGED <<offers, agreed, swaps>>

Next ==
  \/ \E offer \in Offer : Begin(offer)
  \/ \E e \in DOMAIN open, side \in {1, 2} :
       Agree(e, side) \/ \E offer \in Offer : Change(e, side, offer)
  \/ \E es \in SUBSET DOMAIN open : Close(es)

Spec == Init /\ [][Next]_vars
=============================================================================
