------------------------------ MODULE MCChain ------------------------------
(* Instances of Chain for TLC.  The small tree has two branches from genesis, *)
(* g-a1-a2 and g-b1-b2, and a block x2 whose number follows a1's and b1's but *)
(* whose parent is g.  The fork is g-a1-a2 and g-b1.  In the tree alice     *)
(* pays bob in a1, b1 and b2, bob pays alice in a2, and in x2 alice pays      *)
(* herself.                                                                   *)
EXTENDS Chain, TLC

CONSTANTS g, a1, a2, b1, b2, x2, alice, bob

People == {alice, bob}

SmallHash == {g, a1, a2, b1, b2, x2}
SmallNumber == g :> 0 @@ a1 :> 1 @@ b1 :> 1 @@ a2 :> 2 @@ b2 :> 2 @@ x2 :> 2
SmallParent == g :> NoHash @@ a1 :> g @@ b1 :> g @@ a2 :> a1 @@ b2 :> b1 @@ x2 :> g
SmallSender == [b \in SmallHash |-> IF b = a2 THEN bob ELSE alice]
SmallReceiver == [b \in SmallHash |-> IF b \in {a2, x2} THEN alice ELSE bob]

ForkHash == {g, a1, a2, b1}
ForkNumber == g :> 0 @@ a1 :> 1 @@ b1 :> 1 @@ a2 :> 2
ForkParent == g :> NoHash @@ a1 :> g @@ b1 :> g @@ a2 :> a1

\* In the fork alice, the only account, pays herself.
OnePerson == {alice}
ForkParty == [b \in ForkHash |-> alice]
ForkNonces == [b \in ForkHash |-> alice :> ForkNumber[b]]

Sent(alices, bobs) == alice :> alices @@ bob :> bobs
SmallNonces == g :> Sent(0, 0) @@ a1 :> Sent(1, 0) @@ b1 :> Sent(1, 0) @@ x2 :> Sent(1, 0)
               @@ a2 :> Sent(1, 1) @@ b2 :> Sent(2, 0)

NoBlock == {}
OneFails == {b1}
=============================================================================
