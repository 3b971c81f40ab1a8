-------------------------- MODULE BlockGossipProofs --------------------------
(* Proofs about BlockGossip, for any nodes, heights, losses and restarts.     *)
EXTENDS BlockGossip, FiniteSetTheorems, TLAPS

USE GossipAssumption

-----------------------------------------------------------------------------
(* Messages                                                                *)

\* Taking a message adds none.
LEMMA TakenMessages ==
  ASSUME NEW n \in Nodes, NEW m \in Nodes, NEW msg, DOMAIN inbox = Nodes
  PROVE  /\ DOMAIN Taken(n, msg) = Nodes
         /\ BagToSet(Taken(n, msg)[m]) \subseteq BagToSet(inbox[m])
BY DEF Taken, BagToSet, SetToBag, (-)

\* Publishing adds what is published and nothing else.
LEMMA PublishedMessages ==
  ASSUME NEW in, NEW n \in Nodes, NEW m \in Nodes, NEW msgs
  PROVE  /\ DOMAIN Published(in, n, msgs) = Nodes
         /\ BagToSet(Published(in, n, msgs)[m]) \subseteq BagToSet(in[m]) \cup msgs
BY DEF Published, BagToSet, SetToBag, (+)

\* Taking a message and publishing others: what a node finds in its inbox then
\* was there before or is one of them.
LEMMA TakenPublishedMessages ==
  ASSUME NEW n \in Nodes, NEW m \in Nodes, NEW msg, NEW msgs, DOMAIN inbox = Nodes
  PROVE  /\ DOMAIN Published(Taken(n, msg), n, msgs) = Nodes
         /\ BagToSet(Published(Taken(n, msg), n, msgs)[m]) \subseteq BagToSet(inbox[m]) \cup msgs
<1>1. DOMAIN Published(Taken(n, msg), n, msgs) = Nodes
      /\ BagToSet(Published(Taken(n, msg), n, msgs)[m]) \subseteq BagToSet(Taken(n, msg)[m]) \cup msgs
  BY PublishedMessages
<1>2. BagToSet(Taken(n, msg)[m]) \subseteq BagToSet(inbox[m])
  BY TakenMessages
<1> QED
  BY <1>1, <1>2

-----------------------------------------------------------------------------
(* Operators                                                               *)

\* Of the messages a node takes, the blocks are blocks and the numbers numbers.
LEMMA MessageFields ==
  ASSUME TypeOK, NEW n \in Nodes, NEW m \in BagToSet(inbox[n])
  PROVE  /\ m.type = "block" => m.block \in Block
         /\ m.type = "get" => m.number \in Nat
BY DEF TypeOK, Message

\* The loop over the buffer ends at the block received or at a buffered one,
\* which is no shorter.
LEMMA DrainHeads ==
  ASSUME NEW b \in Block, NEW buffer,
         \A k \in DOMAIN buffer : k = Len(buffer[k]) /\ buffer[k] \in Block,
         NEW head \in Drain(b, buffer)
  PROVE  /\ head \in Block /\ Len(head) >= Len(b)
         /\ head = b \/ \E k \in DOMAIN buffer : head = buffer[k]
BY DEF Drain, Block

\* pop_first keeps the other blocks as they are.
LEMMA LimitKeeps ==
  ASSUME NEW buffer
  PROVE  /\ DOMAIN Limit(buffer) \subseteq DOMAIN buffer
         /\ \A k \in DOMAIN Limit(buffer) : Limit(buffer)[k] = buffer[k]
BY DEF Limit

\* Who may produce blocks is a node of the network.
LEMMA ValidatorsAreNodes == ValidatorSet \subseteq Nodes
BY DEF ValidatorSet

-----------------------------------------------------------------------------
(* Types                                                                   *)

\* Every step keeps the types.
LEMMA TypeInvariant == TypeOK /\ [Next]_vars => TypeOK'
<1> SUFFICES ASSUME TypeOK, [Next]_vars PROVE TypeOK'
  OBVIOUS
<1>1. CASE UNCHANGED vars
  BY <1>1 DEF TypeOK, vars
<1>2. ASSUME NEW n \in Nodes, NEW p \in Payloads, Produce(n, p) PROVE TypeOK'
  <2> DEFINE block == Append(chain[n], [signer |-> n, payload |-> p])
  <2>1. block \in Block
    <3>1. chain[n] \in Seq(Content) /\ [signer |-> n, payload |-> p] \in Content
      BY DEF TypeOK, Block, Content
    <3> QED
      BY <3>1 DEF Block
  <2>2. AdvanceTick(game_tick[n]) \in 0..(MaxHeight + 1)
    BY DEF TypeOK, AdvanceTick
  <2>3. BlockMessage(block) \in Message
    BY <2>1 DEF BlockMessage, Message
  <2>4. chain' \in [Nodes -> Block] /\ game_tick' \in [Nodes -> 0..(MaxHeight + 1)]
    BY <1>2, <2>1, <2>2 DEF Produce, TypeOK
  <2>5. DOMAIN inbox' = Nodes /\ \A m \in Nodes : BagToSet(inbox'[m]) \subseteq Message
    <3>1. DOMAIN inbox = Nodes /\ \A m \in Nodes : BagToSet(inbox[m]) \subseteq Message
      BY DEF TypeOK
    <3>2. inbox' = inbox \/ inbox' = Published(inbox, n, {BlockMessage(block)})
      BY <1>2 DEF Produce
    <3>3. {BlockMessage(block)} \subseteq Message
      BY <2>3
    <3> HIDE DEF block
    <3>4. CASE inbox' = Published(inbox, n, {BlockMessage(block)})
      <4>1. \A m \in Nodes : /\ DOMAIN Published(inbox, n, {BlockMessage(block)}) = Nodes
                             /\ BagToSet(Published(inbox, n, {BlockMessage(block)})[m])
                                  \subseteq BagToSet(inbox[m]) \cup {BlockMessage(block)}
        BY PublishedMessages
      <4> QED
        BY <3>1, <3>3, <3>4, <4>1
    <3> QED
      BY <3>1, <3>2, <3>4
  <2>6. errors' \in 0..MaxErrors
    BY <1>2 DEF Produce, TypeOK
  <2> QED
    BY <1>2, <2>4, <2>5, <2>6 DEF Produce, TypeOK
<1>3. ASSUME NEW n \in Nodes, NEW b \in Block, ReceiveOld(n, b) PROVE TypeOK'
  BY <1>3, TakenMessages DEF ReceiveOld, TypeOK
<1>4. ASSUME NEW n \in Nodes, NEW b \in Block, ReceiveNext(n, b) PROVE TypeOK'
  <2>1. PICK head \in Drain(b, block_buffer[n]) :
          /\ errors' = errors \/ (errors < MaxErrors /\ errors' = errors + 1)
          /\ chain' = [chain EXCEPT ![n] = head]
          /\ requested_blocks' = [requested_blocks EXCEPT ![n] = @ \ (Len(b)..Len(head))]
          /\ block_buffer' = [block_buffer EXCEPT ![n] =
               [k \in DOMAIN @ \ ((Len(b) + 1)..(Len(head) + 1)) |-> @[k]]]
    BY <1>4 DEF ReceiveNext
  <2>2. head \in Block
    BY DrainHeads DEF TypeOK
  <2>3. DOMAIN inbox' = Nodes /\ \A m \in Nodes : BagToSet(inbox'[m]) \subseteq Message
    BY <1>4, TakenMessages DEF ReceiveNext, TypeOK
  <2>4. DOMAIN block_buffer' = Nodes
        /\ \A m \in Nodes : \A k \in DOMAIN block_buffer'[m] :
             k = Len(block_buffer'[m][k]) /\ block_buffer'[m][k] \in Block
    BY <2>1 DEF TypeOK
  <2>5. chain' \in [Nodes -> Block] /\ requested_blocks' \in [Nodes -> SUBSET Nat]
        /\ errors' \in 0..MaxErrors
    BY <2>1, <2>2 DEF TypeOK
  <2> QED
    BY <1>4, <2>3, <2>4, <2>5 DEF ReceiveNext, TypeOK
<1>5. ASSUME NEW n \in Nodes, NEW b \in Block, ReceiveNextFails(n, b) PROVE TypeOK'
  BY <1>5, TakenMessages DEF ReceiveNextFails, TypeOK
<1>6. ASSUME NEW n \in Nodes, NEW b \in Block, ReceiveAhead(n, b) PROVE TypeOK'
  <2> DEFINE buffer == [k \in DOMAIN block_buffer[n] \cup {Len(b)} |->
                          IF k = Len(b) THEN b ELSE block_buffer[n][k]]
             missing == Missing(Len(chain[n]) + 1, Len(b), buffer, requested_blocks[n])
  <2>1. missing \subseteq Nat
    BY DEF Missing, TypeOK, Block
  <2>2. \A k \in DOMAIN Limit(buffer) :
          k = Len(Limit(buffer)[k]) /\ Limit(buffer)[k] \in Block
    BY LimitKeeps DEF TypeOK
  <2>3. block_buffer' = [block_buffer EXCEPT ![n] = Limit(buffer)]
        /\ requested_blocks' = [requested_blocks EXCEPT ![n] = @ \cup missing]
        /\ inbox' = Published(Taken(n, BlockMessage(b)), n, {GetMessage(k) : k \in missing})
    BY <1>6 DEF ReceiveAhead
  <2> HIDE DEF buffer, missing
  <2>4. {GetMessage(k) : k \in missing} \subseteq Message
    <3>1. \A k \in Nat : GetMessage(k) \in Message
      BY DEF GetMessage, Message
    <3> QED
      BY <2>1, <3>1
  <2>5. DOMAIN inbox' = Nodes /\ \A m \in Nodes : BagToSet(inbox'[m]) \subseteq Message
    <3>1. DOMAIN inbox = Nodes /\ \A m \in Nodes : BagToSet(inbox[m]) \subseteq Message
      BY DEF TypeOK
    <3> QED
      BY <3>1, <2>3, <2>4, TakenPublishedMessages
  <2>6. DOMAIN block_buffer' = Nodes
        /\ \A m \in Nodes : \A k \in DOMAIN block_buffer'[m] :
             k = Len(block_buffer'[m][k]) /\ block_buffer'[m][k] \in Block
    BY <2>2, <2>3 DEF TypeOK
  <2>7. requested_blocks' \in [Nodes -> SUBSET Nat]
    BY <2>1, <2>3 DEF TypeOK
  <2> QED
    BY <1>6, <2>5, <2>6, <2>7 DEF ReceiveAhead, TypeOK
<1>7. ASSUME NEW n \in Nodes, NEW k \in Nat, ReceiveGet(n, k) PROVE TypeOK'
  <2>1. k <= Len(chain[n]) => BlockMessage(SubSeq(chain[n], 1, k)) \in Message
    BY DEF TypeOK, Block, BlockMessage, Message
  <2>2. DOMAIN inbox' = Nodes /\ \A m \in Nodes : BagToSet(inbox'[m]) \subseteq Message
    <3>1. DOMAIN inbox = Nodes /\ \A m \in Nodes : BagToSet(inbox[m]) \subseteq Message
      BY DEF TypeOK
    <3>2. CASE k <= Len(chain[n])
      BY <1>7, <2>1, <3>1, <3>2, TakenPublishedMessages DEF ReceiveGet
    <3>3. CASE ~(k <= Len(chain[n]))
      BY <1>7, <3>1, <3>3, TakenMessages DEF ReceiveGet
    <3> QED
      BY <3>2, <3>3
  <2> QED
    BY <1>7, <2>2 DEF ReceiveGet, TypeOK
<1>8. ASSUME NEW n \in Nodes, Lose(n) PROVE TypeOK'
  BY <1>8, TakenMessages DEF Lose, TypeOK
<1>9. ASSUME NEW n \in Nodes, Restart(n) PROVE TypeOK'
  <2>1. BagToSet(EmptyBag) = {}
    BY DEF BagToSet, EmptyBag, SetToBag
  <2> QED
    BY <1>9, <2>1 DEF Restart, TypeOK
<1> QED
  BY <1>1, <1>2, <1>3, <1>4, <1>5, <1>6, <1>7, <1>8, <1>9, MessageFields DEF Next, Receive

\* Every variable keeps its type: what is in a buffer is filed under its number,
\* and only blocks and requests are on their way.
THEOREM TypeCorrect == Spec => []TypeOK
<1>1. Init => TypeOK
  BY DEF Init, TypeOK, Block, BagToSet, EmptyBag, SetToBag
<1> QED
  BY <1>1, TypeInvariant, PTL DEF Spec

-----------------------------------------------------------------------------
(* The tick counter                                                        *)

\* A step of a node leaves the chain of the other nodes alone, and its own no
\* shorter.
LEMMA ChainsGrow ==
  ASSUME TypeOK, Next, NEW m \in Nodes
  PROVE  Len(chain'[m]) >= Len(chain[m])
<1>0. \A i \in Nodes : chain[i] \in Block /\ Len(chain[i]) \in Nat
  BY DEF TypeOK, Block
<1>1. ASSUME NEW n \in Nodes, NEW p \in Payloads, Produce(n, p)
      PROVE  Len(chain'[m]) >= Len(chain[m])
  <2>1. Len(Append(chain[n], [signer |-> n, payload |-> p])) = Len(chain[n]) + 1
    BY DEF TypeOK, Block
  <2> QED
    BY <1>0, <1>1, <2>1 DEF Produce, TypeOK
<1>2. ASSUME NEW n \in Nodes, NEW b \in Block, ReceiveNext(n, b)
      PROVE  Len(chain'[m]) >= Len(chain[m])
  <2>1. PICK head \in Drain(b, block_buffer[n]) : chain' = [chain EXCEPT ![n] = head]
    BY <1>2 DEF ReceiveNext
  <2>2. head \in Block /\ Len(head) >= Len(b)
    BY DrainHeads DEF TypeOK
  <2>3. Len(b) = Len(chain[n]) + 1
    BY <1>2 DEF ReceiveNext, VerifyBlock
  <2>4. Len(head) \in Nat /\ Len(b) \in Nat
    BY <2>2 DEF Block
  <2> QED
    BY <1>0, <2>1, <2>2, <2>3, <2>4 DEF TypeOK
<1>3. ASSUME UNCHANGED chain PROVE Len(chain'[m]) >= Len(chain[m])
  BY <1>0, <1>3
<1> QED
  BY <1>1, <1>2, <1>3, MessageFields
     DEF Next, Receive, ReceiveGet, ReceiveOld, ReceiveNextFails, ReceiveAhead, Lose, Restart

\* Until apply_block has failed on a valid block, the tick counter of a
\* validator never runs ahead of its chain, whatever is lost, whoever restarts and
\* however many validators there are: a validator whose counter is behind catches
\* up, and is never shut out for good.
THEOREM TicksStayBehind == Spec => []TickNotAhead
<1>1. Init => TickNotAhead
  BY ValidatorsAreNodes DEF Init, TickNotAhead
<1>2. TypeOK /\ TickNotAhead /\ [Next]_vars => TickNotAhead'
  <2> SUFFICES ASSUME TypeOK, TickNotAhead, [Next]_vars, errors' = 0, NEW v \in ValidatorSet
               PROVE  game_tick'[v] <= Len(chain'[v])
    BY DEF TickNotAhead, ValidatorSet
  <2>e. errors = 0
    <3>1. errors \in Nat
      BY GossipAssumption DEF TypeOK
    <3>2. errors' = errors \/ errors' = errors + 1
      <4>1. ASSUME NEW n \in Nodes, NEW p \in Payloads, Produce(n, p)
            PROVE  errors' = errors \/ errors' = errors + 1
        BY <4>1 DEF Produce
      <4>2. ASSUME NEW n \in Nodes, NEW b, ReceiveNext(n, b)
            PROVE  errors' = errors \/ errors' = errors + 1
        BY <4>2 DEF ReceiveNext
      <4>3. ASSUME NEW n \in Nodes, NEW b, ReceiveNextFails(n, b)
            PROVE  errors' = errors \/ errors' = errors + 1
        BY <4>3 DEF ReceiveNextFails
      <4>4. ASSUME NEW n \in Nodes, NEW b,
                   ReceiveGet(n, b) \/ ReceiveOld(n, b) \/ ReceiveAhead(n, b)
            PROVE  errors' = errors
        BY <4>4 DEF ReceiveGet, ReceiveOld, ReceiveAhead
      <4>5. ASSUME NEW n \in Nodes, Lose(n) \/ Restart(n) PROVE errors' = errors
        BY <4>5 DEF Lose, Restart
      <4>6. CASE UNCHANGED vars
        BY <4>6 DEF vars
      <4> QED
        BY <4>1, <4>2, <4>3, <4>4, <4>5, <4>6 DEF Next, Receive
    <3> QED
      BY <3>1, <3>2
  <2>0. /\ v \in Nodes /\ game_tick[v] \in Nat /\ Len(chain[v]) \in Nat
        /\ game_tick[v] <= Len(chain[v])
    BY <2>e, ValidatorsAreNodes DEF TypeOK, TickNotAhead, Block
  <2>1. CASE UNCHANGED vars
    BY <2>0, <2>1 DEF vars
  <2>2. ASSUME NEW n \in Nodes, NEW p \in Payloads, Produce(n, p), n = v
        PROVE  game_tick'[v] <= Len(chain'[v])
    <3> DEFINE block == Append(chain[n], [signer |-> n, payload |-> p])
               tick == AdvanceTick(game_tick[n])
    <3>1. /\ Len(block) = Len(chain[n]) + 1
          /\ Front(block) = chain[n]
          /\ Last(block).signer \in ValidatorSet
      <4>1. chain[n] \in Seq(Content) /\ [signer |-> n, payload |-> p] \in Content
        BY DEF TypeOK, Block, Content
      <4> QED
        BY <2>2, <4>1 DEF Front, Last
    <3>2. tick <= game_tick[n] + 1 /\ tick \in Nat
      BY <2>0, <2>2 DEF AdvanceTick
    <3>3. game_tick'[v] = tick
      BY <2>2 DEF Produce, TypeOK
    <3>4. errors' # errors + 1
      BY <2>e
    <3>5. CASE VerifyBlock(block, tick, chain[n])
      <4>1. chain' = [chain EXCEPT ![n] = block]
        BY <2>2, <3>4, <3>5 DEF Produce
      <4>2. Len(chain'[v]) = Len(chain[v]) + 1
        BY <2>0, <2>2, <3>1, <4>1 DEF TypeOK
      <4> QED
        BY <2>0, <2>2, <3>2, <3>3, <4>2
    <3>6. CASE ~VerifyBlock(block, tick, chain[n])
      <4>1. tick # Len(chain[n]) + 1
        BY <3>1, <3>6 DEF VerifyBlock
      <4>2. chain' = chain
        BY <2>2, <3>6 DEF Produce
      <4> QED
        BY <2>0, <2>2, <3>2, <3>3, <4>1, <4>2
    <3> QED
      BY <3>5, <3>6
  <2>3. ASSUME NEW n \in Nodes, NEW p \in Payloads, Produce(n, p), n # v
        PROVE  game_tick'[v] <= Len(chain'[v])
    <3>1. game_tick'[v] = game_tick[v] /\ chain'[v] = chain[v]
      BY <2>0, <2>3 DEF Produce, TypeOK
    <3> QED
      BY <2>0, <3>1
  <2>4. ASSUME NEW n \in Nodes, Restart(n)
        PROVE  game_tick'[v] <= Len(chain'[v])
    BY <2>0, <2>4 DEF Restart, TypeOK
  <2>5. ASSUME Next, UNCHANGED game_tick
        PROVE  game_tick'[v] <= Len(chain'[v])
    <3>1. Len(chain'[v]) >= Len(chain[v])
      BY <2>0, <2>5, ChainsGrow
    <3>2. Len(chain'[v]) \in Nat
      <4>1. TypeOK'
        BY TypeInvariant
      <4> QED
        BY <2>0, <4>1 DEF TypeOK, Block
    <3> QED
      BY <2>0, <2>5, <3>1, <3>2
  <2> QED
    BY <2>1, <2>2, <2>3, <2>4, <2>5
       DEF Next, Receive, ReceiveGet, ReceiveOld, ReceiveNext, ReceiveNextFails,
           ReceiveAhead, Lose
<1> QED
  BY <1>1, <1>2, TypeCorrect, PTL DEF Spec

-----------------------------------------------------------------------------
(* Prefixes                                                                *)

\* A block is an ancestor of another when it agrees with it as far as it goes.
LEMMA PrefixPointwise ==
  ASSUME NEW s \in Block, NEW t \in Block
  PROVE  IsPrefix(s, t) <=> Len(s) <= Len(t) /\ \A i \in 1..Len(s) : s[i] = t[i]
BY DEF IsPrefix, Block

\* An ancestor of an ancestor is an ancestor.
LEMMA PrefixTransitive ==
  ASSUME NEW s \in Block, NEW t \in Block, NEW u \in Block, IsPrefix(s, t), IsPrefix(t, u)
  PROVE  IsPrefix(s, u)
<1>1. Len(s) \in Nat /\ Len(t) \in Nat /\ Len(u) \in Nat
  BY DEF Block
<1>2. Len(s) <= Len(t) /\ \A i \in 1..Len(s) : s[i] = t[i]
  BY PrefixPointwise
<1>3. Len(t) <= Len(u) /\ \A i \in 1..Len(t) : t[i] = u[i]
  BY PrefixPointwise
<1>4. Len(s) <= Len(u) /\ \A i \in 1..Len(s) : s[i] = u[i]
  BY <1>1, <1>2, <1>3
<1> QED
  BY <1>4, PrefixPointwise

\* Of two blocks on one chain, the shorter is a prefix of the longer.
LEMMA PrefixComparable ==
  ASSUME NEW s \in Block, NEW t \in Block, NEW u \in Block,
         IsPrefix(s, u), IsPrefix(t, u), Len(s) <= Len(t)
  PROVE  IsPrefix(s, t)
<1>1. Len(s) \in Nat /\ Len(t) \in Nat /\ Len(u) \in Nat
  BY DEF Block
<1>2. \A i \in 1..Len(s) : s[i] = u[i]
  BY PrefixPointwise
<1>3. \A i \in 1..Len(t) : t[i] = u[i]
  BY PrefixPointwise
<1>4. \A i \in 1..Len(s) : s[i] = t[i]
  BY <1>1, <1>2, <1>3
<1> QED
  BY <1>4, PrefixPointwise

\* A block counts among its own ancestors.
LEMMA PrefixReflexive == ASSUME NEW s \in Block PROVE IsPrefix(s, s)
BY PrefixPointwise DEF Block

\* The head is an ancestor of the block that prepare_block builds on it.
LEMMA PrefixAppend ==
  ASSUME NEW s \in Block, NEW c \in Content
  PROVE  Append(s, c) \in Block /\ IsPrefix(s, Append(s, c))
<1>1. Append(s, c) \in Block /\ Len(Append(s, c)) = Len(s) + 1
  BY DEF Block
<1>2. \A i \in 1..Len(s) : s[i] = Append(s, c)[i]
  BY DEF Block
<1>3. Len(s) <= Len(Append(s, c))
  BY <1>1 DEF Block
<1> QED
  BY <1>1, <1>2, <1>3, PrefixPointwise

\* The block of a lower number on the same chain is an ancestor.
LEMMA PrefixSubSeq ==
  ASSUME NEW s \in Block, NEW k \in Nat, k <= Len(s)
  PROVE  SubSeq(s, 1, k) \in Block /\ IsPrefix(SubSeq(s, 1, k), s)
<1>1. SubSeq(s, 1, k) \in Block /\ Len(SubSeq(s, 1, k)) = k
  BY DEF Block
<1>2. \A i \in 1..k : SubSeq(s, 1, k)[i] = s[i]
  BY DEF Block
<1> QED
  BY <1>1, <1>2, PrefixPointwise

-----------------------------------------------------------------------------
(* One validator                                                           *)

\* The chain of the only validator grows at its end: it produces, and what it
\* receives is never new to it.
LEMMA ValidatorChainExtends ==
  ASSUME SingleValidator, TypeOK, AllFromValidator, [Next]_vars, NEW v \in ValidatorSet
  PROVE  IsPrefix(chain[v], chain'[v])
<1>0. v \in Nodes /\ chain[v] \in Block /\ chain'[v] \in Block
  <2>1. TypeOK'
    BY TypeInvariant
  <2> QED
    BY <2>1, ValidatorsAreNodes DEF TypeOK
<1>1. ASSUME chain'[v] = chain[v] PROVE IsPrefix(chain[v], chain'[v])
  BY <1>0, <1>1, PrefixReflexive
<1>2. ASSUME NEW n \in Nodes, NEW p \in Payloads, Produce(n, p)
      PROVE  IsPrefix(chain[v], chain'[v])
  <2>1. n = v
    BY <1>2 DEF Produce, SingleValidator
  <2>2. [signer |-> n, payload |-> p] \in Content
    BY DEF Content
  <2>3. IsPrefix(chain[v], Append(chain[n], [signer |-> n, payload |-> p]))
    BY <1>0, <2>1, <2>2, PrefixAppend
  <2>4. chain' = chain \/ chain' = [chain EXCEPT ![n] = Append(chain[n], [signer |-> n, payload |-> p])]
    BY <1>2 DEF Produce
  <2> QED
    BY <1>0, <1>1, <2>1, <2>3, <2>4 DEF TypeOK
<1>3. ASSUME NEW n \in Nodes, NEW m \in BagToSet(inbox[n]), m.type = "block",
             ReceiveNext(n, m.block)
      PROVE  IsPrefix(chain[v], chain'[v])
  <2>1. n # v
    <3>1. Len(m.block) = Len(chain[n]) + 1
      BY <1>3 DEF ReceiveNext, VerifyBlock
    <3>2. IsPrefix(m.block, chain[v])
      BY <1>3 DEF AllFromValidator
    <3>3. Len(m.block) <= Len(chain[v])
      BY <3>2 DEF IsPrefix
    <3>4. Len(chain[v]) \in Nat
      BY <1>0 DEF Block
    <3> QED
      BY <3>1, <3>3, <3>4
  <2>2. chain'[v] = chain[v]
    BY <1>0, <1>3, <2>1 DEF ReceiveNext, TypeOK
  <2> QED
    BY <1>1, <2>2
<1> QED
  BY <1>1, <1>2, <1>3
     DEF Next, vars, Receive, ReceiveGet, ReceiveOld, ReceiveNextFails, ReceiveAhead, Lose, Restart

\* With one validator every block in the system stays on its chain.
LEMMA AllFromValidatorInvariant ==
  ASSUME SingleValidator, TypeOK, AllFromValidator, [Next]_vars
  PROVE  AllFromValidator'
<1> SUFFICES ASSUME NEW v \in ValidatorSet, NEW n \in Nodes
             PROVE  /\ IsPrefix(chain'[n], chain'[v])
                    /\ \A k \in DOMAIN block_buffer'[n] : IsPrefix(block_buffer'[n][k], chain'[v])
                    /\ \A m \in BagToSet(inbox'[n]) :
                         m.type = "block" => IsPrefix(m.block, chain'[v])
  BY DEF AllFromValidator, ValidatorSet
<1>0. v \in Nodes /\ chain[v] \in Block /\ chain'[v] \in Block /\ IsPrefix(chain[v], chain'[v])
  <2>1. TypeOK'
    BY TypeInvariant
  <2> QED
    BY <2>1, ValidatorsAreNodes, ValidatorChainExtends DEF TypeOK
\* What was on the chain before the step still is.
<1>1. \A b \in Block : IsPrefix(b, chain[v]) => IsPrefix(b, chain'[v])
  BY <1>0, PrefixTransitive
<1>2. IsPrefix(chain[n], chain'[v])
  BY <1>1 DEF AllFromValidator, TypeOK
<1>3. \A k \in DOMAIN block_buffer[n] : IsPrefix(block_buffer[n][k], chain'[v])
  BY <1>1 DEF AllFromValidator, TypeOK
<1>4. \A i \in Nodes : \A m \in BagToSet(inbox[i]) : m.type = "block" => IsPrefix(m.block, chain'[v])
  BY <1>1, MessageFields DEF AllFromValidator
<1>5. CASE UNCHANGED vars
  BY <1>2, <1>3, <1>4, <1>5 DEF vars
<1>6. ASSUME NEW i \in Nodes, NEW p \in Payloads, Produce(i, p)
      PROVE  /\ IsPrefix(chain'[n], chain'[v])
             /\ \A m \in BagToSet(inbox'[n]) : m.type = "block" => IsPrefix(m.block, chain'[v])
             /\ block_buffer' = block_buffer
  <2> DEFINE block == Append(chain[i], [signer |-> i, payload |-> p])
  <2>1. i = v
    BY <1>6 DEF Produce, SingleValidator
  <2>2. \/ chain' = chain /\ inbox' = inbox
        \/ /\ chain' = [chain EXCEPT ![i] = block]
           /\ inbox' = Published(inbox, i, {BlockMessage(block)})
    BY <1>6 DEF Produce
  <2>3. block_buffer' = block_buffer
    BY <1>6 DEF Produce
  <2> HIDE DEF block
  <2>4. CASE chain' = chain /\ inbox' = inbox
    BY <1>2, <1>4, <2>3, <2>4
  <2>5. CASE /\ chain' = [chain EXCEPT ![i] = block]
             /\ inbox' = Published(inbox, i, {BlockMessage(block)})
    <3>1. chain'[v] = block
      BY <1>0, <2>1, <2>5 DEF TypeOK
    <3>2. IsPrefix(block, chain'[v])
      BY <1>0, <3>1, PrefixReflexive
    <3>3. n # v => chain'[n] = chain[n]
      BY <2>1, <2>5 DEF TypeOK
    <3>4. IsPrefix(chain'[n], chain'[v])
      BY <1>2, <3>1, <3>2, <3>3
    <3>5. BagToSet(inbox'[n]) \subseteq BagToSet(inbox[n]) \cup {BlockMessage(block)}
      BY <2>5, PublishedMessages
    <3>6. BlockMessage(block).block = block
      BY DEF BlockMessage
    <3> QED
      BY <1>4, <2>3, <3>2, <3>4, <3>5, <3>6
  <2> QED
    BY <2>2, <2>4, <2>5
<1>7. ASSUME NEW i \in Nodes, NEW m \in BagToSet(inbox[i]), m.type = "block", NEW b, b = m.block,
             ReceiveNext(i, b)
      PROVE  /\ IsPrefix(chain'[n], chain'[v])
             /\ \A k \in DOMAIN block_buffer'[n] : IsPrefix(block_buffer'[n][k], chain'[v])
             /\ inbox' = Taken(i, BlockMessage(b))
  <2>1. PICK head \in Drain(b, block_buffer[i]) :
          /\ chain' = [chain EXCEPT ![i] = head]
          /\ block_buffer' = [block_buffer EXCEPT ![i] =
               [k \in DOMAIN @ \ ((Len(b) + 1)..(Len(head) + 1)) |-> @[k]]]
    BY <1>7 DEF ReceiveNext
  <2>2. b \in Block /\ IsPrefix(b, chain'[v])
    BY <1>4, <1>7, MessageFields
  <2>3. head = b \/ \E k \in DOMAIN block_buffer[i] : head = block_buffer[i][k]
    BY <2>2, DrainHeads DEF TypeOK
  <2>4. \A k \in DOMAIN block_buffer[i] : IsPrefix(block_buffer[i][k], chain'[v])
    BY <1>1 DEF AllFromValidator, TypeOK
  <2>5. IsPrefix(head, chain'[v])
    BY <2>2, <2>3, <2>4
  <2>6. chain'[n] = IF n = i THEN head ELSE chain[n]
    BY <2>1 DEF TypeOK
  <2>7. IsPrefix(chain'[n], chain'[v])
    BY <1>2, <2>5, <2>6
  <2>8. \A k \in DOMAIN block_buffer'[n] :
          k \in DOMAIN block_buffer[n] /\ block_buffer'[n][k] = block_buffer[n][k]
    BY <2>1 DEF TypeOK
  <2>9. inbox' = Taken(i, BlockMessage(b))
    BY <1>7 DEF ReceiveNext
  <2> QED
    BY <1>3, <2>7, <2>8, <2>9
<1>8. ASSUME NEW i \in Nodes, NEW m \in BagToSet(inbox[i]), m.type = "block", NEW b, b = m.block,
             ReceiveAhead(i, b)
      PROVE  /\ chain' = chain
             /\ \A k \in DOMAIN block_buffer'[n] : IsPrefix(block_buffer'[n][k], chain'[v])
             /\ \A msg \in BagToSet(inbox'[n]) :
                  msg.type = "block" => IsPrefix(msg.block, chain'[v])
  <2> DEFINE buffer == [k \in DOMAIN block_buffer[i] \cup {Len(b)} |->
                          IF k = Len(b) THEN b ELSE block_buffer[i][k]]
             missing == Missing(Len(chain[i]) + 1, Len(b), buffer, requested_blocks[i])
  <2>1. b \in Block /\ IsPrefix(b, chain'[v])
    BY <1>4, <1>8, MessageFields
  <2>2. \A k \in DOMAIN block_buffer[i] : IsPrefix(block_buffer[i][k], chain'[v])
    BY <1>1 DEF AllFromValidator, TypeOK
  <2>3. \A k \in DOMAIN buffer : IsPrefix(buffer[k], chain'[v])
    BY <2>1, <2>2
  <2>4. /\ chain' = chain
        /\ block_buffer' = [block_buffer EXCEPT ![i] = Limit(buffer)]
        /\ inbox' = Published(Taken(i, BlockMessage(b)), i, {GetMessage(k) : k \in missing})
    BY <1>8 DEF ReceiveAhead
  <2> HIDE DEF buffer, missing
  <2>5. \A k \in DOMAIN Limit(buffer) : IsPrefix(Limit(buffer)[k], chain'[v])
    BY <2>3, LimitKeeps
  <2>6. block_buffer'[n] = IF n = i THEN Limit(buffer) ELSE block_buffer[n]
    BY <2>4 DEF TypeOK
  <2>7. \A k \in DOMAIN block_buffer'[n] : IsPrefix(block_buffer'[n][k], chain'[v])
    BY <1>3, <2>5, <2>6
  <2>8. BagToSet(inbox'[n]) \subseteq BagToSet(inbox[n]) \cup {GetMessage(k) : k \in missing}
    BY <2>4, TakenPublishedMessages DEF TypeOK
  <2>9. \A k : GetMessage(k).type # "block"
    BY DEF GetMessage
  <2> QED
    BY <1>4, <2>4, <2>7, <2>8, <2>9
<1>9. ASSUME NEW i \in Nodes, NEW j \in Nat, ReceiveGet(i, j)
      PROVE  /\ chain' = chain /\ block_buffer' = block_buffer
             /\ \A m \in BagToSet(inbox'[n]) : m.type = "block" => IsPrefix(m.block, chain'[v])
  <2> DEFINE answer == SubSeq(chain[i], 1, j)
  <2>1. chain' = chain /\ block_buffer' = block_buffer
    BY <1>9 DEF ReceiveGet
  <2>2. CASE j <= Len(chain[i])
    <3>1. chain[i] \in Block /\ IsPrefix(chain[i], chain[v])
      BY DEF TypeOK, AllFromValidator
    <3>2. answer \in Block /\ IsPrefix(answer, chain[i])
      BY <2>2, <3>1, PrefixSubSeq
    <3>3. inbox' = Published(Taken(i, GetMessage(j)), i, {BlockMessage(answer)})
      BY <1>9, <2>2 DEF ReceiveGet
    <3> HIDE DEF answer
    <3>4. IsPrefix(answer, chain'[v])
      BY <1>0, <1>1, <3>1, <3>2, PrefixTransitive
    <3>5. BagToSet(inbox'[n]) \subseteq BagToSet(inbox[n]) \cup {BlockMessage(answer)}
      BY <3>3, TakenPublishedMessages DEF TypeOK
    <3>6. BlockMessage(answer).block = answer
      BY DEF BlockMessage
    <3> QED
      BY <1>4, <2>1, <3>4, <3>5, <3>6
  <2>3. CASE ~(j <= Len(chain[i]))
    <3>1. inbox' = Taken(i, GetMessage(j))
      BY <1>9, <2>3 DEF ReceiveGet
    <3>2. BagToSet(inbox'[n]) \subseteq BagToSet(inbox[n])
      BY <3>1, TakenMessages DEF TypeOK
    <3> QED
      BY <1>4, <2>1, <3>2
  <2> QED
    BY <2>2, <2>3
<1>10. ASSUME NEW i \in Nodes, NEW msg, inbox' = Taken(i, msg)
       PROVE  \A m \in BagToSet(inbox'[n]) : m.type = "block" => IsPrefix(m.block, chain'[v])
  <2>1. BagToSet(inbox'[n]) \subseteq BagToSet(inbox[n])
    BY <1>10, TakenMessages DEF TypeOK
  <2> QED
    BY <1>4, <2>1
<1>11. ASSUME NEW i \in Nodes, Restart(i)
       PROVE  /\ chain' = chain
              /\ \A k \in DOMAIN block_buffer'[n] : IsPrefix(block_buffer'[n][k], chain'[v])
              /\ \A m \in BagToSet(inbox'[n]) : m.type = "block" => IsPrefix(m.block, chain'[v])
  <2>1. chain' = chain
    BY <1>11 DEF Restart
  <2>2. block_buffer'[n] = IF n = i THEN <<>> ELSE block_buffer[n]
    BY <1>11 DEF Restart, TypeOK
  <2>3. inbox'[n] = IF n = i THEN EmptyBag ELSE inbox[n]
    BY <1>11 DEF Restart, TypeOK
  <2>4. BagToSet(EmptyBag) = {}
    BY DEF BagToSet, EmptyBag, SetToBag
  <2> QED
    BY <1>3, <1>4, <2>1, <2>2, <2>3, <2>4
<1>12. ASSUME NEW i \in Nodes, Receive(i)
       PROVE  /\ IsPrefix(chain'[n], chain'[v])
              /\ \A k \in DOMAIN block_buffer'[n] : IsPrefix(block_buffer'[n][k], chain'[v])
              /\ \A m \in BagToSet(inbox'[n]) :
                   m.type = "block" => IsPrefix(m.block, chain'[v])
  <2>1. ASSUME NEW m \in BagToSet(inbox[i]), m.type = "get", ReceiveGet(i, m.number)
        PROVE  /\ chain' = chain /\ block_buffer' = block_buffer
               /\ \A msg \in BagToSet(inbox'[n]) :
                    msg.type = "block" => IsPrefix(msg.block, chain'[v])
    BY <1>9, <2>1, MessageFields
  <2>2. ASSUME NEW b, ReceiveOld(i, b) \/ ReceiveNextFails(i, b)
        PROVE  chain' = chain /\ block_buffer' = block_buffer /\ inbox' = Taken(i, BlockMessage(b))
    BY <2>2 DEF ReceiveOld, ReceiveNextFails
  <2> QED
    BY <1>2, <1>3, <1>7, <1>8, <1>10, <1>12, <2>1, <2>2 DEF Receive
<1>13. ASSUME NEW i \in Nodes, Lose(i)
       PROVE  chain' = chain /\ block_buffer' = block_buffer /\ \E m : inbox' = Taken(i, m)
  BY <1>13 DEF Lose
<1> QED
  BY <1>2, <1>3, <1>5, <1>6, <1>10, <1>11, <1>12, <1>13 DEF Next

\* With one validator every block in the system is on its chain.
LEMMA AllFromValidatorHolds == ASSUME SingleValidator PROVE Spec => []AllFromValidator
<1>1. Init => AllFromValidator
  <2> SUFFICES ASSUME Init PROVE AllFromValidator
    OBVIOUS
  <2>1. \A n \in Nodes : chain[n] = <<>> /\ DOMAIN block_buffer[n] = {} /\ BagToSet(inbox[n]) = {}
    BY DEF Init, BagToSet, EmptyBag, SetToBag
  <2>2. <<>> \in Block
    BY DEF Block
  <2> QED
    BY <2>1, <2>2, PrefixReflexive, ValidatorsAreNodes DEF AllFromValidator
<1>2. TypeOK /\ AllFromValidator /\ [Next]_vars => AllFromValidator'
  BY AllFromValidatorInvariant
<1> QED
  BY <1>1, <1>2, TypeCorrect, PTL DEF Spec

\* With one validator no two nodes ever hold different blocks at one height: for
\* any number of nodes, however messages are lost, reordered and repeated, and
\* however nodes restart and apply_block fails.
THEOREM OneValidatorNoFork == ASSUME SingleValidator PROVE Spec => []NoFork
<1>1. TypeOK /\ AllFromValidator => NoFork
  <2> SUFFICES ASSUME TypeOK, AllFromValidator, NEW m \in Nodes, NEW n \in Nodes,
                      Len(chain[m]) <= Len(chain[n])
               PROVE  IsPrefix(chain[m], chain[n])
    BY DEF NoFork
  <2>1. PICK v \in ValidatorSet : TRUE
    BY DEF ValidatorSet
  <2>2. chain[m] \in Block /\ chain[n] \in Block /\ chain[v] \in Block
    BY ValidatorsAreNodes DEF TypeOK
  <2>3. IsPrefix(chain[m], chain[v]) /\ IsPrefix(chain[n], chain[v])
    BY DEF AllFromValidator
  <2> QED
    BY <2>2, <2>3, PrefixComparable
<1> QED
  BY <1>1, TypeCorrect, AllFromValidatorHolds, PTL

-----------------------------------------------------------------------------
(* One validator, and every write succeeds: no gap is silent.              *)

\* On the validator's chain a block is accepted on top of the one before it.
LEMMA ChainLinks ==
  ASSUME NEW c \in Block, NEW b \in Block, NEW parent \in Block,
         IsPrefix(b, c), IsPrefix(parent, c), Len(b) = Len(parent) + 1,
         \A i \in 1..Len(c) : c[i].signer \in ValidatorSet
  PROVE  VerifyBlock(b, Len(b), parent)
<1>1. Len(b) \in Nat /\ Len(parent) \in Nat /\ Len(c) \in Nat
  BY DEF Block
<1>2. Len(b) <= Len(c) /\ \A i \in 1..Len(b) : b[i] = c[i]
  BY PrefixPointwise
<1>3. \A i \in 1..Len(parent) : parent[i] = c[i]
  BY PrefixPointwise
<1>4. Front(b) = parent
  <2>1. Front(b) = SubSeq(b, 1, Len(b) - 1)
    BY DEF Front
  <2>2. /\ SubSeq(b, 1, Len(parent)) \in Seq(Content) /\ Len(SubSeq(b, 1, Len(parent))) = Len(parent)
        /\ \A i \in 1..Len(parent) : SubSeq(b, 1, Len(parent))[i] = b[i]
    BY <1>1 DEF Block
  <2>3. SubSeq(b, 1, Len(parent)) = parent
    BY <1>1, <1>2, <1>3, <2>2 DEF Block
  <2> QED
    BY <1>1, <2>1, <2>3
<1>5. Last(b).signer \in ValidatorSet
  <2>1. Last(b) = b[Len(b)]
    BY DEF Last
  <2>2. Len(b) \in 1..Len(b) /\ Len(b) \in 1..Len(c)
    BY <1>1, <1>2
  <2> QED
    BY <1>2, <2>1, <2>2
<1> QED
  BY <1>1, <1>4, <1>5 DEF VerifyBlock

\* A loop over the buffer that meets no error ends where the buffer has no next
\* block.
LEMMA DrainEnds ==
  ASSUME TypeOK, AllFromValidator, GapInv, NEW n \in Nodes, NEW b \in Block,
         NEW v \in ValidatorSet, IsPrefix(b, chain[v]),
         NEW head \in Drain(b, block_buffer[n]),
         \A h \in Drain(b, block_buffer[n]) : Len(h) <= Len(head)
  PROVE  Len(head) + 1 \notin DOMAIN block_buffer[n]
<1> SUFFICES ASSUME Len(head) + 1 \in DOMAIN block_buffer[n] PROVE FALSE
  OBVIOUS
<1> PICK buffer : buffer = block_buffer[n]
  OBVIOUS
<1>1. /\ chain[v] \in Block /\ IsPrefix(b, chain[v])
      /\ \A k \in DOMAIN buffer : k = Len(buffer[k]) /\ buffer[k] \in Block /\ IsPrefix(buffer[k], chain[v])
      /\ \A i \in 1..Len(chain[v]) : chain[v][i].signer \in ValidatorSet
  BY ValidatorsAreNodes DEF TypeOK, AllFromValidator, GapInv
<1>2. head \in Block /\ Len(head) >= Len(b) /\ Len(head) \in Nat /\ Len(b) \in Nat
      /\ IsPrefix(head, chain[v])
  <2>1. head \in Block /\ Len(head) >= Len(b) /\ (head = b \/ \E k \in DOMAIN buffer : head = buffer[k])
    BY <1>1, DrainHeads
  <2> QED
    BY <1>1, <2>1 DEF Block
<1> PICK j : j = Len(head) + 1
  OBVIOUS
<1>3. j \in DOMAIN buffer /\ j > Len(b) /\ j \in Nat /\ Len(buffer[j]) = j
  BY <1>1, <1>2
<1>4. ASSUME NEW i \in (Len(b) + 1)..j, i # j
      PROVE  /\ i \in DOMAIN buffer
             /\ VerifyBlock(buffer[i], i, IF i = Len(b) + 1 THEN b ELSE buffer[i - 1])
  <2>1. head # b
    BY <1>2, <1>4
  <2>2. PICK k \in DOMAIN buffer :
          /\ head = buffer[k]
          /\ \A x \in (Len(b) + 1)..k :
               /\ x \in DOMAIN buffer
               /\ VerifyBlock(buffer[x], x, IF x = Len(b) + 1 THEN b ELSE buffer[x - 1])
    BY <2>1 DEF Drain
  <2>3. i \in (Len(b) + 1)..k
    BY <1>1, <1>2, <1>4, <2>2
  <2> QED
    BY <2>2, <2>3
<1>5. VerifyBlock(buffer[j], j, IF j = Len(b) + 1 THEN b ELSE buffer[j - 1])
  <2>1. CASE j = Len(b) + 1
    <3>1. VerifyBlock(buffer[j], Len(buffer[j]), b)
      BY <1>1, <1>3, <2>1, ChainLinks
    <3> QED
      BY <1>3, <2>1, <3>1
  <2>2. CASE j # Len(b) + 1
    <3>1. j - 1 \in (Len(b) + 1)..j /\ j - 1 # j
      BY <1>2, <1>3, <2>2
    <3>2. j - 1 \in DOMAIN buffer
      BY <1>4, <3>1
    <3>3. buffer[j - 1] \in Block /\ Len(buffer[j]) = Len(buffer[j - 1]) + 1
      BY <1>1, <1>2, <1>3, <3>2
    <3>4. VerifyBlock(buffer[j], Len(buffer[j]), buffer[j - 1])
      BY <1>1, <1>3, <3>2, <3>3, ChainLinks
    <3> QED
      BY <1>3, <2>2, <3>4
  <2> QED
    BY <2>1, <2>2
<1>6. buffer[j] \in Drain(b, buffer)
  <2>1. \A i \in (Len(b) + 1)..j :
          /\ i \in DOMAIN buffer
          /\ VerifyBlock(buffer[i], i, IF i = Len(b) + 1 THEN b ELSE buffer[i - 1])
    BY <1>3, <1>4, <1>5
  <2> QED
    BY <1>3, <2>1 DEF Drain
<1>7. Len(buffer[j]) <= Len(head)
  BY <1>6
<1> QED
  BY <1>2, <1>3, <1>7

\* What a node can be sent as a block: it is on the validator's chain.
LEMMA ReceivedOnChain ==
  ASSUME TypeOK, AllFromValidator, NEW v \in ValidatorSet, NEW n \in Nodes,
         NEW m \in BagToSet(inbox[n]), m.type = "block"
  PROVE  /\ m.block \in Block /\ chain[v] \in Block
         /\ Len(m.block) \in Nat /\ Len(chain[v]) \in Nat
         /\ IsPrefix(m.block, chain[v]) /\ Len(m.block) <= Len(chain[v])
<1>1. m.block \in Block /\ chain[v] \in Block
  BY MessageFields, ValidatorsAreNodes DEF TypeOK
<1>2. IsPrefix(m.block, chain[v])
  BY DEF AllFromValidator
<1> QED
  BY <1>1, <1>2 DEF IsPrefix, Block

\* The buffer never reaches its limit.
LEMMA LimitKeepsAll ==
  ASSUME BufferSuffices, NEW buffer, DOMAIN buffer \subseteq 2..MaxHeight
  PROVE  Limit(buffer) = buffer
<1>1. /\ IsFiniteSet(2..MaxHeight)
      /\ Cardinality(2..MaxHeight) = IF 2 > MaxHeight THEN 0 ELSE MaxHeight - 1
  BY FS_Interval
<1>2. Cardinality(DOMAIN buffer) <= Cardinality(2..MaxHeight)
      /\ Cardinality(DOMAIN buffer) \in Nat
  BY <1>1, FS_Subset, FS_CardinalityType
<1>3. Cardinality(DOMAIN buffer) <= MaxBuffer
  BY <1>1, <1>2 DEF BufferSuffices
<1> QED
  BY <1>3 DEF Limit

\* What GapInv says is kept by every step.
LEMMA GapInvariant ==
  ASSUME SingleValidator, NoErrors, BufferSuffices, TypeOK, AllFromValidator, GapInv, [Next]_vars
  PROVE  GapInv'
<1>v. PICK v \in ValidatorSet : TRUE
  BY DEF ValidatorSet
<1>0. /\ v \in Nodes /\ \A w \in ValidatorSet : w = v
      /\ \A n \in Nodes : chain[n] \in Block /\ Len(chain[n]) \in Nat
  BY ValidatorsAreNodes DEF TypeOK, Block, SingleValidator
<1>n. ValidatorSet' = ValidatorSet
  BY DEF ValidatorSet
<1>1. CASE UNCHANGED <<chain, block_buffer, requested_blocks>>
  BY <1>1, <1>n DEF GapInv, NoSilentGap
<1>2. ASSUME NEW p \in Payloads, Produce(v, p) PROVE GapInv'
  <2> DEFINE content == [signer |-> v, payload |-> p]
             block == Append(chain[v], content)
  <2>1. CASE UNCHANGED chain
    BY <1>1, <1>2, <2>1 DEF Produce
  <2>2. CASE chain' = [chain EXCEPT ![v] = block]
    <3>1. /\ Len(chain[v]) < MaxHeight
          /\ block_buffer' = block_buffer /\ requested_blocks' = requested_blocks
      BY <1>2 DEF Produce
    <3>2. /\ Len(block) = Len(chain[v]) + 1 /\ block[Len(block)] = content
          /\ \A i \in 1..Len(chain[v]) : block[i] = chain[v][i]
      <4>1. chain[v] \in Seq(Content) /\ content \in Content
        BY <1>0 DEF Block, Content
      <4> QED
        BY <4>1
    <3>3. content.signer \in ValidatorSet
      BY <1>v
    <3> HIDE DEF block, content
    <3>4. chain'[v] = block /\ \A n \in Nodes : n # v => chain'[n] = chain[n]
      BY <1>0, <2>2 DEF TypeOK
    <3>5. DOMAIN block_buffer[v] = {}
      <4>1. \A k \in DOMAIN block_buffer[v] : k = Len(block_buffer[v][k]) /\ IsPrefix(block_buffer[v][k], chain[v])
        BY <1>v, <1>0 DEF TypeOK, AllFromValidator
      <4>2. \A k \in DOMAIN block_buffer[v] : k <= Len(chain[v])
        BY <4>1 DEF IsPrefix
      <4>3. DOMAIN block_buffer[v] \subseteq (Len(chain[v]) + 2)..MaxHeight
        BY <1>0 DEF GapInv
      <4> QED
        BY <1>0, <4>2, <4>3
    <3>6. NoSilentGap'
      BY <3>1, <3>4, <3>5 DEF GapInv, NoSilentGap
    <3>7. ASSUME NEW n \in Nodes
          PROVE  /\ Len(chain'[n]) <= MaxHeight
                 /\ DOMAIN block_buffer'[n] \subseteq (Len(chain'[n]) + 2)..MaxHeight
      BY <1>0, <3>1, <3>2, <3>4, <3>5 DEF GapInv
    <3>8. ASSUME NEW i \in 1..Len(chain'[v]) PROVE chain'[v][i].signer \in ValidatorSet
      <4>1. i \in 1..Len(chain[v]) \/ i = Len(block)
        BY <1>0, <3>2, <3>4
      <4> QED
        BY <1>v, <3>2, <3>3, <3>4, <4>1 DEF GapInv
    <3> QED
      BY <1>0, <1>n, <3>6, <3>7, <3>8 DEF GapInv
  <2> QED
    BY <1>2, <2>1, <2>2 DEF Produce
<1>3. ASSUME NEW n \in Nodes, NEW m \in BagToSet(inbox[n]), m.type = "block", ReceiveNext(n, m.block)
      PROVE  GapInv'
  <2> PICK b : b = m.block
    OBVIOUS
  <2>1. PICK head \in Drain(b, block_buffer[n]) :
          /\ \A h \in Drain(b, block_buffer[n]) : Len(h) <= Len(head)
          /\ chain' = [chain EXCEPT ![n] = head]
          /\ requested_blocks' = [requested_blocks EXCEPT ![n] = @ \ (Len(b)..Len(head))]
          /\ block_buffer' = [block_buffer EXCEPT ![n] =
               [k \in DOMAIN @ \ ((Len(b) + 1)..(Len(head) + 1)) |-> @[k]]]
    <3>1. ~(errors < MaxErrors)
      BY DEF NoErrors, TypeOK
    <3> QED
      BY <1>3, <3>1 DEF ReceiveNext
  <2>2. b \in Block /\ IsPrefix(b, chain[v]) /\ Len(b) <= Len(chain[v]) /\ Len(b) \in Nat
        /\ Len(b) = Len(chain[n]) + 1
    BY <1>3, ReceivedOnChain DEF ReceiveNext, VerifyBlock
  <2>3. n # v
    BY <1>0, <2>2
  <2>4. head \in Block /\ Len(head) >= Len(b) /\ Len(head) \in Nat /\ Len(head) <= MaxHeight
    <3>1. head \in Block /\ Len(head) >= Len(b) /\ (head = b \/ \E k \in DOMAIN block_buffer[n] : head = block_buffer[n][k])
      BY <2>2, DrainHeads DEF TypeOK
    <3>2. Len(head) \in Nat /\ Len(chain[v]) <= MaxHeight
      BY <1>0, <3>1 DEF Block, GapInv
    <3>3. \A k \in DOMAIN block_buffer[n] : k = Len(block_buffer[n][k]) /\ k <= MaxHeight
      BY DEF TypeOK, GapInv
    <3> QED
      BY <1>0, <2>2, <3>1, <3>2, <3>3
  <2>5. Len(head) + 1 \notin DOMAIN block_buffer[n]
    BY <2>1, <2>2, DrainEnds
  <2>6. /\ chain'[n] = head
        /\ requested_blocks'[n] = requested_blocks[n] \ (Len(b)..Len(head))
        /\ DOMAIN block_buffer'[n] = DOMAIN block_buffer[n] \ ((Len(b) + 1)..(Len(head) + 1))
        /\ \A i \in Nodes : i # n => /\ chain'[i] = chain[i]
                                     /\ requested_blocks'[i] = requested_blocks[i]
                                     /\ block_buffer'[i] = block_buffer[i]
    BY <2>1 DEF TypeOK
  <2>7. ASSUME NEW h \in DOMAIN block_buffer'[n], NEW k \in (Len(chain'[n]) + 1)..h
        PROVE  k \in DOMAIN block_buffer'[n] \cup requested_blocks'[n]
    <3>1. h \in DOMAIN block_buffer[n] /\ h \in Nat
      BY <2>6 DEF GapInv
    <3>2. k \in Nat /\ k > Len(head) /\ k \in (Len(chain[n]) + 1)..h
      BY <1>0, <2>2, <2>4, <2>6, <3>1
    <3>3. k \in DOMAIN block_buffer[n] \cup requested_blocks[n]
      BY <3>1, <3>2 DEF GapInv, NoSilentGap
    <3> QED
      BY <2>4, <2>5, <2>6, <3>2, <3>3
  <2>8. DOMAIN block_buffer'[n] \subseteq (Len(chain'[n]) + 2)..MaxHeight
    <3>1. DOMAIN block_buffer[n] \subseteq (Len(chain[n]) + 2)..MaxHeight
      BY DEF GapInv
    <3> QED
      BY <1>0, <2>2, <2>4, <2>6, <3>1
  <2>9. NoSilentGap'
    BY <2>6, <2>7 DEF GapInv, NoSilentGap
  <2> QED
    BY <1>0, <1>n, <2>3, <2>4, <2>6, <2>8, <2>9 DEF GapInv
<1>4. ASSUME NEW n \in Nodes, NEW m \in BagToSet(inbox[n]), m.type = "block", ReceiveAhead(n, m.block)
      PROVE  GapInv'
  <2> PICK b : b = m.block
    OBVIOUS
  <2>0. PICK buffer : buffer = [k \in DOMAIN block_buffer[n] \cup {Len(b)} |->
                                  IF k = Len(b) THEN b ELSE block_buffer[n][k]]
    OBVIOUS
  <2>1. PICK missing : missing = Missing(Len(chain[n]) + 1, Len(b), buffer, requested_blocks[n])
    OBVIOUS
  <2>2. /\ Len(b) > Len(chain[n]) + 1 /\ chain' = chain
        /\ block_buffer' = [block_buffer EXCEPT ![n] = Limit(buffer)]
        /\ requested_blocks' = [requested_blocks EXCEPT ![n] = @ \cup missing]
    BY <1>4, <2>0, <2>1 DEF ReceiveAhead
  <2>3. Len(b) \in Nat /\ Len(b) <= MaxHeight
    BY <1>0, <1>4, ReceivedOnChain DEF GapInv
  <2>4. DOMAIN buffer = DOMAIN block_buffer[n] \cup {Len(b)}
    BY <2>0
  <2>5. DOMAIN buffer \subseteq (Len(chain[n]) + 2)..MaxHeight
    <3>1. DOMAIN block_buffer[n] \subseteq (Len(chain[n]) + 2)..MaxHeight
      BY DEF GapInv
    <3> QED
      BY <1>0, <2>2, <2>3, <2>4, <3>1
  <2>6. Limit(buffer) = buffer
    <3>1. DOMAIN buffer \subseteq 2..MaxHeight
      BY <1>0, <2>5
    <3> QED
      BY <3>1, LimitKeepsAll
  <2>7. /\ DOMAIN block_buffer'[n] = DOMAIN block_buffer[n] \cup {Len(b)}
        /\ requested_blocks'[n] = requested_blocks[n] \cup missing
        /\ \A i \in Nodes : i # n => /\ requested_blocks'[i] = requested_blocks[i]
                                     /\ block_buffer'[i] = block_buffer[i]
    BY <2>2, <2>4, <2>6 DEF TypeOK
  <2>8. ASSUME NEW h \in DOMAIN block_buffer'[n], NEW k \in (Len(chain[n]) + 1)..h
        PROVE  k \in DOMAIN block_buffer'[n] \cup requested_blocks'[n]
    <3>1. CASE h \in DOMAIN block_buffer[n]
      BY <2>7, <3>1 DEF GapInv, NoSilentGap
    <3>2. CASE h = Len(b)
      <4>1. k = Len(b) \/ k \in (Len(chain[n]) + 1)..(Len(b) - 1)
        BY <1>0, <2>3, <3>2
      <4> QED
        BY <2>1, <2>4, <2>7, <4>1 DEF Missing
    <3> QED
      BY <2>7, <3>1, <3>2
  <2>9. NoSilentGap'
    BY <2>2, <2>7, <2>8 DEF GapInv, NoSilentGap
  <2> QED
    BY <1>n, <2>2, <2>4, <2>5, <2>7, <2>9 DEF GapInv
<1>5. ASSUME NEW n \in Nodes, Restart(n) PROVE GapInv'
  <2>1. /\ chain' = chain /\ DOMAIN block_buffer'[n] = {}
        /\ \A i \in Nodes : i # n => /\ requested_blocks'[i] = requested_blocks[i]
                                     /\ block_buffer'[i] = block_buffer[i]
    BY <1>5 DEF Restart, TypeOK
  <2> QED
    BY <1>n, <2>1 DEF GapInv, NoSilentGap
<1>6. ASSUME NEW n \in Nodes, Receive(n) PROVE GapInv'
  <2>1. ASSUME NEW b, ReceiveGet(n, b) \/ ReceiveOld(n, b) \/ ReceiveNextFails(n, b)
        PROVE  UNCHANGED <<chain, block_buffer, requested_blocks>>
    BY <2>1 DEF ReceiveGet, ReceiveOld, ReceiveNextFails
  <2> QED
    BY <1>1, <1>3, <1>4, <1>6, <2>1 DEF Receive
<1>7. ASSUME NEW n \in Nodes, NEW p \in Payloads, Produce(n, p) PROVE n = v
  BY <1>0, <1>7 DEF Produce
<1>8. ASSUME NEW n \in Nodes, Lose(n) PROVE UNCHANGED <<chain, block_buffer, requested_blocks>>
  BY <1>8 DEF Lose
<1>9. CASE UNCHANGED vars
  BY <1>1, <1>9 DEF vars
<1> QED
  BY <1>1, <1>2, <1>5, <1>6, <1>7, <1>8, <1>9 DEF Next

\* GapInv holds at every moment.
LEMMA GapInvHolds ==
  ASSUME SingleValidator, NoErrors, BufferSuffices PROVE Spec => []GapInv
<1>1. Init => GapInv
  <2> SUFFICES ASSUME Init PROVE GapInv
    OBVIOUS
  <2>1. \A n \in Nodes : chain[n] = <<>> /\ DOMAIN block_buffer[n] = {}
    BY DEF Init
  <2> QED
    BY <2>1, ValidatorsAreNodes DEF GapInv, NoSilentGap
<1>2. TypeOK /\ AllFromValidator /\ GapInv /\ [Next]_vars => GapInv'
  BY GapInvariant
<1> QED
  BY <1>1, <1>2, TypeCorrect, AllFromValidatorHolds, PTL DEF Spec

\* With one validator, no failing apply_block and a buffer that can hold what
\* exists, every number between a node's head and the highest block it keeps for
\* later is kept or has been asked for: for any number of nodes, losses and restarts.
THEOREM OneValidatorNoSilentGap ==
  ASSUME SingleValidator, NoErrors, BufferSuffices PROVE Spec => []NoSilentGap
<1>1. GapInv => NoSilentGap
  BY DEF GapInv
<1> QED
  BY <1>1, GapInvHolds, PTL

-----------------------------------------------------------------------------
(* One validator, no restart, at most one message lost: requests are live. *)

\* A message that is taken is there once less, the others as often as before.
LEMMA TakenCopies ==
  ASSUME DOMAIN inbox = Nodes, NEW n \in Nodes, NEW msg, NEW m \in Nodes,
         IsABag(inbox[m]), inbox' = Taken(n, msg)
  PROVE  /\ IsABag(inbox'[m])
         /\ \A e : /\ Copies(m, e) \in Nat /\ Copies(m, e)' \in Nat
                   /\ Copies(m, e)' >= Copies(m, e) - 1
                   /\ (m # n \/ e # msg) => Copies(m, e)' = Copies(m, e)
<1>1. \A e \in DOMAIN inbox[m] : inbox[m][e] \in Nat /\ inbox[m][e] > 0
  BY DEF IsABag
<1>2. CASE m # n
  <2>1. inbox'[m] = inbox[m]
    BY <1>2 DEF Taken
  <2> QED
    BY <1>1, <2>1 DEF Copies, BagIn, BagToSet, IsABag
<1>3. CASE m = n
  <2>1. PICK B : B = [e \in DOMAIN inbox[m] |-> IF e \in {msg} THEN inbox[m][e] - 1 ELSE inbox[m][e]]
    OBVIOUS
  <2>2. inbox'[m] = [e \in {d \in DOMAIN B : B[d] > 0} |-> B[e]]
    BY <1>3, <2>1 DEF Taken, (-), SetToBag
  <2>3. \A e \in DOMAIN inbox[m] : B[e] \in Nat
    BY <1>1, <2>1
  <2>4. IsABag(inbox'[m])
    BY <2>1, <2>2, <2>3 DEF IsABag
  <2>5. ASSUME NEW e PROVE Copies(m, e) = IF e \in DOMAIN inbox[m] THEN inbox[m][e] ELSE 0
    BY DEF Copies, BagIn, BagToSet
  <2>6. ASSUME NEW e PROVE Copies(m, e)' = IF e \in DOMAIN inbox[m] THEN B[e] ELSE 0
    BY <2>1, <2>2, <2>3 DEF Copies, BagIn, BagToSet
  <2> QED
    BY <1>1, <1>3, <2>1, <2>4, <2>5, <2>6
<1> QED
  BY <1>2, <1>3

\* Publishing puts one more copy into the inbox of every other node.
LEMMA PublishedCopies ==
  ASSUME NEW n \in Nodes, NEW msgs, NEW m \in Nodes, IsABag(inbox[m]),
         inbox' = Published(inbox, n, msgs)
  PROVE  /\ IsABag(inbox'[m])
         /\ \A e : /\ Copies(m, e) \in Nat /\ Copies(m, e)' \in Nat
                   /\ Copies(m, e)' = Copies(m, e) + (IF m # n /\ e \in msgs THEN 1 ELSE 0)
<1>1. \A e \in DOMAIN inbox[m] : inbox[m][e] \in Nat /\ inbox[m][e] > 0
  BY DEF IsABag
<1>2. CASE m = n
  <2>1. inbox'[m] = inbox[m]
    BY <1>2 DEF Published
  <2> QED
    BY <1>1, <1>2, <2>1 DEF Copies, BagIn, BagToSet, IsABag
<1>3. CASE m # n
  <2>1. inbox'[m] = [e \in DOMAIN inbox[m] \cup msgs |->
                       (IF e \in DOMAIN inbox[m] THEN inbox[m][e] ELSE 0) + (IF e \in msgs THEN 1 ELSE 0)]
    BY <1>3 DEF Published, (+), SetToBag
  <2> QED
    BY <1>1, <1>3, <2>1 DEF Copies, BagIn, BagToSet, IsABag
<1> QED
  BY <1>2, <1>3

\* One message is taken and others are published.
LEMMA TakenPublishedCopies ==
  ASSUME DOMAIN inbox = Nodes, NEW n \in Nodes, NEW msg, NEW msgs, NEW m \in Nodes,
         IsABag(inbox[m]), inbox' = Published(Taken(n, msg), n, msgs)
  PROVE  /\ IsABag(inbox'[m])
         /\ \A e : /\ Copies(m, e) \in Nat /\ Copies(m, e)' \in Nat
                   /\ m # n => Copies(m, e)' = Copies(m, e) + (IF e \in msgs THEN 1 ELSE 0)
                   /\ m = n => /\ Copies(m, e)' >= Copies(m, e) - 1
                               /\ e # msg => Copies(m, e)' = Copies(m, e)
<1>1. PICK in : in = Taken(n, msg)
  OBVIOUS
<1>2. \A e \in DOMAIN inbox[m] : inbox[m][e] \in Nat /\ inbox[m][e] > 0
  BY DEF IsABag
<1>3. CASE m # n
  <2>1. in[m] = inbox[m]
    BY <1>1, <1>3 DEF Taken
  <2>2. inbox'[m] = [e \in DOMAIN inbox[m] \cup msgs |->
                       (IF e \in DOMAIN inbox[m] THEN inbox[m][e] ELSE 0) + (IF e \in msgs THEN 1 ELSE 0)]
    BY <1>1, <1>3, <2>1 DEF Published, (+), SetToBag
  <2> QED
    BY <1>2, <1>3, <2>2 DEF Copies, BagIn, BagToSet, IsABag
<1>4. CASE m = n
  <2>1. inbox'[m] = in[m]
    BY <1>1, <1>4 DEF Published
  <2>2. PICK B : B = [e \in DOMAIN inbox[m] |-> IF e \in {msg} THEN inbox[m][e] - 1 ELSE inbox[m][e]]
    OBVIOUS
  <2>3. in[m] = [e \in {d \in DOMAIN B : B[d] > 0} |-> B[e]]
    BY <1>1, <1>4, <2>2 DEF Taken, (-), SetToBag
  <2>4. \A e \in DOMAIN inbox[m] : B[e] \in Nat
    BY <1>2, <2>2
  <2>5. IsABag(inbox'[m])
    BY <2>1, <2>2, <2>3, <2>4 DEF IsABag
  <2>6. ASSUME NEW e PROVE Copies(m, e) = IF e \in DOMAIN inbox[m] THEN inbox[m][e] ELSE 0
    BY DEF Copies, BagIn, BagToSet
  <2>7. ASSUME NEW e PROVE Copies(m, e)' = IF e \in DOMAIN inbox[m] THEN B[e] ELSE 0
    BY <2>1, <2>2, <2>3, <2>4 DEF Copies, BagIn, BagToSet
  <2> QED
    BY <1>2, <1>4, <2>2, <2>5, <2>6, <2>7
<1> QED
  BY <1>3, <1>4

\* The validator's block k stays the same while its chain grows, and has number k.
LEMMA BlockOfNumber ==
  ASSUME NEW c \in Block, NEW k \in 1..Len(c)
  PROVE  /\ SubSeq(c, 1, k) \in Block /\ Len(SubSeq(c, 1, k)) = k
         /\ \A d \in Block : IsPrefix(c, d) => SubSeq(d, 1, k) = SubSeq(c, 1, k)
<1>1. k \in Nat /\ k >= 1 /\ k <= Len(c) /\ Len(c) \in Nat
  BY DEF Block
<1>2. SubSeq(c, 1, k) \in Block /\ Len(SubSeq(c, 1, k)) = k
      /\ \A i \in 1..k : SubSeq(c, 1, k)[i] = c[i]
  BY <1>1 DEF Block
<1>3. ASSUME NEW d \in Block, IsPrefix(c, d) PROVE SubSeq(d, 1, k) = SubSeq(c, 1, k)
  <2>1. Len(c) <= Len(d) /\ \A i \in 1..Len(c) : c[i] = d[i]
    BY <1>3, PrefixPointwise
  <2>2. SubSeq(d, 1, k) \in Block /\ Len(SubSeq(d, 1, k)) = k
        /\ \A i \in 1..k : SubSeq(d, 1, k)[i] = d[i]
    BY <1>1, <2>1 DEF Block
  <2> QED
    BY <1>1, <1>2, <2>1, <2>2 DEF Block
<1> QED
  BY <1>2, <1>3

\* What DeliveryInv says is kept by every step.
LEMMA DeliveryInvariant ==
  ASSUME SingleValidator, NoErrors, BufferSuffices, NoRestarts,
         TypeOK, AllFromValidator, GapInv, DeliveryInv, [Next]_vars
  PROVE  DeliveryInv'
<1>v. PICK v \in ValidatorSet : TRUE
  BY DEF ValidatorSet
<1>0. /\ v \in Nodes /\ \A w \in ValidatorSet : w = v
      /\ \A n \in Nodes : chain[n] \in Block /\ Len(chain[n]) \in Nat
      /\ chain'[v] \in Block /\ IsPrefix(chain[v], chain'[v])
      /\ DOMAIN inbox = Nodes /\ losses \in Nat
  <2>1. TypeOK'
    BY TypeInvariant
  <2>2. IsPrefix(chain[v], chain'[v])
    BY ValidatorChainExtends
  <2> QED
    BY <2>1, <2>2, ValidatorsAreNodes DEF TypeOK, Block, SingleValidator
<1>n. ValidatorSet' = ValidatorSet
  BY DEF ValidatorSet
<1>b. \A n \in Nodes : IsABag(inbox[n])
  BY DEF DeliveryInv
<1>r. requested_blocks[v] = {} /\ \A n \in Nodes : requested_blocks[n] \subseteq 1..Len(chain[v])
  BY DEF DeliveryInv
<1>d. \A n \in Nodes : \A k \in ((Len(chain[n]) + 1)..Len(chain[v])) \ DOMAIN block_buffer[n] :
        OnItsWay(v, n, k)
  BY DEF DeliveryInv
<1>f. \A b, k : BlockMessage(b) # GetMessage(k) /\ (\A c : BlockMessage(b) = BlockMessage(c) => b = c)
  BY DEF BlockMessage, GetMessage
\* The copies of block k are still those of the same block.
<1>s. ASSUME NEW n \in Nodes, NEW k \in (Len(chain[n]) + 1)..Len(chain[v])
      PROVE  /\ n # v /\ k \in Nat
             /\ SubSeq(chain'[v], 1, k) = SubSeq(chain[v], 1, k)
             /\ Len(SubSeq(chain[v], 1, k)) = k
  <2>1. k \in 1..Len(chain[v])
    BY <1>0
  <2> QED
    BY <1>0, <2>1, BlockOfNumber
\* The step leaves enough copies of block k and of its request.
<1>m. ASSUME NEW n \in Nodes, NEW k \in ((Len(chain[n]) + 1)..Len(chain[v])) \ DOMAIN block_buffer[n],
             NEW e, e = BlockMessage(SubSeq(chain[v], 1, k)),
             losses' = losses, k \in requested_blocks'[n] => k \in requested_blocks[n],
             Copies(n, e)' >= Copies(n, e), Copies(v, GetMessage(k))' >= Copies(v, GetMessage(k)),
             Copies(n, e) \in Nat, Copies(v, GetMessage(k)) \in Nat,
             Copies(n, e)' \in Nat, Copies(v, GetMessage(k))' \in Nat
      PROVE  OnItsWay(v, n, k)'
  <2>1. e = BlockMessage(SubSeq(chain'[v], 1, k))
    BY <1>m, <1>s
  <2>2. /\ losses = 0 => Copies(n, e) >= 1
        /\ k \in requested_blocks[n] => Copies(n, e) + Copies(v, GetMessage(k)) + losses >= 2
    BY <1>d, <1>m DEF OnItsWay
  <2>3. /\ losses' = 0 => Copies(n, e)' >= 1
        /\ k \in requested_blocks'[n] => Copies(n, e)' + Copies(v, GetMessage(k))' + losses' >= 2
    BY <1>0, <1>m, <2>2
  <2> QED
    BY <2>1, <2>3 DEF OnItsWay
<1>1. CASE UNCHANGED <<chain, block_buffer, requested_blocks, inbox, losses>>
  BY <1>1, <1>n DEF DeliveryInv, OnItsWay, Copies
<1>2. ASSUME NEW p \in Payloads, Produce(v, p) PROVE DeliveryInv'
  <2>0. PICK block : block = Append(chain[v], [signer |-> v, payload |-> p])
    OBVIOUS
  <2>1. CASE UNCHANGED <<chain, inbox>>
    BY <1>1, <1>2, <2>1 DEF Produce
  <2>2. CASE chain' = [chain EXCEPT ![v] = block] /\ inbox' = Published(inbox, v, {BlockMessage(block)})
    <3>1. UNCHANGED <<block_buffer, requested_blocks, losses>>
      BY <1>2 DEF Produce
    <3>2. block \in Block /\ Len(block) = Len(chain[v]) + 1
      <4>1. chain[v] \in Seq(Content) /\ [signer |-> v, payload |-> p] \in Content
        BY <1>0 DEF Block, Content
      <4> QED
        BY <2>0, <4>1 DEF Block
    <3>3. chain'[v] = block /\ \A n \in Nodes : n # v => chain'[n] = chain[n]
      BY <1>0, <2>2 DEF TypeOK
    <3>4. ASSUME NEW m \in Nodes
          PROVE  /\ IsABag(inbox'[m])
                 /\ \A e : /\ Copies(m, e) \in Nat /\ Copies(m, e)' \in Nat
                           /\ Copies(m, e)' >= Copies(m, e)
                           /\ m # v /\ e = BlockMessage(block) => Copies(m, e)' >= 1
      <4>1. PICK msgs : msgs = {BlockMessage(block)}
        OBVIOUS
      <4>2. inbox' = Published(inbox, v, msgs) /\ IsABag(inbox[m]) /\ v \in Nodes
        BY <1>0, <1>b, <2>2, <4>1
      <4>3. /\ IsABag(inbox'[m])
            /\ \A e : /\ Copies(m, e) \in Nat /\ Copies(m, e)' \in Nat
                      /\ Copies(m, e)' = Copies(m, e) + (IF m # v /\ e \in msgs THEN 1 ELSE 0)
        BY <4>2, PublishedCopies
      <4> QED
        BY <4>1, <4>3
    <3>5. ASSUME NEW n \in Nodes,
                 NEW k \in ((Len(chain'[n]) + 1)..Len(chain'[v])) \ DOMAIN block_buffer'[n]
          PROVE  OnItsWay(v, n, k)'
      <4>1. n # v /\ chain'[n] = chain[n]
        BY <1>0, <3>2, <3>3
      <4>2. CASE k \in (Len(chain[n]) + 1)..Len(chain[v])
        BY <1>0, <1>m, <3>1, <3>4, <4>2
      <4>3. CASE k = Len(chain[v]) + 1
        <5>1. SubSeq(chain'[v], 1, k) = block
          BY <3>2, <3>3, <4>3 DEF Block
        <5>2. k \notin requested_blocks'[n]
          BY <1>0, <1>r, <3>1, <4>3
        <5>3. Copies(n, BlockMessage(block))' >= 1
          BY <3>4, <4>1
        <5> QED
          BY <5>1, <5>2, <5>3 DEF OnItsWay
      <4> QED
        BY <1>0, <3>2, <3>3, <4>1, <4>2, <4>3
    <3>6. requested_blocks'[v] = {} /\ \A n \in Nodes : requested_blocks'[n] \subseteq 1..Len(chain'[v])
      BY <1>0, <1>r, <3>1, <3>2, <3>3
    <3> QED
      BY <1>0, <1>n, <3>4, <3>5, <3>6 DEF DeliveryInv
  <2> QED
    BY <1>2, <2>0, <2>1, <2>2 DEF Produce
\* A block that is taken has no number that the node still lacks.
<1>3. ASSUME NEW i \in Nodes, NEW b, inbox' = Taken(i, BlockMessage(b)), losses' = losses,
             NEW n \in Nodes, NEW k \in ((Len(chain[n]) + 1)..Len(chain[v])) \ DOMAIN block_buffer[n],
             n # i \/ Len(b) # k, k \in requested_blocks'[n] => k \in requested_blocks[n]
      PROVE  OnItsWay(v, n, k)'
  <2>1. PICK e : e = BlockMessage(SubSeq(chain[v], 1, k))
    OBVIOUS
  <2>2. n # i \/ e # BlockMessage(b)
    BY <1>3, <1>f, <1>s, <2>1
  <2>3. Copies(n, e)' = Copies(n, e) /\ Copies(n, e) \in Nat
    BY <1>0, <1>3, <1>b, <2>2, TakenCopies
  <2>4. GetMessage(k) # BlockMessage(b)
    BY <1>f
  <2>5. Copies(v, GetMessage(k))' = Copies(v, GetMessage(k)) /\ Copies(v, GetMessage(k)) \in Nat
    BY <1>0, <1>3, <1>b, <2>4, TakenCopies
  <2> QED
    BY <1>3, <1>m, <2>1, <2>3, <2>5
<1>4. ASSUME NEW i \in Nodes, NEW msg, inbox' = Taken(i, msg)
      PROVE  \A n \in Nodes : IsABag(inbox'[n])
  BY <1>0, <1>4, <1>b, TakenCopies
<1>5. ASSUME NEW i \in Nodes, NEW b, ReceiveOld(i, b) PROVE DeliveryInv'
  <2>1. /\ inbox' = Taken(i, BlockMessage(b)) /\ Len(b) <= Len(chain[i])
        /\ UNCHANGED <<chain, block_buffer, requested_blocks, losses>>
    BY <1>5 DEF ReceiveOld
  <2>2. ASSUME NEW n \in Nodes, NEW k \in ((Len(chain[n]) + 1)..Len(chain[v])) \ DOMAIN block_buffer[n]
        PROVE  OnItsWay(v, n, k)'
    <3>1. n # i \/ Len(b) # k
      BY <1>0, <2>1, <2>2
    <3> QED
      BY <1>3, <2>1, <3>1
  <2> QED
    BY <1>0, <1>4, <1>n, <1>r, <2>1, <2>2 DEF DeliveryInv
<1>6. ASSUME NEW i \in Nodes, NEW m \in BagToSet(inbox[i]), m.type = "block", ReceiveNext(i, m.block)
      PROVE  DeliveryInv'
  <2> PICK b : b = m.block
    OBVIOUS
  <2>1. PICK head \in Drain(b, block_buffer[i]) :
          /\ \A h \in Drain(b, block_buffer[i]) : Len(h) <= Len(head)
          /\ chain' = [chain EXCEPT ![i] = head]
          /\ requested_blocks' = [requested_blocks EXCEPT ![i] = @ \ (Len(b)..Len(head))]
          /\ block_buffer' = [block_buffer EXCEPT ![i] =
               [k \in DOMAIN @ \ ((Len(b) + 1)..(Len(head) + 1)) |-> @[k]]]
    <3>1. ~(errors < MaxErrors)
      BY DEF NoErrors, TypeOK
    <3> QED
      BY <1>6, <3>1 DEF ReceiveNext
  <2>2. b \in Block /\ IsPrefix(b, chain[v]) /\ Len(b) <= Len(chain[v]) /\ Len(b) \in Nat
        /\ Len(b) = Len(chain[i]) + 1
    BY <1>6, ReceivedOnChain DEF ReceiveNext, VerifyBlock
  <2>3. i # v
    BY <1>0, <2>2
  <2>4. head \in Block /\ Len(head) >= Len(b) /\ Len(head) \in Nat
    <3>1. head \in Block /\ Len(head) >= Len(b)
      BY <2>2, DrainHeads DEF TypeOK
    <3> QED
      BY <3>1 DEF Block
  <2>5. Len(head) + 1 \notin DOMAIN block_buffer[i]
    BY <2>1, <2>2, DrainEnds
  <2>6. /\ chain'[i] = head
        /\ requested_blocks'[i] = requested_blocks[i] \ (Len(b)..Len(head))
        /\ DOMAIN block_buffer'[i] = DOMAIN block_buffer[i] \ ((Len(b) + 1)..(Len(head) + 1))
        /\ \A n \in Nodes : n # i => /\ chain'[n] = chain[n]
                                     /\ requested_blocks'[n] = requested_blocks[n]
                                     /\ block_buffer'[n] = block_buffer[n]
    BY <2>1 DEF TypeOK
  <2>7. inbox' = Taken(i, BlockMessage(b)) /\ losses' = losses
    BY <1>6 DEF ReceiveNext
  <2>8. ASSUME NEW n \in Nodes,
               NEW k \in ((Len(chain'[n]) + 1)..Len(chain'[v])) \ DOMAIN block_buffer'[n]
        PROVE  OnItsWay(v, n, k)'
    <3>1. chain'[v] = chain[v]
      BY <1>0, <2>3, <2>6
    <3>2. /\ k \in ((Len(chain[n]) + 1)..Len(chain[v])) \ DOMAIN block_buffer[n]
          /\ n # i \/ Len(b) # k
      <4>1. CASE n = i
        BY <1>0, <2>2, <2>4, <2>5, <2>6, <3>1, <4>1
      <4>2. CASE n # i
        BY <2>6, <3>1, <4>2
      <4> QED
        BY <4>1, <4>2
    <3>3. k \in requested_blocks'[n] => k \in requested_blocks[n]
      BY <2>6
    <3> QED
      BY <1>3, <2>7, <3>2, <3>3
  <2>9. /\ requested_blocks'[v] = {}
        /\ \A n \in Nodes : requested_blocks'[n] \subseteq 1..Len(chain'[v])
    BY <1>0, <1>r, <2>3, <2>6
  <2> QED
    BY <1>0, <1>4, <1>n, <2>7, <2>8, <2>9 DEF DeliveryInv
<1>7. ASSUME NEW i \in Nodes, NEW m \in BagToSet(inbox[i]), m.type = "block",
             ReceiveNextFails(i, m.block)
      PROVE  FALSE
  <2> PICK b : b = m.block
    OBVIOUS
  <2>1. b \in Block /\ IsPrefix(b, chain[v]) /\ Len(b) = Len(chain[i]) + 1
    BY <1>7, ReceivedOnChain DEF ReceiveNextFails
  <2>2. IsPrefix(chain[i], chain[v]) /\ \A j \in 1..Len(chain[v]) : chain[v][j].signer \in ValidatorSet
    BY DEF AllFromValidator, GapInv
  <2>3. VerifyBlock(b, Len(b), chain[i])
    BY <1>0, <2>1, <2>2, ChainLinks
  <2>4. ~(errors < MaxErrors)
    BY DEF NoErrors, TypeOK
  <2> QED
    BY <1>7, <2>3, <2>4 DEF ReceiveNextFails
<1>8. ASSUME NEW i \in Nodes, NEW m \in BagToSet(inbox[i]), m.type = "block", ReceiveAhead(i, m.block)
      PROVE  DeliveryInv'
  <2> PICK b : b = m.block
    OBVIOUS
  <2>0. PICK buffer : buffer = [k \in DOMAIN block_buffer[i] \cup {Len(b)} |->
                                  IF k = Len(b) THEN b ELSE block_buffer[i][k]]
    OBVIOUS
  <2>1. PICK missing : missing = Missing(Len(chain[i]) + 1, Len(b), buffer, requested_blocks[i])
    OBVIOUS
  <2>2. PICK gets : gets = {GetMessage(k) : k \in missing}
    OBVIOUS
  <2>3. /\ Len(b) > Len(chain[i]) + 1 /\ chain' = chain /\ losses' = losses
        /\ block_buffer' = [block_buffer EXCEPT ![i] = Limit(buffer)]
        /\ requested_blocks' = [requested_blocks EXCEPT ![i] = @ \cup missing]
        /\ inbox' = Published(Taken(i, BlockMessage(b)), i, gets)
    BY <1>8, <2>0, <2>1, <2>2 DEF ReceiveAhead
  <2>4. Len(b) \in Nat /\ Len(b) <= Len(chain[v]) /\ Len(b) <= MaxHeight
    BY <1>0, <1>8, ReceivedOnChain DEF GapInv
  <2>5. i # v
    BY <1>0, <2>3, <2>4
  <2>6. Limit(buffer) = buffer /\ DOMAIN buffer = DOMAIN block_buffer[i] \cup {Len(b)}
    <3>1. DOMAIN block_buffer[i] \subseteq (Len(chain[i]) + 2)..MaxHeight
      BY DEF GapInv
    <3>2. DOMAIN buffer = DOMAIN block_buffer[i] \cup {Len(b)}
      BY <2>0
    <3>3. DOMAIN buffer \subseteq 2..MaxHeight
      BY <1>0, <2>3, <2>4, <3>1, <3>2
    <3> QED
      BY <3>2, <3>3, LimitKeepsAll
  <2>7. /\ DOMAIN block_buffer'[i] = DOMAIN block_buffer[i] \cup {Len(b)}
        /\ requested_blocks'[i] = requested_blocks[i] \cup missing
        /\ \A n \in Nodes : n # i => /\ requested_blocks'[n] = requested_blocks[n]
                                     /\ block_buffer'[n] = block_buffer[n]
    BY <2>3, <2>6 DEF TypeOK
  <2>8. missing \subseteq (Len(chain[i]) + 1)..(Len(b) - 1)
    BY <2>1 DEF Missing
  <2>9. ASSUME NEW n \in Nodes
        PROVE  /\ IsABag(inbox'[n])
               /\ \A e : /\ Copies(n, e) \in Nat /\ Copies(n, e)' \in Nat
                         /\ n # i => Copies(n, e)' = Copies(n, e) + (IF e \in gets THEN 1 ELSE 0)
                         /\ n = i /\ e # BlockMessage(b) => Copies(n, e)' = Copies(n, e)
    <3>1. IsABag(inbox[n]) /\ DOMAIN inbox = Nodes /\ inbox' = Published(Taken(i, BlockMessage(b)), i, gets)
      BY <1>0, <1>b, <2>3
    <3> QED
      BY <3>1, TakenPublishedCopies
  <2>10. ASSUME NEW n \in Nodes,
                NEW k \in ((Len(chain'[n]) + 1)..Len(chain'[v])) \ DOMAIN block_buffer'[n]
         PROVE  OnItsWay(v, n, k)'
    <3>1. k \in ((Len(chain[n]) + 1)..Len(chain[v])) \ DOMAIN block_buffer[n] /\ (n = i => k # Len(b))
      BY <2>3, <2>7
    <3>2. PICK e, get : e = BlockMessage(SubSeq(chain[v], 1, k)) /\ get = GetMessage(k)
      OBVIOUS
    <3>3. n = i => e # BlockMessage(b)
      BY <1>f, <1>s, <3>1, <3>2
    <3>4. Copies(n, e) \in Nat /\ Copies(n, e)' \in Nat /\ Copies(n, e)' >= Copies(n, e)
      BY <2>9, <3>3
    <3>5. /\ Copies(v, get) \in Nat /\ Copies(v, get)' \in Nat
          /\ Copies(v, get)' = Copies(v, get) + (IF get \in gets THEN 1 ELSE 0)
      BY <1>0, <2>5, <2>9
    <3>6. CASE k \in requested_blocks'[n] => k \in requested_blocks[n]
      BY <1>m, <2>3, <3>1, <3>2, <3>4, <3>5, <3>6
    <3>7. CASE k \in requested_blocks'[n] /\ k \notin requested_blocks[n]
      <4>1. k \in missing
        BY <2>7, <3>7
      <4>2. get \in gets
        BY <2>2, <3>2, <4>1
      <4>3. Copies(v, get)' >= 1
        BY <3>5, <4>2
      <4>4. losses = 0 => Copies(n, e) >= 1
        BY <1>d, <3>1, <3>2 DEF OnItsWay
      <4>5. /\ losses' = 0 => Copies(n, e)' >= 1
            /\ Copies(n, e)' + Copies(v, get)' + losses' >= 2
        BY <1>0, <2>3, <3>4, <3>5, <4>3, <4>4
      <4>6. e = BlockMessage(SubSeq(chain'[v], 1, k))
        BY <2>3, <3>2
      <4> QED
        BY <3>2, <4>5, <4>6 DEF OnItsWay
    <3> QED
      BY <3>6, <3>7
  <2>11. requested_blocks'[v] = {}
    BY <1>0, <1>r, <2>5, <2>7
  <2>12. ASSUME NEW n \in Nodes PROVE requested_blocks'[n] \subseteq 1..Len(chain'[v])
    <3>1. missing \subseteq 1..Len(chain[v])
      BY <1>0, <2>4, <2>8
    <3> QED
      BY <1>r, <2>3, <2>7, <3>1
  <2> QED
    BY <1>0, <1>n, <2>9, <2>10, <2>11, <2>12 DEF DeliveryInv
<1>9. ASSUME NEW i \in Nodes, NEW j \in Nat, ReceiveGet(i, j) PROVE DeliveryInv'
  <2>1. UNCHANGED <<chain, block_buffer, requested_blocks, losses>>
    BY <1>9 DEF ReceiveGet
  <2>2. PICK answers :
          answers = IF j <= Len(chain[i]) THEN {BlockMessage(SubSeq(chain[i], 1, j))} ELSE {}
    OBVIOUS
  <2>3. ASSUME NEW n \in Nodes
        PROVE  /\ IsABag(inbox'[n])
               /\ \A e : /\ Copies(n, e) \in Nat /\ Copies(n, e)' \in Nat
                         /\ n # i => Copies(n, e)' = Copies(n, e) + (IF e \in answers THEN 1 ELSE 0)
                         /\ n = i => /\ Copies(n, e)' >= Copies(n, e) - 1
                                     /\ e # GetMessage(j) => Copies(n, e)' = Copies(n, e)
    <3>1. IsABag(inbox[n]) /\ DOMAIN inbox = Nodes
      BY <1>0, <1>b
    <3>2. CASE j <= Len(chain[i])
      <4>1. inbox' = Published(Taken(i, GetMessage(j)), i, answers)
        BY <1>9, <2>2, <3>2 DEF ReceiveGet
      <4> QED
        BY <3>1, <4>1, TakenPublishedCopies
    <3>3. CASE ~(j <= Len(chain[i]))
      <4>1. inbox' = Taken(i, GetMessage(j)) /\ answers = {}
        BY <1>9, <2>2, <3>3 DEF ReceiveGet
      <4>2. /\ IsABag(inbox'[n])
            /\ \A e : /\ Copies(n, e) \in Nat /\ Copies(n, e)' \in Nat
                      /\ Copies(n, e)' >= Copies(n, e) - 1
                      /\ (n # i \/ e # GetMessage(j)) => Copies(n, e)' = Copies(n, e)
        BY <3>1, <4>1, TakenCopies
      <4> QED
        BY <4>1, <4>2
    <3> QED
      BY <3>2, <3>3
  <2>4. ASSUME NEW n \in Nodes,
               NEW k \in ((Len(chain[n]) + 1)..Len(chain[v])) \ DOMAIN block_buffer[n]
        PROVE  OnItsWay(v, n, k)'
    <3>1. PICK e, get : e = BlockMessage(SubSeq(chain[v], 1, k)) /\ get = GetMessage(k)
      OBVIOUS
    <3>2. n # v /\ k \in Nat /\ k <= Len(chain[v])
      BY <1>0, <1>s
    <3>3. e # GetMessage(j)
      BY <1>f, <3>1
    <3>4. Copies(n, e) \in Nat /\ Copies(n, e)' \in Nat /\ Copies(n, e)' >= Copies(n, e)
      BY <2>3, <3>3
    <3>5. Copies(v, get) \in Nat /\ Copies(v, get)' \in Nat
      BY <1>0, <2>3
    <3>6. CASE i # v \/ k # j
      <4>1. get # GetMessage(j) \/ i # v
        BY <3>1, <3>6 DEF GetMessage
      <4>2. /\ v # i => Copies(v, get)' = Copies(v, get) + (IF get \in answers THEN 1 ELSE 0)
            /\ v = i => (get # GetMessage(j) => Copies(v, get)' = Copies(v, get))
        BY <1>0, <2>3
      <4>3. Copies(v, get)' >= Copies(v, get)
        BY <3>5, <4>1, <4>2
      <4> QED
        BY <1>m, <2>1, <2>4, <3>1, <3>4, <3>5, <4>3
    <3>7. CASE i = v /\ k = j
      <4>1. e \in answers
        <5>1. answers = {BlockMessage(SubSeq(chain[v], 1, k))}
          BY <2>2, <3>2, <3>7
        <5> QED
          BY <3>1, <5>1
      <4>2. Copies(n, e)' = Copies(n, e) + 1
        BY <2>3, <3>2, <3>7, <4>1
      <4>3. Copies(v, get)' >= Copies(v, get) - 1
        BY <1>0, <2>3, <3>7
      <4>4. k \in requested_blocks[n] => Copies(n, e) + Copies(v, get) + losses >= 2
        BY <1>d, <2>4, <3>1 DEF OnItsWay
      <4>5. /\ Copies(n, e)' >= 1
            /\ k \in requested_blocks'[n] => Copies(n, e)' + Copies(v, get)' + losses' >= 2
        BY <1>0, <2>1, <3>4, <3>5, <4>2, <4>3, <4>4
      <4>6. e = BlockMessage(SubSeq(chain'[v], 1, k))
        BY <2>1, <3>1
      <4> QED
        BY <3>1, <4>5, <4>6 DEF OnItsWay
    <3> QED
      BY <3>6, <3>7
  <2> QED
    BY <1>0, <1>n, <1>r, <2>1, <2>3, <2>4 DEF DeliveryInv
<1>10. ASSUME NEW i \in Nodes, Lose(i) PROVE DeliveryInv'
  <2>1. PICK msg : inbox' = Taken(i, msg)
    BY <1>10 DEF Lose
  <2>2. UNCHANGED <<chain, block_buffer, requested_blocks>> /\ losses' = losses + 1
    BY <1>10 DEF Lose
  <2>3. ASSUME NEW n \in Nodes
        PROVE  \A e : /\ Copies(n, e) \in Nat /\ Copies(n, e)' \in Nat
                      /\ Copies(n, e)' >= Copies(n, e) - 1
                      /\ (n # i \/ e # msg) => Copies(n, e)' = Copies(n, e)
    <3>1. IsABag(inbox[n]) /\ DOMAIN inbox = Nodes
      BY <1>0, <1>b
    <3> QED
      BY <2>1, <3>1, TakenCopies
  <2>4. ASSUME NEW n \in Nodes,
               NEW k \in ((Len(chain[n]) + 1)..Len(chain[v])) \ DOMAIN block_buffer[n]
        PROVE  OnItsWay(v, n, k)'
    <3>1. PICK e, get : e = BlockMessage(SubSeq(chain[v], 1, k)) /\ get = GetMessage(k)
      OBVIOUS
    <3>2. /\ Copies(n, e) \in Nat /\ Copies(n, e)' \in Nat /\ Copies(n, e)' >= Copies(n, e) - 1
          /\ n # i => Copies(n, e)' = Copies(n, e)
      BY <2>3
    <3>3. /\ Copies(v, get) \in Nat /\ Copies(v, get)' \in Nat /\ Copies(v, get)' >= Copies(v, get) - 1
          /\ v # i => Copies(v, get)' = Copies(v, get)
      BY <1>0, <2>3
    <3>4. k \in requested_blocks[n] => Copies(n, e) + Copies(v, get) + losses >= 2
      BY <1>d, <2>4, <3>1 DEF OnItsWay
    <3>5. n # v
      BY <1>s
    <3>6. /\ losses' # 0
          /\ k \in requested_blocks'[n] => Copies(n, e)' + Copies(v, get)' + losses' >= 2
      BY <1>0, <2>2, <3>2, <3>3, <3>4, <3>5
    <3>7. e = BlockMessage(SubSeq(chain'[v], 1, k))
      BY <2>2, <3>1
    <3> QED
      BY <3>1, <3>6, <3>7 DEF OnItsWay
  <2> QED
    BY <1>0, <1>4, <1>n, <1>r, <2>1, <2>2, <2>4 DEF DeliveryInv
<1>11. ASSUME NEW i \in Nodes, Restart(i) PROVE FALSE
  BY <1>11 DEF Restart, NoRestarts, TypeOK
<1>12. ASSUME NEW i \in Nodes, Receive(i) PROVE DeliveryInv'
  <2>1. ASSUME NEW m \in BagToSet(inbox[i]), m.type = "get", ReceiveGet(i, m.number)
        PROVE  DeliveryInv'
    BY <1>9, <2>1, MessageFields
  <2> QED
    BY <1>5, <1>6, <1>7, <1>8, <1>12, <2>1 DEF Receive
<1>13. ASSUME NEW i \in Nodes, NEW p \in Payloads, Produce(i, p) PROVE i = v
  BY <1>0, <1>13 DEF Produce
<1>14. CASE UNCHANGED vars
  BY <1>1, <1>14 DEF vars
<1> QED
  BY <1>2, <1>10, <1>11, <1>12, <1>13, <1>14 DEF Next

\* With one validator, as long as no node restarts, apply_block does not fail, at
\* most one message is lost and the buffer can hold what exists, no node waits in
\* vain: the numbers below a block kept for later are asked for, and the request for
\* the next one, or the block, is on its way.  For any number of nodes and blocks.
THEOREM OneLossGapsAreFilled ==
  ASSUME SingleValidator, NoErrors, BufferSuffices, NoRestarts, OneLoss
  PROVE  Spec => []GapsAreFilled
<1>1. Init => DeliveryInv
  <2> SUFFICES ASSUME Init PROVE DeliveryInv
    OBVIOUS
  <2>1. \A n \in Nodes : chain[n] = <<>> /\ requested_blocks[n] = {} /\ inbox[n] = EmptyBag
    BY DEF Init
  <2>2. IsABag(EmptyBag)
    BY DEF IsABag, EmptyBag, SetToBag
  <2> QED
    BY <2>1, <2>2, ValidatorsAreNodes DEF DeliveryInv
<1>2. TypeOK /\ AllFromValidator /\ GapInv /\ DeliveryInv /\ [Next]_vars => DeliveryInv'
  BY DeliveryInvariant
<1>3. TypeOK /\ GapInv /\ DeliveryInv => GapsAreFilled
  <2> SUFFICES ASSUME TypeOK, GapInv, DeliveryInv, NEW n \in Nodes, NEW next,
                      next = Len(chain[n]) + 1, next \in requested_blocks[n]
               PROVE  \/ \E m \in BagToSet(inbox[n]) : m.type = "block" /\ Len(m.block) = next
                      \/ \E p \in Nodes \ {n} : BagIn(GetMessage(next), inbox[p]) /\ Len(chain[p]) >= next
    BY DEF GapsAreFilled, GapInv, RequestsAreLive
  <2>1. PICK v \in ValidatorSet : v \in Nodes
    BY ValidatorsAreNodes DEF ValidatorSet
  <2>2. /\ n # v /\ next \in 1..Len(chain[v]) /\ next \in Nat
        /\ chain[v] \in Block /\ Len(chain[v]) \in Nat /\ Len(chain[n]) \in Nat
    BY <2>1 DEF DeliveryInv, TypeOK, Block
  <2>3. next \notin DOMAIN block_buffer[n]
    BY <2>2 DEF GapInv
  <2>4. OnItsWay(v, n, next)
    BY <2>1, <2>2, <2>3 DEF DeliveryInv
  <2>5. PICK e, get : e = BlockMessage(SubSeq(chain[v], 1, next)) /\ get = GetMessage(next)
    OBVIOUS
  <2>6. Copies(n, e) + Copies(v, get) + losses >= 2
    BY <2>4, <2>5 DEF OnItsWay
  <2>7. losses \in Nat /\ losses <= 1
    BY DEF TypeOK, OneLoss
  <2>8. e \in BagToSet(inbox[n]) \/ get \in BagToSet(inbox[v])
    BY <2>6, <2>7 DEF Copies, BagIn
  <2>9. e.type = "block" /\ Len(e.block) = next
    BY <2>2, <2>5, BlockOfNumber DEF BlockMessage
  <2>10. Len(chain[v]) >= next
    BY <2>2
  <2> QED
    BY <2>1, <2>2, <2>5, <2>8, <2>9, <2>10 DEF BagIn
<1> QED
  BY <1>1, <1>2, <1>3, TypeCorrect, AllFromValidatorHolds, GapInvHolds, PTL DEF Spec
=============================================================================
