----------------------------- MODULE BlockGossip -----------------------------
(***************************************************************************)
(* Blocks between nodes: the production loop of block_producer.rs, the     *)
(* headers and checks of the proof of authority (poa.rs) and the network   *)
(* event handler of cmd_run in main.rs, which buffers blocks that arrive   *)
(* out of order and asks its peers for the missing ones.                   *)
(*                                                                         *)
(* The hash of a block commits to its ancestors, so a block is the         *)
(* sequence of the contents from block 1 to itself: its number is its      *)
(* length, its parent the sequence without the last element.  The game     *)
(* tick of a header that passes verify_header equals its number, so it is  *)
(* not kept in the block.  How one block is applied and stored is module   *)
(* Chain; here apply_block is one step, between two of which a node may    *)
(* restart with its chain.                                                 *)
(***************************************************************************)
EXTENDS Naturals, Sequences, FiniteSets, SequencesExt, Bags

CONSTANTS
  Nodes,
  Validators,   \* the validators of the genesis, in order; they are nodes
  Payloads,     \* what a block may contain
  MaxHeight,    \* bound on the blocks produced
  MaxBuffer,    \* the limit of the block buffer, 1000 in the code
  MaxLoss,      \* bound on the messages lost
  MaxRestarts,  \* bound on the restarts
  MaxErrors     \* bound on the calls of apply_block that fail on a valid block

ValidatorSet == {Validators[i] : i \in 1..Len(Validators)}

ASSUME GossipAssumption ==
  /\ Validators \in Seq(Nodes) /\ Validators # <<>>
  /\ MaxHeight \in Nat /\ MaxBuffer \in Nat /\ MaxLoss \in Nat
  /\ MaxRestarts \in Nat /\ MaxErrors \in Nat

VARIABLES
  chain,      \* each node's head, that is its chain; durable
  game_tick,  \* PoaConsensus::game_tick of each node
  block_buffer, requested_blocks,  \* of each node's network event handler
  inbox,      \* the events on their way to each node
  losses, restarts, errors

vars == <<chain, game_tick, block_buffer, requested_blocks, inbox, losses, restarts, errors>>

Content == [signer : Nodes, payload : Payloads]
Block == Seq(Content)
Message == [type : {"block"}, block : Block] \cup [type : {"get"}, number : Nat]

TypeOK ==
  /\ chain \in [Nodes -> Block]
  /\ game_tick \in [Nodes -> 0..(MaxHeight + 1)]
  /\ requested_blocks \in [Nodes -> SUBSET Nat]
  /\ DOMAIN block_buffer = Nodes /\ DOMAIN inbox = Nodes
  /\ \A n \in Nodes :
       /\ \A k \in DOMAIN block_buffer[n] :
            k = Len(block_buffer[n][k]) /\ block_buffer[n][k] \in Block
       /\ BagToSet(inbox[n]) \subseteq Message
  /\ losses \in 0..MaxLoss /\ restarts \in 0..MaxRestarts /\ errors \in 0..MaxErrors

Init ==
  /\ chain = [n \in Nodes |-> <<>>]
  /\ game_tick = [n \in Nodes |-> 0]
  /\ block_buffer = [n \in Nodes |-> <<>>]
  /\ requested_blocks = [n \in Nodes |-> {}]
  /\ inbox = [n \in Nodes |-> EmptyBag]
  /\ losses = 0 /\ restarts = 0 /\ errors = 0

BlockMessage(b) == [type |-> "block", block |-> b]
GetMessage(k) == [type |-> "get", number |-> k]

\* gossipsub delivers what a node publishes to every other node.
Published(in, n, msgs) ==
  [m \in Nodes |-> IF m = n THEN in[m] ELSE in[m] (+) SetToBag(msgs)]

Taken(n, msg) == [inbox EXCEPT ![n] = @ (-) SetToBag({msg})]

-----------------------------------------------------------------------------
(* Variants of the definitions below with a plausible bug each; Next does  *)
(* not use them.                                                           *)

\* The tick advances only with a block that is accepted.
Produce_TickOnSuccess(n, payload) ==
  LET block == Append(chain[n], [signer |-> n, payload |-> payload])
  IN
  /\ n \in {Validators[i] : i \in 1..Len(Validators)}
  /\ Len(chain[n]) < MaxHeight
  /\ game_tick[n] = Len(chain[n])
  /\ game_tick' = [game_tick EXCEPT ![n] = @ + 1]
  /\ chain' = [chain EXCEPT ![n] = block]
  /\ inbox' = Published(inbox, n, {BlockMessage(block)})
  /\ UNCHANGED <<block_buffer, requested_blocks, losses, restarts, errors>>

\* The block is published before it is applied.
Produce_PublishFirst(n, payload) ==
  LET block == Append(chain[n], [signer |-> n, payload |-> payload])
  IN
  /\ n \in {Validators[i] : i \in 1..Len(Validators)}
  /\ Len(chain[n]) < MaxHeight
  /\ inbox' = Published(inbox, n, {BlockMessage(block)})
  /\ \/ chain' = [chain EXCEPT ![n] = block] /\ UNCHANGED errors
     \/ errors < MaxErrors /\ errors' = errors + 1 /\ UNCHANGED chain
  /\ UNCHANGED <<game_tick, block_buffer, requested_blocks, losses, restarts>>

\* Missing blocks are not requested, or not the first of them.
Missing_None(expected, num, buffer, requested) == {}
Missing_OffByOne(expected, num, buffer, requested) ==
  {k \in (expected + 1)..(num - 1) : k \notin requested /\ k \notin DOMAIN buffer}
-----------------------------------------------------------------------------
(* Proof of authority                                                      *)

proposer_for_height(h) == Validators[(h % Len(Validators)) + 1]

\* What a header of block b must satisfy on top of its parent: the next
\* number, the parent's hash, the next game tick, a validator's signature.  A
\* header with no seal at all would pass without the last (poa.rs:200): the
\* producers of the model, like those of the code, seal every block.
VerifyBlock(b, tick, parent) ==
  /\ Len(b) = Len(parent) + 1
  /\ Front(b) = parent
  /\ tick = Len(parent) + 1
  /\ Last(b).signer \in ValidatorSet

\* advance_tick.  A counter past MaxHeight matches no header any more, and
\* stays at MaxHeight + 1.
AdvanceTick(tick) == IF tick > MaxHeight THEN tick ELSE tick + 1

-----------------------------------------------------------------------------
(* Block production: one turn of the loop of BlockProducer::start.         *)

\* prepare_header advances the tick and only warns when it is the turn of
\* another validator.  When apply_block refuses the block, the tick stays
\* advanced and nothing is published.
Produce(n, payload) ==
  LET block == Append(chain[n], [signer |-> n, payload |-> payload])
      tick == AdvanceTick(game_tick[n])
  IN
  /\ n \in ValidatorSet
  /\ Len(chain[n]) < MaxHeight
  /\ game_tick' = [game_tick EXCEPT ![n] = tick]
  /\ \/ /\ VerifyBlock(block, tick, chain[n])
        /\ chain' = [chain EXCEPT ![n] = block]
        /\ inbox' = Published(inbox, n, {BlockMessage(block)})
        /\ UNCHANGED errors
     \/ /\ ~VerifyBlock(block, tick, chain[n])
        /\ UNCHANGED <<chain, inbox, errors>>
     \/ /\ VerifyBlock(block, tick, chain[n])
        /\ errors < MaxErrors /\ errors' = errors + 1
        /\ UNCHANGED <<chain, inbox>>
  /\ UNCHANGED <<block_buffer, requested_blocks, losses, restarts>>

-----------------------------------------------------------------------------
(* The network event handler                                               *)

\* A block whose number is not above the head's is skipped.
ReceiveOld(n, b) ==
  /\ BagIn(BlockMessage(b), inbox[n])
  /\ Len(b) <= Len(chain[n])
  /\ inbox' = Taken(n, BlockMessage(b))
  /\ UNCHANGED <<chain, game_tick, block_buffer, requested_blocks, losses, restarts, errors>>

\* The heads that the loop over the buffer goes through after head b.
Drain(b, buffer) ==
  {b} \cup {buffer[k] : k \in {j \in DOMAIN buffer :
     /\ j > Len(b)
     /\ \A i \in (Len(b) + 1)..j :
          /\ i \in DOMAIN buffer
          /\ VerifyBlock(buffer[i], i, IF i = Len(b) + 1 THEN b ELSE buffer[i - 1])}}

\* The next block: it is applied, then the buffered ones that follow.  The
\* loop ends where the buffer has no next block or apply_block refuses it;
\* the refused block has already left the buffer.
ReceiveNext(n, b) ==
  /\ BagIn(BlockMessage(b), inbox[n])
  /\ VerifyBlock(b, Len(b), chain[n])
  /\ \E head \in Drain(b, block_buffer[n]) :
       /\ \/ /\ \A h \in Drain(b, block_buffer[n]) : Len(h) <= Len(head)
             /\ UNCHANGED errors
          \/ /\ errors < MaxErrors /\ errors' = errors + 1
             /\ \E h \in Drain(b, block_buffer[n]) : Len(h) > Len(head)
       /\ chain' = [chain EXCEPT ![n] = head]
       /\ requested_blocks' = [requested_blocks EXCEPT ![n] = @ \ (Len(b)..Len(head))]
       /\ block_buffer' = [block_buffer EXCEPT ![n] =
            [k \in DOMAIN @ \ ((Len(b) + 1)..(Len(head) + 1)) |-> @[k]]]
  /\ inbox' = Taken(n, BlockMessage(b))
  /\ UNCHANGED <<game_tick, losses, restarts>>

\* apply_block refuses the block that should be next, or fails on it: the
\* block is dropped and stays requested.
ReceiveNextFails(n, b) ==
  /\ BagIn(BlockMessage(b), inbox[n])
  /\ Len(b) = Len(chain[n]) + 1
  /\ \/ ~VerifyBlock(b, Len(b), chain[n]) /\ UNCHANGED errors
     \/ VerifyBlock(b, Len(b), chain[n]) /\ errors < MaxErrors /\ errors' = errors + 1
  /\ inbox' = Taken(n, BlockMessage(b))
  /\ UNCHANGED <<chain, game_tick, block_buffer, requested_blocks, losses, restarts>>

\* The numbers to ask for when block num arrives and expected is the next one.
Missing(expected, num, buffer, requested) ==
  {k \in expected..(num - 1) : k \notin requested /\ k \notin DOMAIN buffer}

\* pop_first, when the buffer is above its limit.
Limit(buffer) ==
  IF Cardinality(DOMAIN buffer) <= MaxBuffer THEN buffer
  ELSE LET first == CHOOSE k \in DOMAIN buffer : \A j \in DOMAIN buffer : k <= j
       IN  [k \in DOMAIN buffer \ {first} |-> buffer[k]]

\* A block ahead of the next one is buffered, and the missing ones are
\* requested from every peer, each number once.
ReceiveAhead(n, b) ==
  LET buffer == [k \in DOMAIN block_buffer[n] \cup {Len(b)} |->
                   IF k = Len(b) THEN b ELSE block_buffer[n][k]]
      missing == Missing(Len(chain[n]) + 1, Len(b), buffer, requested_blocks[n])
  IN
  /\ BagIn(BlockMessage(b), inbox[n])
  /\ Len(b) > Len(chain[n]) + 1
  /\ block_buffer' = [block_buffer EXCEPT ![n] = Limit(buffer)]
  /\ requested_blocks' = [requested_blocks EXCEPT ![n] = @ \cup missing]
  /\ inbox' = Published(Taken(n, BlockMessage(b)), n, {GetMessage(k) : k \in missing})
  /\ UNCHANGED <<chain, game_tick, losses, restarts, errors>>

\* A peer asks for a block: it is sent to everybody if the node has it.
ReceiveGet(n, k) ==
  /\ BagIn(GetMessage(k), inbox[n])
  /\ inbox' = IF k <= Len(chain[n])
              THEN Published(Taken(n, GetMessage(k)), n, {BlockMessage(SubSeq(chain[n], 1, k))})
              ELSE Taken(n, GetMessage(k))
  /\ UNCHANGED <<chain, game_tick, block_buffer, requested_blocks, losses, restarts, errors>>

Receive(n) ==
  \/ \E k \in {m.number : m \in {m \in BagToSet(inbox[n]) : m.type = "get"}} : ReceiveGet(n, k)
  \/ \E b \in {m.block : m \in {m \in BagToSet(inbox[n]) : m.type = "block"}} :
       \/ ReceiveOld(n, b) \/ ReceiveNext(n, b) \/ ReceiveNextFails(n, b) \/ ReceiveAhead(n, b)

-----------------------------------------------------------------------------
(* Faults                                                                  *)

\* A message does not reach a node: it is not connected, publish fails for
\* lack of peers (the service only logs that), or the mesh loses it.
Lose(n) ==
  /\ losses < MaxLoss
  /\ losses' = losses + 1
  /\ \E m \in BagToSet(inbox[n]) : inbox' = Taken(n, m)
  /\ UNCHANGED <<chain, game_tick, block_buffer, requested_blocks, restarts, errors>>

\* A node stops and starts: it keeps its chain, its tick starts at 0, and
\* the handler's memory and the undelivered events are gone.
Restart(n) ==
  /\ restarts < MaxRestarts
  /\ restarts' = restarts + 1
  /\ game_tick' = [game_tick EXCEPT ![n] = 0]
  /\ block_buffer' = [block_buffer EXCEPT ![n] = <<>>]
  /\ requested_blocks' = [requested_blocks EXCEPT ![n] = {}]
  /\ inbox' = [inbox EXCEPT ![n] = EmptyBag]
  /\ UNCHANGED <<chain, losses, errors>>

-----------------------------------------------------------------------------
Next ==
  \E n \in Nodes :
    \/ \E p \in Payloads : Produce(n, p)
    \/ Receive(n) \/ Lose(n) \/ Restart(n)

Spec == Init /\ [][Next]_vars

\* The production loop runs on a timer and the handler reads its channel to
\* the end.
Fairness ==
  \A n \in Nodes :
    /\ WF_vars(\E p \in Payloads : Produce(n, p))
    /\ WF_vars(Receive(n))

FairSpec == Spec /\ Fairness

-----------------------------------------------------------------------------
(* Properties                                                              *)

\* Whatever is lost, late, repeated or restarted, two nodes never hold
\* different blocks at the same height.
NoFork ==
  \A m, n \in Nodes : Len(chain[m]) <= Len(chain[n]) => IsPrefix(chain[m], chain[n])

\* prepare_header takes the tick from a counter of its own, verify_header from
\* the parent: unless apply_block fails, the counter never runs ahead of the chain,
\* or no later block of this validator would ever be accepted.
TickNotAhead == errors = 0 => \A n \in ValidatorSet : game_tick[n] <= Len(chain[n])

\* Between the head and the highest block a node keeps for later, every number is
\* kept or has been asked for.
NoSilentGap ==
  \A n \in Nodes : \A h \in DOMAIN block_buffer[n] :
    \A k \in (Len(chain[n]) + 1)..h :
      k \in DOMAIN block_buffer[n] \cup requested_blocks[n]

\* A validator goes on producing, restarted or not, unless apply_block fails.
KeepsProducing == <>(errors > 0 \/ \A n \in ValidatorSet : Len(chain[n]) = MaxHeight)

\* The producer "creates new blocks at regular intervals" (block_producer.rs:1), also
\* after a block that could not be applied.
ProducesAfterFailure == <>(\A n \in ValidatorSet : Len(chain[n]) = MaxHeight)

\* "block buffering for chain sync" (main.rs:419): every node comes to hold every
\* block, except for as many of the last ones as messages are lost, since no later
\* block reveals that loss.
CatchesUp == <>[](\A n \in Nodes : Len(chain[n]) + MaxLoss >= MaxHeight)

\* A number is asked for once only, so while the next block of a node counts as
\* requested, the request or an answer is on its way.
RequestsAreLive ==
  \A n \in Nodes :
    LET next == Len(chain[n]) + 1 IN
    next \in requested_blocks[n] =>
      \/ \E m \in BagToSet(inbox[n]) : m.type = "block" /\ Len(m.block) = next
      \/ \E p \in Nodes \ {n} : BagIn(GetMessage(next), inbox[p]) /\ Len(chain[p]) >= next

\* Every gap below a block kept for later is being filled: its numbers are asked
\* for, and the request for the next one, or its answer, is still on its way.
GapsAreFilled == NoSilentGap /\ RequestsAreLive

\* "Validators take turns producing blocks in round-robin fashion." (poa.rs:3)
TurnTaking ==
  \A n \in Nodes : \A h \in 1..Len(chain[n]) :
    chain[n][h].signer = proposer_for_height(h)

-----------------------------------------------------------------------------
(* One validator                                                           *)

SingleValidator == \A m, n \in ValidatorSet : m = n

\* The inductive invariant of NoFork: every block a node holds, keeps for later or
\* is sent is on the chain of the validator.
AllFromValidator ==
  \A v \in ValidatorSet : \A n \in Nodes :
    /\ IsPrefix(chain[n], chain[v])
    /\ \A k \in DOMAIN block_buffer[n] : IsPrefix(block_buffer[n][k], chain[v])
    /\ \A m \in BagToSet(inbox[n]) : m.type = "block" => IsPrefix(m.block, chain[v])

\* Every write succeeds, and fewer blocks exist than the buffer may hold.
NoErrors == MaxErrors = 0
BufferSuffices == MaxHeight <= MaxBuffer

\* No node restarts, and at most one message is lost.
NoRestarts == MaxRestarts = 0
OneLoss == MaxLoss <= 1

\* The inductive invariant of NoSilentGap: what is on the validator's chain is
\* signed by it, so that the loop over the buffer never refuses a block, and what
\* stays in a buffer is beyond the next block.
GapInv ==
  /\ NoSilentGap
  /\ \A n \in Nodes :
       /\ Len(chain[n]) <= MaxHeight
       /\ DOMAIN block_buffer[n] \subseteq (Len(chain[n]) + 2)..MaxHeight
  /\ \A v \in ValidatorSet : \A i \in 1..Len(chain[v]) : chain[v][i].signer \in ValidatorSet

Copies(n, msg) == IF BagIn(msg, inbox[n]) THEN inbox[n][msg] ELSE 0

\* Block k of validator v is on its way to node n until a message is lost; once n
\* has asked for it, the block and the request are on their way twice, but for
\* the losses.
OnItsWay(v, n, k) ==
  LET sent == Copies(n, BlockMessage(SubSeq(chain[v], 1, k)))
  IN  /\ losses = 0 => sent >= 1
      /\ k \in requested_blocks[n] => sent + Copies(v, GetMessage(k)) + losses >= 2

\* The inductive invariant of RequestsAreLive: every block that a node neither
\* holds nor keeps is on its way.
DeliveryInv ==
  /\ \A n \in Nodes : IsABag(inbox[n])
  /\ \A v \in ValidatorSet :
       /\ requested_blocks[v] = {}
       /\ \A n \in Nodes :
            /\ requested_blocks[n] \subseteq 1..Len(chain[v])
            /\ \A k \in ((Len(chain[n]) + 1)..Len(chain[v])) \ DOMAIN block_buffer[n] :
                 OnItsWay(v, n, k)
=============================================================================
