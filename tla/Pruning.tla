------------------------------- MODULE Pruning -------------------------------
(***************************************************************************)
(* The pruning engine (storage/src/pruning.rs) next to a chain whose head  *)
(* advances, jumps or goes back.  The caller deletes the blocks of the     *)
(* targets, and queues the blocks whose hashes it knows in their order.    *)
(***************************************************************************)
EXTENDS Naturals, Sequences

CONSTANTS
  First,            \* the lowest block of the database at the start
  keep,             \* blocks to keep
  batch_size,       \* blocks pruned at once, at most
  interval_blocks,  \* blocks between runs
  MaxHead           \* bound: the highest block

VARIABLES
  mode,              \* Archive, KeepRecent or LightPrune
  chain_head,
  lowest_block,
  pending_queue,     \* numbers of the blocks enqueued
  last_prune_block,
  next_queued,       \* the block the caller enqueues next
  targeted,          \* blocks ever handed out as targets
  highest            \* the highest head so far

vars == <<mode, chain_head, lowest_block, pending_queue, last_prune_block,
          next_queued, targeted, highest>>

TypeOK ==
  /\ mode \in {"Archive", "KeepRecent", "LightPrune"}
  /\ {chain_head, lowest_block, last_prune_block, highest} \subseteq 0..MaxHead
  /\ pending_queue \in Seq(First..MaxHead) /\ targeted \subseteq First..MaxHead

Init ==
  /\ mode \in {"Archive", "KeepRecent", "LightPrune"}
  /\ chain_head = First /\ lowest_block = First /\ highest = First
  /\ pending_queue = <<>> /\ last_prune_block = 0
  /\ next_queued = First /\ targeted = {}

-----------------------------------------------------------------------------
\* lowest_block once m queued blocks have been taken.
LowestAfter(m) == IF m = 0 THEN lowest_block ELSE pending_queue[m] + 1

\* How many queued blocks the loop may take: they and lowest_block are below the
\* cutoff each time.
Ready(cutoff) ==
  {m \in 0..Len(pending_queue) :
     m <= batch_size /\ \A j \in 1..m : pending_queue[j] < cutoff /\ LowestAfter(j - 1) < cutoff}

Taken(cutoff) == CHOOSE m \in Ready(cutoff) : \A n \in Ready(cutoff) : n <= m

\* Once the queue is empty, the loop makes up targets from lowest_block on.
MadeUp(cutoff) ==
  LET low == LowestAfter(Taken(cutoff))
      left == IF low < cutoff THEN cutoff - low ELSE 0
      room == batch_size - Taken(cutoff)
  IN  IF Taken(cutoff) < Len(pending_queue) THEN 0 ELSE IF left < room THEN left ELSE room

\* The loop of generate_prune_targets: the targets, and what it leaves.
Targets(cutoff) ==
  LET low == LowestAfter(Taken(cutoff))
  IN  [targets |-> {pending_queue[j] : j \in 1..Taken(cutoff)} \cup low..low + MadeUp(cutoff) - 1,
       lowest |-> low + MadeUp(cutoff),
       queue |-> SubSeq(pending_queue, Taken(cutoff) + 1, Len(pending_queue))]

\* Prunes the first block of the window too.
PruneTooFar(head) == Targets(IF head > keep THEN head - keep + 1 ELSE 0)

\* Nothing while the whole chain is within the window.
GeneratePruneTargets(head) == Targets(IF head > keep THEN head - keep ELSE 0)

\* The difference of two u64 wraps when the head is below the last run.
Elapsed(head) == head < last_prune_block \/ head - last_prune_block >= interval_blocks

OnNewBlock(head) ==
  /\ chain_head' = head
  /\ highest' = IF head > highest THEN head ELSE highest
  /\ IF mode = "Archive" \/ ~Elapsed(head)
     THEN UNCHANGED <<lowest_block, pending_queue, last_prune_block, targeted>>
     ELSE LET w == GeneratePruneTargets(head) IN
          /\ last_prune_block' = head
          /\ lowest_block' = w.lowest
          /\ pending_queue' = w.queue
          /\ targeted' = targeted \cup w.targets
  /\ UNCHANGED <<mode, next_queued>>

EnqueueBlock ==
  /\ next_queued <= chain_head
  /\ pending_queue' = Append(pending_queue, next_queued)
  /\ next_queued' = next_queued + 1
  /\ UNCHANGED <<mode, chain_head, lowest_block, last_prune_block, targeted, highest>>

\* The head moves on by any number of blocks, or back by one.
Next ==
  \/ \E head \in (chain_head + 1)..MaxHead : OnNewBlock(head)
  \/ chain_head > First /\ OnNewBlock(chain_head - 1)
  \/ EnqueueBlock

Spec == Init /\ [][Next]_vars

-----------------------------------------------------------------------------
\* Pruning leaves no hole and keeps the window: every block below lowest_block
\* has been handed out for deletion, though queued and synthetic targets mix
\* and a queued block below lowest_block moves it back; and a block handed out
\* was more than keep blocks below the head, whatever the head did since.
PrunedPrefix ==
  /\ \A b \in First..lowest_block - 1 : b \in targeted
  /\ \A b \in targeted : mode # "Archive" /\ b + keep < highest
=============================================================================
