------------------------------ MODULE Snapshot ------------------------------
(***************************************************************************)
(* Snapshots (node/src/snapshot.rs): export of a node's chain and world    *)
(* into a file, and import of a file into the database of a node that may  *)
(* hold a chain already, with a crash between any two writes.  Blocks up   *)
(* to ForkAt are common to all chains, the blocks above are of a branch.   *)
(***************************************************************************)
EXTENDS Naturals

CONSTANTS Branches, ForkAt, MaxBlock

VARIABLES
  index,      \* block number |-> the block stored under it, or None
  latest,     \* the latest block number
  world,      \* the block of which the game state is stored
  file,       \* the snapshot file: blocks 0..height of a branch, and a world
  importing,  \* the next write of a running import, or Idle
  fits,       \* whether the import that runs continues the chain stored
  mixed,      \* whether an import that did not fit was cut off
  done        \* whether the last import ended and nothing happened since

vars == <<index, latest, world, file, importing, fits, mixed, done>>

None == "none"
\* The steps of an import after the blocks, and none at all.
LatestStep == MaxBlock + 1
WorldStep == MaxBlock + 2
Idle == MaxBlock + 3
Block(n, branch) == IF n <= ForkAt THEN "trunk" ELSE branch

\* The blocks up to a height are all there and of one chain.
OneChain(chain, height) ==
  /\ \A n \in 0..height : chain[n] # None
  /\ \A m, n \in ForkAt + 1..height : chain[m] = chain[n]

TypeOK ==
  /\ index \in [0..MaxBlock -> Branches \cup {"trunk", None}]
  /\ latest \in 0..MaxBlock
  /\ importing \in 0..Idle
  /\ fits \in BOOLEAN /\ mixed \in BOOLEAN /\ done \in BOOLEAN

\* A database and a file, each of a node that has run for a while.
Init ==
  \E branch, other \in Branches, height, at \in 0..MaxBlock :
    /\ index = [n \in 0..MaxBlock |-> IF n <= height THEN Block(n, branch) ELSE None]
    /\ latest = height
    /\ world = <<height, Block(height, branch)>>
    /\ file = [complete |-> TRUE, blocks |-> [n \in 0..at |-> Block(n, other)],
               height |-> at, world |-> <<at, Block(at, other)>>]
    /\ importing = Idle /\ fits = FALSE /\ mixed = FALSE /\ done = FALSE

\* The node applies a block on top of its head, and saves the world.
Grow(branch) ==
  /\ importing = Idle /\ latest < MaxBlock
  /\ index[latest] \in {"trunk", branch}
  /\ index' = [index EXCEPT ![latest + 1] = Block(latest + 1, branch)]
  /\ latest' = latest + 1
  /\ world' = <<latest + 1, Block(latest + 1, branch)>>
  /\ done' = FALSE
  /\ UNCHANGED <<file, importing, fits, mixed>>

\* The export collects the blocks and writes the file, which it creates first:
\* a missing block or a failing write leaves an incomplete file where there may
\* have been a good one.
ExportSnapshot ==
  /\ importing = Idle
  /\ \E complete \in BOOLEAN :
       /\ complete => \A n \in 0..latest : index[n] # None
       /\ file' = [complete |-> complete, blocks |-> [n \in 0..latest |-> index[n]],
                   height |-> latest, world |-> world]
  /\ done' = FALSE
  /\ UNCHANGED <<index, latest, world, importing, fits, mixed>>

-----------------------------------------------------------------------------
\* import_snapshot reads the whole file, an incomplete one is an error, and then
\* writes the blocks one by one, the latest number, and the game state.  The
\* accounts are not in the file.
ImportSnapshot ==
  /\ importing = Idle
  /\ file.complete
  /\ importing' = 0
  /\ fits' = \A n \in 0..file.height : n <= latest => index[n] = file.blocks[n]
  /\ done' = FALSE
  /\ UNCHANGED <<index, latest, world, file, mixed>>

\* Sets the latest number with the first block.
PutBlockAndLatest ==
  /\ importing \in 0..MaxBlock
  /\ index' = [index EXCEPT ![importing] = file.blocks[importing]]
  /\ latest' = file.height
  /\ importing' = IF importing = file.height THEN LatestStep ELSE importing + 1
  /\ UNCHANGED <<world, file, fits, mixed, done>>

PutBlock ==
  /\ importing \in 0..MaxBlock
  /\ index' = [index EXCEPT ![importing] = file.blocks[importing]]
  /\ importing' = IF importing = file.height THEN LatestStep ELSE importing + 1
  /\ UNCHANGED <<latest, world, file, fits, mixed, done>>

PutLatest ==
  /\ importing = LatestStep
  /\ latest' = file.height
  /\ importing' = WorldStep
  /\ UNCHANGED <<index, world, file, fits, mixed, done>>

PutGameState ==
  /\ importing = WorldStep
  /\ world' = file.world
  /\ importing' = Idle /\ done' = TRUE
  /\ mixed' = ~OneChain(file.blocks, file.height)
  /\ UNCHANGED <<index, latest, file, fits>>

\* The process ends, or a write fails.
Crash ==
  /\ importing # Idle
  /\ importing' = Idle
  /\ mixed' = (mixed \/ ~fits)
  /\ UNCHANGED <<index, latest, world, file, fits, done>>

Next ==
  \/ \E branch \in Branches : Grow(branch)
  \/ ExportSnapshot \/ ImportSnapshot \/ PutBlock \/ PutLatest \/ PutGameState \/ Crash

Spec == Init /\ [][Next]_vars

-----------------------------------------------------------------------------
\* An import that ends leaves exactly the chain and the world of the file,
\* whatever was stored before and however often it was cut off; and one that
\* continues the stored chain can be cut off between any two writes and still
\* leaves a whole chain.  Only an import into another branch, cut off, can mix two.
RestoreSound ==
  /\ done => /\ latest = file.height /\ world = file.world
             /\ \A n \in 0..latest : index[n] = file.blocks[n]
  /\ (IF importing = Idle THEN ~mixed ELSE fits /\ ~mixed) => OneChain(index, latest)
=============================================================================
