------------------------------- MODULE TxPool -------------------------------
(***************************************************************************)
(* The transaction pool, crates/txpool/src/pool.rs.                        *)
(*                                                                         *)
(* TransactionPool keeps two concurrent maps, by_hash and by_sender, and   *)
(* no lock over both.  It is shared by the RPC handlers and the network    *)
(* task, which add transactions, and by the tasks that apply blocks, which *)
(* remove them.  One DashMap call is one atomic step here; an operation is *)
(* the sequence of DashMap calls its source makes, and the operations of   *)
(* different threads interleave between calls.                             *)
(***************************************************************************)
EXTENDS TxPoolConfig

VARIABLES
  by_hash,    \* the transactions of the hash index (a hash names one transaction)
  by_sender,  \* the transactions of all sender queues; s's queue is Queue(s)
  entries,    \* the senders that have a queue, perhaps an empty one
  pc,         \* where each thread is inside its operation
  arg,        \* the transaction each thread's operation is about
  overlap     \* history: an operation has begun while another was in progress

vars == <<by_hash, by_sender, entries, pc, arg, overlap>>

Steps == {"idle", "add_capacity", "add_nonce", "add_hash", "add_sender",
          "rm_sender", "rm_entry", "clear_sender"}

TypeOK ==
  /\ by_hash \in SUBSET Tx
  /\ by_sender \in SUBSET Tx
  /\ entries \in SUBSET Address
  /\ pc \in [Threads -> Steps]
  /\ arg \in [Threads -> Tx \cup {NoTx}]
  /\ \A t \in Threads : pc[t] \notin {"idle", "clear_sender"} => arg[t] \in Tx
  /\ overlap \in BOOLEAN

Queue(s) == {x \in by_sender : x.sender = s}

\* The transactions that occupy the BTreeMap slot a transaction is filed in.
Slot(x) == {y \in by_sender : y.sender = x.sender /\ y.nonce = x.nonce}

Init ==
  /\ by_hash = {} /\ by_sender = {} /\ entries = {}
  /\ pc = [t \in Threads |-> "idle"]
  /\ arg = [t \in Threads |-> NoTx]
  /\ overlap = FALSE

\* No operation is in progress.
Quiescent == \A t \in Threads : pc[t] = "idle"

Call(t, step) ==
  /\ pc' = [pc EXCEPT ![t] = step]
  /\ overlap' = (overlap \/ ~Quiescent)

Goto(t, step) ==
  /\ pc' = [pc EXCEPT ![t] = step]
  /\ UNCHANGED overlap

Return(t) == Goto(t, "idle") /\ arg' = [arg EXCEPT ![t] = NoTx]

-----------------------------------------------------------------------------
(* Variants of the steps below with a plausible bug each.  Next does not   *)
(* use them; checking with one in place of its step shows which property   *)
(* would catch the bug.                                                    *)

\* The capacity check is off by one.
AddCapacity_OffByOne(t) ==
  /\ pc[t] = "add_capacity"
  /\ \/ Cardinality(by_hash) <= max_size /\ Goto(t, "add_nonce") /\ UNCHANGED arg
     \/ Cardinality(by_hash) > max_size /\ Return(t)
  /\ UNCHANGED <<by_hash, by_sender, entries>>

\* remove_transaction forgets the sender queue.
RemoveSender_Skip(t) ==
  /\ pc[t] = "rm_sender"
  /\ Return(t)
  /\ UNCHANGED <<by_hash, by_sender, entries>>
-----------------------------------------------------------------------------
(* add_transaction: three checks, then the two insertions.  A rejected     *)
(* call returns an error and leaves both maps alone.                       *)

\* The hash is not in the pool yet (otherwise AlreadyExists).
AddStart(t, x) ==
  /\ pc[t] = "idle"
  /\ x \notin by_hash
  /\ Call(t, "add_capacity")
  /\ arg' = [arg EXCEPT ![t] = x]
  /\ UNCHANGED <<by_hash, by_sender, entries>>

\* by_hash.len() is compared with the capacity (PoolFull).
AddCapacity(t) ==
  /\ pc[t] = "add_capacity"
  /\ \/ Cardinality(by_hash) < max_size /\ Goto(t, "add_nonce") /\ UNCHANGED arg
     \/ Cardinality(by_hash) >= max_size /\ Return(t)
  /\ UNCHANGED <<by_hash, by_sender, entries>>

\* The sender's queue must not hold the nonce (InvalidTransaction).
AddNonce(t) ==
  /\ pc[t] = "add_nonce"
  /\ \/ Slot(arg[t]) = {} /\ Goto(t, "add_hash") /\ UNCHANGED arg
     \/ Slot(arg[t]) # {} /\ Return(t)
  /\ UNCHANGED <<by_hash, by_sender, entries>>

AddHash(t) ==
  /\ pc[t] = "add_hash"
  /\ by_hash' = by_hash \cup {arg[t]}
  /\ Goto(t, "add_sender")
  /\ UNCHANGED <<by_sender, entries, arg>>

\* entry(sender).or_default().txs.insert(nonce, tx) replaces what the slot held.
AddSender(t) ==
  /\ pc[t] = "add_sender"
  /\ by_sender' = (by_sender \ Slot(arg[t])) \cup {arg[t]}
  /\ entries' = entries \cup {arg[t].sender}
  /\ Return(t)
  /\ UNCHANGED by_hash

-----------------------------------------------------------------------------
(* remove_transaction, which remove_included calls for every transaction   *)
(* of an applied block.                                                    *)

RemoveStart(t, x) ==
  /\ pc[t] = "idle"
  /\ x \in by_hash
  /\ by_hash' = by_hash \ {x}
  /\ Call(t, "rm_sender")
  /\ arg' = [arg EXCEPT ![t] = x]
  /\ UNCHANGED <<by_sender, entries>>

\* get_mut(sender): the slot is emptied by nonce, whatever it holds.  When the
\* queue is left empty its guard is dropped before the entry is removed.
RemoveSender(t) ==
  /\ pc[t] = "rm_sender"
  /\ \/ /\ arg[t].sender \in entries
        /\ by_sender' = by_sender \ Slot(arg[t])
        /\ IF Queue(arg[t].sender) \subseteq Slot(arg[t])
             THEN Goto(t, "rm_entry") /\ UNCHANGED arg
             ELSE Return(t)
     \/ /\ arg[t].sender \notin entries
        /\ Return(t)
        /\ UNCHANGED by_sender
  /\ UNCHANGED <<by_hash, entries>>

\* by_sender.remove(&sender) drops the whole queue, without looking again.
RemoveEntry(t) ==
  /\ pc[t] = "rm_entry"
  /\ by_sender' = by_sender \ Queue(arg[t].sender)
  /\ entries' = entries \ {arg[t].sender}
  /\ Return(t)
  /\ UNCHANGED by_hash

-----------------------------------------------------------------------------
(* clear                                                                   *)

ClearHash(t) ==
  /\ pc[t] = "idle"
  /\ by_hash' = {}
  /\ Call(t, "clear_sender")
  /\ UNCHANGED <<by_sender, entries, arg>>

ClearSender(t) ==
  /\ pc[t] = "clear_sender"
  /\ by_sender' = {} /\ entries' = {}
  /\ Return(t)
  /\ UNCHANGED by_hash

-----------------------------------------------------------------------------
Next ==
  \E t \in Threads :
    \/ \E x \in Tx : AddStart(t, x) \/ RemoveStart(t, x)
    \/ AddCapacity(t) \/ AddNonce(t) \/ AddHash(t) \/ AddSender(t)
    \/ RemoveSender(t) \/ RemoveEntry(t)
    \/ ClearHash(t) \/ ClearSender(t)

Spec == Init /\ [][Next]_vars

-----------------------------------------------------------------------------
(* Properties                                                              *)

\* Threads that passed the capacity check and have not inserted yet.
PastCapacityCheck == {t \in Threads : pc[t] \in {"add_nonce", "add_hash"}}

\* The capacity check of add_transaction and its insertion are separate steps,
\* so the pool can outgrow max_size, but never by as much as one transaction
\* per thread: every thread that inserts saw room after the previous one of
\* its own insertions.
CapacityOvershoot == Cardinality(by_hash) < max_size + Cardinality(Threads)

\* The inductive form of CapacityOvershoot: a thread between check and insertion
\* already counts as the transaction it may insert.
CapacityInv ==
  Cardinality(by_hash) + Cardinality(PastCapacityCheck) < max_size + Cardinality(Threads)

\* As long as the calls have come one after the other, max_size is the "Maximum
\* number of transactions in the pool" (pool.rs:14).
CapacityExact == ~overlap => Cardinality(by_hash) <= max_size

\* As long as the calls have come one after the other, the two indexes describe one
\* set of transactions between calls: add_transaction, remove_transaction and
\* clear each change both.
IndexesAgree == ~overlap /\ Quiescent => by_hash = by_sender

\* Then no sender has two transactions of one nonce in the hash index either: the
\* collision check of add_transaction looks at the queues only.
NonceUnique ==
  ~overlap /\ Quiescent => \A x, y \in by_hash :
    x.sender = y.sender /\ x.nonce = y.nonce => x = y

\* And a sender has a queue entry exactly when it has a transaction:
\* remove_transaction leaves no empty queue behind.
NoEmptyQueue == ~overlap /\ Quiescent => entries = {x.sender : x \in by_sender}

\* While calls have not overlapped the pool holds at most max_size transactions, and
\* between them it is consistent: its indexes hold the same transactions, one per
\* sender and nonce, and no empty queue stays.
PoolConsistent == CapacityExact /\ IndexesAgree /\ NonceUnique /\ NoEmptyQueue

\* by_hash is "All transactions indexed by hash", by_sender is "Transactions grouped
\* by sender" (pool.rs:26, 28): when no call is in progress, they hold the same
\* transactions, whatever calls there were.
IndexesAlwaysAgree == Quiescent => by_hash = by_sender

-----------------------------------------------------------------------------
(* Calls one after the other: what holds in the middle of an operation.    *)

AtMostOneCall ==
  \A t, u \in Threads : pc[t] # "idle" /\ pc[u] # "idle" => t = u

Consistent == by_hash = by_sender /\ entries = {x.sender : x \in by_sender}

\* How the two indexes differ at each step of the only call in progress.
SerialStep(t) ==
  /\ pc[t] \in {"add_capacity", "add_nonce", "add_hash"} => Consistent
  /\ pc[t] = "add_hash" => Slot(arg[t]) = {}
  /\ pc[t] = "add_sender" => by_hash = by_sender \cup {arg[t]} /\ Slot(arg[t]) = {}
  /\ pc[t] = "rm_sender" => by_sender = by_hash \cup {arg[t]} /\ arg[t] \notin by_hash
  /\ pc[t] = "clear_sender" => by_hash = {}
  /\ pc[t] = "rm_entry" => by_hash = by_sender /\ Queue(arg[t].sender) = {}
  /\ pc[t] \notin {"rm_entry", "clear_sender", "idle"} => entries = {x.sender : x \in by_sender}
  /\ pc[t] = "rm_entry" =>
       entries = {x.sender : x \in by_sender} \cup {arg[t].sender}

SlotsUnique ==
  \A x, y \in by_sender : x.sender = y.sender /\ x.nonce = y.nonce => x = y

\* The inductive invariant of the calls one after the other.
SerialInv ==
  ~overlap =>
    /\ AtMostOneCall
    /\ SlotsUnique
    /\ Quiescent => Consistent
    /\ \A t \in Threads : SerialStep(t)

=============================================================================
