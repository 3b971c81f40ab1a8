----------------------------- MODULE TxPoolProofs -----------------------------
(* Theorems about TxPool for every set of threads, transactions and senders  *)
(* and every capacity.                                                       *)
EXTENDS MCCalls, FiniteSetTheorems, TLAPS

\* The maps, the threads' positions and their arguments keep their types.
THEOREM TypeCorrect == Pool!Spec => []Pool!TypeOK
<1>1. Pool!Init => Pool!TypeOK
  BY DEF Pool!Init, Pool!TypeOK, Pool!Steps
<1>2. Pool!TypeOK /\ [Pool!Next]_Pool!vars => Pool!TypeOK'
  <2> SUFFICES ASSUME Pool!TypeOK, [Pool!Next]_Pool!vars PROVE Pool!TypeOK'
    OBVIOUS
  <2> USE TxPoolAssumption DEF Pool!TypeOK, Pool!Steps, Pool!Call, Pool!Goto, Pool!Return
  <2>1. ASSUME NEW t \in Threads, NEW x \in Tx, Pool!AddStart(t, x) PROVE Pool!TypeOK'
    BY <2>1 DEF Pool!AddStart
  <2>2. ASSUME NEW t \in Threads, NEW x \in Tx, Pool!RemoveStart(t, x) PROVE Pool!TypeOK'
    BY <2>2 DEF Pool!RemoveStart
  <2>3. ASSUME NEW t \in Threads, Pool!AddCapacity(t) PROVE Pool!TypeOK'
    BY <2>3 DEF Pool!AddCapacity
  <2>4. ASSUME NEW t \in Threads, Pool!AddNonce(t) PROVE Pool!TypeOK'
    BY <2>4 DEF Pool!AddNonce
  <2>5. ASSUME NEW t \in Threads, Pool!AddHash(t) PROVE Pool!TypeOK'
    BY <2>5 DEF Pool!AddHash
  <2>6. ASSUME NEW t \in Threads, Pool!AddSender(t) PROVE Pool!TypeOK'
    BY <2>6 DEF Pool!AddSender
  <2>7. ASSUME NEW t \in Threads, Pool!RemoveSender(t) PROVE Pool!TypeOK'
    BY <2>7 DEF Pool!RemoveSender
  <2>8. ASSUME NEW t \in Threads, Pool!RemoveEntry(t) PROVE Pool!TypeOK'
    BY <2>8 DEF Pool!RemoveEntry
  <2>9. ASSUME NEW t \in Threads, Pool!ClearHash(t) PROVE Pool!TypeOK'
    BY <2>9 DEF Pool!ClearHash
  <2>10. ASSUME NEW t \in Threads, Pool!ClearSender(t) PROVE Pool!TypeOK'
    BY <2>10 DEF Pool!ClearSender
  <2>11. CASE UNCHANGED Pool!vars
    BY <2>11 DEF Pool!vars
  <2> QED
    BY <2>1, <2>2, <2>3, <2>4, <2>5, <2>6, <2>7, <2>8, <2>9, <2>10, <2>11 DEF Pool!Next
<1> QED
  BY <1>1, <1>2, PTL DEF Pool!Spec

-----------------------------------------------------------------------------
(* The capacity bound.                                                     *)

\* PastCapacityCheck is a finite set no larger than the set of threads.
LEMMA PastCapacityCheckSize ==
  /\ IsFiniteSet(Pool!PastCapacityCheck)
  /\ Cardinality(Pool!PastCapacityCheck) \in Nat
  /\ Cardinality(Threads) \in Nat
  /\ Cardinality(Pool!PastCapacityCheck) <= Cardinality(Threads)
<1>1. Pool!PastCapacityCheck \subseteq Threads
  BY DEF Pool!PastCapacityCheck
<1> QED
  BY <1>1, TxPoolAssumption, FS_Subset, FS_CardinalityType

\* A set of transactions is finite, and a subset of it is no larger.
LEMMA TxSetSize ==
  ASSUME NEW S \in SUBSET Tx
  PROVE  /\ IsFiniteSet(S)
         /\ Cardinality(S) \in Nat
         /\ \A R \in SUBSET S : Cardinality(R) <= Cardinality(S)
         /\ \A x \in Tx : Cardinality(S \cup {x}) <= Cardinality(S) + 1
<1>1. IsFiniteSet(S) /\ Cardinality(S) \in Nat
  BY TxPoolAssumption, FS_Subset, FS_CardinalityType
<1>2. \A R \in SUBSET S : Cardinality(R) <= Cardinality(S)
  BY <1>1, FS_Subset
<1>3. ASSUME NEW x \in Tx PROVE Cardinality(S \cup {x}) <= Cardinality(S) + 1
  <2>1. CASE x \in S
    <3>1. Cardinality(S \cup {x}) = Cardinality(S)
      <4>1. S \cup {x} = S
        BY <2>1
      <4> QED
        BY <4>1, Zenon
    <3> QED
      BY <3>1, <1>1
  <2>2. CASE x \notin S
    <3>1. Cardinality(S \cup {x}) = Cardinality(S) + 1
      BY <2>2, <1>1, FS_AddElement
    <3> QED
      BY <3>1, <1>1
  <2> QED
    BY <2>1, <2>2
<1> QED
  BY <1>1, <1>2, <1>3

\* The pool counts as FiniteSets does.
LEMMA PoolCounts == \A set : Pool!Cardinality(set) = Cardinality(set)
BY Zenon DEF Pool!Cardinality, Cardinality

\* The calls of the pool are steps of its module, and the others change nothing of it.
LEMMA PoolCalls == MCSpec => Pool!Spec
<1>1. MCInit => Pool!Init
  BY DEF MCInit
<1>2. [MCNext]_allvars => [Pool!Next]_Pool!vars
  BY DEF MCNext, CallPool, CallSessions, Vote, allvars, poolVars, sessionVars,
         validatorVars, Pool!vars
<1>3. QED
  BY <1>1, <1>2, PTL DEF MCSpec, Pool!Spec

\* The pool never holds max_size plus one transaction per thread, whatever the
\* interleaving of add_transaction, remove_transaction and clear.
THEOREM CapacityTheorem == MCSpec => []CapacityOvershoot
<1>1. Pool!Init => Pool!CapacityInv
  <2> SUFFICES ASSUME Pool!Init PROVE Pool!CapacityInv
    OBVIOUS
  <2>1. Pool!PastCapacityCheck = {} /\ by_hash = {}
    BY DEF Pool!Init, Pool!PastCapacityCheck
  <2>2. Cardinality(Threads) \in Nat /\ Cardinality(Threads) # 0
    BY TxPoolAssumption, FS_CardinalityType, FS_EmptySet
  <2> QED
    BY <2>1, <2>2, FS_EmptySet, TxPoolAssumption, PoolCounts DEF Pool!CapacityInv
<1>2. Pool!TypeOK /\ Pool!CapacityInv /\ [Pool!Next]_Pool!vars => Pool!CapacityInv'
  <2> SUFFICES ASSUME Pool!TypeOK, Pool!CapacityInv, [Pool!Next]_Pool!vars
               PROVE Pool!CapacityInv'
    OBVIOUS
  <2> DEFINE P == Pool!PastCapacityCheck
             H == Cardinality(by_hash)
  <2>a. /\ Cardinality(P) \in Nat /\ Cardinality(Threads) \in Nat
        /\ IsFiniteSet(P) /\ Cardinality(P) <= Cardinality(Threads)
    BY PastCapacityCheckSize
  <2>b. /\ Cardinality(P') \in Nat
        /\ IsFiniteSet(P') /\ Cardinality(P') <= Cardinality(Threads)
    <3>1. P' \subseteq Threads
      BY DEF Pool!PastCapacityCheck
    <3> QED
      BY <3>1, TxPoolAssumption, FS_Subset, FS_CardinalityType
  <2>c. max_size \in Nat /\ H \in Nat /\ IsFiniteSet(by_hash)
    BY TxSetSize, TxPoolAssumption DEF Pool!TypeOK
  <2>d. ASSUME by_hash' \subseteq by_hash, P' \subseteq P PROVE Pool!CapacityInv'
    <3>1. Cardinality(P') <= Cardinality(P)
      BY <2>a, <2>d, FS_Subset
    <3>2. Cardinality(by_hash') <= H /\ Cardinality(by_hash') \in Nat
      BY <2>c, <2>d, FS_Subset, FS_CardinalityType
    <3> QED
      BY <3>1, <3>2, <2>a, <2>b, <2>c, PoolCounts DEF Pool!CapacityInv
  <2> USE DEF Pool!Call, Pool!Goto, Pool!Return
  <2>1. ASSUME NEW t \in Threads, NEW x \in Tx, Pool!AddStart(t, x) PROVE Pool!CapacityInv'
    BY <2>1, <2>d DEF Pool!AddStart, Pool!PastCapacityCheck, Pool!TypeOK
  <2>2. ASSUME NEW t \in Threads, NEW x \in Tx, Pool!RemoveStart(t, x) PROVE Pool!CapacityInv'
    BY <2>2, <2>d DEF Pool!RemoveStart, Pool!PastCapacityCheck, Pool!TypeOK
  <2>3. ASSUME NEW t \in Threads, Pool!AddCapacity(t) PROVE Pool!CapacityInv'
    <3>1. CASE H < max_size /\ by_hash' = by_hash
      BY <3>1, <2>a, <2>b, <2>c, PoolCounts DEF Pool!CapacityInv
    <3>2. CASE H >= max_size /\ Pool!Return(t) /\ by_hash' = by_hash
      BY <3>2, <2>d DEF Pool!PastCapacityCheck, Pool!TypeOK
    <3> QED
      BY <2>3, <3>1, <3>2, PoolCounts DEF Pool!AddCapacity
  <2>4. ASSUME NEW t \in Threads, Pool!AddNonce(t) PROVE Pool!CapacityInv'
    BY <2>4, <2>d DEF Pool!AddNonce, Pool!PastCapacityCheck, Pool!TypeOK
  <2>5. ASSUME NEW t \in Threads, Pool!AddHash(t) PROVE Pool!CapacityInv'
    <3>1. P' = P \ {t} /\ t \in P
      BY <2>5 DEF Pool!AddHash, Pool!PastCapacityCheck, Pool!TypeOK
    <3>2. Cardinality(P') = Cardinality(P) - 1
      BY <3>1, <2>a, FS_RemoveElement
    <3>3. pool_arg[t] \in Tx /\ by_hash' = by_hash \cup {pool_arg[t]}
      BY <2>5 DEF Pool!AddHash, Pool!TypeOK
    <3>4. Cardinality(by_hash') <= H + 1 /\ Cardinality(by_hash') \in Nat
      BY <3>3, TxSetSize DEF Pool!TypeOK
    <3> QED
      BY <3>2, <3>4, <2>a, <2>b, <2>c, PoolCounts DEF Pool!CapacityInv
  <2>6. ASSUME NEW t \in Threads, Pool!AddSender(t) PROVE Pool!CapacityInv'
    BY <2>6, <2>d DEF Pool!AddSender, Pool!PastCapacityCheck, Pool!TypeOK
  <2>7. ASSUME NEW t \in Threads, Pool!RemoveSender(t) PROVE Pool!CapacityInv'
    BY <2>7, <2>d DEF Pool!RemoveSender, Pool!PastCapacityCheck, Pool!TypeOK
  <2>8. ASSUME NEW t \in Threads, Pool!RemoveEntry(t) PROVE Pool!CapacityInv'
    BY <2>8, <2>d DEF Pool!RemoveEntry, Pool!PastCapacityCheck, Pool!TypeOK
  <2>9. ASSUME NEW t \in Threads, Pool!ClearHash(t) PROVE Pool!CapacityInv'
    BY <2>9, <2>d DEF Pool!ClearHash, Pool!PastCapacityCheck, Pool!TypeOK
  <2>10. ASSUME NEW t \in Threads, Pool!ClearSender(t) PROVE Pool!CapacityInv'
    BY <2>10, <2>d DEF Pool!ClearSender, Pool!PastCapacityCheck, Pool!TypeOK
  <2>11. CASE UNCHANGED Pool!vars
    BY <2>11, <2>d DEF Pool!vars, Pool!PastCapacityCheck
  <2> QED
    BY <2>1, <2>2, <2>3, <2>4, <2>5, <2>6, <2>7, <2>8, <2>9, <2>10, <2>11 DEF Pool!Next
<1>3. Pool!TypeOK /\ Pool!CapacityInv => Pool!CapacityOvershoot
  <2> SUFFICES ASSUME Pool!TypeOK, Pool!CapacityInv PROVE Pool!CapacityOvershoot
    OBVIOUS
  <2>1. Cardinality(by_hash) \in Nat
    BY TxSetSize DEF Pool!TypeOK
  <2> QED
    BY <2>1, PastCapacityCheckSize, TxPoolAssumption, PoolCounts DEF Pool!CapacityInv,
       Pool!CapacityOvershoot
<1> QED
  BY <1>1, <1>2, <1>3, TypeCorrect, PoolCalls, PTL DEF Pool!Spec, CapacityOvershoot

-----------------------------------------------------------------------------
(* Calls one after the other.                                              *)

\* As long as no two calls have overlapped, the pool keeps SerialInv, the
\* invariant that says how far the indexes may differ in the middle of a call.
THEOREM SerialInvariant == Pool!Spec => []Pool!SerialInv
<1>1. Pool!Init => Pool!SerialInv
  BY DEF Pool!Init, Pool!SerialInv, Pool!AtMostOneCall, Pool!SlotsUnique, Pool!Consistent,
         Pool!SerialStep
<1>2. Pool!TypeOK /\ Pool!SerialInv /\ [Pool!Next]_Pool!vars => Pool!SerialInv'
  <2> DEFINE SerialParts == /\ Pool!AtMostOneCall /\ Pool!SlotsUnique
                            /\ Pool!Quiescent => Pool!Consistent
                            /\ \A u \in Threads : Pool!SerialStep(u)
  <2> SUFFICES ASSUME Pool!TypeOK, Pool!SerialInv, [Pool!Next]_Pool!vars, ~pool_overlap'
               PROVE SerialParts'
    BY DEF Pool!SerialInv
  <2>0. ~pool_overlap
    BY DEF Pool!Next, Pool!AddStart, Pool!RemoveStart, Pool!AddCapacity, Pool!AddNonce,
           Pool!AddHash, Pool!AddSender, Pool!RemoveSender, Pool!RemoveEntry,
           Pool!ClearHash, Pool!ClearSender, Pool!Call, Pool!Goto, Pool!Return, Pool!vars
  <2>p. SerialParts
    BY <2>0 DEF Pool!SerialInv
  <2> HIDE DEF SerialParts
  <2> USE <2>0, <2>p, TxPoolAssumption
      DEF Pool!TypeOK, Pool!Steps, SerialParts, Pool!AtMostOneCall, Pool!SlotsUnique,
          Pool!Consistent, Pool!Quiescent, Pool!SerialStep, Pool!Call, Pool!Goto,
          Pool!Return, Pool!Slot, Pool!Queue
  <2>1. ASSUME NEW t \in Threads, NEW x \in Tx, Pool!AddStart(t, x) PROVE SerialParts'
    BY <2>1 DEF Pool!AddStart
  <2>2. ASSUME NEW t \in Threads, NEW x \in Tx, Pool!RemoveStart(t, x) PROVE SerialParts'
    <3>1. Pool!Quiescent /\ Pool!Consistent
      BY <2>2 DEF Pool!RemoveStart
    <3>2. /\ pool_pc' = [pool_pc EXCEPT ![t] = "rm_sender"] /\ pool_arg' = [pool_arg EXCEPT ![t] = x]
          /\ by_sender' = by_hash' \cup {x} /\ x \notin by_hash'
          /\ UNCHANGED <<by_sender, entries>>
      BY <2>2, <3>1 DEF Pool!RemoveStart
    <3>3. pool_pc'[t] = "rm_sender" /\ pool_arg'[t] = x /\ \A u \in Threads \ {t} : pool_pc'[u] = "idle"
      BY <3>1, <3>2
    <3>4. Pool!AtMostOneCall' /\ Pool!SlotsUnique' /\ ~Pool!Quiescent'
      BY <3>2, <3>3
    <3>5. \A u \in Threads : Pool!SerialStep(u)'
      BY <3>1, <3>2, <3>3
    <3> QED
      BY <3>4, <3>5
  <2>3. ASSUME NEW t \in Threads, Pool!AddCapacity(t) PROVE SerialParts'
    BY <2>3 DEF Pool!AddCapacity
  <2>4. ASSUME NEW t \in Threads, Pool!AddNonce(t) PROVE SerialParts'
    BY <2>4 DEF Pool!AddNonce
  <2>5. ASSUME NEW t \in Threads, Pool!AddHash(t) PROVE SerialParts'
    BY <2>5 DEF Pool!AddHash
  <2>6. ASSUME NEW t \in Threads, Pool!AddSender(t) PROVE SerialParts'
    BY <2>6 DEF Pool!AddSender
  <2>7. ASSUME NEW t \in Threads, Pool!RemoveSender(t) PROVE SerialParts'
    <3>1. by_sender = by_hash \cup {pool_arg[t]} /\ entries = {x.sender : x \in by_sender}
      BY <2>7 DEF Pool!RemoveSender
    <3>2. pool_arg[t].sender \in entries
      BY <3>1
    <3>3. Pool!Slot(pool_arg[t]) = {pool_arg[t]}
      BY <3>1, <2>7 DEF Pool!RemoveSender
    <3>4. by_sender' = by_sender \ {pool_arg[t]} /\ by_hash' = by_hash /\ entries' = entries
      BY <3>2, <3>3, <2>7 DEF Pool!RemoveSender
    <3>5. Pool!SlotsUnique' /\ Pool!AtMostOneCall'
      BY <3>4, <2>7 DEF Pool!RemoveSender
    <3>6. CASE Pool!Queue(pool_arg[t].sender) \subseteq Pool!Slot(pool_arg[t])
      BY <3>1, <3>2, <3>3, <3>4, <3>5, <3>6, <2>7 DEF Pool!RemoveSender
    <3>7. CASE ~(Pool!Queue(pool_arg[t].sender) \subseteq Pool!Slot(pool_arg[t]))
      BY <3>1, <3>2, <3>3, <3>4, <3>5, <3>7, <2>7 DEF Pool!RemoveSender
    <3> QED
      BY <3>6, <3>7
  <2>8. ASSUME NEW t \in Threads, Pool!RemoveEntry(t) PROVE SerialParts'
    BY <2>8 DEF Pool!RemoveEntry
  <2>9. ASSUME NEW t \in Threads, Pool!ClearHash(t) PROVE SerialParts'
    BY <2>9 DEF Pool!ClearHash
  <2>10. ASSUME NEW t \in Threads, Pool!ClearSender(t) PROVE SerialParts'
    BY <2>10 DEF Pool!ClearSender
  <2>11. CASE UNCHANGED Pool!vars
    BY <2>11 DEF Pool!vars
  <2> QED
    BY <2>1, <2>2, <2>3, <2>4, <2>5, <2>6, <2>7, <2>8, <2>9, <2>10, <2>11 DEF Pool!Next
<1> QED
  BY <1>1, <1>2, TypeCorrect, PTL DEF Pool!Spec

\* Of the calls one after the other, the one past the capacity check has room.
RoomInv ==
  ~pool_overlap => /\ Cardinality(by_hash) <= max_size
                   /\ Pool!PastCapacityCheck # {} => Cardinality(by_hash) < max_size

\* As long as no two calls have overlapped, the capacity check and the insertion
\* follow each other undisturbed.
LEMMA RoomKept == Pool!TypeOK /\ Pool!SerialInv /\ RoomInv /\ [Pool!Next]_Pool!vars => RoomInv'
<1> DEFINE H == Cardinality(by_hash)
           Room == H <= max_size /\ (Pool!PastCapacityCheck # {} => H < max_size)
<1> SUFFICES ASSUME Pool!TypeOK, Pool!SerialInv, RoomInv, [Pool!Next]_Pool!vars, ~pool_overlap'
             PROVE Room'
  BY DEF RoomInv
<1>1. ~pool_overlap
  BY DEF Pool!Next, Pool!AddStart, Pool!RemoveStart, Pool!AddCapacity, Pool!AddNonce,
         Pool!AddHash, Pool!AddSender, Pool!RemoveSender, Pool!RemoveEntry,
         Pool!ClearHash, Pool!ClearSender, Pool!Call, Pool!Goto, Pool!Return, Pool!vars
<1>2. Room /\ Pool!AtMostOneCall
  BY <1>1 DEF RoomInv, Pool!SerialInv
<1>3. H \in Nat /\ max_size \in Nat /\ IsFiniteSet(by_hash) /\ by_hash \subseteq Tx
  BY TxSetSize, TxPoolAssumption DEF Pool!TypeOK
<1> HIDE DEF Room
<1>4. ASSUME by_hash' \subseteq by_hash, Pool!PastCapacityCheck' \subseteq Pool!PastCapacityCheck
      PROVE Room'
  <2>1. Cardinality(by_hash') <= H /\ Cardinality(by_hash') \in Nat
    BY <1>3, <1>4, FS_Subset, FS_CardinalityType
  <2>2. Pool!PastCapacityCheck' # {} => Pool!PastCapacityCheck # {}
    BY <1>4
  <2> QED
    BY <1>2, <1>3, <2>1, <2>2 DEF Room
<1> USE DEF Pool!Call, Pool!Goto, Pool!Return
<1>5. ASSUME NEW t \in Threads, NEW x \in Tx, Pool!AddStart(t, x) \/ Pool!RemoveStart(t, x)
      PROVE Room'
  BY <1>4, <1>5 DEF Pool!AddStart, Pool!RemoveStart, Pool!PastCapacityCheck, Pool!TypeOK
<1>6. ASSUME NEW t \in Threads, Pool!AddCapacity(t) PROVE Room'
  <2>1. CASE H < max_size /\ by_hash' = by_hash
    BY <1>3, <2>1 DEF Room
  <2>2. CASE H >= max_size /\ Pool!Return(t) /\ by_hash' = by_hash
    BY <1>4, <2>2 DEF Pool!PastCapacityCheck, Pool!TypeOK
  <2> QED
    BY <1>6, <2>1, <2>2, PoolCounts DEF Pool!AddCapacity
<1>7. ASSUME NEW t \in Threads, Pool!AddNonce(t) PROVE Room'
  BY <1>4, <1>7 DEF Pool!AddNonce, Pool!PastCapacityCheck, Pool!TypeOK
<1>8. ASSUME NEW t \in Threads, Pool!AddHash(t) PROVE Room'
  <2>1. t \in Pool!PastCapacityCheck /\ H < max_size
    BY <1>2, <1>8 DEF Pool!AddHash, Pool!PastCapacityCheck, Room
  <2>2. pool_arg[t] \in Tx /\ by_hash' = by_hash \cup {pool_arg[t]}
    BY <1>8 DEF Pool!AddHash, Pool!TypeOK
  <2>3. Cardinality(by_hash') <= H + 1 /\ Cardinality(by_hash') \in Nat
    BY <2>2, TxSetSize DEF Pool!TypeOK
  <2>4. Pool!PastCapacityCheck' = {}
    BY <1>2, <1>8 DEF Pool!AddHash, Pool!AtMostOneCall, Pool!PastCapacityCheck, Pool!TypeOK
  <2> QED
    BY <1>3, <2>1, <2>3, <2>4 DEF Room
<1>9. ASSUME NEW t \in Threads, Pool!AddSender(t) \/ Pool!RemoveSender(t) \/ Pool!RemoveEntry(t)
      PROVE Room'
  BY <1>4, <1>9 DEF Pool!AddSender, Pool!RemoveSender, Pool!RemoveEntry,
                    Pool!PastCapacityCheck, Pool!TypeOK
<1>10. ASSUME NEW t \in Threads, Pool!ClearHash(t) \/ Pool!ClearSender(t) PROVE Room'
  BY <1>4, <1>10 DEF Pool!ClearHash, Pool!ClearSender, Pool!PastCapacityCheck, Pool!TypeOK
<1>11. CASE UNCHANGED Pool!vars
  BY <1>4, <1>11 DEF Pool!vars, Pool!PastCapacityCheck
<1> QED
  BY <1>5, <1>6, <1>7, <1>8, <1>9, <1>10, <1>11 DEF Pool!Next

\* As long as no two calls have overlapped, the pool holds at most max_size
\* transactions, and between calls its two indexes hold the same ones, one per
\* sender and nonce, with no empty queue left behind.
THEOREM SerialPool == MCSpec => []PoolConsistent
<1>1. Pool!Init => RoomInv
  <2> SUFFICES ASSUME Pool!Init PROVE RoomInv
    OBVIOUS
  <2>1. by_hash = {} /\ Pool!PastCapacityCheck = {}
    BY DEF Pool!Init, Pool!PastCapacityCheck
  <2> QED
    BY <2>1, FS_EmptySet, TxPoolAssumption DEF RoomInv
<1>2. Pool!SerialInv /\ RoomInv => Pool!PoolConsistent
  BY PoolCounts
     DEF Pool!SerialInv, RoomInv, Pool!SlotsUnique, Pool!Consistent, Pool!PoolConsistent,
         Pool!CapacityExact, Pool!IndexesAgree, Pool!NonceUnique, Pool!NoEmptyQueue
<1> QED
  BY <1>1, <1>2, RoomKept, TypeCorrect, SerialInvariant, PoolCalls, PTL
     DEF Pool!Spec, PoolConsistent
=============================================================================
