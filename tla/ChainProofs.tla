----------------------------- MODULE ChainProofs -----------------------------
(* Theorems about Chain for every tree of blocks, every set of tasks and any    *)
(* number of crashes, reorganisations and failed writes, or with one task.      *)
EXTENDS Chain, TLAPS

\* The accounts that a transaction changes are accounts.
LEMMA PartiesType == ASSUME NEW b \in Hash PROVE Parties(b) \subseteq Account
<1>1. sender[b] \in Account /\ receiver[b] \in Account
  BY AccountAssumption
<1> QED
  BY <1>1 DEF Parties

\* A transaction leaves an account an account.
LEMMA AfterTxType ==
  ASSUME TypeOK, NEW a \in Account, NEW b \in Hash
  PROVE  AfterTx(a, b) \in AccountData
<1>1. state[a] \in AccountData
  BY DEF TypeOK
<1>2. state[a].nonce + (IF a = sender[b] THEN 1 ELSE 0) \in Nat
  BY <1>1 DEF AccountData
<1>3. [state[a].applied EXCEPT ![b] = @ + 1] \in [Hash -> Nat]
  BY <1>1 DEF AccountData
<1> QED
  BY <1>2, <1>3 DEF AfterTx, AccountData

\* The maps, the tasks' positions and the stored values keep their types.
THEOREM TypeCorrect == Spec => []TypeOK
<1>1. Init => TypeOK
  BY ChainAssumption, SMTT(60) DEF Init, TypeOK, Height, NewAccount, AccountData, NothingDrained
<1>2. TypeOK /\ [Next]_vars => TypeOK'
  <2> SUFFICES ASSUME TypeOK, [Next]_vars PROVE TypeOK'
    OBVIOUS
  <2> USE ChainAssumption DEF TypeOK, Goto, Return, ApplySteps, ReorgSteps, disk, blocks
  <2>1. ASSUME NEW t \in Tasks, NEW b \in Hash, Start(t, b) PROVE TypeOK'
    BY <2>1, SMTT(60) DEF Start, VerifyBlock
  <2>2. ASSUME NEW t \in Tasks, Execute(t) PROVE TypeOK'
    <3>0. cur[t] \in Hash
      BY <2>2 DEF Execute
    <3>1. Parties(cur[t]) \subseteq Account
      BY <3>0, PartiesType
    <3>2. \A a \in Account : AfterTx(a, cur[t]) \in AccountData
      BY <3>0, AfterTxType
    <3>3. state' \in [Account -> AccountData] /\ dirty' \in SUBSET Account
      BY <2>2, <3>1, <3>2 DEF Execute
    <3> QED
      BY <2>2, <3>3 DEF Execute
  <2>3. ASSUME NEW t \in Tasks, Tick(t) PROVE TypeOK'
    <3>1. Append(world, cur[t]) \in Seq(Hash)
      BY <2>3 DEF Tick
    <3>2. CASE Goto(t, "save_world") /\ UNCHANGED errors
      BY <2>3, <3>1, <3>2 DEF Tick
    <3>3. CASE Return(t) /\ errors' = errors + 1
      BY <2>3, <3>1, <3>3 DEF Tick
    <3> QED
      BY <2>3, <3>2, <3>3 DEF Tick
  <2>4. ASSUME NEW t \in Tasks, SaveWorld(t) PROVE TypeOK'
    BY <2>4, SMTT(60) DEF SaveWorld
  <2>5. ASSUME NEW t \in Tasks, Commit(t) \/ Committed(t) PROVE TypeOK'
    <3>1. draining' \in [Tasks -> [Account -> AccountData \cup {NoAccount}]]
      <4>1. [a \in Account |-> IF a \in dirty THEN state[a] ELSE NoAccount]
              \in [Account -> AccountData \cup {NoAccount}]
        OBVIOUS
      <4> QED
        BY <2>5, <4>1 DEF Commit, Committed
    <3>2. dirty' \in SUBSET Account
      BY <2>5 DEF Commit, Committed
    <3> QED
      BY <2>5, <3>1, <3>2 DEF Commit, Committed
  <2>5a. ASSUME NEW t \in Tasks, NEW a \in Account, PutAccount(t, a) PROVE TypeOK'
    BY <2>5a DEF PutAccount
  <2>6. ASSUME NEW t \in Tasks, PutHeader(t) PROVE TypeOK'
    BY <2>6 DEF PutHeader
  <2>7. ASSUME NEW t \in Tasks, PutNumberToHash(t) PROVE TypeOK'
    BY <2>7 DEF PutNumberToHash
  <2>8. ASSUME NEW t \in Tasks, PutBody(t) PROVE TypeOK'
    BY <2>8 DEF PutBody
  <2>9. ASSUME NEW t \in Tasks, PutTransactions(t) PROVE TypeOK'
    BY <2>9 DEF PutTransactions
  <2>10. ASSUME NEW t \in Tasks, PutLatest(t) PROVE TypeOK'
    BY <2>10 DEF PutLatest
  <2>11. ASSUME NEW t \in Tasks, StoreReceipts(t) PROVE TypeOK'
    BY <2>11 DEF StoreReceipts
  <2>12. ASSUME NEW t \in Tasks, UpdateHead(t) PROVE TypeOK'
    BY <2>12 DEF UpdateHead
  <2>13. ASSUME NEW t \in Tasks, WriteError(t) PROVE TypeOK'
    BY <2>13, SMTT(60) DEF WriteError, NothingDrained
  <2>14. ASSUME NEW t \in Tasks, SetLatest(t) PROVE TypeOK'
    BY <2>14 DEF SetLatest
  <2>15. ASSUME NEW t \in Tasks, SetHead(t) PROVE TypeOK'
    BY <2>15 DEF SetHead
  <2>16. ASSUME NEW t \in Tasks, NEW n \in Height, ReorgStart(t, n) PROVE TypeOK'
    BY <2>16, SMTT(60) DEF ReorgStart
  <2>17. CASE Crash
    BY <2>17, SMTT(60) DEF Crash, Restart, RestoredHead, NothingDrained
  <2>18. CASE ShutdownSerialize
    BY <2>18 DEF ShutdownSerialize
  <2>19. CASE ShutdownPut
    BY <2>19 DEF ShutdownPut
  <2>20. CASE Exit
    BY <2>20, SMTT(60) DEF Exit, Restart, RestoredHead, NothingDrained
  <2>21. CASE UNCHANGED vars
    BY <2>21 DEF vars, memory
  <2> QED
    BY <2>1, <2>2, <2>3, <2>4, <2>5, <2>5a, <2>6, <2>7, <2>8, <2>9, <2>10, <2>11, <2>12, <2>13, <2>14, <2>15, <2>16, <2>17, <2>18, <2>19, <2>20, <2>21 DEF Next, TaskStep
<1> QED
  BY <1>1, <1>2, PTL DEF Spec

-----------------------------------------------------------------------------
(* Any number of tasks, crashes, reorganisations and failed writes.        *)

\* What IndexInv says is invariant.
LEMMA IndexInvariant == Spec => []IndexInv
<1>1. Init => IndexInv
  BY ChainAssumption DEF Init, IndexInv, Height
<1>2. TypeOK /\ IndexInv /\ [Next]_vars => IndexInv'
  <2> SUFFICES ASSUME TypeOK, IndexInv, [Next]_vars PROVE IndexInv'
    OBVIOUS
  <2> USE ChainAssumption DEF TypeOK, IndexInv, Goto, Return, ApplySteps, ReorgSteps, disk, blocks
  <2>1. ASSUME NEW t \in Tasks, NEW b \in Hash, Start(t, b) PROVE IndexInv'
    BY <2>1 DEF Start, VerifyBlock
  <2>2. ASSUME NEW t \in Tasks, Execute(t) PROVE IndexInv'
    BY <2>2 DEF Execute
  <2>3. ASSUME NEW t \in Tasks, Tick(t) PROVE IndexInv'
    BY <2>3 DEF Tick
  <2>4. ASSUME NEW t \in Tasks, SaveWorld(t) PROVE IndexInv'
    BY <2>4 DEF SaveWorld
  <2>5. ASSUME NEW t \in Tasks, Commit(t) \/ Committed(t) PROVE IndexInv'
    BY <2>5 DEF Commit, Committed
  <2>5a. ASSUME NEW t \in Tasks, NEW a \in Account, PutAccount(t, a) PROVE IndexInv'
    BY <2>5a DEF PutAccount
  <2>6. ASSUME NEW t \in Tasks, PutHeader(t) PROVE IndexInv'
    BY <2>6 DEF PutHeader
  <2>7. ASSUME NEW t \in Tasks, PutNumberToHash(t) PROVE IndexInv'
    BY <2>7 DEF PutNumberToHash
  <2>8. ASSUME NEW t \in Tasks, PutBody(t) PROVE IndexInv'
    BY <2>8 DEF PutBody
  <2>9. ASSUME NEW t \in Tasks, PutTransactions(t) PROVE IndexInv'
    BY <2>9 DEF PutTransactions
  <2>10. ASSUME NEW t \in Tasks, PutLatest(t) PROVE IndexInv'
    BY <2>10 DEF PutLatest
  <2>11. ASSUME NEW t \in Tasks, StoreReceipts(t) PROVE IndexInv'
    BY <2>11 DEF StoreReceipts
  <2>12. ASSUME NEW t \in Tasks, UpdateHead(t) PROVE IndexInv'
    BY <2>12 DEF UpdateHead
  <2>13. ASSUME NEW t \in Tasks, WriteError(t) PROVE IndexInv'
    BY <2>13 DEF WriteError
  <2>14. ASSUME NEW t \in Tasks, SetLatest(t) PROVE IndexInv'
    BY <2>14 DEF SetLatest
  <2>15. ASSUME NEW t \in Tasks, SetHead(t) PROVE IndexInv'
    BY <2>15 DEF SetHead
  <2>16. ASSUME NEW t \in Tasks, NEW n \in Height, ReorgStart(t, n) PROVE IndexInv'
    BY <2>16 DEF ReorgStart
  <2>17. CASE Crash
    BY <2>17 DEF Crash, Restart, RestoredHead
  <2>18. CASE ShutdownSerialize
    BY <2>18 DEF ShutdownSerialize
  <2>19. CASE ShutdownPut
    BY <2>19 DEF ShutdownPut
  <2>20. CASE Exit
    BY <2>20 DEF Exit, Restart, RestoredHead
  <2>21. CASE UNCHANGED vars
    BY <2>21 DEF vars, memory
  <2> QED
    BY <2>1, <2>2, <2>3, <2>4, <2>5, <2>5a, <2>6, <2>7, <2>8, <2>9, <2>10, <2>11, <2>12, <2>13, <2>14, <2>15, <2>16, <2>17, <2>18, <2>19, <2>20, <2>21 DEF Next, TaskStep
<1> QED
  BY <1>1, <1>2, TypeCorrect, PTL DEF Spec

\* The node always finds a head in its database when it starts, whatever was
\* interrupted, raced or failed before.
THEOREM AlwaysRestorable == Spec => []Restorable
<1>1. TypeOK /\ IndexInv => Restorable
  BY DEF TypeOK, IndexInv, Restorable
<1> QED
  BY <1>1, TypeCorrect, IndexInvariant, PTL

-----------------------------------------------------------------------------
(* One task, no failed write; crashes, shutdowns and reorganisations.      *)

\* The parts of ChainInv that are not TypeOK and IndexInv.
ChainParts ==
  /\ CanonicalChain
  /\ \A t \in Tasks : TaskInv(t)

\* They are about the index, the stored blocks, the head and the positions.
LEMMA PartsUntouched ==
  ASSUME ChainParts,
         UNCHANGED <<head, headers, bodies, transactions, block_number_to_hash,
                     latest_block_number, pc, cur>>
  PROVE  ChainParts'
  BY DEF ChainParts, CanonicalChain, TaskInv

\* A single task that meets no failed write keeps ChainInv.
LEMMA ChainInvariant == ASSUME SingleTask, NoErrors PROVE Spec => []ChainInv
<1>1. Init => ChainParts
  BY ChainAssumption
     DEF Init, ChainParts, CanonicalChain, TaskInv, Height,
         ApplySteps
<1>2. TypeOK /\ TypeOK' /\ IndexInv /\ IndexInv' /\ ChainParts /\ [Next]_vars => ChainParts'
  <2>0. SUFFICES ASSUME TypeOK, TypeOK', IndexInv, IndexInv', ChainParts, [Next]_vars
               PROVE  ChainParts'
    OBVIOUS
  <2>5a. ASSUME NEW t \in Tasks, NEW a \in Account, PutAccount(t, a) PROVE ChainParts'
    <3>1. UNCHANGED <<head, headers, bodies, transactions, block_number_to_hash,
                      latest_block_number, pc, cur>>
      BY <2>5a DEF PutAccount, blocks
    <3> QED
      BY <2>0, <3>1, PartsUntouched
  <2> USE ChainAssumption, SingleTask, NoErrors
      DEF TypeOK, IndexInv, ChainParts, CanonicalChain, TaskInv, Height,
          Goto, Return, ApplySteps, ReorgSteps, disk, blocks, SingleTask, NoErrors
  <2>1. ASSUME NEW t \in Tasks, NEW b \in Hash, Start(t, b) PROVE ChainParts'
    BY <2>0, <2>1 DEF Start, VerifyBlock
  <2>2. ASSUME NEW t \in Tasks, Execute(t) PROVE ChainParts'
    BY <2>0, <2>2 DEF Execute
  <2>3. ASSUME NEW t \in Tasks, Tick(t) PROVE ChainParts'
    <3>1. pc[t] = "tick" /\ UNCHANGED <<head, headers, block_number_to_hash, bodies,
                                        transactions, latest_block_number>>
      BY <2>3 DEF Tick
    <3>2. /\ pc'[t] = "save_world" \/ pc'[t] = "idle"
          /\ pc'[t] = "save_world" => cur' = cur
      <4>1. CASE Goto(t, "save_world")
        BY <2>0, <4>1
      <4>2. CASE Return(t)
        BY <2>0, <4>2
      <4> QED
        BY <2>3, <4>1, <4>2 DEF Tick
    <3>3. CanonicalChain'
      BY <2>0, <3>1
    <3>4. /\ block_number_to_hash[latest_block_number] = head
          /\ number[cur[t]] = latest_block_number + 1 /\ parent_hash[cur[t]] = head
      BY <2>0, <3>1
    <3>5. TaskInv(t)'
      BY <3>1, <3>2, <3>4
    <3> QED
      BY <3>3, <3>5
  <2>4. ASSUME NEW t \in Tasks, SaveWorld(t) PROVE ChainParts'
    BY <2>0, <2>4 DEF SaveWorld
  <2>5. ASSUME NEW t \in Tasks, Commit(t) \/ Committed(t) PROVE ChainParts'
    <3>1. UNCHANGED <<head, headers, bodies, transactions, block_number_to_hash,
                      latest_block_number, cur>>
      BY <2>5 DEF Commit, Committed
    <3>2. pc[t] \in {"commit", "put_accounts"} /\ pc'[t] \in {"put_accounts", "header"}
      BY <2>0, <2>5 DEF Commit, Committed
    <3>3. CanonicalChain'
      BY <2>0, <3>1
    <3>4. TaskInv(t)'
      BY <2>0, <3>1, <3>2
    <3> QED
      BY <3>3, <3>4
  <2>6. ASSUME NEW t \in Tasks, PutHeader(t) PROVE ChainParts'
    <3>1. /\ UNCHANGED <<head, bodies, transactions, block_number_to_hash, latest_block_number, cur>>
          /\ headers' = headers \cup {cur[t]}
      BY <2>6 DEF PutHeader
    <3>2. pc[t] = "header" /\ pc'[t] = "index"
      BY <2>0, <2>6 DEF PutHeader
    <3>3. CanonicalChain'
      BY <2>0, <3>1
    <3>4. TaskInv(t)'
      BY <2>0, <3>1, <3>2
    <3> QED
      BY <3>3, <3>4
  <2>7. ASSUME NEW t \in Tasks, PutNumberToHash(t) PROVE ChainParts'
    <3> DEFINE idx == block_number_to_hash
               lat == latest_block_number
    <3>1. /\ pc[t] = "index" /\ pc'[t] = "body" /\ cur' = cur
          /\ idx' = [idx EXCEPT ![number[cur[t]]] = cur[t]]
          /\ UNCHANGED <<head, headers, bodies, transactions, lat>>
      BY <2>0, <2>7 DEF PutNumberToHash
    <3>2. /\ number[cur[t]] = lat + 1 /\ cur[t] \in Hash /\ lat \in Nat
          /\ parent_hash[cur[t]] = head /\ idx[lat] = head
          /\ cur[t] \in headers
      <4>1. TaskInv(t) /\ cur[t] \in Hash /\ lat \in Height /\ cur[t] \in headers
        BY <2>0, <3>1
      <4>2. number[cur[t]] = lat + 1 /\ parent_hash[cur[t]] = head
        BY <3>1, <4>1
      <4>3. idx[lat] = head
        BY <3>1, <4>1
      <4> QED
        BY <4>1, <4>2, <4>3
    <3>3. idx \in [Height -> Hash \cup {NoHash}] /\ number[cur[t]] \in Height
      BY <2>0, <3>2
    <3>4. idx'[number[cur[t]]] = cur[t] /\ \A n \in 0..lat : idx'[n] = idx[n]
      BY <3>1, <3>2, <3>3
    <3>5. CanonicalChain
      BY <2>0
    <3>6. CanonicalChain'
      BY <3>1, <3>2, <3>4, <3>5
    <3>7. TaskInv(t)'
      BY <3>1, <3>2, <3>4
    <3> QED
      BY <3>6, <3>7
  <2>8. ASSUME NEW t \in Tasks, PutBody(t) PROVE ChainParts'
    <3>1. /\ pc[t] = "body" /\ pc'[t] = "tx_index" /\ bodies' = bodies \cup {cur[t]}
          /\ UNCHANGED <<head, headers, transactions, block_number_to_hash,
                         latest_block_number, cur>>
      BY <2>0, <2>8 DEF PutBody
    <3>2. CanonicalChain'
      BY <2>0, <3>1
    <3>3. TaskInv(t)'
      BY <2>0, <3>1
    <3> QED
      BY <3>2, <3>3
  <2>9. ASSUME NEW t \in Tasks, PutTransactions(t) PROVE ChainParts'
    BY <2>0, <2>9 DEF PutTransactions
  <2>10. ASSUME NEW t \in Tasks, PutLatest(t) PROVE ChainParts'
    <3> DEFINE idx == block_number_to_hash
               lat == latest_block_number
    <3>1. /\ pc[t] = "latest" /\ pc'[t] = "receipts" /\ cur' = cur /\ lat' = number[cur[t]]
          /\ UNCHANGED <<head, headers, bodies, transactions, idx>>
      BY <2>0, <2>10 DEF PutLatest
    <3>2. /\ number[cur[t]] = lat + 1 /\ cur[t] \in Hash /\ lat \in Nat
          /\ parent_hash[cur[t]] = head /\ idx[lat] = head /\ idx[lat + 1] = cur[t]
          /\ cur[t] \in headers /\ cur[t] \in bodies /\ cur[t] \in transactions
      <4>1. TypeOK /\ ChainParts
        BY <2>0
      <4>2. TaskInv(t)
        BY <4>1
      <4>3. cur[t] \in Hash /\ lat \in Nat
        BY <3>1, <4>1
      <4> QED
        BY <3>1, <4>2, <4>3
    <3>3. \A n \in 0..lat' : n \in 0..lat \/ n = lat + 1
      BY <3>1, <3>2
    <3>4. CanonicalChain
      BY <2>0
    <3>5. CanonicalChain'
      <4>1. ASSUME NEW n \in 0..lat' PROVE idx'[n] \in headers' \cap bodies'
        BY <3>1, <3>2, <3>3, <3>4
      <4>2. ASSUME NEW n \in 1..lat'
            PROVE  idx'[n] \in transactions' /\ parent_hash[idx'[n]] = idx'[n - 1]
        <5>1. CASE n = lat + 1
          BY <3>1, <3>2, <5>1
        <5>2. CASE n \in 1..lat
          BY <3>1, <3>4, <5>2
        <5> QED
          BY <3>1, <3>2, <5>1, <5>2
      <4> QED
        BY <4>1, <4>2
    <3>6. TaskInv(t)'
      BY <3>1, <3>2
    <3> QED
      BY <3>5, <3>6
  <2>11. ASSUME NEW t \in Tasks, StoreReceipts(t) PROVE ChainParts'
    BY <2>0, <2>11 DEF StoreReceipts
  <2>12. ASSUME NEW t \in Tasks, UpdateHead(t) PROVE ChainParts'
    BY <2>0, <2>12 DEF UpdateHead
  <2>13. ASSUME NEW t \in Tasks, WriteError(t) PROVE ChainParts'
    BY <2>0, <2>13 DEF WriteError
  <2>14. ASSUME NEW t \in Tasks, SetLatest(t) PROVE ChainParts'
    BY <2>0, <2>14, SMTT(60) DEF SetLatest
  <2>15. ASSUME NEW t \in Tasks, SetHead(t) PROVE ChainParts'
    BY <2>0, <2>15 DEF SetHead
  <2>16. ASSUME NEW t \in Tasks, NEW n \in Height, ReorgStart(t, n) PROVE ChainParts'
    <3>1. /\ pc[t] = "idle" /\ pc'[t] = "set_latest" /\ cur'[t] = block_number_to_hash[n]
          /\ n <= number[head] /\ block_number_to_hash[n] # NoHash
          /\ UNCHANGED <<head, headers, bodies, transactions, block_number_to_hash,
                         latest_block_number>>
      BY <2>0, <2>16 DEF ReorgStart
    <3>2. block_number_to_hash[latest_block_number] = head
      BY <2>0, <3>1
    <3>3. number[block_number_to_hash[n]] = n /\ number[head] = latest_block_number
      BY <2>0, <3>1, <3>2
    <3>4. CanonicalChain'
      BY <2>0, <3>1
    <3>5. TaskInv(t)'
      BY <3>1, <3>2, <3>3
    <3> QED
      BY <3>4, <3>5
  <2>17. CASE Crash
    BY <2>0, <2>17 DEF Crash, Restart, RestoredHead
  <2>18. CASE ShutdownSerialize
    BY <2>0, <2>18 DEF ShutdownSerialize
  <2>19. CASE ShutdownPut
    BY <2>0, <2>19 DEF ShutdownPut
  <2>20. CASE Exit
    BY <2>0, <2>20 DEF Exit, Restart, RestoredHead
  <2>21. CASE UNCHANGED vars
    BY <2>0, <2>21 DEF vars, memory
  <2> QED
    BY <2>0, <2>1, <2>2, <2>3, <2>4, <2>5, <2>5a, <2>6, <2>7, <2>8, <2>9, <2>10, <2>11, <2>12, <2>13, <2>14, <2>15, <2>16, <2>17, <2>18, <2>19, <2>20, <2>21 DEF Next, TaskStep
<1>3. TypeOK /\ IndexInv /\ ChainParts => ChainInv
  BY DEF ChainInv, ChainParts
<1> QED
  BY <1>1, <1>2, <1>3, TypeCorrect, IndexInvariant, PTL DEF Spec

-----------------------------------------------------------------------------
(* The accounts                                                            *)

\* What puts that do not concern the accounts must keep for AccountsInv.
LEMMA AccountsUntouched ==
  ASSUME AccountsInv, UNCHANGED <<state, disk_state, dirty, draining>>,
         Canonical' \subseteq Canonical, \A t \in Tasks : CommitInv(t)'
  PROVE  AccountsInv'
<1>1. StateCoversChain'
  BY DEF AccountsInv, StateCoversChain, NoncesPast
<1>2. /\ \A b \in Hash \ {genesis} :
          EffectUsesNonce(state[sender[b]], b)' /\ EffectUsesNonce(disk_state[sender[b]], b)'
  BY DEF AccountsInv, EffectUsesNonce
<1> QED
  BY <1>1, <1>2 DEF AccountsInv

\* What the transaction of a block makes of an account.
LEMMA AfterTxFields ==
  ASSUME NEW a \in Account, NEW b \in Hash, state[a].applied \in [Hash -> Nat],
         state[a].nonce \in Nat
  PROVE  /\ a = sender[b] => AfterTx(a, b).nonce = state[a].nonce + 1
         /\ a # sender[b] => AfterTx(a, b).nonce = state[a].nonce
         /\ AfterTx(a, b).applied[b] = state[a].applied[b] + 1
         /\ \A c \in Hash \ {b} : AfterTx(a, b).applied[c] = state[a].applied[c]
BY DEF AfterTx

\* The transaction of a block on top of the chain raises the nonces past it, takes
\* effect only once, and lowers no nonce.
LEMMA ExecuteUsesNonce ==
  ASSUME ChainInv, ChainInv', AccountsInv, NEW t \in Tasks, Execute(t)
  PROVE  /\ NoncesPast(state', cur[t])
         /\ \A a \in Account : state'[a].nonce >= state[a].nonce
         /\ \A b \in Hash \ {genesis} : EffectUsesNonce(state'[sender[b]], b)
         /\ \A a \in Account : a \in dirty' \/ state'[a] = state[a]
<1> DEFINE b == cur[t]
           s == sender[b]
           n == TxNonce(b)
<1>0. b = cur[t] /\ s = sender[b] /\ n = TxNonce(b)
  OBVIOUS
<1> HIDE DEF b, s, n
<1>1. /\ b \in Hash /\ number[b] = latest_block_number + 1 /\ parent_hash[b] = head
      /\ head = block_number_to_hash[latest_block_number] /\ latest_block_number \in Nat
  <2>1. pc[t] = "execute" /\ TaskInv(t)
    BY <1>0 DEF Execute, ChainInv
  <2>2. b \in Hash /\ latest_block_number \in Nat
    BY <1>0, <2>1, ChainAssumption DEF ChainInv, TypeOK, Height
  <2> QED
    BY <1>0, <2>1, <2>2 DEF TaskInv, ApplySteps
<1>2. b # genesis /\ Parties(b) = {sender[b], receiver[b]}
  BY <1>0, <1>1, ChainAssumption DEF Parties
<1>3. head \in Hash /\ head \in Canonical
  <2>1. block_number_to_hash[latest_block_number] \in Hash
    BY <1>0, <1>1 DEF ChainInv, CanonicalChain, TypeOK
  <2> QED
    BY <1>0, <1>1, <2>1 DEF Canonical
<1>4. \A a \in Account : /\ nonce_after[head][a] \in Nat
                         /\ nonce_after[b][a] = nonce_after[head][a] + (IF a = s THEN 1 ELSE 0)
  BY <1>0, <1>1, <1>3, AccountAssumption
<1>5. s \in Account /\ n = nonce_after[head][s] /\ n \in Nat
  BY <1>0, <1>1, <1>4, AccountAssumption DEF TxNonce
<1>6. \A a \in Account : /\ state[a].nonce \in Nat /\ state'[a].nonce \in Nat
                         /\ state[a].nonce >= nonce_after[head][a]
  <2>1. \A a \in Account : state[a].nonce \in Nat /\ disk_state[a].nonce \in Nat
    BY DEF ChainInv, TypeOK, AccountData
  <2>2. \A a \in Account : /\ disk_state[a].nonce >= nonce_after[head][a]
                           /\ state[a].nonce >= disk_state[a].nonce
    BY <1>0, <1>3 DEF AccountsInv, StateCoversChain, NoncesPast
  <2>3. \A a \in Account : state'[a].nonce \in Nat
    BY DEF ChainInv, TypeOK, AccountData
  <2> QED
    BY <1>4, <2>1, <2>2, <2>3
<1>7. \A a \in Account : state[a].applied \in [Hash -> Nat]
  BY DEF ChainInv, TypeOK, AccountData
<1>f. ASSUME NEW a \in Account
      PROVE  /\ a = s => AfterTx(a, b).nonce = state[a].nonce + 1
             /\ a # s => AfterTx(a, b).nonce = state[a].nonce
             /\ AfterTx(a, b).applied[b] = state[a].applied[b] + 1
             /\ \A c \in Hash \ {b} : AfterTx(a, b).applied[c] = state[a].applied[c]
  BY <1>0, <1>1, <1>6, <1>7, AfterTxFields
<1>8. CASE n # state[s].nonce
  <2>1. state' = state
    BY <1>0, <1>8 DEF Execute
  <2>2. NoncesPast(state, b)
    <3> SUFFICES ASSUME NEW a \in Account PROVE state[a].nonce >= nonce_after[b][a]
      BY DEF NoncesPast
    <3>1. CASE a = s
      BY <1>0, <1>4, <1>5, <1>6, <1>8, <3>1
    <3>2. CASE a # s
      BY <1>0, <1>4, <1>6, <3>2
    <3> QED
      BY <1>0, <3>1, <3>2
  <2> QED
    BY <1>0, <1>6, <2>1, <2>2 DEF AccountsInv, Execute
<1>9. CASE n = state[s].nonce
  <2>1. /\ dirty' = dirty \cup Parties(b)
        /\ \A a \in Account : a \in Parties(b) => state'[a] = AfterTx(a, b)
        /\ \A a \in Account : a \notin Parties(b) => state'[a] = state[a]
    BY <1>0, <1>9 DEF Execute
  <2>2. state'[s].nonce = state[s].nonce + 1 /\ state'[s].applied[b] = state[s].applied[b] + 1
    BY <1>0, <1>2, <1>5, <1>f, <2>1
  <2>3. ASSUME NEW a \in Account PROVE state'[a].nonce >= state[a].nonce
    <3>1. CASE a \in Parties(b)
      BY <1>6, <1>f, <2>1, <3>1
    <3>2. CASE a \notin Parties(b)
      BY <1>6, <2>1, <3>2
    <3> QED
      BY <3>1, <3>2
  <2>4. ASSUME NEW a \in Account PROVE state'[a].nonce >= nonce_after[b][a]
    <3>1. CASE a = s
      BY <1>4, <1>5, <1>6, <1>9, <2>2, <3>1
    <3>2. CASE a # s
      <4>1. nonce_after[b][a] = nonce_after[head][a]
        BY <1>4, <3>2
      <4>2. state'[a].nonce = state[a].nonce
        BY <1>f, <2>1, <3>2
      <4> QED
        BY <1>6, <4>1, <4>2
    <3> QED
      BY <3>1, <3>2
  <2>5. ASSUME NEW c \in Hash \ {genesis} PROVE EffectUsesNonce(state'[sender[c]], c)
    <3>1. sender[c] \in Account /\ EffectUsesNonce(state[sender[c]], c)
      BY AccountAssumption DEF AccountsInv
    <3>2. state[sender[c]].applied[c] \in Nat
      BY <1>7, <3>1
    <3>3. CASE c # b
      <4>1. state'[sender[c]].applied[c] = state[sender[c]].applied[c]
        <5>1. CASE sender[c] \in Parties(b)
          BY <1>f, <2>1, <3>1, <3>3, <5>1
        <5>2. CASE sender[c] \notin Parties(b)
          BY <2>1, <3>1, <5>2
        <5> QED
          BY <5>1, <5>2
      <4>2. CASE state[sender[c]].applied[c] # 1
        BY <3>1, <4>1, <4>2 DEF EffectUsesNonce
      <4>3. CASE state[sender[c]].applied[c] = 1
        <5>1. parent_hash[c] \in Hash /\ state[sender[c]].nonce > TxNonce(c)
          BY <3>1, <4>3 DEF EffectUsesNonce
        <5>2. TxNonce(c) \in Nat
          BY <3>1, <5>1, AccountAssumption DEF TxNonce
        <5>3. state'[sender[c]].nonce >= state[sender[c]].nonce
          BY <2>3, <3>1
        <5>4. state'[sender[c]].nonce \in Nat /\ state[sender[c]].nonce \in Nat
          BY <1>6, <3>1
        <5>5. state'[sender[c]].nonce > TxNonce(c)
          BY <5>1, <5>2, <5>3, <5>4
        <5> QED
          BY <4>1, <4>3, <5>1, <5>5 DEF EffectUsesNonce
      <4> QED
        BY <4>2, <4>3
    <3>4. CASE c = b
      <4>1. state[s].applied[b] # 1 /\ state[s].applied[b] <= 1
        <5>1. /\ state[s].applied[b] <= 1
              /\ state[s].applied[b] = 1 => state[s].nonce > n
          BY <1>0, <3>1, <3>4 DEF EffectUsesNonce
        <5> QED
          BY <1>5, <1>9, <5>1
      <4>2. state[s].applied[b] = 0
        BY <1>0, <3>2, <3>4, <4>1
      <4>3. state'[s].applied[b] = 1 /\ state'[s].nonce > n
        BY <1>5, <1>9, <2>2, <4>2
      <4> QED
        BY <1>0, <1>1, <1>3, <3>4, <4>3 DEF EffectUsesNonce
    <3> QED
      BY <3>3, <3>4
  <2> QED
    BY <1>0, <2>1, <2>3, <2>4, <2>5 DEF NoncesPast
<1> QED
  BY <1>0, <1>8, <1>9

\* A single task that meets no failed write keeps AccountsInv.
LEMMA AccountsInvariant == ASSUME SingleTask, NoErrors PROVE Spec => []AccountsInv
<1>1. Init => AccountsInv
  <2> SUFFICES ASSUME Init PROVE AccountsInv
    OBVIOUS
  <2>1. Canonical = {genesis}
    BY ChainAssumption DEF Init, Canonical, Height
  <2>2. \A a \in Account : state[a] = NewAccount /\ disk_state[a] = NewAccount
    BY DEF Init
  <2>3. StateCoversChain
    BY <2>1, <2>2, AccountAssumption DEF StateCoversChain, NoncesPast, NewAccount
  <2>4. \A b \in Hash : EffectUsesNonce(NewAccount, b)
    BY DEF EffectUsesNonce, NewAccount
  <2>5. \A b \in Hash : EffectUsesNonce(state[sender[b]], b) /\ EffectUsesNonce(disk_state[sender[b]], b)
    BY <2>2, <2>4, AccountAssumption
  <2>6. \A t \in Tasks : CommitInv(t)
    BY DEF Init, CommitInv, NothingDrained
  <2>7. \A a \in Account : state[a].nonce >= disk_state[a].nonce
    BY <2>2 DEF NewAccount
  <2> QED
    BY <2>2, <2>3, <2>5, <2>6, <2>7 DEF AccountsInv
<1>2. ChainInv /\ ChainInv' /\ AccountsInv /\ [Next]_vars => AccountsInv'
  <2>0. SUFFICES ASSUME ChainInv, ChainInv', AccountsInv, [Next]_vars PROVE AccountsInv'
    OBVIOUS
  <2>a. /\ latest_block_number \in Nat /\ pc \in [Tasks -> {"idle"} \cup ApplySteps \cup ReorgSteps]
        /\ cur \in [Tasks -> Hash \cup {NoHash}]
        /\ draining \in [Tasks -> [Account -> AccountData \cup {NoAccount}]]
        /\ \A a \in Account : state[a] \in AccountData /\ disk_state[a] \in AccountData
    BY <2>0, ChainAssumption DEF ChainInv, TypeOK, Height
  <2>c. ASSUME UNCHANGED <<latest_block_number, block_number_to_hash>>
        PROVE  Canonical' = Canonical
    BY <2>c DEF Canonical
  <2>d. ASSUME NEW t \in Tasks PROVE \A u \in Tasks : u = t
    BY SingleTask DEF SingleTask
  <2>1. ASSUME NEW t \in Tasks, NEW b \in Hash, Start(t, b) PROVE AccountsInv'
    BY <2>0, <2>1, <2>a, <2>c, <2>d, AccountsUntouched
       DEF Start, AccountsInv, CommitInv, NoncesPast, disk, blocks
  <2>2. ASSUME NEW t \in Tasks, Execute(t) PROVE AccountsInv'
    <3>1. /\ NoncesPast(state', cur[t])
          /\ \A a \in Account : state'[a].nonce >= state[a].nonce
          /\ \A b \in Hash \ {genesis} : EffectUsesNonce(state'[sender[b]], b)
          /\ \A a \in Account : a \in dirty' \/ state'[a] = state[a]
      BY <2>0, <2>2, ExecuteUsesNonce
    <3>2. /\ pc[t] = "execute" /\ pc'[t] = "tick" /\ cur' = cur /\ dirty \subseteq dirty'
          /\ UNCHANGED <<disk_state, draining, latest_block_number, block_number_to_hash>>
      BY <2>2, <2>a DEF Execute, Goto, disk, blocks
    <3>3. StateCoversChain'
      BY <2>0, <2>c, <3>2 DEF AccountsInv, StateCoversChain, NoncesPast
    <3>4. \A a \in Account :
            a \notin dirty' /\ (\A u \in Tasks : draining'[u][a] = NoAccount)
              => disk_state'[a] = state'[a]
      BY <2>0, <3>1, <3>2 DEF AccountsInv
    <3>5. \A a \in Account : state'[a].nonce >= disk_state'[a].nonce
      <4> SUFFICES ASSUME NEW a \in Account PROVE state'[a].nonce >= disk_state[a].nonce
        BY <3>2
      <4>1. state'[a].nonce >= state[a].nonce /\ state[a].nonce >= disk_state[a].nonce
        BY <2>0, <3>1 DEF AccountsInv
      <4>2. state'[a].nonce \in Nat /\ state[a].nonce \in Nat /\ disk_state[a].nonce \in Nat
        BY <2>0 DEF ChainInv, TypeOK, AccountData
      <4> QED
        BY <4>1, <4>2
    <3>6. \A b \in Hash \ {genesis} : EffectUsesNonce(disk_state'[sender[b]], b)
      BY <2>0, <3>2 DEF AccountsInv
    <3>7. CommitInv(t)'
      BY <2>0, <3>1, <3>2, <2>a DEF AccountsInv, CommitInv, NothingDrained, NoncesPast
    <3> QED
      BY <2>d, <3>1, <3>3, <3>4, <3>5, <3>6, <3>7 DEF AccountsInv, EffectUsesNonce
  <2>3. ASSUME NEW t \in Tasks, Tick(t) PROVE AccountsInv'
    <3>1. pc[t] = "tick" /\ ((pc'[t] = "save_world" /\ cur' = cur) \/ pc'[t] = "idle")
      BY <2>3, <2>a DEF Tick, Goto, Return
    <3> QED
      BY <2>0, <2>3, <2>a, <2>c, <2>d, <3>1, AccountsUntouched
         DEF Tick, AccountsInv, CommitInv, NoncesPast, disk, blocks
  <2>4. ASSUME NEW t \in Tasks, SaveWorld(t) PROVE AccountsInv'
    BY <2>0, <2>4, <2>a, <2>c, <2>d, AccountsUntouched
       DEF SaveWorld, AccountsInv, CommitInv, NoncesPast, Goto, blocks
  <2>5. ASSUME NEW t \in Tasks, Commit(t) PROVE AccountsInv'
    <3>1. /\ pc[t] = "commit" /\ pc'[t] = "put_accounts" /\ cur' = cur /\ dirty' = {}
          /\ UNCHANGED <<state, disk_state, latest_block_number, block_number_to_hash>>
          /\ \A a \in Account : draining'[t][a] = IF a \in dirty THEN state[a] ELSE NoAccount
      BY <2>5, <2>a DEF Commit, Goto, disk, blocks
    <3>2. StateCoversChain'
      BY <2>0, <2>c, <3>1 DEF AccountsInv, StateCoversChain, NoncesPast
    <3>3. ASSUME NEW a \in Account, draining'[t][a] = NoAccount PROVE disk_state'[a] = state'[a]
      <4>1. a \notin dirty
        BY <2>a, <3>1, <3>3, AccountAssumption
      <4>2. \A u \in Tasks : draining[u][a] = NoAccount
        BY <2>0, <2>d, <3>1 DEF AccountsInv, CommitInv, NothingDrained
      <4> QED
        BY <2>0, <3>1, <4>1, <4>2 DEF AccountsInv
    <3>4. CommitInv(t)'
      BY <2>0, <3>1 DEF AccountsInv, CommitInv, NoncesPast
    <3> QED
      BY <2>0, <2>d, <3>1, <3>2, <3>3, <3>4 DEF AccountsInv, EffectUsesNonce
  <2>6. ASSUME NEW t \in Tasks, NEW a \in Account, PutAccount(t, a) PROVE AccountsInv'
    <3>1. /\ pc[t] = "put_accounts" /\ draining[t][a] # NoAccount
          /\ UNCHANGED <<pc, cur, state, dirty, latest_block_number, block_number_to_hash>>
          /\ draining'[t] = [draining[t] EXCEPT ![a] = NoAccount]
          /\ disk_state' = [disk_state EXCEPT ![a] = draining[t][a]]
      BY <2>6, <2>a DEF PutAccount, blocks
    <3>2. draining[t][a] = state[a]
      BY <2>0, <3>1 DEF AccountsInv, CommitInv
    <3>3. \A c \in Account : disk_state'[c] = IF c = a THEN state[a] ELSE disk_state[c]
      BY <2>0, <3>1, <3>2 DEF ChainInv, TypeOK
    <3>4. \A c \in Account : /\ state[c].nonce \in Nat /\ disk_state[c].nonce \in Nat
                             /\ state[c].nonce >= disk_state[c].nonce
      BY <2>0, <2>a DEF AccountsInv, AccountData
    <3>5. StateCoversChain'
      <4> SUFFICES ASSUME NEW b \in Canonical, NEW c \in Account
                   PROVE  disk_state'[c].nonce >= nonce_after[b][c]
        BY <2>c, <3>1 DEF StateCoversChain, NoncesPast
      <4>1. disk_state[c].nonce >= nonce_after[b][c]
        BY <2>0 DEF AccountsInv, StateCoversChain, NoncesPast
      <4>2. b \in Hash
        BY <2>0 DEF ChainInv, TypeOK, CanonicalChain, Canonical
      <4>3. nonce_after[b][c] \in Nat
        BY <4>2, AccountAssumption
      <4> QED
        BY <3>3, <3>4, <4>1, <4>3
    <3>6. \A c \in Account : dirty = {} /\ draining'[t][c] = NoAccount => disk_state'[c] = state[c]
      <4> SUFFICES ASSUME NEW c \in Account, dirty = {}, draining'[t][c] = NoAccount, c # a
                   PROVE  disk_state[c] = state[c]
        BY <3>3
      <4>1. draining[t][c] = NoAccount
        BY <2>a, <3>1
      <4> QED
        BY <2>0, <2>d, <4>1 DEF AccountsInv
    <3>7. \A c \in Account : state[c].nonce >= disk_state'[c].nonce
      BY <3>3, <3>4
    <3>8. \A b \in Hash \ {genesis} : EffectUsesNonce(disk_state'[sender[b]], b)
      BY <2>0, <3>3, AccountAssumption DEF AccountsInv
    <3>9. CommitInv(t)'
      <4>1. dirty = {} /\ NoncesPast(state, cur[t])
        BY <2>0, <3>1 DEF AccountsInv, CommitInv
      <4>2. \A c \in Account : draining'[t][c] \in {state[c], NoAccount}
        BY <2>0, <2>a, <3>1 DEF AccountsInv, CommitInv
      <4> QED
        BY <3>1, <4>1, <4>2 DEF CommitInv, NoncesPast
    <3>10. dirty = {}
      BY <2>0, <3>1 DEF AccountsInv, CommitInv
    <3> QED
      BY <2>0, <2>d, <3>1, <3>5, <3>6, <3>7, <3>8, <3>9, <3>10 DEF AccountsInv, EffectUsesNonce
  <2>7. ASSUME NEW t \in Tasks, Committed(t) PROVE AccountsInv'
    <3>1. /\ pc[t] = "put_accounts" /\ pc'[t] = "header" /\ cur' = cur
          /\ draining[t] = NothingDrained
          /\ UNCHANGED <<state, disk_state, dirty, draining, latest_block_number,
                         block_number_to_hash>>
      BY <2>7, <2>a DEF Committed, Goto, disk, blocks
    <3>2. dirty = {} /\ NoncesPast(state, cur[t])
      BY <2>0, <3>1 DEF AccountsInv, CommitInv
    <3>3. \A a \in Account : disk_state[a] = state[a]
      BY <2>0, <2>d, <3>1, <3>2 DEF AccountsInv, NothingDrained
    <3>4. CommitInv(t)'
      BY <2>0, <3>1, <3>2, <3>3 DEF AccountsInv, CommitInv, NoncesPast
    <3> QED
      BY <2>0, <2>c, <2>d, <3>1, <3>4, AccountsUntouched
  <2>8. ASSUME NEW t \in Tasks,
               PutHeader(t) \/ PutBody(t) \/ PutTransactions(t) \/ StoreReceipts(t)
                 \/ UpdateHead(t) \/ SetHead(t)
        PROVE  AccountsInv'
    <3>1. /\ UNCHANGED <<state, disk_state, dirty, draining, latest_block_number,
                         block_number_to_hash>>
          /\ \/ pc'[t] \in {"idle", "head"}
             \/ /\ pc[t] \in {"header", "body", "tx_index"} /\ cur' = cur
                /\ pc'[t] \in {"index", "tx_index", "latest"}
          /\ pc[t] # "put_accounts"
      BY <2>8, <2>a
         DEF PutHeader, PutBody, PutTransactions, StoreReceipts, UpdateHead, SetHead, Goto, Return,
             disk, blocks
    <3>2. CommitInv(t)'
      BY <2>0, <3>1 DEF AccountsInv, CommitInv, NoncesPast
    <3> QED
      BY <2>0, <2>c, <2>d, <3>1, <3>2, AccountsUntouched
  <2>9. ASSUME NEW t \in Tasks, PutNumberToHash(t) PROVE AccountsInv'
    <3>1. /\ pc[t] = "index" /\ pc'[t] = "body" /\ cur' = cur
          /\ UNCHANGED <<state, disk_state, dirty, draining, latest_block_number>>
          /\ block_number_to_hash' = [block_number_to_hash EXCEPT ![number[cur[t]]] = cur[t]]
      BY <2>9, <2>a DEF PutNumberToHash, Goto
    <3>2. number[cur[t]] = latest_block_number + 1
      BY <2>0, <3>1 DEF ChainInv, TaskInv, ApplySteps
    <3>3. \A n \in 0..latest_block_number : block_number_to_hash'[n] = block_number_to_hash[n]
      BY <2>0, <2>a, <3>1, <3>2 DEF ChainInv, TypeOK, Height
    <3>4. Canonical' = Canonical
      BY <3>1, <3>3 DEF Canonical
    <3>5. CommitInv(t)'
      BY <2>0, <3>1 DEF AccountsInv, CommitInv, NoncesPast
    <3> QED
      BY <2>0, <2>d, <3>1, <3>4, <3>5, AccountsUntouched
  <2>10. ASSUME NEW t \in Tasks, PutLatest(t) PROVE AccountsInv'
    <3>1. /\ pc[t] = "latest" /\ pc'[t] = "receipts" /\ cur' = cur
          /\ latest_block_number' = number[cur[t]]
          /\ UNCHANGED <<state, disk_state, dirty, draining, block_number_to_hash>>
      BY <2>10, <2>a DEF PutLatest, Goto, blocks
    <3>2. /\ number[cur[t]] = latest_block_number + 1
          /\ block_number_to_hash[latest_block_number + 1] = cur[t]
      BY <2>0, <3>1 DEF ChainInv, TaskInv, ApplySteps
    <3>a. /\ latest_block_number' = latest_block_number + 1
          /\ block_number_to_hash' = block_number_to_hash
          /\ block_number_to_hash[latest_block_number + 1] = cur[t]
          /\ latest_block_number \in Nat
      BY <2>a, <3>1, <3>2
    <3>3. Canonical' = Canonical \cup {cur[t]}
      BY <3>a DEF Canonical
    <3>4. StateCoversChain'
      BY <2>0, <3>1, <3>3 DEF AccountsInv, CommitInv, StateCoversChain, NoncesPast
    <3>5. CommitInv(t)'
      BY <2>0, <3>1 DEF AccountsInv, CommitInv
    <3> QED
      BY <2>0, <2>d, <3>1, <3>4, <3>5 DEF AccountsInv, EffectUsesNonce
  <2>11. ASSUME NEW t \in Tasks, WriteError(t) PROVE AccountsInv'
    BY <2>0, <2>11, NoErrors DEF WriteError, NoErrors, ChainInv, TypeOK
  <2>12. ASSUME NEW t \in Tasks, NEW n \in Height, ReorgStart(t, n) PROVE AccountsInv'
    <3>1. /\ pc[t] = "idle" /\ pc'[t] = "set_latest"
          /\ UNCHANGED <<state, disk_state, dirty, draining, latest_block_number,
                         block_number_to_hash>>
      BY <2>12, <2>a DEF ReorgStart, disk, blocks
    <3>2. CommitInv(t)'
      BY <2>0, <3>1 DEF AccountsInv, CommitInv
    <3> QED
      BY <2>0, <2>c, <2>d, <3>1, <3>2, AccountsUntouched
  <2>13. ASSUME NEW t \in Tasks, SetLatest(t) PROVE AccountsInv'
    <3>1. /\ pc[t] = "set_latest" /\ pc'[t] = "set_head"
          /\ latest_block_number' = number[cur[t]]
          /\ UNCHANGED <<state, disk_state, dirty, draining, block_number_to_hash>>
      BY <2>13, <2>a DEF SetLatest, Goto, blocks
    <3>2. number[cur[t]] <= latest_block_number
      BY <2>0, <3>1 DEF ChainInv, TaskInv
    <3>3. latest_block_number' \in Nat
      BY <2>0, ChainAssumption DEF ChainInv, TypeOK, Height
    <3>4. Canonical' \subseteq Canonical
      BY <2>a, <3>1, <3>2, <3>3 DEF Canonical
    <3>5. CommitInv(t)'
      BY <2>0, <3>1 DEF AccountsInv, CommitInv
    <3> QED
      BY <2>0, <2>d, <3>1, <3>4, <3>5, AccountsUntouched
  <2>14. CASE Crash \/ Exit
    <3>1. /\ state' = disk_state /\ dirty' = {} /\ draining' = [t \in Tasks |-> NothingDrained]
          /\ pc' = [t \in Tasks |-> "idle"]
          /\ UNCHANGED <<disk_state, latest_block_number, block_number_to_hash>>
      BY <2>14 DEF Crash, Exit, Restart, disk, blocks
    <3>2. StateCoversChain'
      BY <2>0, <2>c, <3>1 DEF AccountsInv, StateCoversChain, NoncesPast
    <3>3. \A t \in Tasks : CommitInv(t)'
      BY <3>1 DEF CommitInv, NothingDrained
    <3>4. \A a \in Account : state'[a].nonce >= disk_state'[a].nonce
      BY <2>a, <3>1 DEF AccountData
    <3> QED
      BY <2>0, <3>1, <3>2, <3>3, <3>4 DEF AccountsInv, EffectUsesNonce
  <2>15. CASE ShutdownSerialize \/ ShutdownPut \/ UNCHANGED vars
    BY <2>0, <2>15, <2>c, AccountsUntouched
       DEF ShutdownSerialize, ShutdownPut, vars, memory, disk, blocks, AccountsInv, CommitInv,
           NoncesPast
  <2> QED
    BY <2>0, <2>1, <2>2, <2>3, <2>4, <2>5, <2>6, <2>7, <2>8, <2>9, <2>10, <2>11, <2>12, <2>13,
       <2>14, <2>15 DEF Next, TaskStep
<1> QED
  BY <1>1, <1>2, ChainInvariant, PTL DEF Spec

\* With one task and no failed write, whatever the crashes and reorganisations,
\* the index names a complete chain of blocks up to the latest block number, the
\* stored nonces are past all transactions of it, though a kill may fall between
\* the puts of one commit, and between two applications the head in memory is the
\* durable one.
THEOREM OneTaskKeepsTheChain ==
  ASSUME SingleTask, NoErrors, Tasks # {}
  PROVE  Spec => [](CanonicalChain /\ StateCoversChain /\ HeadIsDurable)
<1>1. ChainInv /\ AccountsInv => CanonicalChain /\ StateCoversChain /\ HeadIsDurable
  BY DEF ChainInv, AccountsInv, TaskInv, HeadIsDurable, Quiescent
<1> QED
  BY <1>1, ChainInvariant, AccountsInvariant, PTL

\* On accounts that hold exactly the chain, the transaction of a block on top of it
\* runs, once, on both of its accounts.
LEMMA ExecuteHolds ==
  ASSUME ChainInv, NEW t \in Tasks, Execute(t),
         HoldExactly(state, Canonical, block_number_to_hash[latest_block_number])
  PROVE  HoldExactly(state', Canonical \cup {cur[t]}, cur[t])
<1> DEFINE b == cur[t]
           s == sender[b]
<1>0. b = cur[t] /\ s = sender[b]
  OBVIOUS
<1> HIDE DEF b, s
<1>1. /\ b \in Hash /\ number[b] = latest_block_number + 1 /\ parent_hash[b] = head
      /\ head = block_number_to_hash[latest_block_number] /\ latest_block_number \in Nat
  <2>1. pc[t] = "execute" /\ TaskInv(t)
    BY DEF Execute, ChainInv
  <2>2. cur[t] \in Hash /\ latest_block_number \in Nat
    BY <2>1, ChainAssumption DEF ChainInv, TypeOK, Height
  <2> QED
    BY <1>0, <2>1, <2>2 DEF TaskInv, ApplySteps
<1>2. head \in Hash
  BY <1>1 DEF ChainInv, CanonicalChain, TypeOK
<1>3. b \notin Canonical
  <2>1. \A n \in 0..latest_block_number : number[block_number_to_hash[n]] = n
    BY ChainAssumption DEF ChainInv, CanonicalChain, TypeOK, IndexInv, Height
  <2> QED
    BY <1>1, <2>1 DEF Canonical
<1>4. s \in Account /\ TxNonce(b) = nonce_after[head][s]
  BY <1>0, <1>1, AccountAssumption DEF TxNonce
<1>5. \A a \in Account : /\ nonce_after[head][a] \in Nat
                         /\ nonce_after[b][a] = nonce_after[head][a] + (IF a = s THEN 1 ELSE 0)
  BY <1>0, <1>1, <1>2, AccountAssumption
<1>6. \A a \in Account : state[a].nonce = nonce_after[head][a]
  BY <1>1 DEF HoldExactly
<1>7. \A a \in Account : state[a].nonce \in Nat /\ state[a].applied \in [Hash -> Nat]
  BY DEF ChainInv, TypeOK, AccountData
<1>8. /\ \A a \in Account : a \in Parties(b) => state'[a] = AfterTx(a, b)
      /\ \A a \in Account : a \notin Parties(b) => state'[a] = state[a]
  BY <1>0, <1>4, <1>6 DEF Execute
<1>9. s \in Parties(b)
  <2>1. b # genesis
    BY <1>1, ChainAssumption
  <2> QED
    BY <1>0, <2>1 DEF Parties
<1>10. ASSUME NEW a \in Account
       PROVE  /\ a = s => AfterTx(a, b).nonce = state[a].nonce + 1
              /\ a # s => AfterTx(a, b).nonce = state[a].nonce
              /\ AfterTx(a, b).applied[b] = state[a].applied[b] + 1
              /\ \A c \in Hash \ {b} : AfterTx(a, b).applied[c] = state[a].applied[c]
  BY <1>0, <1>1, <1>7, AfterTxFields
<1>11. ASSUME NEW a \in Account PROVE state'[a].nonce = nonce_after[b][a]
  <2>1. CASE a = s
    BY <1>5, <1>6, <1>8, <1>9, <1>10, <2>1
  <2>2. CASE a # s
    <3>1. state'[a].nonce = state[a].nonce
      BY <1>8, <1>10, <2>2
    <3>2. nonce_after[b][a] = nonce_after[head][a]
      BY <1>5, <2>2
    <3> QED
      BY <1>6, <3>1, <3>2
  <2> QED
    BY <2>1, <2>2
<1>12. ASSUME NEW a \in Account, NEW c \in Hash
       PROVE  state'[a].applied[c] =
                IF c \in Canonical \cup {b} /\ a \in Parties(c) THEN 1 ELSE 0
  <2>1. state[a].applied[c] = IF c \in Canonical /\ a \in Parties(c) THEN 1 ELSE 0
    BY DEF HoldExactly
  <2>2. CASE c # b
    <3>1. state'[a].applied[c] = state[a].applied[c]
      BY <1>8, <1>10, <2>2
    <3> QED
      BY <2>1, <2>2, <3>1
  <2>3. CASE c = b /\ a \in Parties(b)
    <3>1. state[a].applied[b] = 0
      BY <1>3, <2>1, <2>3
    <3> QED
      BY <1>8, <1>10, <2>3, <3>1
  <2>4. CASE c = b /\ a \notin Parties(b)
    BY <1>8, <2>1, <2>4
  <2> QED
    BY <2>2, <2>3, <2>4
<1> QED
  BY <1>0, <1>11, <1>12 DEF HoldExactly

\* On a node that has met no fault, a single task keeps the world in step with
\* the durable chain and the block in hand.
LEMMA WorldInvariant ==
  ASSUME SingleTask, NoErrors PROVE Spec => [](\A t \in Tasks : WorldInv(t))
<1> DEFINE Inv == \A t \in Tasks : WorldInv(t)
<1>1. Init => Inv
  <2> SUFFICES ASSUME Init, NEW t \in Tasks PROVE WorldInv(t)
    OBVIOUS
  <2>1. 1..0 = {}
    OBVIOUS
  <2>2. ChainBlocks = << >>
    BY <2>1 DEF Init, ChainBlocks
  <2>3. HoldExactly(state, Canonical, block_number_to_hash[latest_block_number])
    <3>1. Canonical = {genesis} /\ block_number_to_hash[latest_block_number] = genesis
      BY ChainAssumption DEF Init, Canonical, Height
    <3>2. \A a \in Account : state[a] = NewAccount
      BY DEF Init
    <3> QED
      BY <3>1, <3>2, AccountAssumption DEF HoldExactly, NewAccount, Parties
  <2> QED
    BY <2>2, <2>3 DEF Init, WorldInv, ReorgSteps, ApplySteps
<1>2. ChainInv /\ ChainInv' /\ Inv /\ [Next]_vars => Inv'
  <2>0. SUFFICES ASSUME ChainInv, ChainInv', Inv, [Next]_vars, FaultFree' PROVE Inv'
    BY DEF WorldInv
  <2> USE SingleTask, NoErrors
      DEF WorldInv, Goto, Return, ApplySteps, ReorgSteps, disk, blocks, SingleTask, NoErrors
  <2>a. FaultFree
    BY <2>0 DEF Next, TaskStep, Start, Execute, Tick, SaveWorld, Commit, PutAccount,
           Committed, PutHeader,
       PutNumberToHash, PutBody, PutTransactions, PutLatest, StoreReceipts, UpdateHead,
       WriteError, ReorgStart, SetLatest, SetHead, Crash, ShutdownSerialize, ShutdownPut,
       Exit, Restart, vars, memory, FaultFree, ChainInv, TypeOK
  <2>b. latest_block_number \in Nat /\ pc \in [Tasks -> {"idle"} \cup ApplySteps \cup ReorgSteps]
        /\ cur \in [Tasks -> Hash \cup {NoHash}]
    BY <2>0, ChainAssumption DEF ChainInv, TypeOK, Height
  <2>c. ASSUME UNCHANGED <<latest_block_number, block_number_to_hash>>
        PROVE  ChainBlocks' = ChainBlocks /\ Canonical' = Canonical
    BY <2>c DEF ChainBlocks, Canonical
  <2>1. ASSUME NEW t \in Tasks, NEW b \in Hash, Start(t, b) PROVE Inv'
    BY <2>0, <2>1, <2>a, <2>b, <2>c DEF Start, VerifyBlock
  <2>2. ASSUME NEW t \in Tasks, Execute(t) PROVE Inv'
    <3>1. /\ pc[t] = "execute" /\ pc' = [pc EXCEPT ![t] = "tick"] /\ cur' = cur
          /\ world' = world /\ ChainBlocks' = ChainBlocks /\ Canonical' = Canonical
      BY <2>2, <2>c DEF Execute
    <3>2. HoldExactly(state', Canonical \cup {cur[t]}, cur[t])
      BY <2>0, <2>2, <2>a, <3>1, ExecuteHolds
    <3> QED
      BY <2>0, <2>a, <2>b, <3>1, <3>2
  <2>3. ASSUME NEW t \in Tasks, Tick(t) PROVE Inv'
    <3>1. /\ pc[t] = "tick" /\ pc' = [pc EXCEPT ![t] = "save_world"] /\ cur' = cur
          /\ world' = Append(world, cur[t]) /\ state' = state
          /\ UNCHANGED <<latest_block_number, block_number_to_hash>>
      BY <2>0, <2>3, <2>a DEF Tick, FaultFree
    <3>2. ChainBlocks' = ChainBlocks /\ Canonical' = Canonical
      BY <2>c, <3>1
    <3>3. world = ChainBlocks /\ HoldExactly(state, Canonical \cup {cur[t]}, cur[t])
      BY <2>0, <2>a, <3>1
    <3> QED
      BY <2>b, <3>1, <3>2, <3>3
  <2>4. ASSUME NEW t \in Tasks, SaveWorld(t) PROVE Inv'
    BY <2>0, <2>4, <2>a, <2>b, <2>c DEF SaveWorld
  <2>5. ASSUME NEW t \in Tasks, Commit(t) \/ Committed(t) PROVE Inv'
    BY <2>0, <2>5, <2>a, <2>b, <2>c DEF Commit, Committed
  <2>5a. ASSUME NEW t \in Tasks, NEW a \in Account, PutAccount(t, a) PROVE Inv'
    BY <2>0, <2>5a, <2>a, <2>b, <2>c DEF PutAccount
  <2>6. ASSUME NEW t \in Tasks, PutHeader(t) PROVE Inv'
    BY <2>0, <2>6, <2>a, <2>b, <2>c DEF PutHeader
  <2>7. ASSUME NEW t \in Tasks, PutNumberToHash(t) PROVE Inv'
    <3>1. number[cur[t]] = latest_block_number + 1
      BY <2>0, <2>7 DEF PutNumberToHash, ChainInv, TaskInv
    <3>2. /\ latest_block_number' = latest_block_number
          /\ \A n \in 0..latest_block_number : block_number_to_hash'[n] = block_number_to_hash[n]
      BY <2>0, <2>7, <2>b, <3>1 DEF PutNumberToHash, ChainInv, TypeOK, Height
    <3>3. ChainBlocks' = ChainBlocks
      BY <2>b, <3>2 DEF ChainBlocks
    <3>4. Canonical' = Canonical
      BY <2>b, <3>2 DEF Canonical
    <3> QED
      BY <2>0, <2>7, <2>a, <2>b, <3>3, <3>4 DEF PutNumberToHash
  <2>8. ASSUME NEW t \in Tasks, PutBody(t) PROVE Inv'
    BY <2>0, <2>8, <2>a, <2>b, <2>c DEF PutBody
  <2>9. ASSUME NEW t \in Tasks, PutTransactions(t) PROVE Inv'
    BY <2>0, <2>9, <2>a, <2>b, <2>c DEF PutTransactions
  <2>10. ASSUME NEW t \in Tasks, PutLatest(t) PROVE Inv'
    <3>1. /\ pc[t] = "latest" /\ number[cur[t]] = latest_block_number + 1
          /\ block_number_to_hash[number[cur[t]]] = cur[t]
      BY <2>0, <2>10 DEF PutLatest, ChainInv, TaskInv
    <3>2. /\ latest_block_number' = latest_block_number + 1
          /\ block_number_to_hash' = block_number_to_hash
          /\ block_number_to_hash[latest_block_number + 1] = cur[t]
          /\ pc' = [pc EXCEPT ![t] = "receipts"] /\ world' = world /\ state' = state
      BY <2>10, <3>1 DEF PutLatest
    <3>3. ChainBlocks' = Append(ChainBlocks, cur[t])
      BY <2>b, <3>2 DEF ChainBlocks
    <3>4. Canonical' = Canonical \cup {cur[t]}
      BY <2>b, <3>2 DEF Canonical
    <3>5. /\ world = Append(ChainBlocks, cur[t])
          /\ HoldExactly(state, Canonical \cup {cur[t]}, cur[t])
      BY <2>0, <2>a, <3>1
    <3> QED
      BY <2>b, <3>2, <3>3, <3>4, <3>5
  <2>11. ASSUME NEW t \in Tasks, StoreReceipts(t) PROVE Inv'
    BY <2>0, <2>11, <2>a, <2>b, <2>c DEF StoreReceipts
  <2>12. ASSUME NEW t \in Tasks, UpdateHead(t) PROVE Inv'
    BY <2>0, <2>12, <2>a, <2>b, <2>c DEF UpdateHead
  <2>13. ASSUME NEW t \in Tasks, WriteError(t) PROVE Inv'
    BY <2>0, <2>13, <2>a DEF WriteError, FaultFree
  <2>14. ASSUME NEW t \in Tasks, SetLatest(t) PROVE Inv'
    BY <2>0, <2>14, <2>a DEF SetLatest
  <2>15. ASSUME NEW t \in Tasks, SetHead(t) PROVE Inv'
    BY <2>0, <2>15, <2>a DEF SetHead
  <2>16. ASSUME NEW t \in Tasks, NEW n \in Height, ReorgStart(t, n) PROVE Inv'
    BY <2>0, <2>16, <2>a DEF ReorgStart, FaultFree
  <2>17. CASE Crash \/ Exit
    BY <2>0, <2>17, <2>a DEF Crash, Exit, Restart, FaultFree
  <2>18. CASE ShutdownSerialize \/ ShutdownPut \/ UNCHANGED vars
    BY <2>0, <2>18, <2>a, <2>c DEF ShutdownSerialize, ShutdownPut, vars, memory
  <2> QED
    BY <2>0, <2>1, <2>2, <2>3, <2>4, <2>5, <2>5a, <2>6, <2>7, <2>8, <2>9, <2>10, <2>11, <2>12,
       <2>13, <2>14, <2>15, <2>16, <2>17, <2>18 DEF Next, TaskStep
<1> QED
  BY <1>1, <1>2, ChainInvariant, PTL DEF Spec

\* With one task and no failed write the head is the durable one between two
\* applications, the stored nonces are past every transaction of the chain and no
\* transaction is charged twice to its sender, wherever a kill falls; on a node that
\* has met no fault the world has then ticked exactly the blocks of the chain, each
\* once and in order, and the accounts hold exactly their transactions.
THEOREM OneTaskStateMatches ==
  ASSUME SingleTask, NoErrors, Tasks # {}
  PROVE  Spec => []StateMatchesChain
<1>1. ChainInv /\ AccountsInv /\ (\A t \in Tasks : WorldInv(t)) => StateMatchesChain
  <2> SUFFICES ASSUME ChainInv, AccountsInv, \A t \in Tasks : WorldInv(t)
               PROVE  StateMatchesChain
    OBVIOUS
  <2>1. StateCoversChain /\ SentOnce
    BY DEF AccountsInv, EffectUsesNonce, SentOnce
  <2>2. ASSUME Quiescent
        PROVE  /\ block_number_to_hash[latest_block_number] = head
               /\ number[head] = latest_block_number
    BY <2>2 DEF Quiescent, ChainInv, TaskInv, IndexInv, TypeOK
  <2>3. ASSUME Quiescent, FaultFree
        PROVE  /\ world = [n \in 1..number[head] |-> block_number_to_hash[n]]
               /\ HoldExactly(state, Canonical, head)
    BY <2>2, <2>3 DEF Quiescent, WorldInv, ChainBlocks, ApplySteps
  <2> QED
    BY <2>1, <2>2, <2>3 DEF StateMatchesChain, HeadIsDurable, WorldFollowsChain, StateIsOfChain
<1> QED
  BY <1>1, ChainInvariant, AccountsInvariant, WorldInvariant, PTL

\* Until execute_reorg is called, a block that was published as the latest one is
\* never replaced and the latest block number never moves back.
THEOREM OneTaskIsFinal ==
  ASSUME SingleTask, NoErrors
  PROVE  Spec => Finality
<1> DEFINE NoReorgStep == reorgs = 0 => \A t \in Tasks : pc[t] \notin ReorgSteps
           Final == reorgs' = 0 =>
                    /\ latest_block_number' >= latest_block_number
                    /\ \A n \in 0..latest_block_number :
                         block_number_to_hash'[n] = block_number_to_hash[n]
<1>1. Init => NoReorgStep
  BY DEF Init, ReorgSteps
<1>2. TypeOK /\ NoReorgStep /\ [Next]_vars => NoReorgStep'
  BY ChainAssumption
     DEF TypeOK, Next, TaskStep, Start, VerifyBlock, Execute, Tick, SaveWorld, Commit, PutAccount,
           Committed, PutHeader,
         PutNumberToHash, PutBody, PutTransactions, PutLatest, StoreReceipts, UpdateHead,
         WriteError, ReorgStart, SetLatest, SetHead, Crash, ShutdownSerialize, ShutdownPut,
         Exit, Restart, Goto, Return, ReorgSteps, ApplySteps, vars, memory
<1>3. ChainInv /\ NoReorgStep /\ [Next]_vars => [Final]_vars
  <2> SUFFICES ASSUME ChainInv, NoReorgStep, [Next]_vars, reorgs' = 0 PROVE Final
    OBVIOUS
  <2>1. ASSUME NEW t \in Tasks, PutNumberToHash(t) PROVE Final
    <3>1. number[cur[t]] = latest_block_number + 1 /\ latest_block_number \in Nat
      BY <2>1 DEF PutNumberToHash, ChainInv, TaskInv, ApplySteps, TypeOK, Height
    <3> QED
      BY <2>1, <3>1 DEF PutNumberToHash, ChainInv, TypeOK, Height
  <2>2. ASSUME NEW t \in Tasks, PutLatest(t) PROVE Final
    <3>1. number[cur[t]] = latest_block_number + 1 /\ latest_block_number \in Nat
      BY <2>2 DEF PutLatest, ChainInv, TaskInv, ApplySteps, TypeOK, Height
    <3> QED
      BY <2>2, <3>1 DEF PutLatest, blocks
  <2>3. ASSUME NEW t \in Tasks, SetLatest(t) PROVE Final
    BY <2>3 DEF SetLatest, ReorgSteps
  <2>4. CASE UNCHANGED <<latest_block_number, block_number_to_hash>>
    BY <2>4 DEF ChainInv, TypeOK, Height
  <2> QED
    BY <2>1, <2>2, <2>3, <2>4
       DEF Next, TaskStep, Start, Execute, Tick, SaveWorld, Commit, PutAccount,
           Committed, PutHeader,
           PutBody, PutTransactions, StoreReceipts, UpdateHead,
           WriteError, ReorgStart, SetHead, Crash, ShutdownSerialize, ShutdownPut,
           Exit, Restart, vars, disk, blocks
<1>4. Spec => []NoReorgStep
  BY <1>1, <1>2, TypeCorrect, PTL DEF Spec
<1> QED
  BY <1>3, <1>4, ChainInvariant, PTL DEF Spec, Finality
-----------------------------------------------------------------------------
(* The ledger                                                              *)

GenesisStays == block_number_to_hash[0] = genesis

\* No block is indexed over genesis: what is applied is above the latest block.
LEMMA GenesisInvariant == ASSUME SingleTask, NoErrors PROVE Spec => []GenesisStays
<1>1. Init => GenesisStays
  BY ChainAssumption DEF Init, GenesisStays, Height
<1>2. ChainInv /\ GenesisStays /\ [Next]_vars => GenesisStays'
  <2> SUFFICES ASSUME ChainInv, GenesisStays, [Next]_vars PROVE GenesisStays'
    OBVIOUS
  <2>1. ASSUME NEW t \in Tasks, PutNumberToHash(t) PROVE GenesisStays'
    <3>1. number[cur[t]] = latest_block_number + 1 /\ latest_block_number \in Nat
      BY <2>1 DEF PutNumberToHash, ChainInv, TaskInv, ApplySteps, TypeOK, Height
    <3>2. number[cur[t]] # 0
      BY <3>1
    <3>3. 0 \in Height
      BY ChainAssumption DEF Height
    <3>4. block_number_to_hash'[0] = block_number_to_hash[0]
      BY <2>1, <3>2, <3>3 DEF PutNumberToHash, ChainInv, TypeOK
    <3> QED
      BY <3>4 DEF GenesisStays
  <2>2. CASE UNCHANGED block_number_to_hash
    BY <2>2 DEF GenesisStays
  <2> QED
    BY <2>1, <2>2
       DEF Next, TaskStep, Start, Execute, Tick, SaveWorld, Commit, PutAccount, Committed, PutHeader, PutBody,
           PutTransactions, PutLatest, StoreReceipts, UpdateHead, WriteError, ReorgStart,
           SetLatest, SetHead, Crash, ShutdownSerialize, ShutdownPut, Exit, Restart,
           vars, disk, blocks
<1> QED
  BY <1>1, <1>2, ChainInvariant, PTL DEF Spec

\* The durable chain is a list of blocks, and the one at its end is what the index
\* names for the latest number.
LEMMA LedgerTip ==
  ASSUME ChainInv, GenesisStays
  PROVE  /\ ChainBlocks \in Seq(Hash) /\ Len(ChainBlocks) = latest_block_number
         /\ latest_block_number \in Nat
         /\ L!Tip = block_number_to_hash[latest_block_number]
<1>1. latest_block_number \in Nat /\ 0..latest_block_number \subseteq Height
  BY ChainAssumption DEF ChainInv, TypeOK, Height
<1>2. \A n \in 0..latest_block_number : block_number_to_hash[n] \in Hash
  BY DEF ChainInv, TypeOK, CanonicalChain
<1>3. ChainBlocks \in Seq(Hash) /\ Len(ChainBlocks) = latest_block_number
  BY <1>1, <1>2 DEF ChainBlocks
<1>4. ChainBlocks = <<>> <=> latest_block_number = 0
  BY <1>1, <1>3
<1>5. CASE latest_block_number = 0
  BY <1>4, <1>5 DEF L!Tip, GenesisStays
<1>6. CASE latest_block_number # 0
  <2>1. ChainBlocks[latest_block_number] = block_number_to_hash[latest_block_number]
    BY <1>1, <1>6 DEF ChainBlocks
  <2> QED
    BY <1>3, <1>4, <1>6, <2>1 DEF L!Tip
<1> QED
  BY <1>1, <1>3, <1>5, <1>6

\* What leaves the index alone, up to the latest number, leaves the ledger alone.
LEMMA LedgerSame ==
  ASSUME latest_block_number' = latest_block_number,
         \A n \in 1..latest_block_number : block_number_to_hash'[n] = block_number_to_hash[n]
  PROVE  ChainBlocks' = ChainBlocks
BY DEF ChainBlocks

\* Writing the head is announcing the end of the ledger.
LEMMA HeadAnnounces ==
  ASSUME ChainInv, GenesisStays, ChainBlocks' = ChainBlocks,
         head' = block_number_to_hash[latest_block_number]
  PROVE  L!Announce
BY LedgerTip DEF L!Announce

\* A step that touches neither is none of the ledger's.
LEMMA LedgerStutters ==
  ASSUME ChainBlocks' = ChainBlocks, head' = head
  PROVE  UNCHANGED L!vars
BY DEF L!vars

\* put_latest_block_number is the one put that extends the ledger.
LEMMA LatestExtends ==
  ASSUME ChainInv, GenesisStays, SingleTask, NEW t \in Tasks, PutLatest(t)
  PROVE  \E b \in Hash : L!Extend(b)
<1>1. /\ pc[t] = "latest" /\ latest_block_number' = number[cur[t]]
      /\ block_number_to_hash' = block_number_to_hash /\ head' = head
  BY DEF PutLatest, blocks
<1>2. /\ number[cur[t]] = latest_block_number + 1 /\ parent_hash[cur[t]] = head
      /\ block_number_to_hash[latest_block_number] = head
      /\ block_number_to_hash[number[cur[t]]] = cur[t]
  BY <1>1 DEF ChainInv, TaskInv, ApplySteps
<1>3. cur[t] \in Hash /\ latest_block_number \in Nat
  BY <1>1, LedgerTip DEF ChainInv, TypeOK
<1>4. ChainBlocks' = Append(ChainBlocks, cur[t])
  BY <1>1, <1>2, <1>3 DEF ChainBlocks
<1>5. head = L!Tip
  BY <1>2, LedgerTip
<1> QED
  BY <1>1, <1>2, <1>3, <1>4, <1>5 DEF L!Extend

\* set_head with a lower block cuts the ledger back to it.
LEMMA SetLatestCuts ==
  ASSUME ChainInv, GenesisStays, SingleTask, NEW t \in Tasks, SetLatest(t)
  PROVE  \E n \in 0..Len(ChainBlocks) : L!CutBack(n)
<1>1. /\ pc[t] = "set_latest" /\ latest_block_number' = number[cur[t]]
      /\ block_number_to_hash' = block_number_to_hash /\ head' = head
  BY DEF SetLatest, blocks
<1>2. /\ number[cur[t]] <= latest_block_number
      /\ block_number_to_hash[latest_block_number] = head
  BY <1>1 DEF ChainInv, TaskInv, ApplySteps
<1>3. cur[t] \in Hash /\ number[cur[t]] \in Nat
  BY <1>1, ChainAssumption DEF ChainInv, TypeOK, Height
<1>4. PICK n \in Nat : n = number[cur[t]] /\ n <= latest_block_number
  BY <1>2, <1>3
<1>5. /\ ChainBlocks \in Seq(Hash) /\ Len(ChainBlocks) = latest_block_number
      /\ latest_block_number \in Nat /\ head = L!Tip
  BY <1>2, LedgerTip
<1>6. ChainBlocks' = SubSeq(ChainBlocks, 1, n)
  <2>1. ChainBlocks' = [k \in 1..n |-> block_number_to_hash[k]]
    BY <1>1, <1>4 DEF ChainBlocks
  <2>2. SubSeq(ChainBlocks, 1, n) = [k \in 1..n |-> ChainBlocks[k]]
    BY <1>4, <1>5
  <2>3. \A k \in 1..n : ChainBlocks[k] = block_number_to_hash[k]
    BY <1>4, <1>5 DEF ChainBlocks
  <2> QED
    BY <2>1, <2>2, <2>3
<1>7. n \in 0..Len(ChainBlocks)
  BY <1>4, <1>5
<1> QED
  BY <1>1, <1>5, <1>6, <1>7 DEF L!CutBack

\* Every step of the node is one of the ledger or none.
LEMMA StepsOfLedger ==
  ASSUME SingleTask, ChainInv, GenesisStays, [Next]_vars
  PROVE  L!Next \/ UNCHANGED L!vars
<1>1. ASSUME NEW t \in Tasks, PutNumberToHash(t) PROVE UNCHANGED L!vars
  <2>1. number[cur[t]] = latest_block_number + 1 /\ latest_block_number \in Nat
    BY <1>1 DEF PutNumberToHash, ChainInv, TaskInv, ApplySteps, TypeOK, Height
  <2>2. \A n \in 1..latest_block_number : block_number_to_hash'[n] = block_number_to_hash[n]
    BY <1>1, <2>1 DEF PutNumberToHash, ChainInv, TypeOK, Height
  <2> QED
    BY <1>1, <2>2, LedgerSame, LedgerStutters DEF PutNumberToHash
<1>2. ASSUME NEW t \in Tasks, PutLatest(t) PROVE L!Next
  BY <1>2, LatestExtends DEF L!Next
<1>3. ASSUME NEW t \in Tasks, SetLatest(t) PROVE L!Next
  BY <1>3, SetLatestCuts DEF L!Next
<1>4. ASSUME NEW t \in Tasks, UpdateHead(t) \/ SetHead(t) PROVE L!Next
  <2>1. /\ head' = cur[t] /\ pc[t] \in {"head", "set_head"}
        /\ latest_block_number' = latest_block_number
        /\ block_number_to_hash' = block_number_to_hash
    BY <1>4 DEF UpdateHead, SetHead, disk
  <2>2. block_number_to_hash[latest_block_number] = cur[t]
    BY <2>1 DEF ChainInv, TaskInv
  <2> QED
    BY <2>1, <2>2, LedgerSame, HeadAnnounces DEF L!Next
<1>5. CASE Crash \/ Exit
  <2>1. /\ head' = RestoredHead /\ latest_block_number' = latest_block_number
        /\ block_number_to_hash' = block_number_to_hash
    BY <1>5 DEF Crash, Exit, Restart, disk
  <2>2. RestoredHead = block_number_to_hash[latest_block_number]
    BY LedgerTip DEF RestoredHead, ChainInv, CanonicalChain
  <2> QED
    BY <2>1, <2>2, LedgerSame, HeadAnnounces DEF L!Next
<1>6. CASE UNCHANGED <<head, latest_block_number, block_number_to_hash>>
  BY <1>6, LedgerSame, LedgerStutters
<1> QED
  BY <1>1, <1>2, <1>3, <1>4, <1>5, <1>6
     DEF Next, TaskStep, Start, Execute, Tick, SaveWorld, Commit, PutAccount, Committed, PutHeader, PutBody,
         PutTransactions, StoreReceipts, WriteError, ReorgStart, ShutdownSerialize,
         ShutdownPut, vars, memory, disk, blocks

\* One task implements the ledger, through any crashes, shutdowns and
\* reorganisations: its dozen puts per block are one step to whoever reads the
\* chain, and a restart loses no block of it and adds none.
THEOREM OneTaskIsLedger ==
  ASSUME SingleTask, NoErrors
  PROVE  Spec => ChainIsLedger
<1>1. Init => L!Init
  <2> SUFFICES ASSUME Init PROVE L!Init
    OBVIOUS
  <2>1. 1..0 = {}
    OBVIOUS
  <2>2. ChainBlocks = <<>>
    BY <2>1 DEF Init, ChainBlocks
  <2> QED
    BY <2>2 DEF Init, L!Init
<1>2. ChainInv /\ GenesisStays /\ [Next]_vars => [L!Next]_L!vars
  BY SingleTask, StepsOfLedger
<1> QED
  BY <1>1, <1>2, ChainInvariant, GenesisInvariant, PTL DEF Spec, ChainIsLedger, L!Spec
=============================================================================
