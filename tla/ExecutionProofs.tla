-------------------------- MODULE ExecutionProofs --------------------------
(***************************************************************************)
(* Theorems about the execution of blocks, one at a time, for any accounts, *)
(* transactions and bounds: balances stay numbers, no wei is created and,  *)
(* but for accounts that the EVM has held without loading them, stored     *)
(* nonces never go back and no transaction succeeds twice.                 *)
(***************************************************************************)
EXTENDS Execution, FiniteSetTheorems, SequenceTheorems, WellFoundedInduction, TLAPS

-----------------------------------------------------------------------------
(* The EVM's database and the account cache                                *)

\* A database of accounts.
Database(db) == DOMAIN db \subseteq Address /\ \A a \in DOMAIN db : db[a] \in Account

\* What transaction x may cost or move.
LEMMA AmountsTyped ==
  ASSUME NEW x \in Tx, NEW d \in Nat
  PROVE  x.gas * PriceOr(x, d) \in Nat /\ x.value \in Nat /\ x.gas \in Nat /\ x.nonce \in Nat
<1>1. x.gas \in Nat /\ x.value \in Nat /\ x.nonce \in Nat /\ x.price \in Nat \cup {NoPrice}
  BY ExecutionAssumption
<1>2. PriceOr(x, d) \in Nat
  BY <1>1 DEF PriceOr
<1> QED
  BY <1>1, <1>2

\* A missing account is an empty one.
LEMMA EvmAccountTyped ==
  ASSUME NEW db, Database(db), NEW a
  PROVE  EvmAccount(db, a) \in Account
  BY DEF EvmAccount, NoAccount, Account, Database

\* Adding to an account adds it to the database and keeps every nonce.
LEMMA EvmAddFacts ==
  ASSUME NEW db, Database(db), NEW a \in Address, NEW amount \in Nat
  PROVE  /\ Database(EvmAdd(db, a, amount)) /\ DOMAIN EvmAdd(db, a, amount) = DOMAIN db \cup {a}
         /\ \A b \in DOMAIN db \cup {a} : EvmAdd(db, a, amount)[b].nonce = EvmAccount(db, b).nonce
<1>1. PICK acc : acc = EvmAccount(db, a)
  OBVIOUS
<1>2. acc \in Account
  BY <1>1, EvmAccountTyped
<1>3. PICK more : more = [acc EXCEPT !.balance = @ + amount]
  OBVIOUS
<1>4. more \in Account /\ more.nonce = acc.nonce
  BY <1>2, <1>3 DEF Account
<1>5. PICK new : new = EvmAdd(db, a, amount)
  OBVIOUS
<1>6. new = [b \in DOMAIN db \cup {a} |-> IF b = a THEN more ELSE db[b]]
  BY <1>1, <1>3, <1>5 DEF EvmAdd, EvmPut
<1>7. DOMAIN new = DOMAIN db \cup {a}
  BY <1>6
<1>8. \A b \in DOMAIN db \cup {a} : new[b] \in Account /\ new[b].nonce = EvmAccount(db, b).nonce
  BY <1>1, <1>4, <1>6 DEF Database, EvmAccount
<1>9. Database(new)
  BY <1>7, <1>8 DEF Database
<1> QED
  BY <1>5, <1>7, <1>8, <1>9

\* Reading accounts changes none, nor what the others are worth.
LEMMA EvmTouchFacts ==
  ASSUME NEW db, Database(db), NEW s \in SUBSET Address
  PROVE  /\ Database(EvmTouch(db, s)) /\ DOMAIN EvmTouch(db, s) = DOMAIN db \cup s
         /\ \A a \in DOMAIN db \cup s : EvmTouch(db, s)[a] = EvmAccount(db, a)
         /\ \A a : EvmAccount(EvmTouch(db, s), a) = EvmAccount(db, a)
<1>1. PICK new : new = EvmTouch(db, s)
  OBVIOUS
<1>2. DOMAIN new = DOMAIN db \cup s /\ \A a \in DOMAIN db \cup s : new[a] = EvmAccount(db, a)
  BY <1>1 DEF EvmTouch
<1>3. \A a : EvmAccount(db, a) \in Account
  BY EvmAccountTyped
<1>4. Database(new)
  BY <1>2, <1>3 DEF Database
<1>5. \A a : EvmAccount(new, a) = EvmAccount(db, a)
  <2> SUFFICES ASSUME NEW a PROVE EvmAccount(new, a) = EvmAccount(db, a)
    OBVIOUS
  <2>1. CASE a \in DOMAIN new
    BY <1>2, <2>1 DEF EvmAccount
  <2>2. CASE a \notin DOMAIN new
    BY <1>2, <2>2 DEF EvmAccount
  <2> QED
    BY <2>1, <2>2
<1> QED
  BY <1>1, <1>2, <1>4, <1>5

\* A creation changes no balance, and a nonce only from zero.
LEMMA EvmCreateFacts ==
  ASSUME NEW db, Database(db), NEW s
  PROVE  /\ Database(EvmCreate(db, s)) /\ DOMAIN EvmCreate(db, s) = DOMAIN db
         /\ \A a \in DOMAIN db : /\ EvmCreate(db, s)[a].balance = db[a].balance
                                 /\ EvmCreate(db, s)[a].nonce >= db[a].nonce
                                 /\ db[a].nonce # 0 => EvmCreate(db, s)[a] = db[a]
<1>1. PICK new : new = EvmCreate(db, s)
  OBVIOUS
<1>2. DOMAIN new = DOMAIN db
  BY <1>1 DEF EvmCreate
<1>3. ASSUME NEW a \in DOMAIN db
      PROVE  /\ new[a] \in Account /\ new[a].balance = db[a].balance /\ new[a].nonce >= db[a].nonce
             /\ db[a].nonce # 0 => new[a] = db[a]
  <2>1. PICK acc : acc = db[a]
    OBVIOUS
  <2>2. acc \in Account /\ acc.nonce \in Nat
    BY <2>1 DEF Database, Account
  <2>3. PICK one : one = [acc EXCEPT !.nonce = 1]
    OBVIOUS
  <2>4. one \in Account /\ one.nonce = 1 /\ one.balance = acc.balance
    BY <2>2, <2>3 DEF Account
  <2>5. CASE a \in s /\ acc.nonce = 0
    <3>1. new[a] = one
      BY <1>1, <2>1, <2>3, <2>5 DEF EvmCreate
    <3> QED
      BY <2>1, <2>4, <2>5, <3>1
  <2>6. CASE ~(a \in s /\ acc.nonce = 0)
    <3>1. new[a] = acc
      BY <1>1, <2>1, <2>6 DEF EvmCreate
    <3> QED
      BY <2>1, <2>2, <3>1
  <2> QED
    BY <2>5, <2>6
<1>4. Database(new)
  BY <1>2, <1>3 DEF Database
<1> QED
  BY <1>1, <1>2, <1>3, <1>4

\* A transaction that revm commits uses up its nonce, lowers no other one, and
\* takes no more from its sender than there is.
LEMMA EvmCommitFacts ==
  ASSUME NEW db, Database(db), NEW x \in Tx, EvmValid(db, x)
  PROVE  /\ Database(EvmCommit(db, x)) /\ DOMAIN db \subseteq DOMAIN EvmCommit(db, x)
         /\ EvmCommit(db, x)[x.sender].nonce = x.nonce + 1 /\ x.sender \in DOMAIN EvmCommit(db, x)
         /\ \A a \in DOMAIN db \ {x.sender} : EvmCommit(db, x)[a].nonce >= db[a].nonce
<1>1. PICK fee, value, s, created :
        /\ fee = x.gas * PriceOr(x, 0) /\ s = EvmAccount(db, x.sender)
        /\ value = IF x.kind = "success" THEN x.value ELSE 0
        /\ created = IF x.kind = "success" THEN x.created ELSE {}
  OBVIOUS
<1>2. /\ fee \in Nat /\ value \in Nat /\ value <= x.value /\ x.value \in Nat /\ x.nonce \in Nat
      /\ x.sender \in Address /\ x.payee \in Address /\ coinbase \in Address
      /\ x.touched \in SUBSET Address
  BY <1>1, AmountsTyped, ExecutionAssumption
<1>3. s \in Account /\ s.balance \in Nat /\ s.nonce \in Nat
  <2>1. s \in Account
    BY <1>1, EvmAccountTyped
  <2> QED
    BY <2>1 DEF Account
<1>4. s.balance >= x.value + fee /\ s.nonce = x.nonce
  BY <1>1 DEF EvmValid
<1>5. PICK left : left = [balance |-> s.balance - fee - value, nonce |-> s.nonce + 1]
  OBVIOUS
<1>6. left \in Account /\ left.nonce = x.nonce + 1
  <2>1. s.balance - fee - value \in Nat /\ s.nonce + 1 \in Nat
    BY <1>2, <1>3, <1>4
  <2> QED
    BY <1>4, <1>5, <2>1 DEF Account
<1>7. PICK read : read = EvmTouch(db, x.touched)
  OBVIOUS
<1>8. /\ Database(read) /\ DOMAIN db \subseteq DOMAIN read
      /\ \A a \in DOMAIN db : read[a] = db[a]
  <2>1. /\ Database(read) /\ DOMAIN read = DOMAIN db \cup x.touched
        /\ \A a \in DOMAIN db \cup x.touched : read[a] = EvmAccount(db, a)
    BY <1>2, <1>7, EvmTouchFacts
  <2> QED
    BY <2>1 DEF EvmAccount
<1>9. PICK paid : paid = EvmPut(read, x.sender, left)
  OBVIOUS
<1>10. Database(paid) /\ DOMAIN paid = DOMAIN read \cup {x.sender} /\ paid[x.sender] = left
       /\ \A b \in DOMAIN db \ {x.sender} : paid[b] = db[b]
  BY <1>2, <1>6, <1>8, <1>9 DEF Database, EvmPut
<1>11. PICK given : given = EvmAdd(paid, x.payee, value)
  OBVIOUS
<1>12. /\ Database(given) /\ DOMAIN given = DOMAIN paid \cup {x.payee}
       /\ \A b \in DOMAIN paid : given[b].nonce = paid[b].nonce
  <2>1. /\ Database(given) /\ DOMAIN given = DOMAIN paid \cup {x.payee}
        /\ \A b \in DOMAIN paid \cup {x.payee} : given[b].nonce = EvmAccount(paid, b).nonce
    BY <1>2, <1>10, <1>11, EvmAddFacts
  <2> QED
    BY <2>1 DEF EvmAccount
<1>13. PICK made : made = EvmCreate(given, created)
  OBVIOUS
<1>14. /\ Database(made) /\ DOMAIN made = DOMAIN given
       /\ \A b \in DOMAIN given : /\ made[b].nonce >= given[b].nonce
                                  /\ given[b].nonce # 0 => made[b] = given[b]
  BY <1>12, <1>13, EvmCreateFacts
<1>15. PICK new : new = EvmAdd(made, coinbase, fee)
  OBVIOUS
<1>16. /\ Database(new) /\ DOMAIN new = DOMAIN made \cup {coinbase}
       /\ \A b \in DOMAIN made : new[b].nonce = made[b].nonce
  <2>1. /\ Database(new) /\ DOMAIN new = DOMAIN made \cup {coinbase}
        /\ \A b \in DOMAIN made \cup {coinbase} : new[b].nonce = EvmAccount(made, b).nonce
    BY <1>2, <1>14, <1>15, EvmAddFacts
  <2> QED
    BY <2>1 DEF EvmAccount
<1>17. new = EvmCommit(db, x)
  BY <1>1, <1>5, <1>7, <1>9, <1>11, <1>13, <1>15 DEF EvmCommit
<1>18. DOMAIN db \subseteq DOMAIN new /\ x.sender \in DOMAIN new
  BY <1>8, <1>10, <1>12, <1>14, <1>16
<1>19. new[x.sender].nonce = x.nonce + 1
  <2>1. x.sender \in DOMAIN given /\ given[x.sender].nonce = x.nonce + 1
    BY <1>6, <1>10, <1>12
  <2>2. x.nonce + 1 # 0
    BY <1>2
  <2> QED
    BY <1>14, <1>16, <2>1, <2>2
<1>20. \A a \in DOMAIN db \ {x.sender} : new[a].nonce >= db[a].nonce
  <2> SUFFICES ASSUME NEW a \in DOMAIN db \ {x.sender} PROVE new[a].nonce >= db[a].nonce
    OBVIOUS
  <2>1. a \in DOMAIN paid /\ a \in DOMAIN given /\ given[a].nonce = db[a].nonce
    BY <1>8, <1>10, <1>12
  <2> QED
    BY <1>14, <1>16, <2>1
<1> QED
  BY <1>16, <1>17, <1>18, <1>19, <1>20

\* sub_balance keeps the nonces, and a refused one everything.
LEMMA SubBalanceFacts ==
  ASSUME NEW accs \in [Address -> Account], NEW a \in Address, NEW amount \in Nat
  PROVE  /\ SubBalance(accs, a, amount) \in [Address -> Account]
         /\ \A b \in Address : SubBalance(accs, a, amount)[b].nonce = accs[b].nonce
         /\ \A b \in Address \ {a} : SubBalance(accs, a, amount)[b] = accs[b]
<1>1. accs[a] \in Account /\ accs[a].balance \in Nat
  BY DEF Account
<1>2. CASE accs[a].balance < amount
  BY <1>2 DEF SubBalance
<1>3. CASE ~(accs[a].balance < amount)
  <2>1. PICK new : new = [accs[a] EXCEPT !.balance = @ - amount]
    OBVIOUS
  <2>2. new \in Account /\ new.nonce = accs[a].nonce
    BY <1>1, <1>3, <2>1 DEF Account
  <2>3. SubBalance(accs, a, amount) = [accs EXCEPT ![a] = new]
    BY <1>3, <2>1 DEF SubBalance
  <2> QED
    BY <2>2, <2>3
<1> QED
  BY <1>2, <1>3

\* increment_nonce adds one to one nonce.
LEMMA IncrementNonceFacts ==
  ASSUME NEW accs \in [Address -> Account], NEW a \in Address
  PROVE  /\ IncrementNonce(accs, a) \in [Address -> Account]
         /\ IncrementNonce(accs, a)[a].nonce = accs[a].nonce + 1
         /\ \A b \in Address \ {a} : IncrementNonce(accs, a)[b] = accs[b]
<1>1. PICK new : new = [accs[a] EXCEPT !.nonce = @ + 1]
  OBVIOUS
<1>2. accs[a] \in Account
  OBVIOUS
<1>3. new \in Account /\ new.nonce = accs[a].nonce + 1
  BY <1>1, <1>2 DEF Account
<1>4. IncrementNonce(accs, a) = [accs EXCEPT ![a] = new]
  BY <1>1 DEF IncrementNonce
<1> QED
  BY <1>3, <1>4

\* What the game pass puts are accounts.
LEMMA CopyFacts ==
  ASSUME copy \in Account
  PROVE  /\ [copy EXCEPT !.nonce = @ + 1] \in Account
         /\ [copy EXCEPT !.nonce = @ + 1].nonce = copy.nonce + 1
         /\ [copy EXCEPT !.nonce = @ + 1].balance = copy.balance
         /\ copy.balance >= GameGas =>
              /\ [copy EXCEPT !.balance = @ - GameGas] \in Account
              /\ [copy EXCEPT !.balance = @ - GameGas].nonce = copy.nonce
              /\ [copy EXCEPT !.balance = @ - GameGas].balance <= copy.balance
<1>1. copy.nonce \in Nat /\ copy.balance \in Nat
  BY DEF Account
<1>2. PICK n, b : n = copy.nonce /\ b = copy.balance
  OBVIOUS
<1>3. copy = [balance |-> b, nonce |-> n]
  BY <1>2 DEF Account
<1>4. [copy EXCEPT !.nonce = @ + 1] = [balance |-> b, nonce |-> n + 1]
  BY <1>3
<1>5. [copy EXCEPT !.balance = @ - GameGas] = [balance |-> b - GameGas, nonce |-> n]
  BY <1>3
<1>6. n + 1 \in Nat /\ (b >= GameGas => b - GameGas \in Nat /\ b - GameGas <= b)
  BY <1>1, <1>2 DEF GameGas
<1> QED
  BY <1>1, <1>2, <1>4, <1>5, <1>6 DEF Account

-----------------------------------------------------------------------------
(* Types                                                                   *)

\* What the EVM pass does to accounts, gas and receipts in each of its branches.
LEMMA EvmTxTyped == TypeOK /\ EvmTx => TypeOK'
<1> SUFFICES ASSUME TypeOK, EvmTx PROVE TypeOK'
  OBVIOUS
<1>1. PICK x \in Tx :
        /\ IsNext(x)
        /\ \/ /\ ~NonceOk(x)
              /\ receipts' = Append(receipts, Receipt(x, FALSE, 0, total_gas_used))
              /\ UNCHANGED <<evm, accounts, dirty, total_gas_used>>
           \/ /\ NonceOk(x) /\ EvmValid(evm, x) /\ x.kind # "halt"
              /\ evm' = EvmCommit(evm, x)
              /\ total_gas_used' = total_gas_used + x.gas
              /\ accounts' = IncrementNonce(SubBalance(accounts, x.sender, x.gas * PriceOr(x, 1)),
                                            x.sender)
              /\ dirty' = dirty \cup {x.sender}
              /\ receipts' = Append(receipts, Receipt(x, x.kind = "success", x.gas, total_gas_used'))
           \/ /\ NonceOk(x) /\ (~EvmValid(evm, x) \/ x.kind = "halt")
              /\ evm' = IF EvmValid(evm, x) THEN EvmCommit(evm, x) ELSE evm
              /\ accounts' = IncrementNonce(accounts, x.sender)
              /\ dirty' = dirty \cup {x.sender}
              /\ receipts' = Append(receipts, Receipt(x, FALSE, 0, total_gas_used))
              /\ UNCHANGED total_gas_used
  BY DEF EvmTx
<1>2. x.sender \in Address /\ x.gas \in Nat /\ x.gas * PriceOr(x, 1) \in Nat
  BY AmountsTyped, ExecutionAssumption
<1>3. Database(evm) /\ accounts \in [Address -> Account] /\ receipts \in Seq(ReceiptRecord)
      /\ total_gas_used \in Nat /\ dirty \subseteq Address
  BY DEF TypeOK, Database
<1>4. EvmValid(evm, x) => Database(EvmCommit(evm, x))
  BY <1>3, EvmCommitFacts
<1>5. Database(evm')
  BY <1>1, <1>3, <1>4
<1>6. accounts' \in [Address -> Account] /\ dirty' \subseteq Address
  <2>1. PICK less : less = SubBalance(accounts, x.sender, x.gas * PriceOr(x, 1))
    OBVIOUS
  <2>2. less \in [Address -> Account]
    BY <1>2, <1>3, <2>1, SubBalanceFacts
  <2>3. /\ IncrementNonce(less, x.sender) \in [Address -> Account]
        /\ IncrementNonce(accounts, x.sender) \in [Address -> Account]
    BY <1>2, <1>3, <2>2, IncrementNonceFacts
  <2> QED
    BY <1>1, <1>2, <1>3, <2>1, <2>3
<1>7. total_gas_used' \in Nat
  <2>1. total_gas_used' \in {total_gas_used, total_gas_used + x.gas}
    BY <1>1
  <2> QED
    BY <1>2, <1>3, <2>1
<1>8. receipts' \in Seq(ReceiptRecord)
  <2>1. PICK r \in ReceiptRecord : receipts' = Append(receipts, r)
    <3>1. /\ Receipt(x, FALSE, 0, total_gas_used) \in ReceiptRecord
          /\ Receipt(x, x.kind = "success", x.gas, total_gas_used') \in ReceiptRecord
      BY <1>2, <1>3, <1>7 DEF Receipt, ReceiptRecord
    <3> QED
      BY <1>1, <3>1
  <2> QED
    BY <1>3, <2>1, AppendProperties
<1>9. pc' = pc /\ txs' = txs /\ disk' = disk /\ succeeded' = succeeded /\ pc = "evm"
      /\ draining' = draining /\ copy' = copy /\ unloaded' = unloaded \cup (DOMAIN evm' \ Loaded(txs))
      /\ game_cumulative_gas' = game_cumulative_gas /\ todo' \subseteq todo
  BY <1>1 DEF EvmTx, IsNext
<1>10. unloaded' \subseteq Address
  BY <1>5, <1>9 DEF TypeOK, Database
<1> QED
  BY <1>5, <1>6, <1>7, <1>8, <1>9, <1>10 DEF TypeOK, Database

\* The transaction that the pass is at is one.
LEMMA AtUnique ==
  ASSUME TypeOK, NEW x, NEW y, IsAt(x), IsAt(y)
  PROVE  x = y
<1>1. todo \subseteq Nat
  <2>1. todo \subseteq DOMAIN txs /\ txs \in Seq(Tx)
    BY DEF TypeOK
  <2>2. DOMAIN txs = 1..Len(txs)
    BY <2>1
  <2> QED
    BY <2>1, <2>2
<1>2. PICK i \in todo : x = txs[i] /\ \A k \in todo : i <= k
  BY DEF IsAt, At
<1>3. PICK j \in todo : y = txs[j] /\ \A k \in todo : j <= k
  BY DEF IsAt, At
<1>4. i = j
  BY <1>1, <1>2, <1>3
<1> QED
  BY <1>2, <1>3, <1>4

\* A receipt of the game pass is one.
LEMMA GameReceiptTyped ==
  ASSUME TypeOK, NEW x \in Tx, NEW success \in BOOLEAN, GameReceipt(x, success)
  PROVE  /\ receipts' \in Seq(ReceiptRecord) /\ game_cumulative_gas' \in Nat
         /\ \E r \in ReceiptRecord : receipts' = Append(receipts, r) /\ r.tx = x /\ r.success = success
<1>1. game_cumulative_gas' \in Nat
  BY DEF GameReceipt, TypeOK, GameGas
<1>2. PICK r : r = Receipt(x, success, GameGas, game_cumulative_gas')
  OBVIOUS
<1>3. r \in ReceiptRecord /\ r.tx = x /\ r.success = success
  BY <1>1, <1>2 DEF Receipt, ReceiptRecord, GameGas
<1>4. receipts' = Append(receipts, r) /\ receipts \in Seq(ReceiptRecord)
  BY <1>2 DEF GameReceipt, TypeOK
<1> QED
  BY <1>1, <1>3, <1>4, AppendProperties

\* What the steps of the game pass do.
LEMMA GameCheckTyped == TypeOK /\ GameCheck => TypeOK'
<1> SUFFICES ASSUME TypeOK, GameCheck PROVE TypeOK'
  OBVIOUS
<1>1. PICK x \in Tx :
        \/ /\ IsAt(x) /\ NonceOk(x) /\ copy' = accounts[x.sender] /\ pc' = "put_nonce"
           /\ UNCHANGED <<todo, game_cumulative_gas, receipts>>
        \/ IsNext(x) /\ ~NonceOk(x) /\ GameReceipt(x, FALSE) /\ UNCHANGED <<pc, copy>>
  BY DEF GameCheck
<1>2. pc = "game" /\ UNCHANGED <<txs, evm, accounts, dirty, draining, disk, total_gas_used, ticked,
                                 succeeded, unloaded>>
  BY DEF GameCheck
<1>3. copy' \in Account /\ todo' \subseteq todo /\ pc' \in {"game", "put_nonce"}
  <2>1. accounts[x.sender] \in Account
    BY ExecutionAssumption DEF TypeOK
  <2> QED
    BY <1>1, <1>2, <2>1 DEF TypeOK, IsNext
<1>4. receipts' \in Seq(ReceiptRecord) /\ game_cumulative_gas' \in Nat
  <2>1. CASE UNCHANGED <<todo, game_cumulative_gas, receipts>>
    BY <2>1 DEF TypeOK
  <2>2. CASE GameReceipt(x, FALSE)
    BY <2>2, GameReceiptTyped
  <2> QED
    BY <1>1, <2>1, <2>2
<1> QED
  BY <1>2, <1>3, <1>4 DEF TypeOK

LEMMA PutNonceTyped == TypeOK /\ PutNonce => TypeOK'
<1> SUFFICES ASSUME TypeOK, PutNonce PROVE TypeOK'
  OBVIOUS
<1>1. PICK x \in Tx :
        /\ copy' = [copy EXCEPT !.nonce = @ + 1]
        /\ accounts' = [accounts EXCEPT ![x.sender] = copy']
        /\ dirty' = dirty \cup {x.sender}
  BY DEF PutNonce
<1>2. copy' \in Account /\ x.sender \in Address
  BY <1>1, CopyFacts, ExecutionAssumption DEF TypeOK
<1>3. accounts' \in [Address -> Account] /\ dirty' \subseteq Address
  BY <1>1, <1>2 DEF TypeOK
<1> QED
  BY <1>2, <1>3 DEF PutNonce, TypeOK

LEMMA PutFeeTyped == TypeOK /\ PutFee => TypeOK'
<1> SUFFICES ASSUME TypeOK, PutFee PROVE TypeOK'
  OBVIOUS
<1>1. PICK x \in Tx :
        /\ IsNext(x)
        /\ \/ /\ copy.balance >= GameGas
              /\ accounts' = [accounts EXCEPT ![x.sender] = [copy EXCEPT !.balance = @ - GameGas]]
              /\ dirty' = dirty \cup {x.sender}
           \/ copy.balance < GameGas /\ UNCHANGED <<accounts, dirty>>
        /\ GameReceipt(x, TRUE)
  BY DEF PutFee
<1>2. x.sender \in Address /\ todo' \subseteq todo
  BY <1>1, ExecutionAssumption DEF IsNext
<1>3. accounts' \in [Address -> Account] /\ dirty' \subseteq Address
  <2>1. PICK less : less = [copy EXCEPT !.balance = @ - GameGas]
    OBVIOUS
  <2>2. copy.balance >= GameGas => less \in Account
    BY <2>1, CopyFacts DEF TypeOK
  <2> QED
    BY <1>1, <1>2, <2>1, <2>2 DEF TypeOK
<1>4. receipts' \in Seq(ReceiptRecord) /\ game_cumulative_gas' \in Nat
  BY <1>1, GameReceiptTyped
<1> QED
  BY <1>2, <1>3, <1>4 DEF PutFee, TypeOK

\* A block is a sequence of transactions and its positions are few.
LEMMA BlockFacts ==
  ASSUME NEW block \in Block
  PROVE  /\ block \in Seq(Tx) /\ \A i \in DOMAIN block : block[i] \in Tx
         /\ Cardinality(GamePositions(block)) \in Nat
<1>1. PICK n \in 0..MaxTxs : block \in [1..n -> Tx]
  BY DEF Block
<1>2. n \in Nat
  BY ExecutionAssumption
<1>3. block \in Seq(Tx) /\ \A i \in DOMAIN block : block[i] \in Tx
  BY <1>1, <1>2
<1>4. IsFiniteSet(1..n)
  BY <1>2, FS_Interval
<1>5. GamePositions(block) \in SUBSET (1..n)
  BY <1>1 DEF GamePositions, EvmPositions
<1>6. IsFiniteSet(GamePositions(block))
  BY <1>4, <1>5, FS_Subset
<1> QED
  BY <1>3, <1>6, FS_CardinalityType

\* Loading the accounts of a block.
LEMMA BeginTyped ==
  ASSUME TypeOK, NEW block \in Block, Begin(block)
  PROVE  /\ TypeOK' /\ txs' = block /\ DOMAIN evm' = Loaded(block)
         /\ \A a \in DOMAIN evm' : evm'[a] = accounts[a]
<1>1. block \in Seq(Tx) /\ (\A i \in DOMAIN block : block[i] \in Tx)
      /\ Cardinality(GamePositions(block)) \in Nat
  BY BlockFacts
<1>2. txs' = block /\ todo' = EvmPositions(block) /\ receipts' = <<>> /\ pc' = "evm"
      /\ game_cumulative_gas' = 0
      /\ UNCHANGED <<accounts, dirty, draining, copy, disk, succeeded, unloaded>>
      /\ total_gas_used' = Cardinality(GamePositions(block)) * GameGas
  BY DEF Begin
<1>3. total_gas_used' \in Nat
  BY <1>1, <1>2 DEF GameGas
<1>4. \A i \in EvmPositions(block) : i \in DOMAIN block
  BY DEF GamePositions, EvmPositions
<1>5. PICK D : D = Loaded(block)
  OBVIOUS
<1>6. evm' = [a \in D |-> accounts[a]]
  BY <1>5 DEF Begin, LoadAccount
<1>7. D \subseteq Address
  <2> SUFFICES ASSUME NEW a \in D PROVE a \in Address
    OBVIOUS
  <2>1. PICK i \in EvmPositions(block) : a \in {block[i].sender, block[i].to} /\ a # NoAddress
    <3>1. PICK s \in {{block[i].sender, block[i].to} : i \in EvmPositions(block)} :
            a \in s /\ a # NoAddress
      BY <1>5, Zenon DEF Loaded
    <3> QED
      BY <3>1
  <2>2. PICK x \in Tx : x = block[i]
    BY <1>1, <1>4
  <2>3. x.sender \in Address /\ x.to \in Address \cup {NoAddress}
    BY ExecutionAssumption
  <2> QED
    BY <2>1, <2>2, <2>3
<1>8. /\ DOMAIN evm' \subseteq Address /\ \A a \in DOMAIN evm' : evm'[a] \in Account
      /\ \A a \in DOMAIN evm' : evm'[a] = accounts[a]
  BY <1>6, <1>7 DEF TypeOK
<1>9. <<>> \in Seq(ReceiptRecord)
  OBVIOUS
<1>10. TypeOK'
  BY <1>1, <1>2, <1>3, <1>4, <1>8, <1>9 DEF TypeOK
<1> QED
  BY <1>2, <1>5, <1>6, <1>8, <1>10

\* Every step keeps the types.
LEMMA NextTyped == TypeOK /\ [Next]_vars => TypeOK'
<1> SUFFICES ASSUME TypeOK, [Next]_vars PROVE TypeOK'
  OBVIOUS
<1>1. CASE FlushToState
  <2>1. accounts' = [a \in Address |-> IF a \in DOMAIN evm THEN evm[a] ELSE accounts[a]]
        /\ dirty' = dirty \cup DOMAIN evm /\ todo' = GamePositions(txs)
        /\ game_cumulative_gas' = total_gas_used /\ pc' = "game"
        /\ UNCHANGED <<txs, evm, draining, copy, disk, receipts, total_gas_used, succeeded, unloaded>>
    BY <1>1 DEF FlushToState, Flushed
  <2>2. accounts' \in [Address -> Account]
    BY <2>1 DEF TypeOK
  <2>3. todo' \subseteq DOMAIN txs
    BY <2>1 DEF GamePositions, EvmPositions
  <2> QED
    BY <2>1, <2>2, <2>3 DEF TypeOK
<1>2. CASE Tick
  BY <1>2 DEF Tick, TypeOK
<1>3. ASSUME NEW a \in Address, PutAccount(a) PROVE TypeOK'
  BY <1>3 DEF PutAccount, TypeOK
<1>3a. CASE Commit
  <2>1. /\ draining' = [a \in dirty |-> accounts[a]] /\ dirty' = {}
        /\ pc = "commit" /\ pc' = "put_accounts"
        /\ UNCHANGED <<txs, todo, evm, accounts, copy, disk, receipts, total_gas_used,
                       game_cumulative_gas, succeeded, unloaded>>
    BY <1>3a DEF Commit
  <2>2. DOMAIN draining' \subseteq Address /\ \A a \in DOMAIN draining' : draining'[a] \in Account
    BY <2>1 DEF TypeOK
  <2> QED
    BY <2>1, <2>2 DEF TypeOK
<1>4. CASE Finish
  <2>1. <<>> \in Seq(Tx) /\ <<>> \in Seq(ReceiptRecord) /\ DOMAIN <<>> = {}
    OBVIOUS
  <2>2. succeeded' \subseteq Tx
    <3>1. \A i \in DOMAIN receipts : receipts[i] \in ReceiptRecord
      BY DEF TypeOK
    <3>2. \A r \in Range(receipts) : r.tx \in Tx
      BY <3>1 DEF Range, ReceiptRecord
    <3> QED
      BY <1>4, <3>2 DEF Finish, TypeOK
  <2>3. pc' = "idle" /\ txs' = <<>> /\ receipts' = <<>> /\ evm' = <<>> /\ total_gas_used' = 0
        /\ game_cumulative_gas' = 0 /\ copy' = NoAccount
        /\ UNCHANGED <<accounts, dirty, draining, disk, unloaded>>
    BY <1>4 DEF Finish
  <2>4. todo' = {}
    BY <1>4 DEF Finish, TypeOK
  <2>5. NoAccount \in Account
    BY DEF NoAccount, Account
  <2> QED
    BY <2>1, <2>2, <2>3, <2>4, <2>5 DEF TypeOK
<1>5. CASE Crash
  <2>1. <<>> \in Seq(Tx) /\ <<>> \in Seq(ReceiptRecord) /\ DOMAIN <<>> = {}
    OBVIOUS
  <2>2. NoAccount \in Account
    BY DEF NoAccount, Account
  <2> QED
    BY <1>5, <2>1, <2>2 DEF Crash, TypeOK
<1>6. CASE UNCHANGED vars
  BY <1>6 DEF vars, TypeOK
<1> QED
  BY <1>1, <1>2, <1>3, <1>3a, <1>4, <1>5, <1>6, BeginTyped, EvmTxTyped, GameCheckTyped,
     PutNonceTyped, PutFeeTyped DEF Next, Pass

\* The accounts, the gas and the receipts keep their types: in particular no
\* deduction takes a balance below zero, whatever the order of transactions,
\* refusals, flushes and crashes.
THEOREM TypesHold == Spec => []TypeOK
<1>1. Init => TypeOK
  <2> SUFFICES ASSUME Init PROVE TypeOK
    OBVIOUS
  <2>1. <<>> \in Seq(Tx) /\ <<>> \in Seq(ReceiptRecord) /\ DOMAIN <<>> = {}
    OBVIOUS
  <2>2. initial \in [Address -> Account] /\ NoAccount \in Account
    BY ExecutionAssumption DEF Account, NoAccount
  <2> QED
    BY <2>1, <2>2 DEF Init, TypeOK
<1> QED
  BY <1>1, NextTyped, PTL DEF Spec

-----------------------------------------------------------------------------
(* Nonces                                                                  *)

\* The nonce that counts is a number.
LEMMA BookTyped ==
  ASSUME TypeOK
  PROVE  \A a \in Address : Book(a) \in Nat /\ disk[a].nonce \in Nat
  BY DEF TypeOK, Book, Account

\* The accounts that every position's sender needs are loaded.
LEMMA SenderLoaded ==
  ASSUME TypeOK, PassInv, pc = "evm", NEW x \in Tx, IsAt(x)
  PROVE  x.sender \in Loaded(txs) /\ x.sender \in DOMAIN evm
<1>1. PICK i \in todo : x = txs[i]
  BY DEF IsAt
<1>2. i \in EvmPositions(txs)
  BY <1>1 DEF PassInv
<1>3. x.sender # NoAddress
  BY ExecutionAssumption
<1>4. {txs[i].sender, txs[i].to} \in {{txs[j].sender, txs[j].to} : j \in EvmPositions(txs)}
  BY <1>2
<1>5. x.sender \in UNION {{txs[j].sender, txs[j].to} : j \in EvmPositions(txs)}
  BY <1>1, <1>4
<1>6. x.sender \in Loaded(txs)
  BY <1>3, <1>5 DEF Loaded
<1> QED
  BY <1>6 DEF PassInv

\* The EVM pass only adds accounts to the EVM's database, and changes the cache
\* for the sender alone.
LEMMA EvmTxFacts ==
  ASSUME TypeOK, PassInv, EvmTx
  PROVE  \E x \in Tx, s \in BOOLEAN, g \in Nat, c \in Nat :
           /\ IsNext(x) /\ x.sender \in Loaded(txs) /\ x.sender \in DOMAIN evm
           /\ evm' = evm \/ (EvmValid(evm, x) /\ evm' = EvmCommit(evm, x))
           /\ \A a \in Address \ {x.sender} : accounts'[a] = accounts[a]
           /\ UNCHANGED <<accounts, dirty>> \/ dirty' = dirty \cup {x.sender}
           /\ receipts' = Append(receipts, Receipt(x, s, g, c))
           /\ s => EvmValid(evm, x) /\ evm' = EvmCommit(evm, x)
<1>1. PICK x \in Tx :
        /\ IsNext(x)
        /\ \/ /\ ~NonceOk(x)
              /\ receipts' = Append(receipts, Receipt(x, FALSE, 0, total_gas_used))
              /\ UNCHANGED <<evm, accounts, dirty, total_gas_used>>
           \/ /\ NonceOk(x) /\ EvmValid(evm, x) /\ x.kind # "halt"
              /\ evm' = EvmCommit(evm, x)
              /\ total_gas_used' = total_gas_used + x.gas
              /\ accounts' = IncrementNonce(SubBalance(accounts, x.sender, x.gas * PriceOr(x, 1)),
                                            x.sender)
              /\ dirty' = dirty \cup {x.sender}
              /\ receipts' = Append(receipts, Receipt(x, x.kind = "success", x.gas, total_gas_used'))
           \/ /\ NonceOk(x) /\ (~EvmValid(evm, x) \/ x.kind = "halt")
              /\ evm' = IF EvmValid(evm, x) THEN EvmCommit(evm, x) ELSE evm
              /\ accounts' = IncrementNonce(accounts, x.sender)
              /\ dirty' = dirty \cup {x.sender}
              /\ receipts' = Append(receipts, Receipt(x, FALSE, 0, total_gas_used))
              /\ UNCHANGED total_gas_used
  BY DEF EvmTx
<1>2. /\ x.sender \in Address /\ x.gas * PriceOr(x, 1) \in Nat /\ x.gas \in Nat
  BY AmountsTyped, ExecutionAssumption
<1>3. pc = "evm" /\ IsAt(x)
  BY <1>1 DEF EvmTx, IsNext, IsAt
<1>4. x.sender \in Loaded(txs) /\ x.sender \in DOMAIN evm
  BY <1>3, SenderLoaded
<1>5. accounts \in [Address -> Account] /\ total_gas_used \in Nat
  BY DEF TypeOK
<1>6. \A a \in Address \ {x.sender} : accounts'[a] = accounts[a]
  <2>1. PICK less : less = SubBalance(accounts, x.sender, x.gas * PriceOr(x, 1))
    OBVIOUS
  <2>2. less \in [Address -> Account] /\ \A b \in Address \ {x.sender} : less[b] = accounts[b]
    BY <1>2, <1>5, <2>1, SubBalanceFacts
  <2>3. \A b \in Address \ {x.sender} : /\ IncrementNonce(less, x.sender)[b] = less[b]
                                        /\ IncrementNonce(accounts, x.sender)[b] = accounts[b]
    BY <1>2, <1>5, <2>2, IncrementNonceFacts
  <2> QED
    BY <1>1, <2>1, <2>2, <2>3
<1>7. evm' = evm \/ (EvmValid(evm, x) /\ evm' = EvmCommit(evm, x))
  BY <1>1
<1>8. UNCHANGED <<accounts, dirty>> \/ dirty' = dirty \cup {x.sender}
  BY <1>1
<1>9. PICK s \in BOOLEAN, g \in Nat, c \in Nat :
        /\ receipts' = Append(receipts, Receipt(x, s, g, c))
        /\ s => EvmValid(evm, x) /\ evm' = EvmCommit(evm, x)
  <2>1. total_gas_used + x.gas \in Nat /\ (x.kind = "success") \in BOOLEAN
    BY <1>2, <1>5
  <2> QED
    BY <1>1, <1>2, <1>5, <2>1
<1>10. IsNext(x)
  BY <1>1
<1> QED
  BY <1>4, <1>6, <1>7, <1>8, <1>9, <1>10

\* A transaction whose nonce is not below the one that counts has not succeeded.
LEMMA FreshNow ==
  ASSUME NoncesInv, NEW x \in Tx, x.nonce >= Book(x.sender)
  PROVE  Fresh(x)
<1>1. x.sender \in Address /\ x.nonce \in Nat
  BY ExecutionAssumption
<1>2. Book(x.sender) \in Nat /\ disk[x.sender].nonce \in Nat
  BY <1>1, BookTyped DEF NoncesInv
<1> SUFFICES ASSUME x.sender \notin unloaded
             PROVE  x \notin succeeded /\ \A i \in DOMAIN receipts : Success(i) => receipts[i].tx # x
  BY DEF Fresh
<1>3. disk[x.sender].nonce <= Book(x.sender)
  BY <1>1 DEF NoncesInv
<1>4. x \in succeeded => x.nonce < disk[x.sender].nonce
  BY DEF NoncesInv
<1>5. \A i \in DOMAIN receipts : Success(i) /\ receipts[i].tx = x => x.nonce < Book(x.sender)
  BY DEF NoncesInv, NoncesUsedUp
<1> QED
  BY <1>1, <1>2, <1>3, <1>4, <1>5

\* A receipt that is added, a success only for a fresh transaction whose nonce is
\* used up, keeps the successes apart.
LEMMA RecordedOnce ==
  ASSUME NoncesInv, TypeOK', NEW x \in Tx, NEW r \in ReceiptRecord, r.tx = x,
         receipts' = Append(receipts, r), unloaded \subseteq unloaded',
         r.success => Fresh(x) /\ (x.sender \notin unloaded' => x.nonce < Book(x.sender)'),
         \A a \in Address \ unloaded' : Book(a) <= Book(a)',
         UNCHANGED <<disk, succeeded>>
  PROVE  /\ \A a \in Address \ unloaded' : disk'[a].nonce <= Book(a)'
         /\ \A y \in succeeded' : y.sender \notin unloaded' => y.nonce < disk'[y.sender].nonce
         /\ NoncesUsedUp' /\ SucceedsOnce'
<1>1. \A a \in Address : Book(a) \in Nat /\ Book(a)' \in Nat /\ disk[a].nonce \in Nat
  <2>1. TypeOK
    BY DEF NoncesInv
  <2>2. \A a \in Address : Book(a) \in Nat /\ disk[a].nonce \in Nat
    BY <2>1, BookTyped
  <2>3. \A a \in Address : Book(a)' \in Nat
    BY DEF TypeOK, Book, Account
  <2> QED
    BY <2>2, <2>3
<1>2. \A a \in Address \ unloaded : disk[a].nonce <= Book(a)
  BY DEF NoncesInv
<1>3. \A a \in Address \ unloaded' : disk'[a].nonce <= Book(a)'
  BY <1>1, <1>2
<1>4. receipts \in Seq(ReceiptRecord)
  BY DEF NoncesInv, TypeOK
<1>5. PICK n : n = Len(receipts)
  OBVIOUS
<1>6. /\ n \in Nat /\ DOMAIN receipts = 1..n /\ DOMAIN receipts' = 1..(n + 1)
      /\ receipts'[n + 1] = r /\ \A i \in 1..n : receipts'[i] = receipts[i] /\ receipts[i] \in ReceiptRecord
  BY <1>4, <1>5, AppendProperties
<1>7. \A i \in 1..n : receipts[i].tx \in Tx /\ receipts[i].tx.sender \in Address /\ receipts[i].tx.nonce \in Nat
  BY <1>6, ExecutionAssumption DEF ReceiptRecord
<1>8. x.sender \in Address /\ x.nonce \in Nat
  BY ExecutionAssumption
<1>9. \A i \in 1..n : Success(i) => receipts[i].tx.nonce < Book(receipts[i].tx.sender)
  BY <1>6 DEF NoncesInv, NoncesUsedUp
<1>10. ASSUME NEW i \in DOMAIN receipts', receipts'[i].success, NEW y, y = receipts'[i].tx,
              y.sender \notin unloaded'
       PROVE  y.nonce < Book(y.sender)'
  <2>1. CASE i = n + 1
    BY <1>6, <1>10, <2>1
  <2>2. CASE i \in 1..n
    <3>1. y = receipts[i].tx /\ Success(i)
      BY <1>6, <1>10, <2>2 DEF Success
    <3>2. y.nonce < Book(y.sender) /\ y.sender \in Address /\ y.nonce \in Nat
      BY <1>7, <1>9, <2>2, <3>1
    <3>3. Book(y.sender) <= Book(y.sender)' /\ Book(y.sender) \in Nat /\ Book(y.sender)' \in Nat
      BY <1>1, <1>10, <3>2
    <3> QED
      BY <3>2, <3>3
  <2> QED
    BY <1>6, <2>1, <2>2
<1>11. \A i \in 1..n : receipts'[i].success /\ receipts'[i].tx.sender \notin unloaded' => Success(i)
  BY <1>6 DEF Success
<1>12. r.success /\ x.sender \notin unloaded' =>
         x \notin succeeded /\ \A i \in 1..n : Success(i) => receipts[i].tx # x
  BY <1>6 DEF Fresh
<1>13. SucceedsOnce
  BY DEF NoncesInv
<1>14. ASSUME NEW i \in DOMAIN receipts', receipts'[i].success, receipts'[i].tx.sender \notin unloaded'
       PROVE  receipts'[i].tx \notin succeeded'
  <2>1. CASE i = n + 1
    BY <1>6, <1>12, <1>14, <2>1
  <2>2. CASE i \in 1..n
    BY <1>6, <1>11, <1>13, <1>14, <2>2 DEF SucceedsOnce
  <2> QED
    BY <1>6, <2>1, <2>2
<1>15. ASSUME NEW i \in DOMAIN receipts', NEW j \in DOMAIN receipts', receipts'[i].success,
              receipts'[j].success, receipts'[i].tx = receipts'[j].tx,
              receipts'[i].tx.sender \notin unloaded'
       PROVE  i = j
  <2>1. CASE i \in 1..n /\ j \in 1..n
    BY <1>6, <1>11, <1>13, <1>15, <2>1 DEF SucceedsOnce
  <2>2. CASE i = n + 1 /\ j \in 1..n
    BY <1>6, <1>11, <1>12, <1>15, <2>2
  <2>3. CASE i \in 1..n /\ j = n + 1
    BY <1>6, <1>11, <1>12, <1>15, <2>3
  <2> QED
    BY <1>6, <2>1, <2>2, <2>3
<1>16. SucceedsOnce'
  BY <1>14, <1>15 DEF SucceedsOnce, Success
<1>17. \A y \in succeeded' : y.sender \notin unloaded' => y.nonce < disk'[y.sender].nonce
  BY DEF NoncesInv
<1>18. NoncesUsedUp'
  BY <1>10 DEF NoncesUsedUp, Success
<1> QED
  BY <1>3, <1>16, <1>17, <1>18

\* What the EVM holds, commit has drained and the cache holds keeps agreeing.
LEMMA PassKept == TypeOK /\ PassInv /\ [Next]_vars => PassInv'
<1> SUFFICES ASSUME TypeOK, PassInv, [Next]_vars PROVE PassInv'
  OBVIOUS
<1>1. ASSUME NEW block \in Block, Begin(block) PROVE PassInv'
  <2>1. txs' = block /\ DOMAIN evm' = Loaded(block)
    BY <1>1, BeginTyped
  <2>2. /\ pc = "idle" /\ pc' = "evm" /\ todo' = EvmPositions(block)
        /\ UNCHANGED <<accounts, dirty, draining, disk>>
    BY <1>1 DEF Begin
  <2> QED
    BY <2>1, <2>2 DEF PassInv
<1>2. CASE EvmTx
  <2>1. PICK x \in Tx : /\ IsNext(x)
                        /\ evm' = evm \/ (EvmValid(evm, x) /\ evm' = EvmCommit(evm, x))
                        /\ \A a \in Address \ {x.sender} : accounts'[a] = accounts[a]
                        /\ UNCHANGED <<accounts, dirty>> \/ dirty' = dirty \cup {x.sender}
    BY <1>2, EvmTxFacts
  <2>2. /\ pc = "evm" /\ pc' = "evm" /\ txs' = txs /\ UNCHANGED <<draining, disk>>
        /\ unloaded' = unloaded \cup (DOMAIN evm' \ Loaded(txs)) /\ todo' \subseteq todo
    BY <1>2, <2>1 DEF EvmTx, IsNext
  <2>3. DOMAIN evm \subseteq DOMAIN evm'
    <3>1. Database(evm)
      BY DEF TypeOK, Database
    <3> QED
      BY <2>1, <3>1, EvmCommitFacts
  <2>4. /\ todo' \subseteq EvmPositions(txs') /\ Loaded(txs') \subseteq DOMAIN evm'
        /\ DOMAIN evm' \subseteq Loaded(txs') \cup unloaded'
    <3>1. todo \subseteq EvmPositions(txs) /\ Loaded(txs) \subseteq DOMAIN evm
      BY <2>2 DEF PassInv
    <3> QED
      BY <2>2, <2>3, <3>1
  <2>5. /\ DOMAIN draining' = {}
        /\ \A a \in Address \ (dirty' \cup DOMAIN draining') : accounts'[a] = disk'[a]
    BY <2>1, <2>2 DEF PassInv
  <2> QED
    BY <2>2, <2>4, <2>5 DEF PassInv
<1>3. CASE FlushToState
  <2>1. /\ accounts' = [a \in Address |-> IF a \in DOMAIN evm THEN evm[a] ELSE accounts[a]]
        /\ dirty' = dirty \cup DOMAIN evm /\ pc = "evm" /\ pc' = "game"
        /\ UNCHANGED <<disk, draining>>
    BY <1>3 DEF FlushToState, Flushed
  <2> QED
    BY <2>1 DEF PassInv
<1>4. CASE GameCheck
  <2>1. pc = "game" /\ pc' \in {"game", "put_nonce"} /\ UNCHANGED <<accounts, dirty, disk, draining>>
    BY <1>4 DEF GameCheck
  <2> QED
    BY <2>1 DEF PassInv
<1>5. CASE PutNonce
  <2>1. PICK x \in Tx : accounts' = [accounts EXCEPT ![x.sender] = copy'] /\ dirty' = dirty \cup {x.sender}
    BY <1>5 DEF PutNonce
  <2>2. pc = "put_nonce" /\ pc' = "put_fee" /\ UNCHANGED <<disk, draining>>
    BY <1>5 DEF PutNonce
  <2>3. \A a \in Address \ dirty' : accounts'[a] = accounts[a]
    BY <2>1 DEF TypeOK
  <2> QED
    BY <2>1, <2>2, <2>3 DEF PassInv
<1>6. CASE PutFee
  <2>1. PICK x \in Tx :
          \/ /\ accounts' = [accounts EXCEPT ![x.sender] = [copy EXCEPT !.balance = @ - GameGas]]
             /\ dirty' = dirty \cup {x.sender}
          \/ UNCHANGED <<accounts, dirty>>
    BY <1>6 DEF PutFee
  <2>2. pc = "put_fee" /\ pc' = "game" /\ UNCHANGED <<disk, draining>>
    BY <1>6 DEF PutFee
  <2>3. (\A a \in Address \ dirty' : accounts'[a] = accounts[a]) /\ dirty \subseteq dirty'
    BY <2>1 DEF TypeOK
  <2> QED
    BY <2>2, <2>3 DEF PassInv
<1>7. CASE Tick
  BY <1>7 DEF Tick, PassInv
<1>8. CASE Commit
  BY <1>8 DEF Commit, PassInv, TypeOK
<1>9. ASSUME NEW a \in Address, PutAccount(a) PROVE PassInv'
  <2>1. /\ pc = "put_accounts" /\ pc' = pc /\ a \in DOMAIN draining
        /\ disk' = [disk EXCEPT ![a] = draining[a]]
        /\ draining' = [b \in DOMAIN draining \ {a} |-> draining[b]]
        /\ UNCHANGED <<accounts, dirty>>
    BY <1>9 DEF PutAccount
  <2>2. /\ DOMAIN draining' = DOMAIN draining \ {a}
        /\ \A b \in DOMAIN draining' : draining'[b] = draining[b]
    BY <2>1
  <2>3. \A b \in Address : disk'[b] = IF b = a THEN accounts[a] ELSE disk[b]
    BY <2>1 DEF TypeOK, PassInv
  <2> QED
    BY <2>1, <2>2, <2>3 DEF PassInv
<1>10. CASE Finish
  BY <1>10 DEF Finish, PassInv
<1>11. CASE Crash
  BY <1>11 DEF Crash, PassInv
<1>12. CASE UNCHANGED vars
  BY <1>12 DEF vars, PassInv
<1> QED
  BY <1>1, <1>2, <1>3, <1>4, <1>5, <1>6, <1>7, <1>8, <1>9, <1>10, <1>11, <1>12 DEF Next, Pass

\* What the game pass has read stays what the cache holds.
LEMMA CopyKept == TypeOK /\ CopyInv /\ [Next]_vars => CopyInv'
<1> SUFFICES ASSUME TypeOK, CopyInv, [Next]_vars PROVE CopyInv'
  OBVIOUS
<1>1. CASE pc' \notin {"put_nonce", "put_fee"}
  BY <1>1 DEF CopyInv
<1>2. CASE GameCheck /\ pc' = "put_nonce"
  <2>1. PICK x \in Tx : IsAt(x) /\ NonceOk(x) /\ copy' = accounts[x.sender] /\ todo' = todo
    <3>1. pc = "game"
      BY <1>2 DEF GameCheck
    <3> QED
      BY <1>2, <3>1 DEF GameCheck
  <2>2. UNCHANGED <<txs, accounts>>
    BY <1>2 DEF GameCheck
  <2>3. ASSUME NEW y \in Tx, IsAt(y)' PROVE y = x
    <3>1. IsAt(y)
      BY <2>1, <2>2, <2>3 DEF IsAt, At
    <3> QED
      BY <2>1, <3>1, AtUnique
  <2> QED
    BY <1>2, <2>1, <2>2, <2>3 DEF CopyInv, NonceOk
<1>3. CASE PutNonce
  <2>1. PICK x \in Tx : /\ IsAt(x) /\ copy' = [copy EXCEPT !.nonce = @ + 1]
                        /\ accounts' = [accounts EXCEPT ![x.sender] = copy']
    BY <1>3 DEF PutNonce
  <2>2. pc = "put_nonce" /\ pc' = "put_fee" /\ UNCHANGED <<txs, todo>>
    BY <1>3 DEF PutNonce
  <2>3. ASSUME NEW y \in Tx, IsAt(y)' PROVE y = x
    <3>1. IsAt(y)
      BY <2>2, <2>3 DEF IsAt, At
    <3> QED
      BY <2>1, <3>1, AtUnique
  <2>4. x.nonce = copy.nonce /\ copy.nonce \in Nat
    BY <2>1, <2>2 DEF CopyInv, TypeOK, Account
  <2>5. copy'.nonce = copy.nonce + 1
    BY <2>1, CopyFacts DEF TypeOK
  <2>6. x.nonce < copy'.nonce
    BY <2>4, <2>5
  <2>7. accounts'[x.sender] = copy'
    BY <2>1, ExecutionAssumption DEF TypeOK
  <2> QED
    BY <2>2, <2>3, <2>6, <2>7 DEF CopyInv
<1>4. CASE UNCHANGED vars
  BY <1>4 DEF vars, CopyInv, IsAt, At
<1>5. pc' \in {"put_nonce", "put_fee"} =>
        (GameCheck /\ pc' = "put_nonce") \/ PutNonce \/ UNCHANGED vars
  BY DEF Next, Pass, Begin, EvmTx, FlushToState, GameCheck, PutFee, Tick, Commit, PutAccount,
         Finish, Crash
<1> QED
  BY <1>1, <1>2, <1>3, <1>4, <1>5

\* The EVM pass: the EVM's copy of a loaded account's nonce goes up with every
\* success and never down.
LEMMA EvmTxNonces == NoncesInv /\ EvmTx => NoncesInv'
<1> SUFFICES ASSUME NoncesInv, EvmTx PROVE NoncesInv'
  OBVIOUS
<1>1. TypeOK /\ PassInv /\ TypeOK' /\ PassInv' /\ CopyInv'
  BY NextTyped, PassKept, CopyKept DEF NoncesInv, Next, Pass
<1>2. PICK x \in Tx, s \in BOOLEAN, g \in Nat, c \in Nat :
           /\ IsNext(x) /\ x.sender \in Loaded(txs) /\ x.sender \in DOMAIN evm
           /\ evm' = evm \/ (EvmValid(evm, x) /\ evm' = EvmCommit(evm, x))
           /\ \A a \in Address \ {x.sender} : accounts'[a] = accounts[a]
           /\ receipts' = Append(receipts, Receipt(x, s, g, c))
           /\ s => EvmValid(evm, x) /\ evm' = EvmCommit(evm, x)
  BY <1>1, EvmTxFacts
<1>3. /\ pc = "evm" /\ pc' = "evm" /\ UNCHANGED <<txs, disk, succeeded>>
      /\ unloaded' = unloaded \cup (DOMAIN evm' \ Loaded(txs))
  BY DEF EvmTx
<1>4. Database(evm) /\ x.sender \in Address /\ x.nonce \in Nat
  BY <1>1, ExecutionAssumption DEF TypeOK, Database
<1>5. PICK r \in ReceiptRecord : receipts' = Append(receipts, r) /\ r.tx = x /\ r.success = s
  <2>1. /\ Receipt(x, s, g, c) \in ReceiptRecord /\ Receipt(x, s, g, c).tx = x
        /\ Receipt(x, s, g, c).success = s
    BY DEF Receipt, ReceiptRecord
  <2> QED
    BY <1>2, <2>1
<1>6. /\ \A a \in DOMAIN evm : Book(a) = evm[a].nonce /\ evm[a].nonce \in Nat
      /\ \A a \in DOMAIN evm' : Book(a)' = evm'[a].nonce
  BY <1>3, <1>4 DEF Book, Database, Account
<1>7. CASE EvmValid(evm, x) /\ evm' = EvmCommit(evm, x)
  <2>1. /\ DOMAIN evm \subseteq DOMAIN evm' /\ evm'[x.sender].nonce = x.nonce + 1
        /\ \A a \in DOMAIN evm \ {x.sender} : evm'[a].nonce >= evm[a].nonce
    BY <1>4, <1>7, EvmCommitFacts
  <2>2. x.nonce = Book(x.sender) /\ Book(x.sender)' = x.nonce + 1
    BY <1>2, <1>6, <1>7, <2>1 DEF EvmValid, EvmAccount
  <2>3. Fresh(x) /\ x.nonce < Book(x.sender)'
    BY <1>4, <2>2, FreshNow
  <2>4. ASSUME NEW a \in Address \ unloaded' PROVE Book(a) <= Book(a)'
    <3>1. CASE a = x.sender
      BY <1>4, <2>2, <3>1
    <3>2. CASE a \in DOMAIN evm \ {x.sender}
      <4>1. evm'[a].nonce \in Nat /\ evm[a].nonce \in Nat /\ evm'[a].nonce >= evm[a].nonce
        BY <1>1, <2>1, <3>2 DEF TypeOK, Account
      <4> QED
        BY <1>6, <2>1, <3>2, <4>1
    <3>3. CASE a \notin DOMAIN evm
      <4>1. a \notin DOMAIN evm'
        BY <1>1, <1>3, <2>4, <3>3 DEF PassInv
      <4>2. accounts'[a] = accounts[a]
        BY <1>2, <3>3
      <4>3. Book(a)' = Book(a)
        BY <1>3, <3>3, <4>1, <4>2 DEF Book
      <4>4. Book(a) \in Nat
        BY <1>1, BookTyped
      <4> QED
        BY <4>3, <4>4
    <3> QED
      BY <3>1, <3>2, <3>3
  <2> QED
    BY <1>1, <1>3, <1>5, <2>3, <2>4, RecordedOnce DEF NoncesInv
<1>8. CASE evm' = evm /\ ~s
  <2>1. \A a \in Address : Book(a)' = Book(a)
    BY <1>2, <1>3, <1>8 DEF Book
  <2>2. \A a \in Address \ unloaded' : Book(a) <= Book(a)'
    <3>1. \A a \in Address : Book(a) \in Nat
      BY <1>1, BookTyped
    <3> QED
      BY <2>1, <3>1
  <2> QED
    BY <1>1, <1>3, <1>5, <1>8, <2>2, RecordedOnce DEF NoncesInv
<1> QED
  BY <1>2, <1>7, <1>8

\* The steps that add no receipt and store nothing keep the invariant if the
\* nonces that count do not go back.
LEMMA SameReceipts ==
  ASSUME NoncesInv, TypeOK', PassInv', CopyInv',
         \A a \in Address \ unloaded : Book(a) <= Book(a)',
         UNCHANGED <<disk, succeeded, unloaded>>, receipts' \in {receipts, <<>>},
         pc' = "put_fee" => \A x \in Tx : IsAt(x)' => Fresh(x)'
  PROVE  NoncesInv'
<1>1. \A a \in Address : Book(a) \in Nat /\ Book(a)' \in Nat /\ disk[a].nonce \in Nat
  <2>1. \A a \in Address : Book(a) \in Nat /\ disk[a].nonce \in Nat
    BY BookTyped DEF NoncesInv
  <2>2. \A a \in Address : Book(a)' \in Nat
    BY DEF TypeOK, Book, Account
  <2> QED
    BY <2>1, <2>2
<1>2. \A a \in Address \ unloaded' : disk'[a].nonce <= Book(a)'
  <2>1. \A a \in Address \ unloaded : disk[a].nonce <= Book(a)
    BY DEF NoncesInv
  <2> QED
    BY <1>1, <2>1
<1>3. NoncesUsedUp' /\ SucceedsOnce'
  <2>1. CASE receipts' = <<>>
    BY <2>1 DEF NoncesUsedUp, SucceedsOnce
  <2>2. CASE receipts' = receipts
    <3>1. \A i \in DOMAIN receipts : receipts[i].tx \in Tx
      <4>1. \A i \in DOMAIN receipts : receipts[i] \in ReceiptRecord
        BY DEF NoncesInv, TypeOK
      <4> QED
        BY <4>1 DEF ReceiptRecord
    <3>2. ASSUME NEW i \in DOMAIN receipts', NEW y, y = receipts'[i].tx, receipts'[i].success,
                 y.sender \notin unloaded'
          PROVE  y.nonce < Book(y.sender)'
      <4>1. y.sender \in Address /\ y.nonce \in Nat
        BY <2>2, <3>1, <3>2, ExecutionAssumption
      <4>2. y.nonce < Book(y.sender)
        BY <2>2, <3>2 DEF NoncesInv, NoncesUsedUp, Success
      <4>3. Book(y.sender) <= Book(y.sender)'
        BY <3>2, <4>1
      <4> QED
        BY <1>1, <4>1, <4>2, <4>3
    <3>3. NoncesUsedUp'
      BY <3>2 DEF NoncesUsedUp, Success
    <3>4. SucceedsOnce'
      BY <2>2 DEF NoncesInv, SucceedsOnce, Success
    <3> QED
      BY <3>3, <3>4
  <2> QED
    BY <2>1, <2>2
<1>4. \A x \in succeeded' : x.sender \notin unloaded' => x.nonce < disk'[x.sender].nonce
  BY DEF NoncesInv
<1> QED
  BY <1>2, <1>3, <1>4 DEF NoncesInv

\* A game transaction's nonce counts before it is put ...
LEMMA GameCheckNonces == NoncesInv /\ GameCheck => NoncesInv'
<1> SUFFICES ASSUME NoncesInv, GameCheck PROVE NoncesInv'
  OBVIOUS
<1>1. TypeOK /\ PassInv /\ TypeOK' /\ PassInv' /\ CopyInv'
  BY NextTyped, PassKept, CopyKept DEF NoncesInv, Next, Pass
<1>2. PICK x \in Tx : \/ pc' = "put_nonce" /\ UNCHANGED receipts
                      \/ GameReceipt(x, FALSE) /\ UNCHANGED pc
  BY DEF GameCheck
<1>3. pc = "game" /\ UNCHANGED <<accounts, disk, succeeded, unloaded>>
  BY DEF GameCheck
<1>4. \A a \in Address : Book(a)' = Book(a) /\ Book(a) \in Nat
  <2>1. \A a \in Address : Book(a)' = Book(a)
    BY <1>2, <1>3 DEF Book
  <2> QED
    BY <1>1, <2>1, BookTyped
<1>5. \A a \in Address \ unloaded : Book(a) <= Book(a)'
  BY <1>4
<1>6. CASE pc' = "put_nonce" /\ UNCHANGED receipts
  BY <1>1, <1>3, <1>5, <1>6, SameReceipts
<1>7. CASE GameReceipt(x, FALSE) /\ UNCHANGED pc
  <2>1. PICK r \in ReceiptRecord : receipts' = Append(receipts, r) /\ r.tx = x /\ r.success = FALSE
    BY <1>1, <1>7, GameReceiptTyped
  <2>2. unloaded \subseteq unloaded' /\ pc' # "put_fee"
    BY <1>3, <1>7
  <2>3. \A a \in Address \ unloaded' : Book(a) <= Book(a)'
    BY <1>3, <1>5
  <2>4. /\ \A a \in Address \ unloaded' : disk'[a].nonce <= Book(a)'
        /\ \A y \in succeeded' : y.sender \notin unloaded' => y.nonce < disk'[y.sender].nonce
        /\ NoncesUsedUp' /\ SucceedsOnce'
    BY <1>1, <1>3, <2>1, <2>2, <2>3, RecordedOnce
  <2> QED
    BY <1>1, <2>2, <2>4 DEF NoncesInv
<1> QED
  BY <1>2, <1>6, <1>7

\* ... and is used up by the first put, before the fee is taken ...
LEMMA PutNonceNonces == NoncesInv /\ PutNonce => NoncesInv'
<1> SUFFICES ASSUME NoncesInv, PutNonce PROVE NoncesInv'
  OBVIOUS
<1>1. TypeOK /\ PassInv /\ TypeOK' /\ PassInv' /\ CopyInv' /\ CopyInv
  BY NextTyped, PassKept, CopyKept DEF NoncesInv, Next, Pass
<1>2. PICK x \in Tx : /\ IsAt(x) /\ copy' = [copy EXCEPT !.nonce = @ + 1]
                      /\ accounts' = [accounts EXCEPT ![x.sender] = copy']
  BY DEF PutNonce
<1>3. /\ pc = "put_nonce" /\ pc' = "put_fee"
      /\ UNCHANGED <<txs, todo, receipts, disk, succeeded, unloaded>>
  BY DEF PutNonce
<1>4. x.sender \in Address /\ copy = accounts[x.sender] /\ x.nonce = copy.nonce /\ copy.nonce \in Nat
  <2>1. x.sender \in Address
    BY ExecutionAssumption
  <2> QED
    BY <1>1, <1>2, <1>3, <2>1 DEF CopyInv, TypeOK, Account
<1>5. copy'.nonce = copy.nonce + 1
  BY <1>1, <1>2, CopyFacts DEF TypeOK
<1>6. \A a \in Address : Book(a) = accounts[a].nonce /\ Book(a)' = accounts'[a].nonce /\ Book(a) \in Nat
  <2>1. \A a \in Address : Book(a) = accounts[a].nonce /\ Book(a)' = accounts'[a].nonce
    BY <1>3 DEF Book
  <2> QED
    BY <1>1, <2>1, BookTyped
<1>7. ASSUME NEW a \in Address PROVE Book(a) <= Book(a)'
  <2>1. CASE a = x.sender
    <3>1. accounts'[a] = copy'
      BY <1>1, <1>2, <2>1 DEF TypeOK
    <3> QED
      BY <1>4, <1>5, <1>6, <2>1, <3>1
  <2>2. CASE a # x.sender
    <3>1. accounts'[a] = accounts[a]
      BY <1>1, <1>2, <2>2 DEF TypeOK
    <3> QED
      BY <1>6, <3>1
  <2> QED
    BY <2>1, <2>2
<1>8. Fresh(x)
  <2>1. x.nonce >= Book(x.sender)
    BY <1>4, <1>6
  <2> QED
    BY <2>1, FreshNow
<1>9. ASSUME NEW y \in Tx, IsAt(y)' PROVE Fresh(y)'
  <2>1. IsAt(y)
    BY <1>3, <1>9 DEF IsAt, At
  <2>2. y = x
    BY <1>1, <1>2, <2>1, AtUnique
  <2>3. Fresh(y)
    BY <1>8, <2>2
  <2> QED
    BY <1>3, <2>3 DEF Fresh, Success
<1> QED
  BY <1>1, <1>3, <1>7, <1>9, SameReceipts

\* ... so that its success is the first.
LEMMA PutFeeNonces == NoncesInv /\ PutFee => NoncesInv'
<1> SUFFICES ASSUME NoncesInv, PutFee PROVE NoncesInv'
  OBVIOUS
<1>1. TypeOK /\ PassInv /\ TypeOK' /\ PassInv' /\ CopyInv' /\ CopyInv
  BY NextTyped, PassKept, CopyKept DEF NoncesInv, Next, Pass
<1>2. PICK x \in Tx :
        /\ IsNext(x)
        /\ \/ /\ copy.balance >= GameGas
              /\ accounts' = [accounts EXCEPT ![x.sender] = [copy EXCEPT !.balance = @ - GameGas]]
           \/ UNCHANGED accounts
        /\ GameReceipt(x, TRUE)
  BY DEF PutFee
<1>3. pc = "put_fee" /\ pc' = "game" /\ UNCHANGED <<disk, succeeded, unloaded>> /\ IsAt(x)
  BY <1>2 DEF PutFee, IsNext, IsAt
<1>4. /\ x.sender \in Address /\ copy = accounts[x.sender] /\ x.nonce < copy.nonce
      /\ copy \in Account
  <2>1. x.sender \in Address
    BY ExecutionAssumption
  <2> QED
    BY <1>1, <1>3, <2>1 DEF CopyInv, TypeOK
<1>5. \A a \in Address : accounts'[a].nonce = accounts[a].nonce
  <2>1. PICK less : less = [copy EXCEPT !.balance = @ - GameGas]
    OBVIOUS
  <2>2. copy.balance >= GameGas => less.nonce = copy.nonce
    BY <1>4, <2>1, CopyFacts
  <2> QED
    BY <1>1, <1>2, <1>4, <2>1, <2>2 DEF TypeOK
<1>6. \A a \in Address : Book(a)' = Book(a) /\ Book(a) \in Nat /\ Book(a) = accounts[a].nonce
  <2>1. \A a \in Address : Book(a)' = Book(a) /\ Book(a) = accounts[a].nonce
    BY <1>3, <1>5 DEF Book
  <2> QED
    BY <1>1, <2>1, BookTyped
<1>7. PICK r \in ReceiptRecord : receipts' = Append(receipts, r) /\ r.tx = x /\ r.success = TRUE
  BY <1>1, <1>2, GameReceiptTyped
<1>8. Fresh(x) /\ x.nonce < Book(x.sender)'
  BY <1>3, <1>4, <1>6 DEF NoncesInv
<1>9. unloaded \subseteq unloaded' /\ \A a \in Address \ unloaded' : Book(a) <= Book(a)'
  BY <1>3, <1>6
<1>10. /\ \A a \in Address \ unloaded' : disk'[a].nonce <= Book(a)'
       /\ \A y \in succeeded' : y.sender \notin unloaded' => y.nonce < disk'[y.sender].nonce
       /\ NoncesUsedUp' /\ SucceedsOnce'
  BY <1>1, <1>3, <1>7, <1>8, <1>9, RecordedOnce
<1> QED
  BY <1>1, <1>3, <1>10 DEF NoncesInv

\* A put moves one account to disk; unless the EVM has held it without loading
\* it, the nonce it stores is not lower.
LEMMA PutAccountNonces ==
  ASSUME NoncesInv, NEW a \in Address, PutAccount(a)
  PROVE  NoncesInv' /\ \A b \in Address \ unloaded : disk[b].nonce <= disk'[b].nonce
<1>1. TypeOK /\ PassInv /\ TypeOK' /\ PassInv' /\ CopyInv'
  BY NextTyped, PassKept, CopyKept DEF NoncesInv, Next, Pass
<1>2. /\ pc = "put_accounts" /\ disk' = [disk EXCEPT ![a] = draining[a]] /\ a \in DOMAIN draining
      /\ UNCHANGED <<pc, txs, todo, evm, accounts, receipts, succeeded, unloaded>>
  BY DEF PutAccount
<1>3. draining[a] = accounts[a]
  BY <1>1, <1>2 DEF PassInv
<1>4. \A b \in Address : /\ disk[b].nonce \in Nat /\ accounts[b].nonce \in Nat
                         /\ disk'[b] = IF b = a THEN accounts[a] ELSE disk[b]
  BY <1>1, <1>2, <1>3 DEF TypeOK, Account
<1>5. \A b \in Address : Book(b) = accounts[b].nonce /\ Book(b)' = accounts[b].nonce
  BY <1>2 DEF Book
<1>6. \A b \in Address \ unloaded : disk[b].nonce <= accounts[b].nonce
  BY <1>5 DEF NoncesInv
<1>7. \A b \in Address \ unloaded : disk[b].nonce <= disk'[b].nonce /\ disk'[b].nonce <= Book(b)'
  BY <1>4, <1>5, <1>6
<1>8. ASSUME NEW y \in succeeded, y.sender \notin unloaded PROVE y.nonce < disk'[y.sender].nonce
  <2>1. y \in Tx /\ y.sender \in Address /\ y.nonce \in Nat
    BY <1>1, ExecutionAssumption DEF TypeOK
  <2>2. y.nonce < disk[y.sender].nonce
    BY <1>8 DEF NoncesInv
  <2>3. disk[y.sender].nonce <= disk'[y.sender].nonce
    BY <1>7, <1>8, <2>1
  <2>4. disk[y.sender].nonce \in Nat /\ disk'[y.sender].nonce \in Nat
    BY <1>4, <2>1
  <2> QED
    BY <2>1, <2>2, <2>3, <2>4
<1>9. NoncesUsedUp' /\ SucceedsOnce'
  <2>1. ASSUME NEW i \in DOMAIN receipts', NEW y, y = receipts'[i].tx, receipts'[i].success,
               y.sender \notin unloaded'
        PROVE  y.nonce < Book(y.sender)'
    BY <1>2, <2>1 DEF NoncesInv, NoncesUsedUp, Success, Book
  <2>2. NoncesUsedUp'
    BY <2>1 DEF NoncesUsedUp, Success
  <2>3. SucceedsOnce'
    BY <1>2 DEF NoncesInv, SucceedsOnce, Success
  <2> QED
    BY <2>2, <2>3
<1>10. pc' # "put_fee"
  BY <1>2
<1> QED
  BY <1>1, <1>2, <1>7, <1>8, <1>9, <1>10 DEF NoncesInv

\* The block becomes the head when everything is on disk, and a restart reads
\* what is there.
LEMMA IdleNonces == NoncesInv /\ (Finish \/ Crash) => NoncesInv'
<1> SUFFICES ASSUME NoncesInv, Finish \/ Crash PROVE NoncesInv'
  OBVIOUS
<1>1. TypeOK /\ PassInv /\ TypeOK' /\ PassInv' /\ CopyInv'
  BY NextTyped, PassKept, CopyKept DEF NoncesInv, Next, Pass
<1>2. pc' = "idle" /\ receipts' = <<>> /\ UNCHANGED <<disk, unloaded>>
  BY DEF Finish, Crash
<1>3. accounts' = disk
  <2>1. CASE Finish
    <3>1. accounts' = accounts /\ dirty = {} /\ DOMAIN draining = {}
      BY <1>1, <2>1 DEF Finish, PassInv
    <3>2. \A a \in Address : accounts[a] = disk[a]
      BY <1>1, <3>1 DEF PassInv
    <3> QED
      BY <1>1, <3>1, <3>2 DEF TypeOK
  <2>2. CASE Crash
    BY <2>2 DEF Crash
  <2> QED
    BY <2>1, <2>2
<1>4. \A a \in Address : Book(a)' = disk[a].nonce /\ disk[a].nonce \in Nat
  <2>1. \A a \in Address : Book(a)' = disk[a].nonce
    BY <1>2, <1>3 DEF Book
  <2> QED
    BY <1>1, <2>1, BookTyped
<1>5. ASSUME NEW y \in succeeded', y.sender \notin unloaded PROVE y.nonce < disk[y.sender].nonce
  <2>1. CASE y \in succeeded
    BY <1>5, <2>1 DEF NoncesInv
  <2>2. CASE y \notin succeeded
    <3>1. Finish
      BY <1>5, <2>2 DEF Crash
    <3>2. pc = "put_accounts" /\ accounts' = accounts
          /\ succeeded' = succeeded \cup {r.tx : r \in {s \in Range(receipts) : s.success}}
      BY <3>1 DEF Finish
    <3>3. PICK i \in DOMAIN receipts : receipts[i].success /\ y = receipts[i].tx
      BY <1>5, <2>2, <3>2 DEF Range
    <3>4. y.nonce < Book(y.sender)
      BY <1>5, <3>3 DEF NoncesInv, NoncesUsedUp, Success
    <3>5. Book(y.sender) = accounts[y.sender].nonce
      BY <3>2 DEF Book
    <3> QED
      BY <1>3, <3>2, <3>4, <3>5
  <2> QED
    BY <2>1, <2>2
<1>6. NoncesUsedUp' /\ SucceedsOnce'
  BY <1>2 DEF NoncesUsedUp, SucceedsOnce
<1>7. \A a \in Address \ unloaded' : disk'[a].nonce <= Book(a)'
  BY <1>2, <1>4
<1> QED
  BY <1>1, <1>2, <1>5, <1>6, <1>7 DEF NoncesInv

\* Every step keeps the invariant and lowers no stored nonce but of the accounts
\* that the EVM has held without loading them.
LEMMA StepNonces ==
  ASSUME NoncesInv, [Next]_vars
  PROVE  NoncesInv' /\ \A a \in Address \ unloaded : disk[a].nonce <= disk'[a].nonce
<1>1. TypeOK /\ TypeOK' /\ PassInv' /\ CopyInv'
  BY NextTyped, PassKept, CopyKept DEF NoncesInv
<1>2. \A a \in Address : disk[a].nonce \in Nat /\ Book(a) \in Nat
  BY <1>1, BookTyped
<1>3. ASSUME NEW block \in Block, Begin(block) PROVE NoncesInv' /\ disk' = disk
  <2>1. \A a \in DOMAIN evm' : evm'[a] = accounts[a]
    BY <1>1, <1>3, BeginTyped
  <2>2. /\ pc = "idle" /\ pc' = "evm" /\ receipts' = <<>>
        /\ UNCHANGED <<accounts, disk, succeeded, unloaded>>
    BY <1>3 DEF Begin
  <2>3. \A a \in Address : Book(a)' = Book(a)
    BY <2>1, <2>2 DEF Book
  <2> QED
    BY <1>1, <1>2, <2>2, <2>3, SameReceipts
<1>4. CASE FlushToState
  <2>1. /\ accounts' = [a \in Address |-> IF a \in DOMAIN evm THEN evm[a] ELSE accounts[a]]
        /\ pc = "evm" /\ pc' = "game" /\ UNCHANGED <<disk, receipts, succeeded, unloaded>>
    BY <1>4 DEF FlushToState, Flushed
  <2>2. \A a \in Address : Book(a)' = Book(a)
    BY <2>1 DEF Book
  <2> QED
    BY <1>1, <1>2, <2>1, <2>2, SameReceipts
<1>5. CASE Tick \/ Commit
  <2>1. /\ pc \in {"game", "commit"} /\ pc' \in {"commit", "put_accounts"}
        /\ UNCHANGED <<accounts, disk, receipts, succeeded, unloaded>>
    BY <1>5 DEF Tick, Commit
  <2>2. \A a \in Address : Book(a)' = Book(a)
    BY <2>1 DEF Book
  <2> QED
    BY <1>1, <1>2, <2>1, <2>2, SameReceipts
<1>6. CASE EvmTx \/ GameCheck \/ PutNonce \/ PutFee \/ Finish \/ Crash
  <2>1. disk' = disk
    BY <1>6 DEF EvmTx, GameCheck, PutNonce, PutFee, Finish, Crash
  <2>2. NoncesInv'
    BY <1>6, EvmTxNonces, GameCheckNonces, PutNonceNonces, PutFeeNonces, IdleNonces
  <2> QED
    BY <1>2, <2>1, <2>2
<1>7. CASE UNCHANGED vars
  <2>1. /\ UNCHANGED <<pc, txs, todo, evm, accounts, disk, receipts, succeeded, unloaded>>
    BY <1>7 DEF vars
  <2>2. \A a \in Address : Book(a)' = Book(a)
    BY <2>1 DEF Book
  <2>3. pc' = "put_fee" => \A x \in Tx : IsAt(x)' => Fresh(x)'
    BY <2>1 DEF NoncesInv, IsAt, At, Fresh, Success
  <2> QED
    BY <1>1, <1>2, <2>1, <2>2, <2>3, SameReceipts
<1> QED
  BY <1>2, <1>3, <1>4, <1>5, <1>6, <1>7, PutAccountNonces DEF Next, Pass

\* The genesis state satisfies the invariant.
LEMMA InitNonces == Init => NoncesInv
<1> SUFFICES ASSUME Init PROVE NoncesInv
  OBVIOUS
<1>1. <<>> \in Seq(Tx) /\ <<>> \in Seq(ReceiptRecord) /\ DOMAIN <<>> = {}
  OBVIOUS
<1>2. initial \in [Address -> Account] /\ NoAccount \in Account
  BY ExecutionAssumption DEF Account, NoAccount
<1>3. TypeOK
  BY <1>1, <1>2 DEF Init, TypeOK
<1>4. \A a \in Address : Book(a) = disk[a].nonce /\ disk[a].nonce \in Nat
  BY <1>2 DEF Init, Book, Account
<1>5. NoncesUsedUp /\ SucceedsOnce
  BY <1>1 DEF Init, NoncesUsedUp, SucceedsOnce
<1>6. PassInv /\ CopyInv
  BY <1>1 DEF Init, PassInv, CopyInv
<1> QED
  BY <1>3, <1>4, <1>5, <1>6 DEF Init, NoncesInv

\* A transaction whose sender the EVM has always loaded succeeds in at most one
\* applied block, and once in it, for any accounts, transactions and blocks that
\* are applied one at a time: however often producers include it, though the flush
\* may set the cached nonce back, and whatever a kill inside the commit left on disk.
THEOREM TransactionsSucceedOnce == Spec => []SucceedsOnce
<1>1. Init => NoncesInv
  BY InitNonces
<1>2. NoncesInv /\ [Next]_vars => NoncesInv'
  BY StepNonces
<1>3. NoncesInv => SucceedsOnce
  BY DEF NoncesInv
<1> QED
  BY <1>1, <1>2, <1>3, PTL DEF Spec

\* The stored nonce of an account that the EVM has always loaded never goes back:
\* no put, flush or kill makes a nonce that was used good again.
THEOREM StoredNoncesGrow == Spec => StoredNonceGrows
<1>1. Init => NoncesInv
  BY InitNonces
<1>2. NoncesInv /\ [Next]_vars => NoncesInv'
  BY StepNonces
<1>3. NoncesInv /\ [Next]_vars =>
        [\A a \in Address \ unloaded : disk'[a].nonce >= disk[a].nonce]_vars
  <2> SUFFICES ASSUME NoncesInv, [Next]_vars, NEW a \in Address \ unloaded
               PROVE  disk'[a].nonce >= disk[a].nonce
    OBVIOUS
  <2>1. NoncesInv' /\ disk[a].nonce <= disk'[a].nonce
    BY StepNonces
  <2>2. disk[a].nonce \in Nat /\ disk'[a].nonce \in Nat
    BY <2>1 DEF NoncesInv, TypeOK, Account
  <2> QED
    BY <2>1, <2>2
<1> QED
  BY <1>1, <1>2, <1>3, PTL DEF Spec, StoredNonceGrows

-----------------------------------------------------------------------------
(* Sums of balances.  The sum over the accounts is a recursive function on *)
(* the sets of accounts; facts about it for all sets are proved with a set *)
(* of least cardinality that would contradict them.                        *)

Pick(s) == CHOOSE x \in s : TRUE

\* g is the sum of the balances, for the sets of accounts in D.
Sums(g, accs, D) ==
  g = [s \in D |-> IF s = {} THEN 0 ELSE accs[Pick(s)].balance + g[s \ {Pick(s)}]]

SumOf(accs) == CHOOSE g : Sums(g, accs, SUBSET Address)

Upto(n) == {s \in SUBSET Address : Cardinality(s) <= n}

\* Supply is the sum over all accounts.
LEMMA SupplyIsSum == ASSUME NEW accs PROVE Supply(accs) = SumOf(accs)[Address]
  BY SMT DEF Supply, SumOf, Sums, Pick, MapThenSumSet, MapThenFoldSet

\* A set of naturals that is not empty has a least element.
LEMMA LeastElement ==
  ASSUME NEW T \in SUBSET Nat, T # {}
  PROVE  \E x \in T : \A y \in T : x <= y
<1>1. IsWellFoundedOn(OpToRel(<, Nat), Nat)
  BY NatLessThanWellFounded
<1>2. \E x \in T : \A y \in T : ~(<<y, x>> \in OpToRel(<, Nat))
  BY <1>1, WFMin
<1>3. \A x, y \in Nat : y < x => <<y, x>> \in OpToRel(<, Nat)
  BY Zenon DEF OpToRel
<1>4. \E x \in T : \A y \in T : ~(y < x)
  BY <1>2, <1>3, Zenon
<1> QED
  BY <1>4

\* Sets of accounts are finite, and smaller without one of their accounts.
LEMMA Smaller ==
  ASSUME NEW s \in SUBSET Address
  PROVE  /\ IsFiniteSet(s) /\ Cardinality(s) \in Nat
         /\ Cardinality(s) <= Cardinality(Address) /\ Cardinality(Address) \in Nat
         /\ \A x \in s : Cardinality(s \ {x}) = Cardinality(s) - 1
         /\ Cardinality(s) = 0 <=> s = {}
<1>1. IsFiniteSet(Address)
  BY ExecutionAssumption
<1>2. IsFiniteSet(s) /\ Cardinality(s) <= Cardinality(Address)
  BY <1>1, FS_Subset
<1>3. Cardinality(s) \in Nat /\ Cardinality(Address) \in Nat
  BY <1>1, <1>2, FS_CardinalityType
<1>4. \A x \in s : Cardinality(s \ {x}) = Cardinality(s) - 1
  BY <1>2, FS_RemoveElement
<1>5. Cardinality(s) = 0 <=> s = {}
  BY <1>2, FS_EmptySet
<1> QED
  BY <1>1, <1>2, <1>3, <1>4, <1>5

\* Of the sets of accounts with a property there is a smallest.
LEMMA SmallestSet ==
  ASSUME NEW B \in SUBSET SUBSET Address, B # {}
  PROVE  \E s \in B : \A t \in B : Cardinality(s) <= Cardinality(t)
<1>1. \A s \in B : Cardinality(s) \in Nat
  BY Smaller
<1>2. PICK T : T = {Cardinality(s) : s \in B}
  OBVIOUS
<1>3. T \in SUBSET Nat /\ T # {}
  BY <1>1, <1>2
<1>4. PICK n \in T : \A m \in T : n <= m
  BY <1>3, LeastElement
<1>5. PICK s \in B : n = Cardinality(s)
  BY <1>2
<1> QED
  BY <1>2, <1>4, <1>5

\* A function that sums up to a size can be extended by one.
LEMMA SumsExtend ==
  ASSUME NEW accs, NEW n \in Nat, NEW g, Sums(g, accs, Upto(n))
  PROVE  \E h : Sums(h, accs, Upto(n + 1))
<1>1. PICK h : h = [s \in Upto(n + 1) |->
                     IF s = {} THEN 0 ELSE accs[Pick(s)].balance + g[s \ {Pick(s)}]]
  OBVIOUS
<1>2. \A s \in Upto(n) : s \in Upto(n + 1) /\ h[s] = g[s]
  <2> SUFFICES ASSUME NEW s \in Upto(n) PROVE s \in Upto(n + 1) /\ h[s] = g[s]
    OBVIOUS
  <2>1. s \in SUBSET Address /\ Cardinality(s) <= n
    BY DEF Upto
  <2>2. Cardinality(s) \in Nat
    BY <2>1, Smaller
  <2>3. s \in Upto(n + 1)
    BY <2>1, <2>2 DEF Upto
  <2>4. g[s] = IF s = {} THEN 0 ELSE accs[Pick(s)].balance + g[s \ {Pick(s)}]
    BY DEF Sums
  <2> QED
    BY <1>1, <2>3, <2>4
<1>3. \A s \in Upto(n + 1) : s # {} => s \ {Pick(s)} \in Upto(n)
  <2> SUFFICES ASSUME NEW s \in Upto(n + 1), s # {} PROVE s \ {Pick(s)} \in Upto(n)
    OBVIOUS
  <2>1. s \in SUBSET Address /\ Cardinality(s) <= n + 1
    BY DEF Upto
  <2>2. Pick(s) \in s
    BY DEF Pick
  <2>3. Cardinality(s) \in Nat /\ Cardinality(s \ {Pick(s)}) = Cardinality(s) - 1
    BY <2>1, <2>2, Smaller
  <2> QED
    BY <2>1, <2>3 DEF Upto
<1>4. \A s \in Upto(n + 1) :
        h[s] = IF s = {} THEN 0 ELSE accs[Pick(s)].balance + h[s \ {Pick(s)}]
  BY <1>1, <1>2, <1>3
<1>5. Sums(h, accs, Upto(n + 1))
  BY <1>1, <1>4 DEF Sums
<1> QED
  BY <1>5

\* There is a function that sums: if the sizes for which there is one had an end,
\* the first size without one could be reached from the one before.
LEMMA SumsExist ==
  ASSUME NEW accs
  PROVE  Sums(SumOf(accs), accs, SUBSET Address)
<1>1. \A n \in Nat : \E g : Sums(g, accs, Upto(n))
  <2>1. PICK none : none = {n \in Nat : ~\E g : Sums(g, accs, Upto(n))}
    OBVIOUS
  <2>2. none = {}
    <3> SUFFICES ASSUME none # {} PROVE FALSE
      OBVIOUS
    <3>1. none \in SUBSET Nat
      BY <2>1
    <3>2. PICK n \in none : \A m \in none : n <= m
      BY <3>1, LeastElement
    <3>3. n \in Nat /\ ~\E g : Sums(g, accs, Upto(n))
      BY <2>1, <3>2
    <3>4. CASE n = 0
      <4>1. PICK g : g = [s \in Upto(0) |-> 0]
        OBVIOUS
      <4>2. \A s \in Upto(0) : s = {}
        <5> SUFFICES ASSUME NEW s \in Upto(0) PROVE s = {}
          OBVIOUS
        <5>1. s \in SUBSET Address /\ Cardinality(s) <= 0
          BY DEF Upto
        <5> QED
          BY <5>1, Smaller
      <4>3. Sums(g, accs, Upto(0))
        BY <4>1, <4>2 DEF Sums
      <4> QED
        BY <3>3, <3>4, <4>3
    <3>5. CASE n # 0
      <4>1. n - 1 \in Nat /\ n - 1 < n /\ (n - 1) + 1 = n
        BY <3>3, <3>5
      <4>2. n - 1 \notin none
        BY <3>2, <3>3, <4>1
      <4>3. PICK m \in Nat : m = n - 1
        BY <4>1
      <4>4. PICK g : Sums(g, accs, Upto(m))
        BY <2>1, <4>2, <4>3
      <4>5. \E h : Sums(h, accs, Upto(m + 1))
        BY <4>4, SumsExtend
      <4> QED
        BY <3>3, <4>1, <4>3, <4>5
    <3> QED
      BY <3>4, <3>5
  <2> QED
    BY <2>1, <2>2
<1>2. Upto(Cardinality(Address)) = SUBSET Address
  <2>1. \A s \in SUBSET Address : Cardinality(s) <= Cardinality(Address)
    BY Smaller
  <2> QED
    BY <2>1 DEF Upto
<1>3. Cardinality(Address) \in Nat
  BY Smaller
<1>4. \E g : Sums(g, accs, SUBSET Address)
  BY <1>1, <1>2, <1>3
<1> QED
  BY <1>4 DEF SumOf

\* The sum of the balances of no account, and of some.
LEMMA SumStep ==
  ASSUME NEW accs
  PROVE  /\ SumOf(accs)[{}] = 0
         /\ \A s \in SUBSET Address : s # {} =>
              /\ Pick(s) \in s
              /\ SumOf(accs)[s] = accs[Pick(s)].balance + SumOf(accs)[s \ {Pick(s)}]
<1>1. PICK g : g = SumOf(accs)
  OBVIOUS
<1>2. Sums(g, accs, SUBSET Address)
  BY <1>1, SumsExist
<1>3. \A s \in SUBSET Address :
        g[s] = IF s = {} THEN 0 ELSE accs[Pick(s)].balance + g[s \ {Pick(s)}]
  BY <1>2 DEF Sums
<1>4. \A s \in SUBSET Address : s # {} => Pick(s) \in s
  BY DEF Pick
<1> QED
  BY <1>1, <1>3, <1>4

\* Sums of balances are numbers.
LEMMA SumTyped ==
  ASSUME NEW accs \in [Address -> Account]
  PROVE  \A s \in SUBSET Address : SumOf(accs)[s] \in Nat
<1>1. PICK g : g = SumOf(accs)
  OBVIOUS
<1>2. \A a \in Address : accs[a].balance \in Nat
  BY DEF Account
<1>3. PICK bad : bad = {s \in SUBSET Address : g[s] \notin Nat}
  OBVIOUS
<1>4. bad = {}
  <2> SUFFICES ASSUME bad # {} PROVE FALSE
    OBVIOUS
  <2>1. bad \in SUBSET SUBSET Address
    BY <1>3
  <2>2. PICK s \in bad : \A t \in bad : Cardinality(s) <= Cardinality(t)
    BY <2>1, SmallestSet
  <2>3. s \in SUBSET Address /\ g[s] \notin Nat
    BY <1>3
  <2>4. s # {}
    <3>1. g[{}] = 0
      BY <1>1, SumStep
    <3> QED
      BY <2>3, <3>1
  <2>5. Pick(s) \in s /\ g[s] = accs[Pick(s)].balance + g[s \ {Pick(s)}]
    BY <1>1, <2>3, <2>4, SumStep
  <2>6. s \ {Pick(s)} \notin bad
    <3>1. Cardinality(s) \in Nat /\ Cardinality(s \ {Pick(s)}) = Cardinality(s) - 1
      BY <2>3, <2>5, Smaller
    <3> QED
      BY <2>2, <3>1
  <2>7. g[s \ {Pick(s)}] \in Nat
    BY <1>3, <2>3, <2>6
  <2>8. accs[Pick(s)].balance \in Nat
    BY <1>2, <2>3, <2>5
  <2> QED
    BY <2>3, <2>5, <2>7, <2>8
<1> QED
  BY <1>1, <1>3, <1>4

\* Any account can be taken out of a sum first.
LEMMA SumTakesOut ==
  ASSUME NEW accs \in [Address -> Account]
  PROVE  \A s \in SUBSET Address : \A x \in s :
           SumOf(accs)[s] = accs[x].balance + SumOf(accs)[s \ {x}]
<1>1. PICK g : g = SumOf(accs)
  OBVIOUS
<1>2. /\ \A a \in Address : accs[a].balance \in Nat
      /\ \A s \in SUBSET Address : g[s] \in Nat
  BY <1>1, SumTyped DEF Account
<1>3. PICK bad : bad = {s \in SUBSET Address :
                         \E x \in s : g[s] # accs[x].balance + g[s \ {x}]}
  OBVIOUS
<1>4. bad = {}
  <2> SUFFICES ASSUME bad # {} PROVE FALSE
    OBVIOUS
  <2>1. bad \in SUBSET SUBSET Address
    BY <1>3
  <2>2. PICK s \in bad : \A t \in bad : Cardinality(s) <= Cardinality(t)
    BY <2>1, SmallestSet
  <2>3. s \in SUBSET Address
    BY <1>3
  <2>4. PICK x \in s : g[s] # accs[x].balance + g[s \ {x}]
    BY <1>3
  <2>5. PICK p : p = Pick(s)
    OBVIOUS
  <2>6. p \in s /\ g[s] = accs[p].balance + g[s \ {p}]
    BY <1>1, <2>3, <2>4, <2>5, SumStep
  <2>7. x # p
    BY <2>4, <2>6
  <2>8. Cardinality(s) \in Nat /\ \A y \in s : Cardinality(s \ {y}) = Cardinality(s) - 1
    BY <2>3, Smaller
  <2>9. s \ {p} \notin bad /\ s \ {x} \notin bad
    BY <2>2, <2>6, <2>8
  <2>10. g[s \ {p}] = accs[x].balance + g[(s \ {p}) \ {x}]
    BY <1>3, <2>3, <2>7, <2>9
  <2>11. g[s \ {x}] = accs[p].balance + g[(s \ {x}) \ {p}]
    BY <1>3, <2>3, <2>6, <2>7, <2>9
  <2>12. (s \ {p}) \ {x} = (s \ {x}) \ {p} /\ (s \ {p}) \ {x} \in SUBSET Address
    BY <2>3
  <2>13. PICK r \in Nat : r = g[(s \ {p}) \ {x}]
    BY <1>2, <2>12
  <2>14. PICK u \in Nat, v \in Nat : u = accs[x].balance /\ v = accs[p].balance
    BY <1>2, <2>3, <2>6
  <2>15. g[s] = v + (u + r) /\ g[s \ {x}] = v + r
    BY <2>6, <2>10, <2>11, <2>12, <2>13, <2>14
  <2>16. v + (u + r) = u + (v + r)
    BY <2>13, <2>14
  <2> QED
    BY <2>4, <2>14, <2>15, <2>16
<1> QED
  BY <1>1, <1>3, <1>4

\* Accounts that hold no more sum up to no more.
LEMMA SumMonotonic ==
  ASSUME NEW accs \in [Address -> Account], NEW more \in [Address -> Account],
         NEW within \in SUBSET Address, \A a \in within : accs[a].balance <= more[a].balance
  PROVE  SumOf(accs)[within] <= SumOf(more)[within]
<1>1. PICK f, g : f = SumOf(accs) /\ g = SumOf(more)
  OBVIOUS
<1>2. /\ \A a \in Address : accs[a].balance \in Nat /\ more[a].balance \in Nat
      /\ \A s \in SUBSET Address : f[s] \in Nat /\ g[s] \in Nat
  BY <1>1, SumTyped DEF Account
<1>3. PICK bad : bad = {s \in SUBSET within : ~(f[s] <= g[s])}
  OBVIOUS
<1>4. bad = {}
  <2> SUFFICES ASSUME bad # {} PROVE FALSE
    OBVIOUS
  <2>1. bad \in SUBSET SUBSET Address
    BY <1>3
  <2>2. PICK s \in bad : \A t \in bad : Cardinality(s) <= Cardinality(t)
    BY <2>1, SmallestSet
  <2>3. s \in SUBSET within /\ s \in SUBSET Address /\ ~(f[s] <= g[s])
    BY <1>3
  <2>4. f[{}] = 0 /\ g[{}] = 0
    BY <1>1, SumStep
  <2>5. PICK x \in s : TRUE
    BY <2>3, <2>4
  <2>6. f[s] = accs[x].balance + f[s \ {x}] /\ g[s] = more[x].balance + g[s \ {x}]
    BY <1>1, <2>3, SumTakesOut
  <2>7. s \ {x} \notin bad
    <3>1. Cardinality(s) \in Nat /\ Cardinality(s \ {x}) = Cardinality(s) - 1
      BY <2>3, Smaller
    <3> QED
      BY <2>2, <3>1
  <2>8. f[s \ {x}] <= g[s \ {x}]
    BY <1>3, <2>3, <2>7
  <2>9. /\ accs[x].balance <= more[x].balance /\ accs[x].balance \in Nat
        /\ more[x].balance \in Nat /\ f[s \ {x}] \in Nat /\ g[s \ {x}] \in Nat
    BY <1>2, <2>3
  <2> QED
    BY <2>3, <2>6, <2>8, <2>9
<1> QED
  BY <1>1, <1>3, <1>4

\* The supply is a number.
LEMMA SupplyTyped == ASSUME NEW accs \in [Address -> Account] PROVE Supply(accs) \in Nat
  BY SumTyped, SupplyIsSum

\* Accounts that hold no more are worth no more in all.
LEMMA SupplyMonotonic ==
  ASSUME NEW accs \in [Address -> Account], NEW more \in [Address -> Account],
         \A a \in Address : accs[a].balance <= more[a].balance
  PROVE  Supply(accs) \in Nat /\ Supply(more) \in Nat /\ Supply(accs) <= Supply(more)
<1>1. SumOf(accs)[Address] <= SumOf(more)[Address]
  BY SumMonotonic
<1> QED
  BY <1>1, SumTyped, SupplyIsSum

\* Replacing one account changes the supply by the difference of its balances.
LEMMA SupplyUpdate ==
  ASSUME NEW accs \in [Address -> Account], NEW new \in [Address -> Account],
         NEW x \in Address, \A a \in Address \ {x} : new[a] = accs[a]
  PROVE  Supply(new) + accs[x].balance = Supply(accs) + new[x].balance
<1>1. PICK rest : rest = Address \ {x}
  OBVIOUS
<1>2. rest \in SUBSET Address /\ Address \in SUBSET Address
  BY <1>1
<1>3. /\ SumOf(accs)[Address] = accs[x].balance + SumOf(accs)[rest]
      /\ SumOf(new)[Address] = new[x].balance + SumOf(new)[rest]
  BY <1>1, SumTakesOut
<1>4. /\ \A a \in rest : accs[a].balance <= new[a].balance
      /\ \A a \in rest : new[a].balance <= accs[a].balance
  BY <1>1 DEF Account
<1>5. SumOf(accs)[rest] <= SumOf(new)[rest] /\ SumOf(new)[rest] <= SumOf(accs)[rest]
  BY <1>2, <1>4, SumMonotonic
<1>6. SumOf(accs)[rest] \in Nat /\ SumOf(new)[rest] \in Nat
  BY <1>2, SumTyped
<1>7. accs[x].balance \in Nat /\ new[x].balance \in Nat
  BY DEF Account
<1>8. Supply(accs) = SumOf(accs)[Address] /\ Supply(new) = SumOf(new)[Address]
  BY SupplyIsSum
<1> QED
  BY <1>3, <1>5, <1>6, <1>7, <1>8

-----------------------------------------------------------------------------
(* The supply                                                              *)

\* Of a database laid over accounts, the accounts.
LEMMA FlushedTyped ==
  ASSUME NEW db, Database(db), NEW accs \in [Address -> Account]
  PROVE  /\ Flushed(db, accs) \in [Address -> Account]
         /\ \A a \in Address : /\ Flushed(db, accs)[a].balance \in Nat
                               /\ EvmAccount(db, a).balance \in Nat
                               /\ EvmAccount(db, a).balance <= Flushed(db, accs)[a].balance
<1>1. Flushed(db, accs) \in [Address -> Account]
  BY DEF Flushed, Database
<1>2. \A a \in Address : accs[a].balance \in Nat
  BY DEF Account
<1>3. \A a \in DOMAIN db : db[a].balance \in Nat
  BY DEF Account, Database
<1> SUFFICES ASSUME NEW a \in Address
             PROVE  /\ Flushed(db, accs)[a].balance \in Nat /\ EvmAccount(db, a).balance \in Nat
                    /\ EvmAccount(db, a).balance <= Flushed(db, accs)[a].balance
  BY <1>1
<1>4. CASE a \in DOMAIN db
  BY <1>3, <1>4 DEF Flushed, EvmAccount
<1>5. CASE a \notin DOMAIN db
  <2>1. Flushed(db, accs)[a] = accs[a] /\ EvmAccount(db, a).balance = 0
    BY <1>5 DEF Flushed, EvmAccount, NoAccount
  <2> QED
    BY <1>2, <2>1
<1> QED
  BY <1>4, <1>5

\* Writing an account changes the supply by what the account had before: its
\* balance in the database or, if it was not loaded, in the cache.
LEMMA PutSupply ==
  ASSUME NEW db, Database(db), NEW accs \in [Address -> Account],
         NEW a \in Address, NEW acc \in Account
  PROVE  /\ Database(EvmPut(db, a, acc))
         /\ Supply(Flushed(EvmPut(db, a, acc), accs)) + Flushed(db, accs)[a].balance
              = Supply(Flushed(db, accs)) + acc.balance
<1>1. PICK new : new = EvmPut(db, a, acc)
  OBVIOUS
<1>2. Database(new) /\ DOMAIN new = DOMAIN db \cup {a} /\ new[a] = acc
      /\ \A b \in DOMAIN db \ {a} : new[b] = db[b]
  BY <1>1 DEF EvmPut, Database
<1>3. PICK before, after : before = Flushed(db, accs) /\ after = Flushed(new, accs)
  OBVIOUS
<1>4. before \in [Address -> Account] /\ after \in [Address -> Account]
  BY <1>2, <1>3, FlushedTyped
<1>5. after[a] = acc /\ \A b \in Address \ {a} : after[b] = before[b]
  BY <1>2, <1>3 DEF Flushed
<1>6. Supply(after) + before[a].balance = Supply(before) + after[a].balance
  BY <1>4, <1>5, SupplyUpdate
<1> QED
  BY <1>1, <1>2, <1>3, <1>5, <1>6

\* Adding to an account adds no more than that to the supply.
LEMMA AddSupply ==
  ASSUME NEW db, Database(db), NEW accs \in [Address -> Account],
         NEW a \in Address, NEW amount \in Nat
  PROVE  /\ Database(EvmAdd(db, a, amount))
         /\ Supply(Flushed(EvmAdd(db, a, amount), accs)) <= Supply(Flushed(db, accs)) + amount
<1>1. PICK old : old = EvmAccount(db, a)
  OBVIOUS
<1>2. old \in Account
  BY <1>1, EvmAccountTyped
<1>3. PICK acc : acc = [old EXCEPT !.balance = @ + amount]
  OBVIOUS
<1>4. acc \in Account /\ acc.balance = old.balance + amount
  BY <1>2, <1>3 DEF Account
<1>5. EvmAdd(db, a, amount) = EvmPut(db, a, acc)
  BY <1>1, <1>3 DEF EvmAdd
<1>6. PICK new : new = EvmPut(db, a, acc)
  OBVIOUS
<1>7. /\ Database(new)
      /\ Supply(Flushed(new, accs)) + Flushed(db, accs)[a].balance
           = Supply(Flushed(db, accs)) + acc.balance
  BY <1>4, <1>6, PutSupply
<1>8. old.balance \in Nat /\ Flushed(db, accs)[a].balance \in Nat
      /\ old.balance <= Flushed(db, accs)[a].balance
  BY <1>1, FlushedTyped
<1>9. Supply(Flushed(new, accs)) \in Nat /\ Supply(Flushed(db, accs)) \in Nat
  <2>1. Flushed(new, accs) \in [Address -> Account] /\ Flushed(db, accs) \in [Address -> Account]
    BY <1>7, FlushedTyped
  <2> QED
    BY <2>1, SupplyTyped
<1>10. Supply(Flushed(new, accs)) <= Supply(Flushed(db, accs)) + amount
  BY <1>4, <1>7, <1>8, <1>9
<1> QED
  BY <1>5, <1>6, <1>7, <1>10

\* Reading accounts leaves the books worth no more.
LEMMA TouchSupply ==
  ASSUME NEW db, Database(db), NEW accs \in [Address -> Account], NEW s \in SUBSET Address
  PROVE  Supply(Flushed(EvmTouch(db, s), accs)) <= Supply(Flushed(db, accs))
<1>1. PICK new : new = EvmTouch(db, s)
  OBVIOUS
<1>2. /\ Database(new) /\ DOMAIN new = DOMAIN db \cup s
      /\ \A a \in DOMAIN db \cup s : new[a] = EvmAccount(db, a)
  BY <1>1, EvmTouchFacts
<1>3. Flushed(new, accs) \in [Address -> Account] /\ Flushed(db, accs) \in [Address -> Account]
  BY <1>2, FlushedTyped
<1>4. ASSUME NEW a \in Address PROVE Flushed(new, accs)[a].balance <= Flushed(db, accs)[a].balance
  <2>1. Flushed(new, accs)[a] = IF a \in DOMAIN new THEN new[a] ELSE accs[a]
    BY DEF Flushed
  <2>2. Flushed(db, accs)[a] = IF a \in DOMAIN db THEN db[a] ELSE accs[a]
    BY DEF Flushed
  <2>3. Flushed(db, accs)[a].balance \in Nat
    BY <1>3 DEF Account
  <2>4. CASE a \in s \ DOMAIN db
    <3>1. new[a] = NoAccount /\ a \in DOMAIN new
      BY <1>2, <2>4 DEF EvmAccount
    <3> QED
      BY <2>1, <2>3, <3>1 DEF NoAccount
  <2>5. CASE a \notin s \ DOMAIN db
    <3>1. Flushed(new, accs)[a] = Flushed(db, accs)[a]
      BY <1>2, <2>1, <2>2, <2>5 DEF EvmAccount
    <3> QED
      BY <2>3, <3>1
  <2> QED
    BY <2>4, <2>5
<1>5. Supply(Flushed(new, accs)) <= Supply(Flushed(db, accs))
  BY <1>3, <1>4, SupplyMonotonic
<1> QED
  BY <1>1, <1>5

\* Nor does a new contract's nonce make them worth more.
LEMMA CreateSupply ==
  ASSUME NEW db, Database(db), NEW accs \in [Address -> Account], NEW s
  PROVE  Supply(Flushed(EvmCreate(db, s), accs)) <= Supply(Flushed(db, accs))
<1>1. PICK new : new = EvmCreate(db, s)
  OBVIOUS
<1>2. /\ Database(new) /\ DOMAIN new = DOMAIN db
      /\ \A a \in DOMAIN db : new[a].balance = db[a].balance
  BY <1>1, EvmCreateFacts
<1>3. Flushed(new, accs) \in [Address -> Account] /\ Flushed(db, accs) \in [Address -> Account]
  BY <1>2, FlushedTyped
<1>4. \A a \in Address : Flushed(new, accs)[a].balance = Flushed(db, accs)[a].balance
  BY <1>2 DEF Flushed
<1>5. \A a \in Address : Flushed(db, accs)[a].balance \in Nat
  BY <1>3 DEF Account
<1>6. \A a \in Address : Flushed(new, accs)[a].balance <= Flushed(db, accs)[a].balance
  BY <1>4, <1>5
<1>7. Supply(Flushed(new, accs)) <= Supply(Flushed(db, accs))
  BY <1>3, <1>6, SupplyMonotonic
<1> QED
  BY <1>1, <1>7

\* transact_commit creates no wei: sender, payee and coinbase may be one
\* account or several, loaded or not, and accounts may be read as empty.
LEMMA CommitSupply ==
  ASSUME NEW db, Database(db), NEW accs \in [Address -> Account], NEW x \in Tx, EvmValid(db, x)
  PROVE  Supply(Flushed(EvmCommit(db, x), accs)) <= Supply(Flushed(db, accs))
<1>1. PICK fee, value, s, created :
        /\ fee = x.gas * PriceOr(x, 0) /\ s = EvmAccount(db, x.sender)
        /\ value = IF x.kind = "success" THEN x.value ELSE 0
        /\ created = IF x.kind = "success" THEN x.created ELSE {}
  OBVIOUS
<1>2. /\ fee \in Nat /\ value \in Nat /\ value <= x.value /\ x.value \in Nat
      /\ x.sender \in Address /\ x.payee \in Address /\ coinbase \in Address
      /\ x.touched \in SUBSET Address
  BY <1>1, AmountsTyped, ExecutionAssumption
<1>3. s.balance \in Nat /\ s.nonce \in Nat /\ s.balance >= x.value + fee
  <2>1. s \in Account
    BY <1>1, EvmAccountTyped
  <2> QED
    BY <1>1, <2>1 DEF Account, EvmValid
<1>4. PICK left : left = [balance |-> s.balance - fee - value, nonce |-> s.nonce + 1]
  OBVIOUS
<1>5. left \in Account /\ left.balance = s.balance - fee - value
  <2>1. s.balance - fee - value \in Nat /\ s.nonce + 1 \in Nat
    BY <1>2, <1>3
  <2> QED
    BY <1>4, <2>1 DEF Account
<1>6. PICK read : read = EvmTouch(db, x.touched)
  OBVIOUS
<1>7. /\ Database(read) /\ EvmAccount(read, x.sender) = s
      /\ Supply(Flushed(read, accs)) <= Supply(Flushed(db, accs))
  <2>1. Database(read) /\ \A a : EvmAccount(read, a) = EvmAccount(db, a)
    BY <1>2, <1>6, EvmTouchFacts
  <2>2. Supply(Flushed(read, accs)) <= Supply(Flushed(db, accs))
    BY <1>2, <1>6, TouchSupply
  <2> QED
    BY <1>1, <2>1, <2>2
<1>8. PICK paid : paid = EvmPut(read, x.sender, left)
  OBVIOUS
<1>9. /\ Database(paid)
      /\ Supply(Flushed(paid, accs)) + Flushed(read, accs)[x.sender].balance
           = Supply(Flushed(read, accs)) + left.balance
  BY <1>2, <1>5, <1>7, <1>8, PutSupply
<1>10. s.balance <= Flushed(read, accs)[x.sender].balance
       /\ Flushed(read, accs)[x.sender].balance \in Nat
  BY <1>2, <1>7, FlushedTyped
<1>11. PICK given : given = EvmAdd(paid, x.payee, value)
  OBVIOUS
<1>12. /\ Database(given)
       /\ Supply(Flushed(given, accs)) <= Supply(Flushed(paid, accs)) + value
  BY <1>2, <1>9, <1>11, AddSupply
<1>13. PICK made : made = EvmCreate(given, created)
  OBVIOUS
<1>14. Database(made) /\ Supply(Flushed(made, accs)) <= Supply(Flushed(given, accs))
  BY <1>12, <1>13, EvmCreateFacts, CreateSupply
<1>15. PICK new : new = EvmAdd(made, coinbase, fee)
  OBVIOUS
<1>16. /\ Database(new)
       /\ Supply(Flushed(new, accs)) <= Supply(Flushed(made, accs)) + fee
  BY <1>2, <1>14, <1>15, AddSupply
<1>17. new = EvmCommit(db, x)
  BY <1>1, <1>4, <1>6, <1>8, <1>11, <1>13, <1>15 DEF EvmCommit
<1>18. \A d : Database(d) => Supply(Flushed(d, accs)) \in Nat
  <2> SUFFICES ASSUME NEW d, Database(d) PROVE Supply(Flushed(d, accs)) \in Nat
    OBVIOUS
  <2>1. PICK f : f = Flushed(d, accs)
    OBVIOUS
  <2>2. f \in [Address -> Account]
    BY <2>1, FlushedTyped
  <2> QED
    BY <2>1, <2>2, SupplyTyped
<1>19. PICK a, b, c, d, e, h \in Nat :
         /\ a = Supply(Flushed(db, accs)) /\ h = Supply(Flushed(read, accs))
         /\ b = Supply(Flushed(paid, accs)) /\ c = Supply(Flushed(given, accs))
         /\ e = Supply(Flushed(made, accs)) /\ d = Supply(Flushed(new, accs))
  BY <1>7, <1>9, <1>12, <1>14, <1>16, <1>18
<1>20. b <= h - fee - value /\ h <= a
  BY <1>2, <1>3, <1>5, <1>7, <1>9, <1>10, <1>19
<1>21. c <= b + value /\ e <= c /\ d <= e + fee
  BY <1>12, <1>14, <1>16, <1>19
<1>22. d <= a
  BY <1>2, <1>20, <1>21
<1> QED
  BY <1>17, <1>19, <1>22

\* sub_balance and increment_nonce add to no balance.
LEMMA ChargeLowers ==
  ASSUME NEW accs \in [Address -> Account], NEW a \in Address, NEW amount \in Nat
  PROVE  /\ \A b \in Address : SubBalance(accs, a, amount)[b].balance <= accs[b].balance
         /\ \A b \in Address : IncrementNonce(accs, a)[b].balance = accs[b].balance
<1>1. \A b \in Address : accs[b] \in Account /\ accs[b].balance \in Nat
  BY DEF Account
<1>2. PICK new : new = [accs[a] EXCEPT !.nonce = @ + 1]
  OBVIOUS
<1>3. new.balance = accs[a].balance
  BY <1>1, <1>2 DEF Account
<1>4. \A b \in Address : IncrementNonce(accs, a)[b].balance = accs[b].balance
  BY <1>2, <1>3 DEF IncrementNonce
<1>5. CASE accs[a].balance < amount
  BY <1>1, <1>4, <1>5 DEF SubBalance
<1>6. CASE ~(accs[a].balance < amount)
  <2>1. PICK less : less = [accs[a] EXCEPT !.balance = @ - amount]
    OBVIOUS
  <2>2. less.balance <= accs[a].balance
    BY <1>1, <2>1 DEF Account
  <2>3. SubBalance(accs, a, amount) = [accs EXCEPT ![a] = less]
    BY <1>6, <2>1 DEF SubBalance
  <2>4. \A b \in Address : SubBalance(accs, a, amount)[b].balance <= accs[b].balance
    BY <1>1, <2>2, <2>3
  <2> QED
    BY <1>4, <2>4
<1> QED
  BY <1>5, <1>6

\* A cache that holds no more makes the books worth no more.
LEMMA CacheLowers ==
  ASSUME NEW db, Database(db), NEW accs \in [Address -> Account],
         NEW more \in [Address -> Account],
         \A a \in Address : accs[a].balance <= more[a].balance
  PROVE  Supply(Flushed(db, accs)) <= Supply(Flushed(db, more))
<1>1. Flushed(db, accs) \in [Address -> Account] /\ Flushed(db, more) \in [Address -> Account]
  BY FlushedTyped
<1>2. \A a \in Address : Flushed(db, accs)[a].balance <= Flushed(db, more)[a].balance
  <2> SUFFICES ASSUME NEW a \in Address
               PROVE  Flushed(db, accs)[a].balance <= Flushed(db, more)[a].balance
    OBVIOUS
  <2>1. CASE a \in DOMAIN db
    <3>1. db[a].balance \in Nat
      BY <2>1 DEF Database, Account
    <3> QED
      BY <2>1, <3>1 DEF Flushed
  <2>2. CASE a \notin DOMAIN db
    BY <2>2 DEF Flushed
  <2> QED
    BY <2>1, <2>2
<1> QED
  BY <1>1, <1>2, SupplyMonotonic

\* An EVM transaction, skipped, executed, refused or halted, creates no wei in
\* the two books together.
LEMMA EvmTxSupply == TypeOK /\ EvmTx => Supply(Books') <= Supply(Books)
<1> SUFFICES ASSUME TypeOK, EvmTx PROVE Supply(Books') <= Supply(Books)
  OBVIOUS
<1>1. Database(evm) /\ accounts \in [Address -> Account]
  BY DEF TypeOK, Database
<1>2. PICK x \in Tx :
        \/ UNCHANGED <<evm, accounts>>
        \/ /\ EvmValid(evm, x) /\ evm' = EvmCommit(evm, x)
           /\ accounts' = IncrementNonce(SubBalance(accounts, x.sender, x.gas * PriceOr(x, 1)),
                                         x.sender)
        \/ /\ evm' = IF EvmValid(evm, x) THEN EvmCommit(evm, x) ELSE evm
           /\ accounts' = IncrementNonce(accounts, x.sender)
  BY DEF EvmTx
<1>3. Books = Flushed(evm, accounts) /\ Books' = Flushed(evm', accounts')
  BY DEF EvmTx, Books
<1>4. x.sender \in Address /\ x.gas * PriceOr(x, 1) \in Nat
  BY ExecutionAssumption, AmountsTyped
<1>5. PICK fee \in Nat : fee = x.gas * PriceOr(x, 1)
  BY <1>4
<1>6. PICK charged : charged = SubBalance(accounts, x.sender, fee)
  OBVIOUS
<1>7. /\ charged \in [Address -> Account]
      /\ \A a \in Address : charged[a].balance <= accounts[a].balance
  BY <1>1, <1>4, <1>6, SubBalanceFacts, ChargeLowers
<1>8. PICK after, same : /\ after = IncrementNonce(charged, x.sender)
                         /\ same = IncrementNonce(accounts, x.sender)
  OBVIOUS
<1>9. after \in [Address -> Account] /\ same \in [Address -> Account]
  BY <1>1, <1>4, <1>7, <1>8, IncrementNonceFacts
<1>10. /\ \A a \in Address : after[a].balance = charged[a].balance
       /\ \A a \in Address : same[a].balance = accounts[a].balance
  BY <1>1, <1>4, <1>7, <1>8, ChargeLowers
<1>11. /\ \A a \in Address : after[a].balance <= accounts[a].balance
       /\ \A a \in Address : same[a].balance <= accounts[a].balance
  <2>1. \A a \in Address : accounts[a].balance \in Nat
    BY <1>1 DEF Account
  <2> QED
    BY <1>7, <1>10, <2>1
<1>12. /\ Supply(Flushed(evm, after)) <= Supply(Flushed(evm, accounts))
       /\ Supply(Flushed(evm, same)) <= Supply(Flushed(evm, accounts))
  BY <1>1, <1>9, <1>11, CacheLowers
<1>13. /\ Supply(Flushed(evm, after)) \in Nat /\ Supply(Flushed(evm, same)) \in Nat
       /\ Supply(Flushed(evm, accounts)) \in Nat
  <2>1. /\ Flushed(evm, after) \in [Address -> Account] /\ Flushed(evm, same) \in [Address -> Account]
        /\ Flushed(evm, accounts) \in [Address -> Account]
    BY <1>1, <1>9, FlushedTyped
  <2> QED
    BY <2>1, SupplyTyped
<1>14. EvmValid(evm, x) => /\ Supply(Flushed(EvmCommit(evm, x), after)) <= Supply(Flushed(evm, after))
                           /\ Supply(Flushed(EvmCommit(evm, x), same)) <= Supply(Flushed(evm, same))
  BY <1>1, <1>9, CommitSupply
<1>15. EvmValid(evm, x) => /\ Supply(Flushed(EvmCommit(evm, x), after)) \in Nat
                           /\ Supply(Flushed(EvmCommit(evm, x), same)) \in Nat
  <2> SUFFICES ASSUME EvmValid(evm, x)
               PROVE  /\ Supply(Flushed(EvmCommit(evm, x), after)) \in Nat
                      /\ Supply(Flushed(EvmCommit(evm, x), same)) \in Nat
    OBVIOUS
  <2>1. PICK db : db = EvmCommit(evm, x)
    OBVIOUS
  <2>2. Database(db)
    BY <1>1, <2>1, EvmCommitFacts
  <2>3. Flushed(db, after) \in [Address -> Account] /\ Flushed(db, same) \in [Address -> Account]
    BY <1>9, <2>2, FlushedTyped
  <2> QED
    BY <2>1, <2>3, SupplyTyped
<1>16. CASE UNCHANGED <<evm, accounts>>
  BY <1>3, <1>13, <1>16
<1>17. CASE EvmValid(evm, x) /\ evm' = EvmCommit(evm, x) /\ accounts' = after
  BY <1>3, <1>12, <1>13, <1>14, <1>15, <1>17
<1>18. CASE evm' = (IF EvmValid(evm, x) THEN EvmCommit(evm, x) ELSE evm) /\ accounts' = same
  <2>1. CASE EvmValid(evm, x)
    BY <1>3, <1>12, <1>13, <1>14, <1>15, <1>18, <2>1
  <2>2. CASE ~EvmValid(evm, x)
    BY <1>3, <1>12, <1>18, <2>2
  <2> QED
    BY <2>1, <2>2
<1> QED
  BY <1>2, <1>5, <1>6, <1>8, <1>16, <1>17, <1>18
\* No step of a block but a kill adds to the supply.
LEMMA StepSupply ==
  ASSUME TypeOK, CopyInv, Next, crashes \in Nat, crashes' = 0
  PROVE  crashes = 0 /\ Supply(Books') <= Supply(Books)
<1>1. Database(evm) /\ accounts \in [Address -> Account] /\ accounts' \in [Address -> Account]
  BY NextTyped DEF TypeOK, Database
<1>2. Books \in [Address -> Account]
  BY <1>1, FlushedTyped DEF Books
<1>3. Supply(Books) \in Nat
  BY <1>2, SupplyTyped
<1>4. ASSUME NEW block \in Block, Begin(block)
      PROVE  crashes = 0 /\ Supply(Books') <= Supply(Books)
  <2>1. /\ pc = "idle" /\ pc' = "evm" /\ accounts' = accounts /\ crashes' = crashes
        /\ \A a \in DOMAIN evm' : evm'[a] = accounts[a]
    BY <1>4 DEF Begin, LoadAccount
  <2>2. \A a \in Address : Flushed(evm', accounts)[a] = accounts[a]
    BY <2>1 DEF Flushed
  <2>3. Flushed(evm', accounts) = accounts
    BY <1>1, <2>2 DEF Flushed
  <2>4. Books' = accounts /\ Books = accounts
    BY <2>1, <2>3 DEF Books
  <2> QED
    BY <1>3, <2>1, <2>4
<1>5. CASE EvmTx
  BY <1>5, EvmTxSupply DEF EvmTx
<1>6. CASE FlushToState
  BY <1>3, <1>6 DEF FlushToState, Books
<1>7. CASE GameCheck
  <2>1. pc = "game" /\ pc' \in {"game", "put_nonce"} /\ UNCHANGED <<accounts, crashes>>
    BY <1>7 DEF GameCheck
  <2> QED
    BY <1>3, <2>1 DEF Books
<1>8. CASE PutNonce \/ PutFee
  <2>1. pc # "evm" /\ pc' # "evm" /\ crashes' = crashes
    BY <1>8 DEF PutNonce, PutFee
  <2>2. Books = accounts /\ Books' = accounts'
    BY <2>1 DEF Books
  <2>3. copy \in Account
    BY DEF TypeOK
  <2>4. PICK x \in Tx : /\ IsAt(x) /\ pc \in {"put_nonce", "put_fee"}
                        /\ \/ accounts' = [accounts EXCEPT ![x.sender] = [copy EXCEPT !.nonce = @ + 1]]
                           \/ /\ copy.balance >= GameGas
                              /\ accounts' = [accounts EXCEPT ![x.sender] =
                                                [copy EXCEPT !.balance = @ - GameGas]]
                           \/ accounts' = accounts
    BY <1>8 DEF PutNonce, PutFee, IsNext, IsAt
  <2>5. copy = accounts[x.sender] /\ x.sender \in Address
    BY <2>4, ExecutionAssumption DEF CopyInv
  <2>6. PICK up, less : /\ up = [copy EXCEPT !.nonce = @ + 1]
                        /\ less = [copy EXCEPT !.balance = @ - GameGas]
    OBVIOUS
  <2>7. up.balance = copy.balance /\ (copy.balance >= GameGas => less.balance <= copy.balance)
    BY <2>3, <2>6, CopyFacts
  <2>8. \A a \in Address : accounts[a].balance \in Nat
    BY <1>1 DEF Account
  <2>9. ASSUME NEW a \in Address PROVE accounts'[a].balance <= accounts[a].balance
    <3>1. accounts'[a] = accounts[a] \/ (a = x.sender /\ accounts'[a] = up)
            \/ (a = x.sender /\ copy.balance >= GameGas /\ accounts'[a] = less)
      BY <1>1, <2>4, <2>5, <2>6
    <3>2. CASE accounts'[a] = accounts[a]
      BY <2>8, <3>2
    <3>3. CASE a = x.sender /\ accounts'[a] = up
      BY <2>5, <2>7, <2>8, <3>3
    <3>4. CASE a = x.sender /\ copy.balance >= GameGas /\ accounts'[a] = less
      BY <2>5, <2>7, <2>8, <3>4
    <3> QED
      BY <3>1, <3>2, <3>3, <3>4
  <2>10. Supply(accounts') <= Supply(accounts)
    BY <1>1, <2>9, SupplyMonotonic
  <2> QED
    BY <2>1, <2>2, <2>10
<1>9. CASE Tick
  BY <1>3, <1>9 DEF Tick, Books
<1>10. CASE Commit
  BY <1>3, <1>10 DEF Commit, Books
<1>11. ASSUME NEW a \in Address, PutAccount(a)
       PROVE  crashes = 0 /\ Supply(Books') <= Supply(Books)
  BY <1>3, <1>11 DEF PutAccount, Books
<1>12. CASE Finish
  BY <1>3, <1>12 DEF Finish, Books
<1>13. CASE Crash
  BY <1>13 DEF Crash
<1> QED
  BY <1>4, <1>5, <1>6, <1>7, <1>8, <1>9, <1>10, <1>11, <1>12, <1>13 DEF Next, Pass

\* Executing blocks creates no wei, as long as the node has not crashed: for any
\* accounts, transactions and blocks applied one at a time, in spite of the two books the code keeps,
\* of fees that are charged in both, and of transactions that are skipped,
\* refused, reverted or halted, or whose code reads accounts as empty.
THEOREM NoWeiCreated == Spec => []NoMint
<1>1. Init => SupplyInv
  <2> SUFFICES ASSUME Init PROVE SupplyInv
    OBVIOUS
  <2>1. initial \in [Address -> Account]
    BY ExecutionAssumption DEF Account
  <2>2. Supply(initial) \in Nat
    BY <2>1, SupplyTyped
  <2> QED
    BY <2>2 DEF Init, SupplyInv, Books
<1>2. TypeOK /\ CopyInv /\ SupplyInv /\ [Next]_vars => SupplyInv'
  <2>0. SupplyInv /\ [Next]_vars => crashes' \in Nat
    <3>1. [Next]_vars => crashes' = crashes \/ crashes' = crashes + 1
      BY DEF Next, Pass, Begin, EvmTx, FlushToState, GameCheck, PutNonce, PutFee, Tick, Commit,
             PutAccount, Finish, Crash, vars
    <3> QED
      BY <3>1 DEF SupplyInv
  <2> SUFFICES ASSUME TypeOK, CopyInv, SupplyInv, [Next]_vars, crashes' = 0
               PROVE  Supply(Books') <= Supply(initial)
    BY <2>0 DEF SupplyInv
  <2>1. CASE UNCHANGED vars
    BY <2>1 DEF vars, SupplyInv, Books
  <2>2. CASE Next
    <3>1. crashes = 0 /\ Supply(Books') <= Supply(Books)
      BY <2>2, StepSupply DEF SupplyInv
    <3>2. Supply(Books) <= Supply(initial)
      BY <3>1 DEF SupplyInv
    <3>3. Supply(Books) \in Nat /\ Supply(Books') \in Nat /\ Supply(initial) \in Nat
      <4>1. initial \in [Address -> Account]
        BY ExecutionAssumption DEF Account
      <4>2. Books \in [Address -> Account]
        <5>1. Database(evm) /\ accounts \in [Address -> Account]
          BY DEF TypeOK, Database
        <5> QED
          BY <5>1, FlushedTyped DEF Books
      <4>3. Books' \in [Address -> Account]
        <5>1. TypeOK'
          BY NextTyped
        <5>2. Database(evm') /\ accounts' \in [Address -> Account]
          BY <5>1 DEF TypeOK, Database
        <5> QED
          BY <5>2, FlushedTyped DEF Books
      <4> QED
        BY <4>1, <4>2, <4>3, SupplyTyped
    <3> QED
      BY <3>1, <3>2, <3>3
  <2> QED
    BY <2>1, <2>2
<1>3. SupplyInv => NoMint
  BY DEF SupplyInv, NoMint, Books
<1> QED
  <2>1. Init => NoncesInv
    BY InitNonces
  <2>2. NoncesInv /\ [Next]_vars => NoncesInv'
    BY StepNonces
  <2>3. NoncesInv => TypeOK /\ CopyInv
    BY DEF NoncesInv
  <2> QED
    BY <1>1, <1>2, <1>3, <2>1, <2>2, <2>3, PTL DEF Spec
=============================================================================
