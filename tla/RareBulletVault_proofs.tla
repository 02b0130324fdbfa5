------------------------ MODULE RareBulletVault_proofs ------------------------
(***************************************************************************)
(* What the vault owes and what it holds: every token and every pending    *)
(* request is backed by an active payload, every payload is proven, and    *)
(* the supply is what the holders have.                                    *)
(***************************************************************************)
EXTENDS RareBullet_proofs

--------------------------------------------------------------------------------
(***************************************************************************)
(* Backing.                                                                *)
(***************************************************************************)

\* One more or one less, in units of a token.
LEMMA TokenTimes ==
    ASSUME NEW n \in Nat
    PROVE  /\ OneToken * n \in Nat
           /\ OneToken * (n + 1) = OneToken * n + OneToken
           /\ n > 0 => OneToken * (n - 1) = OneToken * n - OneToken
  BY OneTokenType

\* There are finitely many requests at a time, one per sender at most.
LEMMA PendingFinite ==
    ASSUME TypeOK
    PROVE  IsFiniteSet(DOMAIN pending) /\ Cardinality(DOMAIN pending) \in Nat
<1>1. DOMAIN pending \in SUBSET Accounts
  BY SenderType DEF TypeOK
<1> QED BY <1>1, AccountsFinite, FS_Subset, FS_CardinalityType

\* A request that is saved adds one, a request that is removed takes one.
LEMMA PendingCount ==
    ASSUME TypeOK, NEW b, NEW request
    PROVE  /\ b \notin DOMAIN pending =>
                Cardinality(DOMAIN Saved(pending, b, request)) = Cardinality(DOMAIN pending) + 1
           /\ b \in DOMAIN pending =>
                /\ Cardinality(DOMAIN Removed(pending, b)) = Cardinality(DOMAIN pending) - 1
                /\ Cardinality(DOMAIN pending) > 0
<1>1. IsFiniteSet(DOMAIN pending) /\ Cardinality(DOMAIN pending) \in Nat
  BY PendingFinite
<1>2. DOMAIN Saved(pending, b, request) = DOMAIN pending \cup {b}
  BY SavedProperties
<1>3. DOMAIN Removed(pending, b) = DOMAIN pending \ {b}
  BY DEF Removed
<1>4. b \in DOMAIN pending => Cardinality(DOMAIN pending) > 0
  BY <1>1, FS_EmptySet
<1> QED BY <1>1, <1>2, <1>3, <1>4, FS_AddElement, FS_RemoveElement

\* The numbers Backed adds up.
LEMMA BackedTypes ==
    ASSUME TypeOK
    PROVE  /\ totalSupply \in Nat /\ activeCount \in Nat
           /\ Cardinality(DOMAIN pending) \in Nat
           /\ OneToken \in Nat
  BY PendingFinite, OneTokenType DEF TypeOK

LEMMA StepBacked == TypeOK /\ Backed /\ [Next]_vars => Backed'
<1> SUFFICES ASSUME TypeOK, Backed, [Next]_vars PROVE Backed'
  OBVIOUS
<1> DEFINE n == Cardinality(DOMAIN pending)
<1>1. totalSupply + OneToken * n = OneToken * activeCount
  BY DEF Backed
<1>2. /\ totalSupply \in Nat /\ activeCount \in Nat /\ n \in Nat /\ OneToken \in Nat
      /\ OneToken * n \in Nat /\ OneToken * activeCount \in Nat
  BY BackedTypes, TokenTimes
<1> HIDE DEF n
<1>3. ASSUME totalSupply' + OneToken * n' = OneToken * activeCount' PROVE Backed'
  BY <1>3 DEF Backed, n
<1>4. ASSUME UNCHANGED <<totalSupply, activeCount, pending>> PROVE Backed'
  BY <1>4 DEF Backed
<1>5. ASSUME NEW s \in Senders, NEW m \in DepositMsgs, Deposit(s, m) PROVE Backed'
  <2>1. totalSupply' = totalSupply + OneToken /\ activeCount' = activeCount + 1 /\ n' = n
    BY <1>5 DEF Deposit, claims, n
  <2>2. OneToken * (activeCount + 1) = OneToken * activeCount + OneToken
    BY <1>2, TokenTimes
  <2>3. totalSupply + OneToken + OneToken * n = OneToken * activeCount + OneToken
    BY <1>1, <1>2
  <2> QED BY <1>3, <2>1, <2>2, <2>3
<1>6. ASSUME NEW b \in Senders, BurnAndRequest(b) PROVE Backed'
  \* The burnt token's backing now backs the request.
  <2>1. /\ totalSupply' = totalSupply - OneToken /\ activeCount' = activeCount
        /\ b \notin DOMAIN pending
    BY <1>6 DEF BurnAndRequest
  <2>2. n' = n + 1
    BY <1>6, <2>1, PendingCount DEF BurnAndRequest, n
  <2>3. OneToken * (n + 1) = OneToken * n + OneToken
    BY <1>2, TokenTimes
  <2>4. totalSupply - OneToken + (OneToken * n + OneToken) = OneToken * activeCount
    BY <1>1, <1>2
  <2> QED BY <1>3, <2>1, <2>2, <2>3, <2>4
<1>7. ASSUME NEW s \in Senders, NEW b \in Accounts, NEW seed \in Seeds,
             FulfillRandomness(s, b, seed)
      PROVE  Backed'
  <2>1. /\ totalSupply' = totalSupply /\ activeCount' = activeCount - 1
        /\ activeCount > 0 /\ b \in DOMAIN pending
    BY <1>7 DEF FulfillRandomness, Selects, token
  <2>2. n' = n - 1 /\ n > 0
    BY <1>7, <2>1, PendingCount DEF FulfillRandomness, n
  <2>3. /\ OneToken * (n - 1) = OneToken * n - OneToken
        /\ OneToken * (activeCount - 1) = OneToken * activeCount - OneToken
    BY <1>2, <2>1, <2>2, TokenTimes
  <2>4. totalSupply + (OneToken * n - OneToken) = OneToken * activeCount - OneToken
    BY <1>1, <1>2
  <2> QED BY <1>3, <2>1, <2>2, <2>3, <2>4
<1>8. ASSUME NEW b \in Senders, RecoverOracleTimeout(b) PROVE Backed'
  <2>1. /\ totalSupply' = totalSupply + OneToken /\ activeCount' = activeCount
        /\ b \in DOMAIN pending
    BY <1>8 DEF RecoverOracleTimeout, slots
  <2>2. n' = n - 1 /\ n > 0
    BY <1>8, <2>1, PendingCount DEF RecoverOracleTimeout, n
  <2>3. OneToken * (n - 1) = OneToken * n - OneToken
    BY <1>2, <2>2, TokenTimes
  <2>4. totalSupply + OneToken + (OneToken * n - OneToken) = OneToken * activeCount
    BY <1>1, <1>2
  <2> QED BY <1>3, <2>1, <2>2, <2>3, <2>4
<1>9. ASSUME NEW s \in Senders, TokenTx(s) PROVE Backed'
  BY <1>4, <1>9, TokenTxFrame DEF ExchangeUnchanged
<1>10. NextBlock => Backed'
  BY <1>4 DEF NextBlock, slots, claims, token
<1>11. UNCHANGED vars => Backed'
  BY <1>4 DEF vars, slots, claims, token
<1> QED BY <1>5, <1>6, <1>7, <1>8, <1>9, <1>10, <1>11 DEF Next, ExchangeTx

\* Tokens are minted by deposits and refunds only, and every way a payload
\* leaves the active vault takes a request with it: the supply and the pending
\* requests together never exceed, nor fall short of, the active payloads.
THEOREM AlwaysBacked == Spec => []Backed
<1>1. Init => Backed
  BY FS_EmptySet, OneTokenType DEF Init, Backed
<1> QED BY <1>1, TypeCorrect, StepBacked, PTL DEF Spec

\* While a request is pending the selection finds a payload for any seed.
LEMMA PendingSelects ==
    ASSUME TypeOK, Backed, NEW b \in DOMAIN pending, NEW seed \in Seeds
    PROVE  activeCount # 0 /\ Selects(seed)
<1> DEFINE n == Cardinality(DOMAIN pending)
<1>1. /\ totalSupply \in Nat /\ activeCount \in Nat /\ n \in Nat /\ OneToken \in Nat /\ OneToken > 0
  BY BackedTypes, OneTokenType
<1>2. totalSupply + OneToken * n = OneToken * activeCount
  BY DEF Backed
<1>3. n > 0
  BY <1>1, PendingFinite, FS_EmptySet
<1> HIDE DEF n
<1>4. n - 1 \in Nat
  BY <1>1, <1>3
<1>5. OneToken * (n - 1) \in Nat /\ OneToken * n = OneToken * (n - 1) + OneToken
  BY <1>1, <1>3, <1>4, TokenTimes
<1>6. OneToken * activeCount > 0
  BY <1>1, <1>2, <1>5
<1>7. activeCount > 0
  BY <1>1, <1>6
<1>8. seed \in Nat
  BY ConfigAssumption
<1>9. SelectedSlot(seed) \in 0 .. activeCount - 1 /\ activeCount - 1 \in 0 .. activeCount - 1
  BY <1>1, <1>7, <1>8, SelectedSlotRange
<1>10. /\ activeMap \in [0 .. activeCount - 1 -> 0 .. vaultCount - 1]
       /\ DOMAIN vault = 0 .. vaultCount - 1
  BY DEF TypeOK
<1> QED BY <1>7, <1>9, <1>10 DEF Selects

--------------------------------------------------------------------------------
(***************************************************************************)
(* The proofs of the payloads.  VaultProven is not inductive alone: that   *)
(* no datum is in twice rests on the vault's nullifiers being marked.      *)
(***************************************************************************)

NullifiersMarked == \A i \in DOMAIN vault : vault[i].proof.nullifier \in usedNullifiers

ProvenAndMarked == VaultProven /\ NullifiersMarked

\* Retiring a payload leaves the proof and the depositor as they were.
LEMMA StepProven == TypeOK /\ ProvenAndMarked /\ [Next]_vars => ProvenAndMarked'
<1> SUFFICES ASSUME TypeOK, ProvenAndMarked, [Next]_vars PROVE ProvenAndMarked'
  OBVIOUS
<1>1. ASSUME UNCHANGED <<vault, usedNullifiers>> PROVE ProvenAndMarked'
  BY <1>1 DEF ProvenAndMarked, VaultProven, NullifiersMarked
<1>2. ASSUME NEW s \in Senders, NEW m \in DepositMsgs, Deposit(s, m) PROVE ProvenAndMarked'
  <2> DEFINE payload == [proof |-> m.proof, depositor |-> s, active |-> TRUE]
  <2>1. /\ vault' = Saved(vault, vaultCount, payload)
        /\ usedNullifiers' = usedNullifiers \cup {m.payload_nullifier}
        /\ m.payload_nullifier \notin usedNullifiers
        /\ Decode[m.commitment_hex] # Malformed
        /\ VerifyBulletproof(m.proof, Decode[m.commitment_hex], Contract, m.payload_nullifier, s)
    BY <1>2 DEF Deposit, PayloadIndex, AcceptsDeposit, Marked
  <2>2. Decode[m.commitment_hex] \in Points
    BY <2>1, MessageAssumption, CommitmentAssumption
  <2>3. /\ m.proof.contract = Contract /\ m.proof.sender = s
        /\ m.proof.nullifier = m.payload_nullifier
        /\ InBucket(Opening[m.proof.point], BucketFloor, BucketCeiling)
    BY <2>1, <2>2, VerifiedIsInBucket DEF VerifyBulletproof
  <2>4. payload.proof = m.proof /\ payload.depositor = s
    OBVIOUS
  <2> HIDE DEF payload
  <2>5. vaultCount \notin DOMAIN vault
    BY DEF TypeOK
  <2>6. /\ DOMAIN vault' = DOMAIN vault \cup {vaultCount} /\ vault'[vaultCount] = payload
        /\ \A i \in DOMAIN vault : vault'[i] = vault[i]
    BY <2>1, <2>5 DEF Saved
  <2>7. NullifiersMarked'
    BY <2>1, <2>3, <2>4, <2>6 DEF ProvenAndMarked, NullifiersMarked
  <2>8. ASSUME NEW i \in DOMAIN vault'
        PROVE  /\ vault'[i].proof.contract = Contract
               /\ vault'[i].proof.sender = vault'[i].depositor
               /\ InBucket(Opening[vault'[i].proof.point], BucketFloor, BucketCeiling)
    BY <2>3, <2>4, <2>6 DEF ProvenAndMarked, VaultProven
  <2>9. ASSUME NEW i \in DOMAIN vault', NEW j \in DOMAIN vault',
               vault'[i].proof.nullifier = vault'[j].proof.nullifier
        PROVE  i = j
    BY <2>1, <2>3, <2>4, <2>6, <2>9 DEF ProvenAndMarked, VaultProven, NullifiersMarked
  <2> QED BY <2>7, <2>8, <2>9 DEF ProvenAndMarked, VaultProven
<1>3. ASSUME NEW s \in Senders, NEW b \in Accounts, NEW seed \in Seeds,
             FulfillRandomness(s, b, seed)
      PROVE  ProvenAndMarked'
  <2> DEFINE selected == activeMap[SelectedSlot(seed)]
  <2>1. /\ vault' = [vault EXCEPT ![selected] = Retired(@)]
        /\ usedNullifiers' = usedNullifiers
    BY <1>3 DEF FulfillRandomness
  <2> HIDE DEF selected
  <2>2. DOMAIN vault' = DOMAIN vault
    BY <2>1
  <2>3. ASSUME NEW i \in DOMAIN vault
        PROVE  vault'[i].proof = vault[i].proof /\ vault'[i].depositor = vault[i].depositor
    BY <2>1 DEF Retired
  <2> QED BY <2>1, <2>2, <2>3 DEF ProvenAndMarked, VaultProven, NullifiersMarked
<1>4. NextBlock => UNCHANGED <<vault, usedNullifiers>>
  BY DEF NextBlock, registry
<1>5. ASSUME NEW b \in Senders
      PROVE  BurnAndRequest(b) \/ RecoverOracleTimeout(b) => UNCHANGED <<vault, usedNullifiers>>
  BY DEF BurnAndRequest, RecoverOracleTimeout, registry
<1>6. ASSUME NEW s \in Senders, TokenTx(s) PROVE UNCHANGED <<vault, usedNullifiers>>
  BY <1>6, TokenTxFrame DEF ExchangeUnchanged
<1>7. UNCHANGED vars => UNCHANGED <<vault, usedNullifiers>>
  BY DEF vars, registry
<1> QED BY <1>1, <1>2, <1>3, <1>4, <1>5, <1>6, <1>7 DEF Next, ExchangeTx

\* Whatever is deposited, every payload of the vault carries a proof that was
\* made for this contract by its depositor, of a value in [90, 100), and no two
\* payloads share a nullifier.
THEOREM VaultAlwaysProven == Spec => []VaultProven
<1>1. Init => ProvenAndMarked
  BY DEF Init, ProvenAndMarked, VaultProven, NullifiersMarked
<1>2. ProvenAndMarked => VaultProven
  BY DEF ProvenAndMarked
<1> QED BY <1>1, <1>2, TypeCorrect, StepProven, PTL DEF Spec

--------------------------------------------------------------------------------
(***************************************************************************)
(* The cw20 ledger under the contract's messages, and what a holder of a   *)
(* whole token can count on.  Base units are counted as elements of a set, *)
(* so the argument needs no sum over the accounts.                         *)
(***************************************************************************)
\* The n units of an account that come after the first m.
UnitsAfter(a, m, n) == {a} \X (m + 1 .. m + n)

LEMMA UnitsAfterCount ==
    ASSUME NEW a, NEW m \in Nat, NEW n \in Nat
    PROVE  IsFiniteSet(UnitsAfter(a, m, n)) /\ Cardinality(UnitsAfter(a, m, n)) = n
<1>1. IsFiniteSet({a}) /\ Cardinality({a}) = 1
  BY FS_Singleton
<1>2. IsFiniteSet(m + 1 .. m + n) /\ Cardinality(m + 1 .. m + n) = n
  BY FS_Interval
<1> DEFINE numbers == m + 1 .. m + n
<1>3. IsFiniteSet(numbers) /\ Cardinality(numbers) = n
  BY <1>2
<1> HIDE DEF numbers
<1>4. /\ IsFiniteSet({a} \X numbers)
      /\ Cardinality({a} \X numbers) = Cardinality({a}) * Cardinality(numbers)
  BY <1>1, <1>3, FS_Product
<1>5. Cardinality({a} \X numbers) = n
  BY <1>1, <1>3, <1>4
<1> QED BY <1>4, <1>5 DEF UnitsAfter, numbers

\* A credit adds the units above the balance, none of which was there.
LEMMA CreditUnits ==
    ASSUME NEW bal \in [Accounts -> Nat], NEW a \in Accounts, NEW n \in Nat
    PROVE  /\ Units(Credit(bal, a, n)) = Units(bal) \cup UnitsAfter(a, bal[a], n)
           /\ Units(bal) \cap UnitsAfter(a, bal[a], n) = {}
<1> DEFINE new == Credit(bal, a, n)
           added == UnitsAfter(a, bal[a], n)
<1>1. bal[a] \in Nat /\ new[a] = bal[a] + n /\ \A b \in Accounts : b # a => new[b] = bal[b]
  BY DEF Credit
<1>2. 1 .. bal[a] + n = (1 .. bal[a]) \cup (bal[a] + 1 .. bal[a] + n)
  BY <1>1
<1>3. ASSUME NEW u PROVE u \in Units(new) <=> u \in Units(bal) \cup added
  <2>1. u \in Units(new) <=> \E b \in Accounts : u \in {b} \X (1 .. new[b])
    BY DEF Units
  <2>2. u \in Units(bal) <=> \E b \in Accounts : u \in {b} \X (1 .. bal[b])
    BY DEF Units
  <2>3. {a} \X (1 .. new[a]) = ({a} \X (1 .. bal[a])) \cup added
    BY <1>1, <1>2 DEF UnitsAfter
  <2> HIDE DEF new, added
  <2> QED BY <1>1, <2>1, <2>2, <2>3
<1>4. ASSUME NEW u \in Units(bal) PROVE u \notin added
  <2>1. PICK b \in Accounts : u \in {b} \X (1 .. bal[b])
    BY DEF Units
  <2> QED BY <1>1, <2>1 DEF UnitsAfter
<1> QED BY <1>3, <1>4

\* So it adds as many as it credits.
LEMMA CreditCount ==
    ASSUME NEW bal \in [Accounts -> Nat], NEW a \in Accounts, NEW n \in Nat,
           IsFiniteSet(Units(bal))
    PROVE  /\ IsFiniteSet(Units(Credit(bal, a, n)))
           /\ Cardinality(Units(Credit(bal, a, n))) = Cardinality(Units(bal)) + n
<1> DEFINE added == UnitsAfter(a, bal[a], n)
<1>1. bal[a] \in Nat
  OBVIOUS
<1>2. IsFiniteSet(added) /\ Cardinality(added) = n
  BY <1>1, UnitsAfterCount
<1>3. Units(Credit(bal, a, n)) = Units(bal) \cup added /\ Units(bal) \cap added = {}
  BY CreditUnits
<1>4. Cardinality(Units(bal)) \in Nat
  BY FS_CardinalityType
<1> HIDE DEF added
<1>5. Cardinality(Units(bal) \cup added)
         = Cardinality(Units(bal)) + Cardinality(added) - Cardinality(Units(bal) \cap added)
  BY <1>2, FS_Union
<1>6. IsFiniteSet(Units(bal) \cup added)
  BY <1>2, FS_Union
<1>7. Cardinality(Units(bal) \cap added) = 0
  BY <1>3, FS_EmptySet
<1> QED BY <1>2, <1>3, <1>4, <1>5, <1>6, <1>7

\* A debit is undone by a credit, so it takes as many.
LEMMA DebitCount ==
    ASSUME NEW bal \in [Accounts -> Nat], NEW a \in Accounts, NEW n \in Nat, CanDebit(bal, a, n),
           IsFiniteSet(Units(bal))
    PROVE  /\ IsFiniteSet(Units(Debit(bal, a, n)))
           /\ Cardinality(Units(Debit(bal, a, n))) = Cardinality(Units(bal)) - n
<1> DEFINE new == Debit(bal, a, n)
<1>1. new \in [Accounts -> Nat]
  BY DebitType
<1>2. Credit(new, a, n) = bal
  <2>1. /\ Credit(new, a, n) \in [Accounts -> Nat]
        /\ Credit(new, a, n)[a] = bal[a] - n + n
        /\ \A b \in Accounts : b # a => Credit(new, a, n)[b] = bal[b]
    BY <1>1, CreditType DEF Credit, Debit
  <2>2. bal[a] - n + n = bal[a]
    OBVIOUS
  <2> HIDE DEF new
  <2> QED BY <2>1, <2>2
<1> HIDE DEF new
<1>3. Units(new) \subseteq Units(bal)
  <2>1. Units(Credit(new, a, n)) = Units(new) \cup UnitsAfter(a, new[a], n)
    BY <1>1, CreditUnits
  <2> QED BY <1>2, <2>1
<1>4. IsFiniteSet(Units(new))
  BY <1>3, FS_Subset
<1>5. Cardinality(Units(bal)) = Cardinality(Units(new)) + n /\ Cardinality(Units(new)) \in Nat
  BY <1>1, <1>2, <1>4, CreditCount, FS_CardinalityType
<1> QED BY <1>4, <1>5 DEF new

\* And a movement, to oneself too, leaves the count as it was.
LEMMA MoveCount ==
    ASSUME NEW bal \in [Accounts -> Nat], NEW a \in Accounts, NEW b \in Accounts, NEW n \in Nat,
           CanDebit(bal, a, n), IsFiniteSet(Units(bal))
    PROVE  /\ IsFiniteSet(Units(Move(bal, a, b, n)))
           /\ Cardinality(Units(Move(bal, a, b, n))) = Cardinality(Units(bal))
<1>1. Debit(bal, a, n) \in [Accounts -> Nat]
  BY DebitType
<1>2. /\ IsFiniteSet(Units(Debit(bal, a, n)))
      /\ Cardinality(Units(Debit(bal, a, n))) = Cardinality(Units(bal)) - n
  BY DebitCount
<1>3. Cardinality(Units(bal)) \in Nat
  BY FS_CardinalityType
<1> QED BY <1>1, <1>2, <1>3, CreditCount DEF Move

--------------------------------------------------------------------------------

Counted == IsFiniteSet(Units(balance)) /\ SupplyIsSum

LEMMA InitCounted == Init => Counted
<1> SUFFICES ASSUME Init PROVE Counted
  OBVIOUS
<1>1. Units(balance) = {}
  BY DEF Init, Units
<1> QED BY <1>1, FS_EmptySet DEF Init, Counted, SupplyIsSum

\* The ways a token message can change the balances.
LEMMA TokenTxMoves ==
    ASSUME NEW s \in Senders, TokenTx(s)
    PROVE  \/ UNCHANGED balance
           \/ \E a \in Accounts, b \in Accounts, n \in Nat :
                 CanDebit(balance, a, n) /\ balance' = Move(balance, a, b, n)
<1>1. PICK other \in Accounts, n \in Amounts :
         \/ Transfer(s, other, n)
         \/ Send(s, other, n)
         \/ \E e \in NewExpiries : \/ IncreaseAllowance(s, other, n, e)
                                   \/ DecreaseAllowance(s, other, n, e)
         \/ \E to \in Accounts : TransferFrom(s, other, to, n) \/ SendFrom(s, other, to, n)
  BY DEF TokenTx
<1>2. n \in Nat /\ s \in Accounts
  BY ConfigAssumption, SenderType
<1>3. CASE Transfer(s, other, n) \/ Send(s, other, n)
  BY <1>2, <1>3 DEF Transfer, Send
<1>4. CASE \E e \in NewExpiries : \/ IncreaseAllowance(s, other, n, e)
                                  \/ DecreaseAllowance(s, other, n, e)
  BY <1>4 DEF IncreaseAllowance, DecreaseAllowance
<1>5. CASE \E to \in Accounts : TransferFrom(s, other, to, n) \/ SendFrom(s, other, to, n)
  BY <1>2, <1>5 DEF TransferFrom, SendFrom
<1> QED BY <1>1, <1>3, <1>4, <1>5

LEMMA StepCounted == TypeOK /\ Counted /\ [Next]_vars => Counted'
<1> SUFFICES ASSUME TypeOK, Counted, [Next]_vars PROVE Counted'
  OBVIOUS
<1>1. /\ balance \in [Accounts -> Nat] /\ totalSupply \in Nat /\ OneToken \in Nat
      /\ IsFiniteSet(Units(balance)) /\ Cardinality(Units(balance)) = totalSupply
  BY LedgerType, OneTokenType DEF Counted, SupplyIsSum
<1>2. ASSUME IsFiniteSet(Units(balance')), Cardinality(Units(balance')) = totalSupply'
      PROVE  Counted'
  BY <1>2 DEF Counted, SupplyIsSum, Units
<1>3. ASSUME UNCHANGED <<balance, totalSupply>> PROVE Counted'
  BY <1>1, <1>2, <1>3
<1>4. ASSUME NEW a \in Accounts,
             balance' = Credit(balance, a, OneToken), totalSupply' = totalSupply + OneToken
      PROVE  Counted'
  BY <1>1, <1>2, <1>4, CreditCount
<1>5. ASSUME NEW s \in Senders, NEW m \in DepositMsgs, Deposit(s, m) PROVE Counted'
  BY <1>4, <1>5, SenderType DEF Deposit
<1>6. ASSUME NEW b \in Senders, RecoverOracleTimeout(b) PROVE Counted'
  BY <1>4, <1>6, SenderType DEF RecoverOracleTimeout
<1>7. ASSUME NEW b \in Senders, BurnAndRequest(b) PROVE Counted'
  <2>1. /\ CanDebit(balance, b, OneToken) /\ balance' = Debit(balance, b, OneToken)
        /\ totalSupply' = totalSupply - OneToken /\ b \in Accounts
    BY <1>7, SenderType DEF BurnAndRequest, CanBurn
  <2> QED BY <1>1, <1>2, <2>1, DebitCount
<1>8. ASSUME NEW s \in Senders, NEW b \in Accounts, NEW seed \in Seeds,
             FulfillRandomness(s, b, seed)
      PROVE  Counted'
  BY <1>3, <1>8 DEF FulfillRandomness, token
<1>9. ASSUME NEW s \in Senders, TokenTx(s) PROVE Counted'
  <2>1. totalSupply' = totalSupply
    BY <1>9, TokenTxFrame DEF ExchangeUnchanged
  <2>2. CASE UNCHANGED balance
    BY <1>3, <2>1, <2>2
  <2>3. ASSUME NEW a \in Accounts, NEW b \in Accounts, NEW n \in Nat,
               CanDebit(balance, a, n), balance' = Move(balance, a, b, n)
        PROVE  Counted'
    BY <1>1, <1>2, <2>1, <2>3, MoveCount
  <2> QED BY <1>9, <2>2, <2>3, TokenTxMoves
<1>10. NextBlock \/ UNCHANGED vars => UNCHANGED <<balance, totalSupply>>
  BY DEF NextBlock, vars, token
<1> QED BY <1>3, <1>5, <1>6, <1>7, <1>8, <1>9, <1>10 DEF Next, ExchangeTx

\* The total supply is the number of base units in the accounts, whatever is
\* transferred, allowed, minted, burnt and refunded.
THEOREM SupplyAlwaysSum == Spec => []SupplyIsSum
<1>1. Counted => SupplyIsSum
  BY DEF Counted
<1> QED BY <1>1, InitCounted, TypeCorrect, StepCounted, PTL DEF Spec

--------------------------------------------------------------------------------

\* No account holds more than there is.
LEMMA HolderWithinSupply ==
    ASSUME TypeOK, Counted, NEW a \in Accounts
    PROVE  balance[a] <= totalSupply
<1>1. balance[a] \in Nat /\ Cardinality(Units(balance)) = totalSupply
  BY LedgerType DEF Counted, SupplyIsSum
<1>2. Cardinality(UnitsAfter(a, 0, balance[a])) = balance[a]
  BY <1>1, UnitsAfterCount
<1>3. UnitsAfter(a, 0, balance[a]) \in SUBSET Units(balance)
  BY <1>1 DEF Units, UnitsAfter
<1> QED BY <1>1, <1>2, <1>3, FS_Subset DEF Counted

\* A whole token in any account is part of the supply the vault backs.
LEMMA HolderBacked == TypeOK /\ Counted /\ Backed => NeverStranded
<1> SUFFICES ASSUME TypeOK, Counted, Backed, NEW a \in Accounts, balance[a] >= OneToken
             PROVE  activeCount > 0
  BY DEF NeverStranded
<1>1. balance[a] <= totalSupply /\ balance[a] \in Nat
  BY HolderWithinSupply, LedgerType
<1> DEFINE n == Cardinality(DOMAIN pending)
<1>2. /\ totalSupply \in Nat /\ activeCount \in Nat /\ n \in Nat
      /\ OneToken * n \in Nat /\ OneToken * 0 = 0
  BY BackedTypes, TokenTimes
<1>3. totalSupply + OneToken * n = OneToken * activeCount
  BY DEF Backed
<1> HIDE DEF n
<1>4. OneToken * activeCount > 0
  BY <1>1, <1>2, <1>3, OneTokenType
<1>5. activeCount # 0
  BY <1>2, <1>4
<1> QED BY <1>2, <1>5

\* Nobody waits for what is not there: an answer finds at least as many active
\* payloads to draw from as there are buyers waiting, itself included.
THEOREM QueueWithinVault == Spec => [](Cardinality(DOMAIN pending) <= activeCount)
<1>1. TypeOK /\ Backed => Cardinality(DOMAIN pending) <= activeCount
  <2> SUFFICES ASSUME TypeOK, Backed PROVE Cardinality(DOMAIN pending) <= activeCount
    OBVIOUS
  <2> DEFINE n == Cardinality(DOMAIN pending)
  <2>1. totalSupply \in Nat /\ activeCount \in Nat /\ n \in Nat
    BY BackedTypes
  <2>2. totalSupply + OneToken * n = OneToken * activeCount
    BY DEF Backed
  <2> HIDE DEF n
  <2>3. CASE n > activeCount
    <3>1. OneToken * (n - activeCount) > 0
      BY <2>1, <2>3, OneTokenType
    <3>2. OneToken * (n - activeCount) = OneToken * n - OneToken * activeCount
      BY <2>1, OneTokenType
    <3> QED BY <2>1, <2>2, <3>1, <3>2, OneTokenType
  <2> QED BY <2>1, <2>3 DEF n
<1> QED BY <1>1, TypeCorrect, AlwaysBacked, PTL

\* So the cw20 burn of what an account holds never fails on the supply.
LEMMA AlwaysWithinSupply == Spec => [](\A a \in Accounts : balance[a] <= totalSupply)
<1>1. TypeOK /\ Counted => \A a \in Accounts : balance[a] <= totalSupply
  BY HolderWithinSupply
<1> QED BY <1>1, InitCounted, TypeCorrect, StepCounted, PTL DEF Spec

\* A holder of a whole token always finds a payload in the vault, wherever the
\* token came from and however many requests are pending before it.
THEOREM HoldersNeverStranded == Spec => []NeverStranded
<1> QED BY InitCounted, TypeCorrect, AlwaysBacked, StepCounted, HolderBacked, PTL DEF Spec

--------------------------------------------------------------------------------
(***************************************************************************)
(* The draw.  Of the numbers 0 .. U, as many as leave the remainder r on    *)
(* division by n leave t, up to one.                                       *)
(***************************************************************************)

\* Division by a positive n.
LEMMA QuotientRemainder ==
    ASSUME NEW n \in Nat, n > 0, NEW x \in Nat
    PROVE  /\ x = n * (x \div n) + (x % n)
           /\ x % n \in 0 .. n - 1
           /\ x \div n \in Nat
  OBVIOUS

LEMMA RemainderUnique ==
    ASSUME NEW n \in Nat, n > 0, NEW q \in Nat, NEW r \in 0 .. n - 1
    PROVE  (n * q + r) % n = r
  OBVIOUS

\* The next multiple of n is n away.
LEMMA NextMultiple ==
    ASSUME NEW n \in Nat, n > 0, NEW p \in Int, NEW q \in Int, p < q
    PROVE  n * q >= n * p + n
<1>1. q - p >= 1
  OBVIOUS
<1>2. n * (q - p) >= n
  BY <1>1
<1> QED BY <1>2

\* Within one round a shift shifts the remainder.
LEMMA RemainderShift ==
    ASSUME NEW n \in Nat, n > 0, NEW x \in Nat, NEW d \in Int, (x % n) + d \in 0 .. n - 1
    PROVE  x + d \in Nat /\ (x + d) % n = (x % n) + d
<1>1. x = n * (x \div n) + (x % n) /\ x \div n \in Nat /\ n * (x \div n) \in Nat
  BY QuotientRemainder
<1>2. x + d = n * (x \div n) + ((x % n) + d)
  BY <1>1
<1>3. (n * (x \div n) + ((x % n) + d)) % n = (x % n) + d
  BY <1>1, RemainderUnique
<1>4. x + d \in Nat
  BY <1>1, <1>2
<1> QED BY <1>2, <1>3, <1>4

\* Two numbers of the same remainder are n apart.
LEMMA RemainderGap ==
    ASSUME NEW n \in Nat, n > 0, NEW x \in Nat, NEW y \in Nat, x % n = y % n, x < y
    PROVE  x + n <= y
<1>1. /\ x = n * (x \div n) + (x % n) /\ x \div n \in Nat
      /\ y = n * (y \div n) + (y % n) /\ y \div n \in Nat
  BY QuotientRemainder
<1>2. x \div n < y \div n
  OBVIOUS
<1> QED BY <1>1, <1>2, NextMultiple
\* The numbers up to U that leave the remainder r.
RemainderClass(n, U, r) == {x \in 0 .. U : x % n = r}

LEMMA RemainderClassFinite ==
    ASSUME NEW n, NEW U \in Nat, NEW r
    PROVE  IsFiniteSet(RemainderClass(n, U, r)) /\ Cardinality(RemainderClass(n, U, r)) \in Nat
<1>1. IsFiniteSet(0 .. U)
  BY FS_Interval
<1>2. RemainderClass(n, U, r) \subseteq 0 .. U
  BY DEF RemainderClass
<1> QED BY <1>1, <1>2, FS_Subset, FS_CardinalityType

\* A part of one class that a shift keeps below U is no larger than the other class.
LEMMA ShiftInjects ==
    ASSUME NEW n \in Nat, n > 0, NEW U \in Nat, NEW r \in 0 .. n - 1, NEW t \in 0 .. n - 1,
           NEW S \in SUBSET RemainderClass(n, U, r), \A x \in S : x + (t - r) <= U
    PROVE  Cardinality(S) <= Cardinality(RemainderClass(n, U, t))
<1> DEFINE T == RemainderClass(n, U, t)
           f == [x \in S |-> x + (t - r)]
<1>1. \A x \in S : x \in Nat /\ x % n = r
  BY DEF RemainderClass
<1>2. \A x \in S : x + (t - r) \in T
  <2> SUFFICES ASSUME NEW x \in S PROVE x + (t - r) \in T
    OBVIOUS
  <2>1. x \in Nat /\ x % n = r /\ x + (t - r) <= U
    BY <1>1
  <2>2. t - r \in Int /\ (x % n) + (t - r) = t
    BY <2>1
  <2>3. x + (t - r) \in Nat /\ (x + (t - r)) % n = t
    BY <2>1, <2>2, RemainderShift
  <2> QED BY <2>1, <2>3 DEF RemainderClass
<1>3. f \in Injection(S, T)
  <2>1. f \in [S -> T]
    BY <1>2
  <2>2. \A x, y \in S : f[x] = f[y] => x = y
    BY <1>1
  <2> QED BY <2>1, <2>2 DEF Injection, IsInjective
<1> QED BY <1>3, RemainderClassFinite, FS_Injection

\* Of the numbers 0 .. U no remainder has more than one above any other.
LEMMA RemaindersEven ==
    ASSUME NEW n \in Nat, n > 0, NEW U \in Nat, NEW r \in 0 .. n - 1, NEW t \in 0 .. n - 1
    PROVE  Cardinality(RemainderClass(n, U, r)) <= Cardinality(RemainderClass(n, U, t)) + 1
<1> DEFINE C == RemainderClass(n, U, r)
           T == RemainderClass(n, U, t)
           Cut == {x \in C : x + (t - r) > U}
<1>1. C \subseteq 0 .. U /\ (\A x \in C : x % n = r)
  BY DEF RemainderClass
<1>2. /\ IsFiniteSet(C) /\ Cardinality(C) \in Nat
      /\ Cardinality(T) \in Nat
  BY RemainderClassFinite
<1>3. CASE Cut = {}
  <2>1. \A x \in C : x + (t - r) <= U
    BY <1>1, <1>3
  <2> QED BY <1>2, <2>1, ShiftInjects
<1>4. CASE Cut # {}
  <2>1. PICK y \in C : y + (t - r) > U
    BY <1>4
  <2>2. ASSUME NEW x \in C, x # y, x + (t - r) > U PROVE FALSE
    <3>1. x \in Nat /\ y \in Nat /\ x <= U /\ y <= U /\ x % n = y % n
      BY <1>1
    <3>2. x < y => x + n <= y
      BY <3>1, RemainderGap
    <3>3. y < x => y + n <= x
      BY <3>1, RemainderGap
    <3>4. t - r < n
      OBVIOUS
    <3> QED BY <2>1, <2>2, <3>1, <3>2, <3>3, <3>4
  <2>3. \A x \in C \ {y} : x + (t - r) <= U
    BY <1>1, <2>2
  <2>4. Cardinality(C \ {y}) <= Cardinality(T)
    BY <2>3, ShiftInjects
  <2>5. Cardinality(C \ {y}) = Cardinality(C) - 1
    BY <1>2, <2>1, FS_RemoveElement
  <2> QED BY <1>2, <2>4, <2>5
<1> QED BY <1>3, <1>4

\* The seeds for the payload in slot i are those that leave the remainder i.
LEMMA SeedsOfSlot ==
    ASSUME TypeOK, ActiveSlotsExact, NEW i \in 0 .. activeCount - 1
    PROVE  SeedsFor(activeMap[i]) = RemainderClass(activeCount, U64Max, i)
<1>1. /\ activeCount \in Nat /\ activeCount > 0 /\ DOMAIN activeMap = 0 .. activeCount - 1
      /\ \A k \in 0 .. activeCount - 1 : activeMap[k] \in DOMAIN vault
  BY DEF TypeOK
<1>2. \A k \in 0 .. activeCount - 1 : activeMap[k] = activeMap[i] => k = i
  BY <1>1 DEF ActiveSlotsExact, IsInjective
<1>3. ASSUME NEW seed \in 0 .. U64Max
      PROVE  Selects(seed) /\ SelectedSlot(seed) \in 0 .. activeCount - 1
  <2>1. SelectedSlot(seed) \in 0 .. activeCount - 1
    BY <1>1, SelectedSlotRange, ConfigAssumption
  <2> QED BY <1>1, <2>1 DEF Selects
<1>4. ASSUME NEW seed \in 0 .. U64Max
      PROVE  Selects(seed) /\ activeMap[SelectedSlot(seed)] = activeMap[i]
                 <=> SelectedSlot(seed) = i
  BY <1>2, <1>3
<1> QED BY <1>4 DEF SeedsFor, RemainderClass, SelectedSlot

\* An active payload has a slot; any other has no seeds.
LEMMA SeedsOfPayload ==
    ASSUME TypeOK, ActiveSlotsExact, NEW p \in DOMAIN vault
    PROVE  /\ vault[p].active => \E i \in 0 .. activeCount - 1 : activeMap[i] = p
           /\ SeedsFor(p) # {} => vault[p].active
<1>1. DOMAIN activeMap = 0 .. activeCount - 1
  BY DEF TypeOK
<1>2. Range(activeMap) = {i \in DOMAIN vault : vault[i].active}
  BY DEF ActiveSlotsExact
<1>3. vault[p].active => \E i \in DOMAIN activeMap : activeMap[i] = p
  BY <1>2 DEF Range
<1>4. ASSUME SeedsFor(p) # {} PROVE vault[p].active
  <2>1. PICK k \in DOMAIN activeMap : activeMap[k] = p
    BY <1>4 DEF SeedsFor, Selects
  <2> QED BY <1>2, <2>1 DEF Range
<1> QED BY <1>1, <1>3, <1>4

LEMMA ExactSlotsDrawEvenly == TypeOK /\ ActiveSlotsExact => SelectionEven
<1> SUFFICES ASSUME TypeOK, ActiveSlotsExact PROVE SelectionEven
  OBVIOUS
<1>1. activeCount \in Nat /\ U64Max \in Nat
  BY ConfigAssumption DEF TypeOK
<1>2. ASSUME activeCount <= U64Max, NEW p \in DOMAIN vault, vault[p].active
      PROVE  SeedsFor(p) # {}
  <2>1. PICK i \in 0 .. activeCount - 1 : activeMap[i] = p
    BY <1>2, SeedsOfPayload
  <2>2. i % activeCount = i
    <3>1. (activeCount * 0 + i) % activeCount = i
      BY <1>1, RemainderUnique
    <3> QED BY <1>1, <3>1
  <2>3. i \in RemainderClass(activeCount, U64Max, i)
    BY <1>1, <1>2, <2>2 DEF RemainderClass
  <2> QED BY <2>1, <2>3, SeedsOfSlot
<1>3. ASSUME NEW p \in DOMAIN vault, NEW q \in DOMAIN vault, vault[p].active, vault[q].active
      PROVE  Cardinality(SeedsFor(p)) <= Cardinality(SeedsFor(q)) + 1
  <2>1. PICK i \in 0 .. activeCount - 1 : activeMap[i] = p
    BY <1>3, SeedsOfPayload
  <2>2. PICK k \in 0 .. activeCount - 1 : activeMap[k] = q
    BY <1>3, SeedsOfPayload
  <2>3. activeCount > 0
    BY <1>1
  <2>4. Cardinality(RemainderClass(activeCount, U64Max, i))
            <= Cardinality(RemainderClass(activeCount, U64Max, k)) + 1
    BY <1>1, <2>3, RemaindersEven
  <2> QED BY <2>1, <2>2, <2>4, SeedsOfSlot
<1> QED BY <1>2, <1>3, SeedsOfPayload DEF SelectionEven

\* Whatever swap-and-pop has done to the index, the next seed picks each active
\* payload, and no other, as often as any other, up to one of the 2^64 seeds.
THEOREM SelectionAlwaysEven == Spec => []SelectionEven
BY ExactSlotsDrawEvenly, TypeCorrect, ActiveSlotsAlwaysExact, PTL

--------------------------------------------------------------------------------
(***************************************************************************)
(* Consent.                                                                *)
(***************************************************************************)

\* A step that leaves an account's tokens and allowances, or adds to its tokens.
LEMMA WithinIfUntouched ==
    ASSUME TypeOK, NEW s \in Senders, NEW a \in Accounts, balance'[a] \in Nat,
           balance'[a] >= balance[a],
           \A p \in Accounts : allowance'[<<a, p>>] = allowance[<<a, p>>]
    PROVE  WithinAllowance(s, a)
<1>1. balance[a] \in Nat
  BY LedgerType
<1>2. \A p \in Accounts : allowance[<<a, p>>].amount \in Nat
  BY DEF TypeOK, Allowance
<1>3. ~(balance[a] - balance'[a] > 0)
  BY <1>1
<1>4. \A p \in Accounts : allowance'[<<a, p>>].amount <= allowance[<<a, p>>].amount
  BY <1>2
<1> QED BY <1>3, <1>4 DEF WithinAllowance

\* What a move leaves with an account that does not pay.
LEMMA MoveKeepsOthers ==
    ASSUME TypeOK, NEW from \in Accounts, NEW to \in Accounts, NEW n \in Nat, NEW a \in Accounts,
           a # from
    PROVE  Move(balance, from, to, n)[a] >= balance[a]
           /\ Move(balance, from, to, n)[a] \in Nat
<1>1. balance \in [Accounts -> Nat]
  BY LedgerType
<1>2. Debit(balance, from, n)[a] = balance[a] /\ DOMAIN Debit(balance, from, n) = Accounts
  BY <1>1 DEF Debit
<1>3. Move(balance, from, to, n)[a] \in {balance[a], balance[a] + n}
  BY <1>1, <1>2 DEF Move, Credit
<1> QED BY <1>1, <1>3

\* And with the one that pays.
LEMMA MoveTakes ==
    ASSUME TypeOK, NEW from \in Accounts, NEW to \in Accounts, NEW n \in Nat
    PROVE  Move(balance, from, to, n)[from] =
              IF to = from THEN balance[from] ELSE balance[from] - n
<1>1. balance \in [Accounts -> Nat]
  BY LedgerType
<1>2. Debit(balance, from, n)[from] = balance[from] - n /\ DOMAIN Debit(balance, from, n) = Accounts
  BY <1>1 DEF Debit
<1> QED BY <1>1, <1>2 DEF Move, Credit

LEMMA TokenTxWithin ==
    ASSUME TypeOK, NEW s \in Senders, NEW a \in Accounts, s # a, TokenTx(s)
    PROVE  WithinAllowance(s, a)
<1>1. PICK other \in Accounts, n \in Amounts :
         \/ Transfer(s, other, n)
         \/ Send(s, other, n)
         \/ \E e \in NewExpiries : \/ IncreaseAllowance(s, other, n, e)
                                   \/ DecreaseAllowance(s, other, n, e)
         \/ \E to \in Accounts : TransferFrom(s, other, to, n) \/ SendFrom(s, other, to, n)
  BY DEF TokenTx
<1>2. n \in Nat \ {0} /\ s \in Accounts
  BY ConfigAssumption, SenderType
<1>3. /\ allowance \in [Accounts \X Accounts -> Allowance] /\ balance \in [Accounts -> Nat]
  BY DEF TypeOK
<1>4. CASE Transfer(s, other, n) \/ Send(s, other, n)
  <2>1. balance' = Move(balance, s, other, n) /\ allowance' = allowance
    BY <1>4 DEF Send, Transfer
  <2>2. Move(balance, s, other, n)[a] >= balance[a] /\ Move(balance, s, other, n)[a] \in Nat
    BY <1>2, MoveKeepsOthers
  <2> QED BY <2>1, <2>2, WithinIfUntouched
<1>5. ASSUME NEW e \in NewExpiries,
             IncreaseAllowance(s, other, n, e) \/ DecreaseAllowance(s, other, n, e)
      PROVE  WithinAllowance(s, a)
  <2>1. balance' = balance /\ \A p \in Accounts : allowance'[<<a, p>>] = allowance[<<a, p>>]
    BY <1>3, <1>5 DEF IncreaseAllowance, DecreaseAllowance
  <2> QED BY <1>3, <2>1, WithinIfUntouched
<1>6. ASSUME NEW to \in Accounts, TransferFrom(s, other, to, n) \/ SendFrom(s, other, to, n)
      PROVE  WithinAllowance(s, a)
  <2>1. /\ balance' = Move(balance, other, to, n)
        /\ allowance' = [allowance EXCEPT ![<<other, s>>] = Spent(@, n)]
        /\ CanSpend(allowance[<<other, s>>], n, height)
    BY <1>6 DEF SendFrom, TransferFrom
  <2>2. CASE a # other
    <3>1. Move(balance, other, to, n)[a] >= balance[a] /\ Move(balance, other, to, n)[a] \in Nat
      BY <1>2, <2>2, MoveKeepsOthers
    <3>2. \A p \in Accounts : allowance'[<<a, p>>] = allowance[<<a, p>>]
      BY <1>3, <2>1, <2>2
    <3> QED BY <2>1, <3>1, <3>2, WithinIfUntouched
  <2>3. CASE a = other
    <3>1. \A p \in Accounts : allowance[<<a, p>>] \in Allowance /\ allowance[<<a, p>>].amount \in Nat
      BY <1>3 DEF Allowance
    <3>2. allowance'[<<a, s>>].amount = allowance[<<a, s>>].amount - n
      BY <1>2, <1>3, <2>1, <2>3, <3>1 DEF Spent, Allowance
    <3>3. \A p \in Accounts : p # s => allowance'[<<a, p>>] = allowance[<<a, p>>]
      BY <1>3, <2>1, <2>3
    <3>4. \A p \in Accounts : allowance'[<<a, p>>].amount <= allowance[<<a, p>>].amount
      BY <1>2, <3>1, <3>2, <3>3
    <3>5. balance'[a] = IF to = a THEN balance[a] ELSE balance[a] - n
      BY <1>2, <2>1, <2>3, MoveTakes
    <3>6. balance[a] \in Nat
      BY <1>3
    <3>7. balance[a] - balance'[a] > 0 => balance[a] - balance'[a] = n
      BY <1>2, <3>5, <3>6
    <3> QED BY <2>1, <2>3, <3>2, <3>4, <3>7 DEF WithinAllowance
  <2> QED BY <2>2, <2>3
<1> QED BY <1>1, <1>4, <1>5, <1>6

LEMMA ExchangeTxWithin ==
    ASSUME TypeOK, NEW s \in Senders, NEW a \in Accounts, s # a, ExchangeTx(s)
    PROVE  WithinAllowance(s, a)
<1>1. balance \in [Accounts -> Nat] /\ s \in Accounts
  BY LedgerType, SenderType
<1>2. balance'[a] = balance[a] /\ allowance' = allowance
  <2>1. \/ balance' = balance
        \/ balance' = Credit(balance, s, OneToken)
        \/ balance' = Debit(balance, s, OneToken)
    BY DEF ExchangeTx, Deposit, BurnAndRequest, FulfillRandomness, RecoverOracleTimeout, token
  <2>2. allowance' = allowance
    BY DEF ExchangeTx, Deposit, BurnAndRequest, FulfillRandomness, RecoverOracleTimeout, token
  <2> QED BY <1>1, <2>1, <2>2 DEF Credit, Debit
<1> QED BY <1>1, <1>2, WithinIfUntouched

\* No message of another account, of the token or of the exchange, takes tokens
\* from an account beyond what it has allowed and has not let expire, or raises
\* what it allows.
THEOREM AlwaysTakenByConsent == Spec => TakenByConsent
<1>1. TypeOK => [\A s \in Senders, a \in Accounts :
                    s # a /\ ~WithinAllowance(s, a) => ~ExchangeTx(s) /\ ~TokenTx(s)]_vars
  BY TokenTxWithin, ExchangeTxWithin
<1> QED BY <1>1, TypeCorrect, PTL DEF Spec, TakenByConsent

================================================================================
