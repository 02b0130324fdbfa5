--------------------------- MODULE RareBullet_proofs ---------------------------
(***************************************************************************)
(* The invariants of the contract, for every configuration, every set of   *)
(* accounts, messages and seeds, and every bound.                          *)
(***************************************************************************)
EXTENDS RareBullet, Bulletproof_proofs, FiniteSetTheorems, TLAPS

--------------------------------------------------------------------------------
(***************************************************************************)
(* The storage maps.                                                       *)
(***************************************************************************)

\* Map::save makes the map one key larger at most and changes that key only.
LEMMA SavedProperties ==
    ASSUME NEW map, NEW key, NEW value
    PROVE  /\ DOMAIN Saved(map, key, value) = DOMAIN map \cup {key}
           /\ Saved(map, key, value)[key] = value
           /\ \A x \in DOMAIN map : x # key => Saved(map, key, value)[x] = map[x]
  BY DEF Saved

\* A save keeps a map's type.
LEMMA SavedType ==
    ASSUME NEW S, NEW T, NEW map \in [S -> T], NEW key, NEW value \in T
    PROVE  Saved(map, key, value) \in [S \cup {key} -> T]
  BY DEF Saved

\* A removal keeps it on the keys that are left.
LEMMA RemovedType ==
    ASSUME NEW S, NEW T, NEW map \in [S -> T], NEW key
    PROVE  Removed(map, key) \in [S \ {key} -> T]
  BY DEF Removed

\* Swap-and-pop on n slots leaves n - 1.
LEMMA SwapAndPopType ==
    ASSUME NEW T, activeCount \in Nat, activeCount > 0,
           activeMap \in [0 .. activeCount - 1 -> T],
           NEW slot \in 0 .. activeCount - 1
    PROVE  SwapAndPop(slot) \in [0 .. (activeCount - 1) - 1 -> T]
<1> DEFINE last == activeCount - 1
           swapped == [activeMap EXCEPT ![slot] = activeMap[last]]
<1>1. swapped \in [0 .. last -> T]
  OBVIOUS
<1>2. Removed(swapped, last) \in [(0 .. last) \ {last} -> T]
  BY <1>1, RemovedType
<1>3. (0 .. last) \ {last} = 0 .. last - 1
  OBVIOUS
<1> QED BY <1>2, <1>3 DEF SwapAndPop

\* The seed picks one of the slots.
LEMMA SelectedSlotRange ==
    ASSUME activeCount \in Nat, activeCount > 0, NEW seed \in Nat
    PROVE  SelectedSlot(seed) \in 0 .. activeCount - 1
  BY DEF SelectedSlot

\* A sequence over a set is one over any larger set.
LEMMA SeqMonotone ==
    ASSUME NEW S, NEW T, S \subseteq T, NEW s \in Seq(S)
    PROVE  s \in Seq(T)
  OBVIOUS

--------------------------------------------------------------------------------
(***************************************************************************)
(* Type correctness, one lemma per message.                                *)
(***************************************************************************)

\* The tracker holds a height or None.
LEMMA TrackStarvationType ==
    ASSUME TypeOK, NEW depth
    PROVE  TrackStarvation(depth) \in Nat \cup {None}
  BY DEF TypeOK, TrackStarvation

\* What the proofs use of the token unit.
LEMMA OneTokenType == OneToken \in Nat /\ OneToken > 0
  BY ConfigAssumption

\* Likewise of the ledger and of an account that sends a message.
LEMMA LedgerType == TypeOK => balance \in [Accounts -> Nat] /\ totalSupply \in Nat
  BY DEF TypeOK

LEMMA SenderType == Senders \subseteq Accounts
  BY DEF Senders

\* Credit, Debit and Move keep the balances natural numbers.
LEMMA CreditType ==
    ASSUME NEW bal \in [Accounts -> Nat], NEW a \in Accounts, NEW n \in Nat
    PROVE  Credit(bal, a, n) \in [Accounts -> Nat]
  BY DEF Credit

LEMMA DebitType ==
    ASSUME NEW bal \in [Accounts -> Nat], NEW a \in Accounts, NEW n \in Nat, CanDebit(bal, a, n)
    PROVE  Debit(bal, a, n) \in [Accounts -> Nat]
  BY DEF CanDebit, Debit

LEMMA MoveType ==
    ASSUME NEW bal \in [Accounts -> Nat], NEW a \in Accounts, NEW b \in Accounts, NEW n \in Nat,
           CanDebit(bal, a, n)
    PROVE  Move(bal, a, b, n) \in [Accounts -> Nat]
  BY DebitType, CreditType DEF Move

\* The empty contract is well typed.
LEMMA InitType == Init => TypeOK
  BY ConfigAssumption DEF Init, TypeOK, NoAllowance, Allowance

LEMMA DepositType ==
    ASSUME TypeOK, NEW s \in Senders, NEW m \in DepositMsgs, Deposit(s, m)
    PROVE  TypeOK'
<1> DEFINE payload == [proof |-> m.proof, depositor |-> s, active |-> TRUE]
<1>1. /\ usedCommitments' = usedCommitments \cup {m.commitment_hex}
      /\ usedNullifiers' = usedNullifiers \cup {m.payload_nullifier}
      /\ balance' = Credit(balance, s, OneToken)
      /\ totalSupply' = totalSupply + OneToken
      /\ vault' = Saved(vault, vaultCount, payload)
      /\ vaultCount' = vaultCount + 1
      /\ activeMap' = Saved(activeMap, activeCount, vaultCount)
      /\ activeCount' = activeCount + 1
      /\ starvationStart' = TrackStarvation(activeCount + 1)
      /\ UNCHANGED <<height, claimed, pending, allowance>>
  BY DEF Deposit, PayloadIndex, Marked, claims
<1>2. vaultCount' \in Nat /\ vault' \in [0 .. vaultCount' - 1 -> Payload]
  <2>1. vaultCount \in Nat /\ vault \in [0 .. vaultCount - 1 -> Payload]
    BY DEF TypeOK
  <2>2. payload \in Payload
    BY DEF Payload, Senders
  <2>3. Saved(vault, vaultCount, payload) \in [(0 .. vaultCount - 1) \cup {vaultCount} -> Payload]
    BY <2>1, <2>2, SavedType
  <2>4. (0 .. vaultCount - 1) \cup {vaultCount} = 0 .. (vaultCount + 1) - 1
    BY <2>1
  <2> HIDE DEF payload
  <2> QED BY <1>1, <2>1, <2>3, <2>4
<1>3. activeCount' \in Nat /\ activeMap' \in [0 .. activeCount' - 1 -> 0 .. vaultCount' - 1]
  <2>1. vaultCount \in Nat /\ activeCount \in Nat
    BY DEF TypeOK
  <2>2. activeMap \in [0 .. activeCount - 1 -> 0 .. (vaultCount + 1) - 1]
    BY DEF TypeOK
  <2>3. vaultCount \in 0 .. (vaultCount + 1) - 1
    BY <2>1
  <2>4. Saved(activeMap, activeCount, vaultCount)
           \in [(0 .. activeCount - 1) \cup {activeCount} -> 0 .. (vaultCount + 1) - 1]
    BY <2>2, <2>3, SavedType
  <2>5. (0 .. activeCount - 1) \cup {activeCount} = 0 .. (activeCount + 1) - 1
    BY <2>1
  <2> QED BY <1>1, <2>1, <2>4, <2>5
<1>4. claimed' \in [Accounts -> Seq(0 .. vaultCount' - 1)]
  <2>1. 0 .. vaultCount - 1 \subseteq 0 .. vaultCount' - 1
    BY <1>1 DEF TypeOK
  <2>2. ASSUME NEW a \in Accounts PROVE claimed[a] \in Seq(0 .. vaultCount' - 1)
    <3>1. claimed[a] \in Seq(0 .. vaultCount - 1)
      BY DEF TypeOK
    <3> QED BY <2>1, <3>1, SeqMonotone
  <2> QED BY <1>1, <2>2 DEF TypeOK
<1>5. usedCommitments' \subseteq CommitmentStrings
  BY <1>1, MessageAssumption DEF TypeOK
<1>6. usedNullifiers' \subseteq {d.payload_nullifier : d \in DepositMsgs}
  BY <1>1 DEF TypeOK
<1>7. starvationStart' \in Nat \cup {None}
  BY <1>1, TrackStarvationType
<1>8. balance' \in [Accounts -> Nat] /\ totalSupply' \in Nat
  BY <1>1, CreditType, OneTokenType, LedgerType, SenderType
<1> QED BY <1>1, <1>2, <1>3, <1>4, <1>5, <1>6, <1>7, <1>8 DEF TypeOK

LEMMA BurnAndRequestType ==
    ASSUME TypeOK, NEW b \in Senders, BurnAndRequest(b)
    PROVE  TypeOK'
<1> DEFINE request == [range_bucket_id |-> activeCount, request_height |-> height]
<1>1. /\ starvationStart' = IF Starved THEN StarvedSince ELSE starvationStart
      /\ CanDebit(balance, b, OneToken) /\ totalSupply >= OneToken
      /\ balance' = Debit(balance, b, OneToken)
      /\ totalSupply' = totalSupply - OneToken
      /\ pending' = Saved(pending, b, request)
      /\ UNCHANGED <<height, vault, vaultCount, usedCommitments, usedNullifiers,
                     activeMap, activeCount, claimed, allowance>>
  BY DEF BurnAndRequest, registry, CanBurn
<1>2. starvationStart' \in Nat \cup {None}
  BY <1>1 DEF StarvedSince, TypeOK
<1>3. balance' \in [Accounts -> Nat] /\ totalSupply' \in Nat
  BY <1>1, DebitType, OneTokenType, LedgerType, SenderType
<1>4. DOMAIN pending' \subseteq Senders /\ pending' \in [DOMAIN pending' -> PendingRequest]
  <2>1. request \in PendingRequest
    BY DEF PendingRequest, TypeOK
  <2>2. Saved(pending, b, request) \in [DOMAIN pending \cup {b} -> PendingRequest]
    BY <2>1, SavedType DEF TypeOK
  <2> HIDE DEF request
  <2> QED BY <1>1, <2>2, SavedProperties DEF TypeOK
<1> QED BY <1>1, <1>2, <1>3, <1>4 DEF TypeOK

LEMMA FulfillRandomnessType ==
    ASSUME TypeOK, NEW s \in Senders, NEW b \in Accounts, NEW seed \in Seeds,
           FulfillRandomness(s, b, seed)
    PROVE  TypeOK'
<1> DEFINE slot == SelectedSlot(seed)
           selected == activeMap[slot]
<1>1. activeCount > 0 /\ slot \in 0 .. activeCount - 1
  BY SelectedSlotRange, ConfigAssumption DEF FulfillRandomness, Selects, TypeOK
<1>2. selected \in 0 .. vaultCount - 1
  BY <1>1 DEF TypeOK
<1>3. /\ activeMap' = SwapAndPop(slot)
      /\ vault' = [vault EXCEPT ![selected] = Retired(@)]
      /\ claimed' = [claimed EXCEPT ![b] = Append(@, selected)]
      /\ activeCount' = activeCount - 1
      /\ pending' = Removed(pending, b)
      /\ starvationStart' = TrackStarvation(activeCount - 1)
      /\ UNCHANGED <<height, vaultCount, usedCommitments, usedNullifiers,
                     balance, totalSupply, allowance>>
  BY DEF FulfillRandomness, token
<1>4. activeCount' \in Nat /\ activeMap' \in [0 .. activeCount' - 1 -> 0 .. vaultCount' - 1]
  <2>1. /\ vaultCount \in Nat /\ activeCount \in Nat
        /\ activeMap \in [0 .. activeCount - 1 -> 0 .. vaultCount - 1]
    BY DEF TypeOK
  <2>2. SwapAndPop(slot) \in [0 .. (activeCount - 1) - 1 -> 0 .. vaultCount - 1]
    BY <1>1, <2>1, SwapAndPopType
  <2> QED BY <1>1, <1>3, <2>1, <2>2
<1>5. vault' \in [0 .. vaultCount' - 1 -> Payload]
  <2>1. Retired(vault[selected]) \in Payload
    BY <1>2 DEF TypeOK, Payload, Retired
  <2> QED BY <1>2, <1>3, <2>1 DEF TypeOK
<1>6. claimed' \in [Accounts -> Seq(0 .. vaultCount' - 1)]
  BY <1>2, <1>3 DEF TypeOK
<1>7. starvationStart' \in Nat \cup {None}
  BY <1>3, TrackStarvationType
<1>8. DOMAIN pending' \subseteq Senders /\ pending' \in [DOMAIN pending' -> PendingRequest]
  BY <1>3, RemovedType DEF TypeOK, Removed
<1> QED BY <1>3, <1>4, <1>5, <1>6, <1>7, <1>8 DEF TypeOK

LEMMA RecoverOracleTimeoutType ==
    ASSUME TypeOK, NEW b \in Senders, RecoverOracleTimeout(b)
    PROVE  TypeOK'
<1>1. /\ pending' = Removed(pending, b)
      /\ balance' = Credit(balance, b, OneToken)
      /\ totalSupply' = totalSupply + OneToken
      /\ UNCHANGED <<height, vault, vaultCount, usedCommitments, usedNullifiers,
                     activeMap, activeCount, starvationStart, claimed, allowance>>
  BY DEF RecoverOracleTimeout, registry, slots
<1>2. balance' \in [Accounts -> Nat] /\ totalSupply' \in Nat
  BY <1>1, CreditType, OneTokenType, LedgerType, SenderType
<1>3. DOMAIN pending' \subseteq Senders /\ pending' \in [DOMAIN pending' -> PendingRequest]
  BY <1>1, RemovedType DEF TypeOK, Removed
<1> QED BY <1>1, <1>2, <1>3 DEF TypeOK

\* The token messages touch nothing of the exchange, and keep the ledger typed.
ExchangeUnchanged ==
    UNCHANGED <<height, vault, vaultCount, usedCommitments, usedNullifiers, activeMap,
                activeCount, starvationStart, claimed, pending, totalSupply>>

LEMMA TransferFrame ==
    ASSUME TypeOK, NEW s \in Senders, NEW to \in Accounts, NEW n \in Nat, Transfer(s, to, n)
    PROVE  ExchangeUnchanged /\ balance' \in [Accounts -> Nat] /\ UNCHANGED allowance
<1>1. /\ CanDebit(balance, s, n) /\ balance' = Move(balance, s, to, n)
      /\ ExchangeUnchanged /\ UNCHANGED allowance
  BY DEF Transfer, ExchangeUnchanged, registry, slots, claims
<1> QED BY <1>1, MoveType, LedgerType, SenderType

LEMMA TransferFromFrame ==
    ASSUME TypeOK, NEW s \in Senders, NEW owner \in Accounts, NEW to \in Accounts, NEW n \in Nat,
           TransferFrom(s, owner, to, n)
    PROVE  /\ ExchangeUnchanged /\ balance' \in [Accounts -> Nat]
           /\ allowance' \in [Accounts \X Accounts -> Allowance]
<1>1. /\ CanDebit(balance, owner, n) /\ balance' = Move(balance, owner, to, n)
      /\ ExchangeUnchanged
  BY DEF TransferFrom, ExchangeUnchanged, registry, slots, claims
<1>2. balance' \in [Accounts -> Nat]
  BY <1>1, MoveType, LedgerType
<1>3. Spent(allowance[<<owner, s>>], n) \in Allowance
  <2>1. allowance[<<owner, s>>] \in Allowance
    BY SenderType DEF TypeOK
  <2>2. allowance[<<owner, s>>].amount >= n
    BY DEF TransferFrom, CanSpend
  <2> QED BY <2>1, <2>2 DEF Spent, Allowance
<1>4. allowance' \in [Accounts \X Accounts -> Allowance]
  <2>1. allowance' = [allowance EXCEPT ![<<owner, s>>] = Spent(@, n)]
    BY DEF TransferFrom
  <2> QED BY <1>3, <2>1 DEF TypeOK
<1> QED BY <1>1, <1>2, <1>4

\* A message's optional expiry is a height.
LEMMA WithExpiryType ==
    ASSUME NEW allow \in Allowance, NEW e \in NewExpiries
    PROVE  WithExpiry(allow, e) \in Allowance
<1>1. CASE e = {}
  BY <1>1 DEF WithExpiry
<1>2. ASSUME NEW h \in Expiries, e = {h} PROVE WithExpiry(allow, e) \in Allowance
  <2>1. (CHOOSE x \in e : TRUE) = h
    BY <1>2
  <2>2. h \in Nat
    BY ConfigAssumption
  <2> QED BY <1>2, <2>1, <2>2 DEF WithExpiry, Allowance
<1> QED BY <1>1, <1>2 DEF NewExpiries

LEMMA AllowanceFrame ==
    ASSUME TypeOK, NEW s \in Senders, NEW other \in Accounts, NEW n \in Nat, NEW e \in NewExpiries,
           IncreaseAllowance(s, other, n, e) \/ DecreaseAllowance(s, other, n, e)
    PROVE  /\ ExchangeUnchanged /\ UNCHANGED balance
           /\ allowance' \in [Accounts \X Accounts -> Allowance]
<1> DEFINE key == <<s, other>>
<1>1. ExchangeUnchanged /\ UNCHANGED balance
  BY DEF IncreaseAllowance, DecreaseAllowance, ExchangeUnchanged, registry, slots, claims
<1>2. allowance \in [Accounts \X Accounts -> Allowance] /\ key \in Accounts \X Accounts
  BY SenderType DEF TypeOK
<1>3. WithExpiry(allowance[key], e) \in Allowance
  BY <1>2, WithExpiryType
<1>4. Increased(allowance[key], n, e) \in Allowance
  BY <1>3 DEF Increased, Allowance
<1>5. Decreased(allowance[key], n, e) \in Allowance
  <2>1. NoAllowance \in Allowance
    BY ConfigAssumption DEF NoAllowance, Allowance
  <2>2. ASSUME n < allowance[key].amount
        PROVE  [WithExpiry(allowance[key], e) EXCEPT !.amount = @ - n] \in Allowance
    <3>1. WithExpiry(allowance[key], e).amount = allowance[key].amount
      BY <1>2 DEF WithExpiry, Allowance
    <3>2. allowance[key].amount \in Nat
      BY <1>2 DEF Allowance
    <3> QED BY <1>3, <2>2, <3>1, <3>2 DEF Allowance
  <2> QED BY <2>1, <2>2 DEF Decreased
<1>6. \/ allowance' = [allowance EXCEPT ![key] = Increased(@, n, e)]
      \/ allowance' = [allowance EXCEPT ![key] = Decreased(@, n, e)]
  BY DEF IncreaseAllowance, DecreaseAllowance
<1> QED BY <1>1, <1>2, <1>4, <1>5, <1>6

LEMMA TokenTxFrame ==
    ASSUME TypeOK, NEW s \in Senders, TokenTx(s)
    PROVE  /\ ExchangeUnchanged /\ balance' \in [Accounts -> Nat]
           /\ allowance' \in [Accounts \X Accounts -> Allowance]
<1>1. PICK other \in Accounts, n \in Amounts :
         \/ Transfer(s, other, n)
         \/ Send(s, other, n)
         \/ \E e \in NewExpiries : \/ IncreaseAllowance(s, other, n, e)
                                   \/ DecreaseAllowance(s, other, n, e)
         \/ \E to \in Accounts : TransferFrom(s, other, to, n) \/ SendFrom(s, other, to, n)
  BY DEF TokenTx
<1>2. n \in Nat
  BY ConfigAssumption
<1>3. allowance \in [Accounts \X Accounts -> Allowance] /\ balance \in [Accounts -> Nat]
  BY DEF TypeOK
<1>4. CASE Transfer(s, other, n) \/ Send(s, other, n)
  BY <1>2, <1>3, <1>4, TransferFrame DEF Send
<1>5. CASE \E e \in NewExpiries : \/ IncreaseAllowance(s, other, n, e)
                                  \/ DecreaseAllowance(s, other, n, e)
  BY <1>2, <1>3, <1>5, AllowanceFrame
<1>6. CASE \E to \in Accounts : TransferFrom(s, other, to, n) \/ SendFrom(s, other, to, n)
  BY <1>2, <1>6, TransferFromFrame DEF SendFrom
<1> QED BY <1>1, <1>4, <1>5, <1>6

--------------------------------------------------------------------------------

\* Every step keeps the types: the two storage counters bound the ids and the
\* slots in use, so no load of a handler misses its key.
LEMMA StepType == TypeOK /\ [Next]_vars => TypeOK'
<1> SUFFICES ASSUME TypeOK, [Next]_vars PROVE TypeOK'
  OBVIOUS
<1>1. CASE NextBlock
  BY <1>1 DEF NextBlock, TypeOK, registry, slots, claims, token
<1>2. ASSUME NEW s \in Senders, ExchangeTx(s) PROVE TypeOK'
  BY <1>2, DepositType, BurnAndRequestType, FulfillRandomnessType, RecoverOracleTimeoutType
     DEF ExchangeTx
<1>3. ASSUME NEW s \in Senders, TokenTx(s) PROVE TypeOK'
  BY <1>3, TokenTxFrame DEF ExchangeUnchanged, TypeOK
<1>4. CASE UNCHANGED vars
  BY <1>4 DEF vars, registry, slots, claims, token, TypeOK
<1> QED BY <1>1, <1>2, <1>3, <1>4 DEF Next

\* The contract's storage is well typed in every reachable state.
THEOREM TypeCorrect == Spec => []TypeOK
<1> QED BY InitType, StepType, PTL DEF Spec

--------------------------------------------------------------------------------
(***************************************************************************)
(* The starvation tracker.                                                 *)
(***************************************************************************)

\* An active payload is a payload of the vault.
LEMMA ActiveNeedsVault == TypeOK /\ activeCount > 0 => vaultCount > 0
<1> SUFFICES ASSUME TypeOK, activeCount > 0 PROVE vaultCount > 0
  OBVIOUS
<1>1. 0 \in 0 .. activeCount - 1
  BY DEF TypeOK
<1>2. activeMap[0] \in 0 .. vaultCount - 1
  BY <1>1 DEF TypeOK
<1> QED BY <1>2 DEF TypeOK

\* What the tracker must be at a depth, given what it was.
LEMMA TrackStarvationTracks ==
    ASSUME TypeOK, StarvationTracked, NEW depth \in Nat
    PROVE  /\ TrackStarvation(depth) # None <=> depth < MinVaultDepth
           /\ TrackStarvation(depth) # None => TrackStarvation(depth) <= height
<1>1. height \in Nat /\ height # None /\ MinVaultDepth \in Nat
  BY ConfigAssumption DEF TypeOK
<1>2. starvationStart # None => starvationStart <= height
  BY DEF StarvationTracked
<1>3. CASE depth >= MinVaultDepth
  BY <1>1, <1>3 DEF TrackStarvation
<1>4. CASE depth < MinVaultDepth /\ starvationStart = None
  BY <1>1, <1>4 DEF TrackStarvation
<1>5. CASE depth < MinVaultDepth /\ starvationStart # None
  BY <1>1, <1>2, <1>5 DEF TrackStarvation
<1> QED BY <1>1, <1>3, <1>4, <1>5

LEMMA StepStarvation == TypeOK /\ StarvationTracked /\ [Next]_vars => StarvationTracked'
<1> SUFFICES ASSUME TypeOK, StarvationTracked, [Next]_vars PROVE StarvationTracked'
  OBVIOUS
<1>1. CASE NextBlock
  BY <1>1 DEF NextBlock, TypeOK, StarvationTracked, Starved, registry, slots
<1>2. ASSUME NEW s \in Senders, NEW m \in DepositMsgs, Deposit(s, m) PROVE StarvationTracked'
  <2>1. /\ vaultCount' = vaultCount + 1 /\ activeCount' = activeCount + 1
        /\ starvationStart' = TrackStarvation(activeCount + 1) /\ height' = height
    BY <1>2 DEF Deposit, PayloadIndex
  <2>2. vaultCount \in Nat /\ activeCount \in Nat /\ activeCount + 1 \in Nat
    BY DEF TypeOK
  <2> QED BY <2>1, <2>2, TrackStarvationTracks DEF StarvationTracked, Starved
<1>3. ASSUME NEW b \in Senders, BurnAndRequest(b) PROVE StarvationTracked'
  \* The vault holds a payload, so the fail-safe finds the tracker running.
  <2>1. Starved => starvationStart # None
    BY <1>3, ActiveNeedsVault DEF BurnAndRequest, StarvationTracked
  <2>2. /\ starvationStart' = starvationStart
        /\ UNCHANGED <<height, vaultCount, activeCount>>
    BY <1>3, <2>1 DEF BurnAndRequest, StarvedSince, registry
  <2> QED BY <2>2 DEF StarvationTracked, Starved
<1>4. ASSUME NEW s \in Senders, NEW b \in Accounts, NEW seed \in Seeds,
             FulfillRandomness(s, b, seed)
      PROVE  StarvationTracked'
  <2>1. /\ activeCount > 0 /\ activeCount' = activeCount - 1
        /\ starvationStart' = TrackStarvation(activeCount - 1)
        /\ UNCHANGED <<height, vaultCount>>
    BY <1>4 DEF FulfillRandomness, Selects
  <2>2. activeCount - 1 \in Nat /\ vaultCount > 0
    BY <2>1, ActiveNeedsVault DEF TypeOK
  <2> QED BY <2>1, <2>2, TrackStarvationTracks DEF StarvationTracked, Starved
<1>5. ASSUME NEW b \in Senders, RecoverOracleTimeout(b) PROVE StarvationTracked'
  BY <1>5 DEF RecoverOracleTimeout, StarvationTracked, Starved, registry, slots
<1>6. ASSUME NEW s \in Senders, TokenTx(s) PROVE StarvationTracked'
  BY <1>6, TokenTxFrame DEF ExchangeUnchanged, StarvationTracked, Starved
<1>7. CASE UNCHANGED vars
  BY <1>7 DEF vars, registry, slots, StarvationTracked, Starved
<1> QED BY <1>1, <1>2, <1>3, <1>4, <1>5, <1>6, <1>7 DEF Next, ExchangeTx

\* From the first deposit on, the tracker of the fallback runs exactly while
\* fewer than k payloads are active, and never points to a future block: the
\* fail-safe of BurnAndRequest (contract.rs:813) is never needed.
THEOREM StarvationAlwaysTracked == Spec => []StarvationTracked
<1>1. Init => StarvationTracked
  BY DEF Init, StarvationTracked
<1> QED BY <1>1, TypeCorrect, StepStarvation, PTL DEF Spec

--------------------------------------------------------------------------------
(***************************************************************************)
(* The swap-and-pop index.                                                 *)
(***************************************************************************)

ActiveIds == {i \in DOMAIN vault : vault[i].active}

\* Appending a new id to an index keeps it injective and adds that id.
LEMMA AppendSlot ==
    ASSUME NEW n \in Nat, NEW map, DOMAIN map = 0 .. n - 1, IsInjective(map),
           NEW id, id \notin Range(map)
    PROVE  IsInjective(Saved(map, n, id)) /\ Range(Saved(map, n, id)) = Range(map) \cup {id}
<1> DEFINE new == Saved(map, n, id)
<1>1. DOMAIN map = 0 .. n - 1 /\ n \notin DOMAIN map /\ DOMAIN new = DOMAIN map \cup {n}
  BY DEF Saved
<1>2. new[n] = id /\ \A x \in DOMAIN map : new[x] = map[x]
  BY <1>1 DEF Saved
<1> HIDE DEF new
<1>3. IsInjective(new)
  BY <1>1, <1>2 DEF IsInjective, Range
<1>4. Range(new) = Range(map) \cup {id}
  BY <1>1, <1>2 DEF Range
<1> QED BY <1>3, <1>4 DEF new

\* Swap-and-pop removes the id in the slot and keeps each other id once.
LEMMA SwapAndPopRange ==
    ASSUME activeCount \in Nat, activeCount > 0, NEW T,
           activeMap \in [0 .. activeCount - 1 -> T], IsInjective(activeMap),
           NEW slot \in 0 .. activeCount - 1
    PROVE  /\ IsInjective(SwapAndPop(slot))
           /\ Range(SwapAndPop(slot)) = Range(activeMap) \ {activeMap[slot]}
<1> DEFINE last == activeCount - 1
           new == SwapAndPop(slot)
<1>1. /\ DOMAIN activeMap = 0 .. last /\ last \in 0 .. last
      /\ DOMAIN new = (0 .. last) \ {last}
  BY DEF SwapAndPop, Removed
<1>2. \A x \in DOMAIN new : new[x] = IF x = slot THEN activeMap[last] ELSE activeMap[x]
  BY <1>1 DEF SwapAndPop, Removed
<1> HIDE DEF new, last
<1>3. IsInjective(new)
  BY <1>1, <1>2 DEF IsInjective
<1>4. Range(new) \subseteq Range(activeMap) \ {activeMap[slot]}
  BY <1>1, <1>2 DEF IsInjective, Range, last
<1>5. ASSUME NEW y \in DOMAIN activeMap, activeMap[y] # activeMap[slot]
      PROVE  activeMap[y] \in Range(new)
  <2>1. CASE y = last
    \* slot is not the last one, so it still exists and holds y's id.
    <3>1. slot \in DOMAIN new /\ new[slot] = activeMap[y]
      BY <1>1, <1>2, <1>5, <2>1 DEF last
    <3> QED BY <3>1 DEF Range
  <2>2. CASE y # last
    <3>1. y \in DOMAIN new /\ new[y] = activeMap[y]
      BY <1>1, <1>2, <1>5, <2>2
    <3> QED BY <3>1 DEF Range
  <2> QED BY <2>1, <2>2
<1>6. Range(activeMap) \ {activeMap[slot]} \subseteq Range(new)
  BY <1>5 DEF Range
<1> QED BY <1>3, <1>4, <1>6 DEF new

LEMMA StepActiveSlots == TypeOK /\ ActiveSlotsExact /\ [Next]_vars => ActiveSlotsExact'
<1> SUFFICES ASSUME TypeOK, ActiveSlotsExact, [Next]_vars PROVE ActiveSlotsExact'
  OBVIOUS
<1>1. ASSUME NEW s \in Senders, NEW m \in DepositMsgs, Deposit(s, m) PROVE ActiveSlotsExact'
  <2> DEFINE payload == [proof |-> m.proof, depositor |-> s, active |-> TRUE]
  <2>1. /\ activeMap' = Saved(activeMap, activeCount, vaultCount)
        /\ vault' = Saved(vault, vaultCount, payload)
    BY <1>1 DEF Deposit, PayloadIndex
  <2>2. /\ vaultCount \in Nat /\ activeCount \in Nat /\ DOMAIN vault = 0 .. vaultCount - 1
        /\ activeMap \in [0 .. activeCount - 1 -> 0 .. vaultCount - 1]
    BY DEF TypeOK
  <2>3. vaultCount \notin Range(activeMap) /\ vaultCount \notin DOMAIN vault
    BY <2>2 DEF Range
  <2> HIDE DEF payload
  <2>4. IsInjective(activeMap') /\ Range(activeMap') = Range(activeMap) \cup {vaultCount}
    <3> DEFINE new == Saved(activeMap, activeCount, vaultCount)
    <3>1. IsInjective(activeMap) /\ DOMAIN activeMap = 0 .. activeCount - 1
      BY <2>2 DEF ActiveSlotsExact
    <3>2. IsInjective(new) /\ Range(new) = Range(activeMap) \cup {vaultCount}
      BY <2>2, <2>3, <3>1, AppendSlot
    <3>3. activeMap' = new
      BY <2>1
    <3> HIDE DEF new
    <3> QED BY <3>2, <3>3
  <2>5. ActiveIds' = ActiveIds \cup {vaultCount}
    <3>1. DOMAIN vault' = DOMAIN vault \cup {vaultCount} /\ vault'[vaultCount] = payload
      BY <2>1 DEF Saved
    <3>2. \A i \in DOMAIN vault : vault'[i] = vault[i]
      BY <2>1, <2>3 DEF Saved
    <3>3. payload.active
      BY DEF payload
    <3> QED BY <2>3, <3>1, <3>2, <3>3 DEF ActiveIds
  <2> QED BY <2>4, <2>5 DEF ActiveSlotsExact, ActiveIds
<1>2. ASSUME NEW s \in Senders, NEW b \in Accounts, NEW seed \in Seeds,
             FulfillRandomness(s, b, seed)
      PROVE  ActiveSlotsExact'
  <2> DEFINE slot == SelectedSlot(seed)
             selected == activeMap[slot]
  <2>1. /\ activeCount > 0 /\ activeMap' = SwapAndPop(slot)
        /\ vault' = [vault EXCEPT ![selected] = Retired(@)]
    BY <1>2 DEF FulfillRandomness, Selects
  <2>2. /\ activeCount \in Nat /\ DOMAIN vault = 0 .. vaultCount - 1
        /\ activeMap \in [0 .. activeCount - 1 -> 0 .. vaultCount - 1]
    BY DEF TypeOK
  <2>3. slot \in 0 .. activeCount - 1 /\ selected \in DOMAIN vault
    BY <2>1, <2>2, SelectedSlotRange, ConfigAssumption
  <2>4. IsInjective(activeMap') /\ Range(activeMap') = Range(activeMap) \ {selected}
    BY <2>1, <2>2, <2>3, SwapAndPopRange DEF ActiveSlotsExact
  <2>5. ActiveIds' = ActiveIds \ {selected}
    <3>1. DOMAIN vault' = DOMAIN vault /\ vault'[selected] = Retired(vault[selected])
      BY <2>1, <2>3
    <3>2. \A i \in DOMAIN vault : i # selected => vault'[i] = vault[i]
      BY <2>1
    <3>3. ~Retired(vault[selected]).active
      BY DEF Retired
    <3> HIDE DEF selected
    <3> QED BY <3>1, <3>2, <3>3 DEF ActiveIds
  <2> QED BY <2>4, <2>5 DEF ActiveSlotsExact, ActiveIds
<1>3. ASSUME UNCHANGED <<activeMap, vault>> PROVE ActiveSlotsExact'
  BY <1>3 DEF ActiveSlotsExact
<1>4. NextBlock => UNCHANGED <<activeMap, vault>>
  BY DEF NextBlock, slots, registry
<1>5. ASSUME NEW b \in Senders
      PROVE  BurnAndRequest(b) \/ RecoverOracleTimeout(b) => UNCHANGED <<activeMap, vault>>
  BY DEF BurnAndRequest, RecoverOracleTimeout, slots, registry
<1>6. ASSUME NEW s \in Senders, TokenTx(s) PROVE UNCHANGED <<activeMap, vault>>
  BY <1>6, TokenTxFrame DEF ExchangeUnchanged
<1>7. UNCHANGED vars => UNCHANGED <<activeMap, vault>>
  BY DEF vars, slots, registry
<1> QED BY <1>1, <1>2, <1>3, <1>4, <1>5, <1>6, <1>7 DEF Next, ExchangeTx

\* The slots 0..ACTIVE_PAYLOAD_COUNT-1 hold every active payload exactly once,
\* whatever deposits and swap-and-pops came before: no payload is lost to the
\* selection and none can be selected twice.
THEOREM ActiveSlotsAlwaysExact == Spec => []ActiveSlotsExact
<1>1. Init => ActiveSlotsExact
  BY DEF Init, ActiveSlotsExact, IsInjective, Range
<1> QED BY <1>1, TypeCorrect, StepActiveSlots, PTL DEF Spec

================================================================================
