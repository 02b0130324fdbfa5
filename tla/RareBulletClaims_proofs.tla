------------------------ MODULE RareBulletClaims_proofs ------------------------
(***************************************************************************)
(* What the buyers got: each retired payload is in one buyer's claims, and *)
(* the contract implements Claims.                                         *)
(***************************************************************************)
EXTENDS RareBulletClaims, RareBullet_proofs

\* Appending adds one element at a new last place.
LEMMA AppendProperties ==
    ASSUME NEW S, NEW s \in Seq(S), NEW x \in S
    PROVE  /\ DOMAIN Append(s, x) = DOMAIN s \cup {Len(s) + 1}
           /\ Len(s) + 1 \notin DOMAIN s
           /\ Append(s, x)[Len(s) + 1] = x
           /\ \A i \in DOMAIN s : Append(s, x)[i] = s[i]
<1>1. Len(s) \in Nat /\ DOMAIN s = 1 .. Len(s)
  OBVIOUS
<1>2. DOMAIN Append(s, x) = 1 .. Len(s) + 1
  OBVIOUS
<1>3. 1 .. Len(s) + 1 = (1 .. Len(s)) \cup {Len(s) + 1}
  BY <1>1
<1>4. Append(s, x)[Len(s) + 1] = x /\ \A i \in 1 .. Len(s) : Append(s, x)[i] = s[i]
  BY <1>1
<1> QED BY <1>1, <1>2, <1>3, <1>4

LEMMA AppendRange ==
    ASSUME NEW S, NEW s \in Seq(S), NEW x \in S
    PROVE  Range(Append(s, x)) = Range(s) \cup {x}
<1> DEFINE new == Append(s, x)
           last == Len(s) + 1
<1>1. /\ DOMAIN new = DOMAIN s \cup {last}
      /\ new[last] = x /\ \A i \in DOMAIN s : new[i] = s[i]
  BY AppendProperties
<1> HIDE DEF new, last
<1>2. Range(new) = Range(s) \cup {x}
  BY <1>1 DEF Range
<1> QED BY <1>2 DEF new

\* In particular of a buyer's claims.
LEMMA ClaimsRange ==
    ASSUME TypeOK, NEW b \in Accounts, NEW id \in 0 .. vaultCount - 1
    PROVE  Range(Append(claimed[b], id)) = Range(claimed[b]) \cup {id}
<1> DEFINE ids == 0 .. vaultCount - 1
           old == claimed[b]
<1>1. old \in Seq(ids) /\ id \in ids
  BY DEF TypeOK
<1> HIDE DEF ids, old
<1>2. Range(Append(old, id)) = Range(old) \cup {id}
  BY <1>1, AppendRange
<1> QED BY <1>2 DEF old

--------------------------------------------------------------------------------
(***************************************************************************)
(* What the steps do to the index and the claims.                          *)
(***************************************************************************)

\* A deposit puts a new id into the index.
LEMMA DepositIndexes ==
    ASSUME TypeOK, ActiveSlotsExact, NEW s \in Senders, NEW m \in DepositMsgs, Deposit(s, m)
    PROVE  /\ Range(activeMap') = Range(activeMap) \cup {vaultCount}
           /\ vaultCount \notin Range(activeMap)
           /\ DOMAIN vault' = DOMAIN vault \cup {vaultCount} /\ vaultCount \notin DOMAIN vault
           /\ vault'[vaultCount].active
           /\ \A i \in DOMAIN vault : vault'[i] = vault[i]
<1> DEFINE payload == [proof |-> m.proof, depositor |-> s, active |-> TRUE]
<1>1. activeMap' = Saved(activeMap, activeCount, vaultCount) /\ vault' = Saved(vault, vaultCount, payload)
  BY DEF Deposit, PayloadIndex
<1>2. /\ vaultCount \in Nat /\ activeCount \in Nat /\ DOMAIN vault = 0 .. vaultCount - 1
      /\ activeMap \in [0 .. activeCount - 1 -> 0 .. vaultCount - 1]
      /\ DOMAIN activeMap = 0 .. activeCount - 1
  BY DEF TypeOK
<1>3. vaultCount \notin Range(activeMap) /\ vaultCount \notin DOMAIN vault
  BY <1>2 DEF Range
<1>4. IsInjective(activeMap)
  BY DEF ActiveSlotsExact
<1>5. payload.active
  OBVIOUS
<1> HIDE DEF payload
<1>6. Range(activeMap') = Range(activeMap) \cup {vaultCount}
  BY <1>1, <1>2, <1>3, <1>4, AppendSlot
<1>7. /\ DOMAIN vault' = DOMAIN vault \cup {vaultCount} /\ vault'[vaultCount] = payload
      /\ \A i \in DOMAIN vault : vault'[i] = vault[i]
  BY <1>1, <1>3 DEF Saved
<1> QED BY <1>3, <1>5, <1>6, <1>7

\* A fulfilment moves an active id out of the index into the buyer's claims.
LEMMA FulfilmentMoves ==
    ASSUME TypeOK, ActiveSlotsExact, NEW s \in Senders, NEW b \in Accounts, NEW seed \in Seeds,
           FulfillRandomness(s, b, seed)
    PROVE  \E id \in Range(activeMap) :
              /\ id \in DOMAIN vault /\ vault[id].active
              /\ Range(activeMap') = Range(activeMap) \ {id}
              /\ claimed' = [claimed EXCEPT ![b] = Append(@, id)]
              /\ DOMAIN vault' = DOMAIN vault /\ ~vault'[id].active
              /\ \A i \in DOMAIN vault : i # id => vault'[i] = vault[i]
<1> DEFINE slot == SelectedSlot(seed)
           selected == activeMap[slot]
<1>1. /\ activeCount > 0 /\ activeMap' = SwapAndPop(slot)
      /\ vault' = [vault EXCEPT ![selected] = Retired(@)]
      /\ claimed' = [claimed EXCEPT ![b] = Append(@, selected)]
  BY DEF FulfillRandomness, Selects
<1>2. /\ activeCount \in Nat /\ DOMAIN vault = 0 .. vaultCount - 1
      /\ activeMap \in [0 .. activeCount - 1 -> 0 .. vaultCount - 1]
      /\ IsInjective(activeMap)
  BY DEF TypeOK, ActiveSlotsExact
<1>3. slot \in 0 .. activeCount - 1
  BY <1>1, <1>2, SelectedSlotRange, ConfigAssumption
<1>4. selected \in Range(activeMap) /\ selected \in DOMAIN vault
  BY <1>2, <1>3 DEF Range
<1>5. vault[selected].active
  BY <1>4 DEF ActiveSlotsExact
<1>6. Range(activeMap') = Range(activeMap) \ {selected}
  BY <1>1, <1>2, <1>3, SwapAndPopRange
<1> HIDE DEF selected
<1>7. /\ DOMAIN vault' = DOMAIN vault /\ vault'[selected] = Retired(vault[selected])
      /\ \A i \in DOMAIN vault : i # selected => vault'[i] = vault[i]
  BY <1>1, <1>4
<1>8. ~vault'[selected].active
  BY <1>7 DEF Retired
<1> QED BY <1>1, <1>4, <1>5, <1>6, <1>7, <1>8

\* The other messages leave the index, the vault and the claims alone.
LEMMA QuietForClaims ==
    ASSUME TypeOK
    PROVE  /\ NextBlock => UNCHANGED <<activeMap, vault, claimed>>
           /\ \A b \in Senders :
                 BurnAndRequest(b) \/ RecoverOracleTimeout(b)
                     => UNCHANGED <<activeMap, vault, claimed>>
           /\ \A s \in Senders : TokenTx(s) => UNCHANGED <<activeMap, vault, claimed>>
           /\ UNCHANGED vars => UNCHANGED <<activeMap, vault, claimed>>
<1>1. NextBlock => UNCHANGED <<activeMap, vault, claimed>>
  BY DEF NextBlock, registry, slots, claims
<1>2. ASSUME NEW b \in Senders, BurnAndRequest(b) \/ RecoverOracleTimeout(b)
      PROVE  UNCHANGED <<activeMap, vault, claimed>>
  BY <1>2 DEF BurnAndRequest, RecoverOracleTimeout, registry, slots
<1>3. ASSUME NEW s \in Senders, TokenTx(s) PROVE UNCHANGED <<activeMap, vault, claimed>>
  BY <1>3, TokenTxFrame DEF ExchangeUnchanged
<1>4. UNCHANGED vars => UNCHANGED <<activeMap, vault, claimed>>
  BY DEF vars, registry, slots, claims
<1> QED BY <1>1, <1>2, <1>3, <1>4

--------------------------------------------------------------------------------
(***************************************************************************)
(* The claims.                                                             *)
(***************************************************************************)

\* i is in somebody's claims.
InClaims(i) == \E a \in Accounts : i \in Range(claimed[a])

LEMMA ClaimedOnceParts ==
    ClaimedOnce <=>
        /\ \A i : InClaims(i) <=> i \in DOMAIN vault /\ ~vault[i].active
        /\ \A a, b \in Accounts : \A i \in DOMAIN claimed[a], j \in DOMAIN claimed[b] :
              claimed[a][i] = claimed[b][j] => a = b /\ i = j
  BY DEF ClaimedOnce, InClaims

LEMMA StepClaimedOnce == TypeOK /\ ActiveSlotsExact /\ ClaimedOnce /\ [Next]_vars => ClaimedOnce'
<1> SUFFICES ASSUME TypeOK, ActiveSlotsExact, ClaimedOnce, [Next]_vars PROVE ClaimedOnce'
  OBVIOUS
<1>1. ASSUME UNCHANGED <<vault, claimed>> PROVE ClaimedOnce'
  BY <1>1 DEF ClaimedOnce
<1>2. ASSUME NEW s \in Senders, NEW m \in DepositMsgs, Deposit(s, m) PROVE ClaimedOnce'
  <2>1. claimed' = claimed
    BY <1>2 DEF Deposit, claims
  <2>2. \A i : i \in DOMAIN vault' /\ ~vault'[i].active <=> i \in DOMAIN vault /\ ~vault[i].active
    BY <1>2, DepositIndexes
  <2> QED BY <2>1, <2>2 DEF ClaimedOnce
<1>3. ASSUME NEW s \in Senders, NEW b \in Accounts, NEW seed \in Seeds,
             FulfillRandomness(s, b, seed)
      PROVE  ClaimedOnce'
  <2>1. PICK id \in Range(activeMap) :
           /\ id \in DOMAIN vault /\ vault[id].active
           /\ claimed' = [claimed EXCEPT ![b] = Append(@, id)]
           /\ DOMAIN vault' = DOMAIN vault /\ ~vault'[id].active
           /\ \A i \in DOMAIN vault : i # id => vault'[i] = vault[i]
    BY <1>3, FulfilmentMoves
  <2>2. /\ DOMAIN claimed = Accounts /\ claimed[b] \in Seq(0 .. vaultCount - 1)
        /\ id \in 0 .. vaultCount - 1
    BY <2>1 DEF TypeOK
  <2>3. /\ claimed'[b] = Append(claimed[b], id)
        /\ \A a \in Accounts : a # b => claimed'[a] = claimed[a]
    BY <2>1, <2>2
  <2>4. ~InClaims(id)
    BY <2>1, ClaimedOnceParts
  <2>5. \A i : InClaims(i)' <=> InClaims(i) \/ i = id
    <3>1. Range(Append(claimed[b], id)) = Range(claimed[b]) \cup {id}
      BY <2>2, ClaimsRange
    <3>2. Range(claimed'[b]) = Range(claimed[b]) \cup {id}
      BY <2>3, <3>1
    <3> QED BY <2>3, <3>2 DEF InClaims
  <2>6. \A i : InClaims(i)' <=> i \in DOMAIN vault' /\ ~vault'[i].active
    BY <2>1, <2>5, ClaimedOnceParts
  <2> DEFINE last == Len(claimed[b]) + 1
  <2>7. /\ DOMAIN claimed'[b] = DOMAIN claimed[b] \cup {last}
        /\ claimed'[b][last] = id
        /\ \A i \in DOMAIN claimed[b] : claimed'[b][i] = claimed[b][i]
    BY <2>2, <2>3, AppendProperties
  <2> HIDE DEF last
  <2>8. ASSUME NEW a \in Accounts, NEW i \in DOMAIN claimed'[a]
        PROVE  \/ i \in DOMAIN claimed[a] /\ claimed'[a][i] = claimed[a][i]
                  /\ claimed[a][i] # id
               \/ a = b /\ i = last /\ claimed'[a][i] = id
    BY <2>3, <2>4, <2>7 DEF InClaims, Range
  <2>9. ASSUME NEW a \in Accounts, NEW c \in Accounts,
               NEW i \in DOMAIN claimed'[a], NEW j \in DOMAIN claimed'[c],
               claimed'[a][i] = claimed'[c][j]
        PROVE  a = c /\ i = j
    BY <2>8, <2>9, ClaimedOnceParts
  <2>10. /\ \A i : InClaims(i)' <=> i \in DOMAIN vault' /\ ~vault'[i].active
         /\ \A a, c \in Accounts : \A i \in DOMAIN claimed'[a], j \in DOMAIN claimed'[c] :
               claimed'[a][i] = claimed'[c][j] => a = c /\ i = j
    BY <2>6, <2>9
  <2> QED BY <2>10 DEF ClaimedOnce, InClaims
<1> QED BY <1>1, <1>2, <1>3, QuietForClaims DEF Next, ExchangeTx

\* No payload is sold twice and none is lost on the way: the retired payloads
\* are those in the buyers' claims, each at one place of one buyer's.
THEOREM ClaimedAlwaysOnce == Spec => []ClaimedOnce
<1>1. Init => ClaimedOnce
  <2> SUFFICES ASSUME Init PROVE ClaimedOnce
    OBVIOUS
  <2>1. DOMAIN vault = {} /\ \A a \in Accounts : claimed[a] = <<>>
    BY DEF Init
  <2>2. \A a \in Accounts : DOMAIN claimed[a] = {}
    BY <2>1
  <2> QED BY <2>1, <2>2 DEF ClaimedOnce, Range
<1> QED BY <1>1, TypeCorrect, ActiveSlotsAlwaysExact, StepClaimedOnce, PTL DEF Spec

--------------------------------------------------------------------------------
(***************************************************************************)
(* The refinement: each message of the exchange is the step of the same    *)
(* meaning of Claims, every other transaction is no step of it.            *)
(***************************************************************************)

Awarded == [a \in Accounts |-> Range(claimed[a])]

\* What stutters: the token movements, the blocks.
LEMMA ClaimsStutter ==
    UNCHANGED <<activeMap, claimed, pending, totalSupply>> => UNCHANGED Desk!claimVars
  BY DEF Desk!claimVars

LEMMA DepositRegisters ==
    ASSUME TypeOK, ActiveSlotsExact, Nat \subseteq PayloadIds,
           NEW s \in Senders, NEW m \in DepositMsgs, Deposit(s, m)
    PROVE  Desk!ClaimsNext
<1>1. /\ Range(activeMap') = Range(activeMap) \cup {vaultCount}
      /\ vaultCount \notin Range(activeMap)
  BY DepositIndexes
<1>2. totalSupply' = totalSupply + OneToken /\ UNCHANGED <<claimed, pending>>
  BY DEF Deposit, claims
<1>3. vaultCount \notin UNION {Awarded[a] : a \in Accounts}
  <2>1. ASSUME NEW a \in Accounts PROVE vaultCount \notin Range(claimed[a])
    <3>1. claimed[a] \in Seq(0 .. vaultCount - 1) /\ vaultCount \in Nat
      BY DEF TypeOK
    <3>2. \A i \in DOMAIN claimed[a] : claimed[a][i] \in 0 .. vaultCount - 1
      BY <3>1
    <3> QED BY <3>1, <3>2 DEF Range
  <2> QED BY <2>1 DEF Awarded
<1>4. vaultCount \in PayloadIds
  BY DEF TypeOK
<1>5. Desk!Register(vaultCount)
  BY <1>1, <1>2, <1>3 DEF Desk!Register, Desk!Taken, Awarded
<1> QED BY <1>4, <1>5 DEF Desk!ClaimsNext

LEMMA RequestRedeems ==
    ASSUME NEW b \in Senders, BurnAndRequest(b)
    PROVE  Desk!ClaimsNext
<1>1. /\ b \notin DOMAIN pending /\ totalSupply >= OneToken
      /\ totalSupply' = totalSupply - OneToken /\ UNCHANGED <<activeMap, claimed>>
      /\ DOMAIN pending' = DOMAIN pending \cup {b}
  BY SavedProperties DEF BurnAndRequest, CanBurn
<1>2. Desk!Redeem(b)
  BY <1>1 DEF Desk!Redeem
<1> QED BY <1>2, SenderType DEF Desk!ClaimsNext

LEMMA FulfilmentAwards ==
    ASSUME TypeOK, ActiveSlotsExact, Nat \subseteq PayloadIds,
           NEW s \in Senders, NEW b \in Accounts, NEW seed \in Seeds, FulfillRandomness(s, b, seed)
    PROVE  Desk!ClaimsNext
<1>1. PICK id \in Range(activeMap) :
         /\ id \in DOMAIN vault
         /\ Range(activeMap') = Range(activeMap) \ {id}
         /\ claimed' = [claimed EXCEPT ![b] = Append(@, id)]
  BY FulfilmentMoves
<1>2. /\ b \in DOMAIN pending /\ totalSupply' = totalSupply
      /\ DOMAIN pending' = DOMAIN pending \ {b}
  BY DEF FulfillRandomness, token, Removed
<1>3. /\ DOMAIN claimed = Accounts /\ claimed[b] \in Seq(0 .. vaultCount - 1)
      /\ id \in 0 .. vaultCount - 1 /\ id \in Nat
  BY <1>1 DEF TypeOK
<1>4. Range(claimed'[b]) = Range(claimed[b]) \cup {id}
  <2>1. claimed'[b] = Append(claimed[b], id)
    BY <1>1, <1>3
  <2>2. Range(Append(claimed[b], id)) = Range(claimed[b]) \cup {id}
    BY <1>3, ClaimsRange
  <2> QED BY <2>1, <2>2
<1>5. \A a \in Accounts : a # b => claimed'[a] = claimed[a]
  BY <1>1, <1>3
<1>6. Awarded' = [Awarded EXCEPT ![b] = @ \cup {id}]
  BY <1>4, <1>5 DEF Awarded
<1>7. Desk!Award(b, id)
  BY <1>1, <1>2, <1>6 DEF Desk!Award, Awarded
<1> QED BY <1>3, <1>7 DEF Desk!ClaimsNext

LEMMA RecoveryRefunds ==
    ASSUME NEW b \in Senders, RecoverOracleTimeout(b)
    PROVE  Desk!ClaimsNext
<1>1. /\ b \in DOMAIN pending /\ totalSupply' = totalSupply + OneToken
      /\ UNCHANGED <<activeMap, claimed>>
      /\ DOMAIN pending' = DOMAIN pending \ {b}
  BY DEF RecoverOracleTimeout, slots, Removed
<1>2. Desk!Refund(b)
  BY <1>1 DEF Desk!Refund
<1> QED BY <1>2, SenderType DEF Desk!ClaimsNext

LEMMA StepImplements ==
    Nat \subseteq PayloadIds /\ TypeOK /\ ActiveSlotsExact /\ [Next]_vars
        => [Desk!ClaimsNext]_Desk!claimVars
<1> SUFFICES ASSUME Nat \subseteq PayloadIds, TypeOK, ActiveSlotsExact, [Next]_vars
             PROVE  [Desk!ClaimsNext]_Desk!claimVars
  OBVIOUS
<1>1. ASSUME NEW s \in Senders, ExchangeTx(s) PROVE Desk!ClaimsNext
  BY <1>1, DepositRegisters, RequestRedeems, FulfilmentAwards, RecoveryRefunds DEF ExchangeTx
<1>2. ASSUME NEW s \in Senders, TokenTx(s) PROVE UNCHANGED Desk!claimVars
  BY <1>2, TokenTxFrame, ClaimsStutter DEF ExchangeUnchanged
<1>3. NextBlock => UNCHANGED Desk!claimVars
  BY ClaimsStutter DEF NextBlock, slots, claims, token
<1>4. UNCHANGED vars => UNCHANGED Desk!claimVars
  BY ClaimsStutter DEF vars, slots, claims, token
<1> QED BY <1>1, <1>2, <1>3, <1>4 DEF Next

\* Every behaviour of the contract, with any messages and token movements, is a
\* behaviour of the abstract exchange.
THEOREM ContractImplementsClaims ==
    ASSUME Nat \subseteq PayloadIds
    PROVE  Spec => ImplementsClaims
<1>1. Init => Desk!ClaimsInit
  BY DEF Init, Desk!ClaimsInit, Range
<1>2. TypeOK /\ ActiveSlotsExact /\ [Next]_vars => [Desk!ClaimsNext]_Desk!claimVars
  BY StepImplements
<1> QED BY <1>1, <1>2, TypeCorrect, ActiveSlotsAlwaysExact, PTL
        DEF Spec, ImplementsClaims, Desk!ClaimsSpec

================================================================================
