------------------------ MODULE RareBulletSteps_proofs ------------------------
(***************************************************************************)
(* What a transaction may do: how requests end, what restarts the clock of *)
(* the fallback, and how the vault changes.                                *)
(***************************************************************************)
EXTENDS ClaimHistory, RareBullet_proofs

\* The transactions that touch neither requests nor the vault.
LEMMA QuietSteps ==
    ASSUME TypeOK
    PROVE  /\ NextBlock => UNCHANGED <<pending, vault, activeCount, starvationStart>>
           /\ \A s \in Senders :
                 TokenTx(s) => UNCHANGED <<pending, vault, activeCount, starvationStart>>
           /\ UNCHANGED vars => UNCHANGED <<pending, vault, activeCount, starvationStart>>
<1>1. NextBlock => UNCHANGED <<pending, vault, activeCount, starvationStart>>
  BY DEF NextBlock, registry, slots, claims
<1>2. ASSUME NEW s \in Senders, TokenTx(s)
      PROVE  UNCHANGED <<pending, vault, activeCount, starvationStart>>
  BY <1>2, TokenTxFrame DEF ExchangeUnchanged
<1>3. UNCHANGED vars => UNCHANGED <<pending, vault, activeCount, starvationStart>>
  BY DEF vars, registry, slots, claims
<1> QED BY <1>1, <1>2, <1>3

--------------------------------------------------------------------------------
(***************************************************************************)
(* Requests.                                                               *)
(***************************************************************************)

\* A fulfilment ends one request, with one more payload and no refund.
LEMMA FulfilmentResolves ==
    ASSUME TypeOK, NEW s \in Senders, NEW b0 \in Accounts, NEW seed \in Seeds,
           FulfillRandomness(s, b0, seed),
           NEW b \in DOMAIN pending, b \notin DOMAIN pending'
    PROVE  ResolvesRequest(b)
<1> DEFINE selected == activeMap[SelectedSlot(seed)]
<1>1. /\ claimed' = [claimed EXCEPT ![b0] = Append(@, selected)]
      /\ pending' = Removed(pending, b0) /\ balance' = balance
      /\ activeCount > 0
  BY DEF FulfillRandomness, Selects, token
<1>2. b = b0
  BY <1>1 DEF Removed
<1>3. /\ claimed \in [Accounts -> Seq(0 .. vaultCount - 1)]
      /\ activeCount \in Nat /\ activeMap \in [0 .. activeCount - 1 -> 0 .. vaultCount - 1]
  BY DEF TypeOK
<1>4. selected \in 0 .. vaultCount - 1
  BY <1>1, <1>3, SelectedSlotRange, ConfigAssumption
<1> HIDE DEF selected
<1>5. claimed'[b] = Append(claimed[b], selected) /\ claimed[b] \in Seq(0 .. vaultCount - 1)
  BY <1>1, <1>2, <1>3
<1>6. Len(claimed'[b]) = Len(claimed[b]) + 1
  BY <1>4, <1>5
<1> QED BY <1>1, <1>6 DEF ResolvesRequest

\* A recovery ends one request, with a token and no payload, and not too early.
LEMMA RecoveryResolves ==
    ASSUME TypeOK, NEW b0 \in Senders, RecoverOracleTimeout(b0),
           NEW b \in DOMAIN pending, b \notin DOMAIN pending'
    PROVE  ResolvesRequest(b)
<1>1. /\ pending' = Removed(pending, b0) /\ claimed' = claimed
      /\ balance' = Credit(balance, b0, OneToken)
      /\ Elapsed(pending[b0].request_height, OracleTimeout)
  BY DEF RecoverOracleTimeout
<1>2. b = b0
  BY <1>1 DEF Removed
<1>3. /\ balance \in [Accounts -> Nat] /\ b0 \in Accounts
      /\ height \in Nat /\ pending[b].request_height \in Nat /\ OracleTimeout \in Nat
  BY LedgerType, SenderType, ConfigAssumption DEF TypeOK, PendingRequest
<1>4. balance'[b] = balance[b] + OneToken
  BY <1>1, <1>2, <1>3 DEF Credit
<1>5. height - pending[b].request_height >= OracleTimeout
  BY <1>1, <1>2, <1>3 DEF Elapsed
<1> QED BY <1>1, <1>4, <1>5 DEF ResolvesRequest

LEMMA StepResolves ==
    ASSUME TypeOK, [Next]_vars, NEW b \in DOMAIN pending, b \notin DOMAIN pending'
    PROVE  ResolvesRequest(b)
<1>1. pending' # pending
  OBVIOUS
<1>2. ASSUME NEW s \in Senders, NEW m \in DepositMsgs, Deposit(s, m) PROVE FALSE
  BY <1>1, <1>2 DEF Deposit, claims
<1>3. ASSUME NEW b0 \in Senders, BurnAndRequest(b0) PROVE FALSE
  BY <1>3 DEF BurnAndRequest, Saved
<1>4. ASSUME NEW s \in Senders, NEW b0 \in Accounts, NEW seed \in Seeds,
             FulfillRandomness(s, b0, seed)
      PROVE  ResolvesRequest(b)
  BY <1>4, FulfilmentResolves
<1>5. ASSUME NEW b0 \in Senders, RecoverOracleTimeout(b0) PROVE ResolvesRequest(b)
  BY <1>5, RecoveryResolves
<1> QED BY <1>1, <1>2, <1>3, <1>4, <1>5, QuietSteps DEF Next, ExchangeTx

\* Every request ends in a payload without a refund or, no earlier than the
\* oracle timeout, in a refund without a payload; nothing else ends it.
THEOREM RequestsResolveOnce == Spec => RequestResolvedOnce
<1>1. TypeOK /\ [Next]_vars
          => [\A b \in DOMAIN pending : b \notin DOMAIN pending' => ResolvesRequest(b)]_vars
  BY StepResolves
<1> QED BY <1>1, TypeCorrect, PTL DEF Spec, RequestResolvedOnce

--------------------------------------------------------------------------------
(***************************************************************************)
(* The clock of the fallback.                                              *)
(***************************************************************************)

LEMMA StepKeepsClock ==
    ASSUME TypeOK, [Next]_vars, starvationStart # None, Starved, Starved'
    PROVE  starvationStart' = starvationStart
<1>1. activeCount' < MinVaultDepth /\ MinVaultDepth \in Nat /\ activeCount \in Nat
  BY ConfigAssumption DEF Starved, TypeOK
<1>2. ASSUME NEW depth \in Int, depth < MinVaultDepth
      PROVE  TrackStarvation(depth) = starvationStart
  BY <1>1, <1>2 DEF TrackStarvation
<1>3. ASSUME NEW s \in Senders, NEW m \in DepositMsgs, Deposit(s, m)
      PROVE  starvationStart' = starvationStart
  BY <1>1, <1>2, <1>3 DEF Deposit
<1>4. ASSUME NEW b \in Senders, BurnAndRequest(b) PROVE starvationStart' = starvationStart
  BY <1>4 DEF BurnAndRequest, StarvedSince
<1>5. ASSUME NEW s \in Senders, NEW b \in Accounts, NEW seed \in Seeds,
             FulfillRandomness(s, b, seed)
      PROVE  starvationStart' = starvationStart
  BY <1>1, <1>2, <1>5 DEF FulfillRandomness
<1>6. ASSUME NEW b \in Senders, RecoverOracleTimeout(b)
      PROVE  starvationStart' = starvationStart
  BY <1>6 DEF RecoverOracleTimeout, slots
<1> QED BY <1>3, <1>4, <1>5, <1>6, QuietSteps DEF Next, ExchangeTx

\* No message that leaves the vault below depth k moves the height its
\* starvation is counted from.
THEOREM StarvationClockAlwaysKept == Spec => StarvationClockKept
<1>1. TypeOK /\ [Next]_vars
          => [starvationStart # None /\ Starved /\ Starved'
                  => starvationStart' = starvationStart]_vars
  BY StepKeepsClock
<1> QED BY <1>1, TypeCorrect, PTL DEF Spec, StarvationClockKept

\* The fail-safe of BurnAndRequest never writes: a request finds the tracker
\* running whenever the vault is below depth k.
THEOREM FailSafeIsDead ==
    Spec => [][\A b \in Senders : BurnAndRequest(b) => UNCHANGED starvationStart]_vars
<1>1. ASSUME TypeOK, StarvationTracked, NEW b \in Senders, BurnAndRequest(b)
      PROVE  UNCHANGED starvationStart
  <2>1. vaultCount > 0
    BY <1>1, ActiveNeedsVault DEF BurnAndRequest
  <2> QED BY <1>1, <2>1 DEF BurnAndRequest, StarvedSince, StarvationTracked
<1>2. TypeOK /\ StarvationTracked
          => [\A b \in Senders : BurnAndRequest(b) => UNCHANGED starvationStart]_vars
  BY <1>1
<1> QED BY <1>2, TypeCorrect, StarvationAlwaysTracked, PTL DEF Spec

--------------------------------------------------------------------------------
(***************************************************************************)
(* What the clock is for, with the history variable of ClaimHistory.       *)
(***************************************************************************)

\* The history variable restrains no step.
LEMMA HistoryIsSpec == HistorySpec => Spec
<1>1. HistoryInit => Init
  BY DEF HistoryInit
<1>2. [HistoryNext]_<<vars, lastDeep>> => [Next]_vars
  BY DEF HistoryNext
<1> QED BY <1>1, <1>2, PTL DEF HistorySpec, Spec

\* The tracker never starts before the vault last was at depth k.
ClockAfterDepth ==
    /\ lastDeep \in Nat /\ lastDeep <= height
    /\ starvationStart # None => lastDeep <= starvationStart

\* What a message may leave of the tracker: kept, stopped or, unless it runs,
\* started in this very block.
Updated == {starvationStart, None} \cup IF starvationStart = None THEN {height} ELSE {}

LEMMA ClockSteps ==
    ASSUME TypeOK, [Next]_vars
    PROVE  /\ starvationStart' \in Updated
           /\ height' >= height
<1>1. height \in Nat
  BY DEF TypeOK
<1>2. \A depth : TrackStarvation(depth) \in Updated
  BY DEF TrackStarvation, Updated
<1>3. CASE NextBlock
  BY <1>1, <1>3 DEF NextBlock, slots, Updated
<1>4. ASSUME NEW s \in Senders, NEW m \in DepositMsgs, Deposit(s, m)
      PROVE  starvationStart' \in Updated /\ height' = height
  BY <1>2, <1>4 DEF Deposit
<1>5. ASSUME NEW b \in Senders, BurnAndRequest(b)
      PROVE  starvationStart' \in Updated /\ height' = height
  BY <1>5 DEF BurnAndRequest, StarvedSince, Updated
<1>6. ASSUME NEW s \in Senders, NEW b \in Accounts, NEW seed \in Seeds,
             FulfillRandomness(s, b, seed)
      PROVE  starvationStart' \in Updated /\ height' = height
  BY <1>2, <1>6 DEF FulfillRandomness
<1>7. ASSUME NEW b \in Senders, RecoverOracleTimeout(b)
      PROVE  UNCHANGED <<starvationStart, height>>
  BY <1>7 DEF RecoverOracleTimeout, slots
<1>8. ASSUME NEW s \in Senders, TokenTx(s) PROVE UNCHANGED <<starvationStart, height>>
  BY <1>8, TokenTxFrame DEF ExchangeUnchanged
<1>9. UNCHANGED vars => UNCHANGED <<starvationStart, height>>
  BY DEF vars, slots
<1>10. starvationStart \in Updated
  BY DEF Updated
<1> QED BY <1>1, <1>3, <1>4, <1>5, <1>6, <1>7, <1>8, <1>9, <1>10
       DEF Next, ExchangeTx

LEMMA StepClockAfterDepth ==
    ASSUME TypeOK, TypeOK', StarvationTracked, ClockAfterDepth,
           [HistoryNext]_<<vars, lastDeep>>
    PROVE  ClockAfterDepth'
<1>1. /\ height \in Nat /\ height' \in Nat /\ height # None
      /\ starvationStart \in Nat \cup {None} /\ None \notin Nat
  BY ConfigAssumption DEF TypeOK
<1>2. CASE UNCHANGED <<vars, lastDeep>>
  BY <1>2 DEF ClockAfterDepth, vars, slots
<1>3. CASE HistoryNext
  <2>1. starvationStart' \in {starvationStart, None, height} /\ height' >= height
    BY <1>3, ClockSteps DEF HistoryNext, Updated
  <2>2. lastDeep' \in {height, lastDeep} /\ lastDeep' \in Nat /\ lastDeep' <= height
    BY <1>1, <1>3 DEF HistoryNext, ClockAfterDepth
  <2>3. starvationStart # None => lastDeep' = lastDeep
    BY <1>3 DEF HistoryNext, StarvationTracked
  <2>4. starvationStart' # None => lastDeep' <= starvationStart'
    BY <1>1, <2>1, <2>2, <2>3 DEF ClockAfterDepth
  <2> QED BY <1>1, <2>1, <2>2, <2>4 DEF ClockAfterDepth
<1> QED BY <1>2, <1>3

LEMMA StepBypass ==
    ASSUME TypeOK, StarvationTracked, ClockAfterDepth, [Next]_vars,
           NEW b \in DOMAIN pending' \ DOMAIN pending, Starved
    PROVE  height - lastDeep >= FallbackTimeout
<1>1. pending' # pending
  OBVIOUS
<1>2. ASSUME NEW s \in Senders, NEW m \in DepositMsgs, Deposit(s, m) PROVE FALSE
  BY <1>1, <1>2 DEF Deposit, claims
<1>3. ASSUME NEW b0, pending' = Removed(pending, b0) PROVE FALSE
  BY <1>3 DEF Removed
<1>4. ASSUME NEW s \in Senders, NEW b0 \in Accounts, NEW seed \in Seeds,
             FulfillRandomness(s, b0, seed)
      PROVE  FALSE
  BY <1>3, <1>4 DEF FulfillRandomness
<1>5. ASSUME NEW b0 \in Senders, RecoverOracleTimeout(b0) PROVE FALSE
  BY <1>3, <1>5 DEF RecoverOracleTimeout
<1>6. ASSUME NEW b0 \in Senders, BurnAndRequest(b0)
      PROVE  height - lastDeep >= FallbackTimeout
  <2>1. activeCount > 0 /\ Elapsed(StarvedSince, FallbackTimeout)
    BY <1>6 DEF BurnAndRequest
  <2>2. starvationStart # None
    BY <2>1, ActiveNeedsVault DEF StarvationTracked
  <2>3. lastDeep <= starvationStart /\ height >= starvationStart + FallbackTimeout
    BY <2>1, <2>2 DEF ClockAfterDepth, Elapsed, StarvedSince
  <2>4. /\ lastDeep \in Nat /\ height \in Nat /\ starvationStart \in Nat
        /\ FallbackTimeout \in Nat
    BY <2>2, ConfigAssumption DEF ClockAfterDepth, TypeOK
  <2> QED BY <2>3, <2>4
<1> QED BY <1>1, <1>2, <1>4, <1>5, <1>6, QuietSteps DEF Next, ExchangeTx

\* A request below depth k is made only when the vault has been below k without
\* interruption for FallbackTimeout blocks, whatever restarted or kept its clock.
THEOREM BypassAlwaysNeedsStarvation == HistorySpec => BypassNeedsStarvation
<1>1. HistoryInit => ClockAfterDepth
  BY ConfigAssumption DEF HistoryInit, Init, ClockAfterDepth
<1>2. /\ TypeOK /\ TypeOK' /\ StarvationTracked /\ ClockAfterDepth
      /\ [HistoryNext]_<<vars, lastDeep>>
      => ClockAfterDepth'
  BY StepClockAfterDepth
<1>3. /\ TypeOK /\ StarvationTracked /\ ClockAfterDepth /\ [HistoryNext]_<<vars, lastDeep>>
      => [\A b \in DOMAIN pending' \ DOMAIN pending :
             Starved => height - lastDeep >= FallbackTimeout]_<<vars, lastDeep>>
  BY StepBypass DEF HistoryNext
<1> QED BY <1>1, <1>2, <1>3, HistoryIsSpec, TypeCorrect, StarvationAlwaysTracked, PTL
        DEF HistorySpec, BypassNeedsStarvation

\* Nor does it start later: the block that starts it is the last in which the
\* vault was at depth k.
ClockFromDepth == starvationStart # None => starvationStart <= lastDeep

LEMMA StepClockFromDepth ==
    ASSUME TypeOK, TypeOK', StarvationTracked, ClockFromDepth,
           [HistoryNext]_<<vars, lastDeep>>
    PROVE  ClockFromDepth'
<1>1. /\ height \in Nat /\ height # None
      /\ starvationStart \in Nat \cup {None} /\ None \notin Nat
  BY ConfigAssumption DEF TypeOK
<1>2. CASE UNCHANGED <<vars, lastDeep>>
  BY <1>2 DEF ClockFromDepth, vars, slots
<1>3. CASE HistoryNext
  <2>1. starvationStart' \in Updated
    BY <1>3, ClockSteps DEF HistoryNext
  <2>2. CASE starvationStart = None
    <3>1. lastDeep' = height
      BY <1>1, <1>3, <2>2 DEF HistoryNext, StarvationTracked, Starved, TypeOK
    <3> QED BY <1>1, <2>1, <2>2, <3>1 DEF ClockFromDepth, Updated
  <2>3. CASE starvationStart # None
    <3>1. lastDeep' = lastDeep
      BY <1>3, <2>3 DEF HistoryNext, StarvationTracked
    <3> QED BY <2>1, <2>3, <3>1 DEF ClockFromDepth, Updated
  <2> QED BY <2>2, <2>3
<1> QED BY <1>2, <1>3

\* The gate of a vault in use that has been below k for FallbackTimeout blocks.
FallbackOnTime ==
    vaultCount > 0 /\ Starved /\ Elapsed(lastDeep, FallbackTimeout)
        => Elapsed(StarvedSince, FallbackTimeout)

\* It is open: nothing that happened meanwhile has put the opening off.
THEOREM FallbackAlwaysOnTime == HistorySpec => []FallbackOnTime
<1>1. HistoryInit => ClockAfterDepth /\ ClockFromDepth
  BY ConfigAssumption DEF HistoryInit, Init, ClockAfterDepth, ClockFromDepth
<1>2. /\ TypeOK /\ TypeOK' /\ StarvationTracked /\ ClockAfterDepth
      /\ [HistoryNext]_<<vars, lastDeep>>
      => ClockAfterDepth'
  BY StepClockAfterDepth
<1>3. /\ TypeOK /\ TypeOK' /\ StarvationTracked /\ ClockFromDepth
      /\ [HistoryNext]_<<vars, lastDeep>>
      => ClockFromDepth'
  BY StepClockFromDepth
<1>4. TypeOK /\ StarvationTracked /\ ClockAfterDepth /\ ClockFromDepth => FallbackOnTime
  <2> SUFFICES ASSUME TypeOK, StarvationTracked, ClockAfterDepth, ClockFromDepth,
                      vaultCount > 0, Starved, Elapsed(lastDeep, FallbackTimeout)
               PROVE  Elapsed(StarvedSince, FallbackTimeout)
    BY DEF FallbackOnTime
  <2>1. starvationStart # None
    BY DEF StarvationTracked
  <2>2. starvationStart = lastDeep
    BY <2>1 DEF ClockAfterDepth, ClockFromDepth, TypeOK
  <2> QED BY <2>1, <2>2 DEF StarvedSince
<1> QED BY <1>1, <1>2, <1>3, <1>4, HistoryIsSpec, TypeCorrect, StarvationAlwaysTracked, PTL
        DEF HistorySpec

--------------------------------------------------------------------------------
(***************************************************************************)
(* The vault.                                                              *)
(***************************************************************************)

\* The payload i is still there and, if it changed, was retired for a buyer.
OnlyRetired(i) ==
    /\ i \in DOMAIN vault'
    /\ vault'[i] # vault[i] =>
          /\ vault[i].active /\ vault'[i] = Retired(vault[i])
          /\ \E b \in DOMAIN pending : /\ b \notin DOMAIN pending'
                                       /\ claimed'[b] = Append(claimed[b], i)

\* A fulfilment retires the payload it selects, which was active because the
\* index holds no other.
LEMMA FulfilmentRetires ==
    ASSUME TypeOK, ActiveSlotsExact, NEW s \in Senders, NEW b \in Accounts, NEW seed \in Seeds,
           FulfillRandomness(s, b, seed), NEW i \in DOMAIN vault
    PROVE  OnlyRetired(i)
<1> DEFINE slot == SelectedSlot(seed)
           selected == activeMap[slot]
<1>1. /\ vault' = [vault EXCEPT ![selected] = Retired(@)]
      /\ claimed' = [claimed EXCEPT ![b] = Append(@, selected)]
      /\ pending' = Removed(pending, b) /\ b \in DOMAIN pending
      /\ activeCount > 0
  BY DEF FulfillRandomness, Selects
<1>2. /\ activeCount \in Nat /\ activeMap \in [0 .. activeCount - 1 -> 0 .. vaultCount - 1]
      /\ DOMAIN claimed = Accounts
  BY DEF TypeOK
<1>3. slot \in DOMAIN activeMap
  BY <1>1, <1>2, SelectedSlotRange, ConfigAssumption
<1>4. vault[selected].active
  BY <1>3 DEF ActiveSlotsExact, Range
<1>5. b \notin DOMAIN pending'
  BY <1>1 DEF Removed
<1> HIDE DEF selected
<1>6. i \in DOMAIN vault' /\ (i # selected => vault'[i] = vault[i])
  BY <1>1
<1>7. vault'[selected] = Retired(vault[selected]) \/ i # selected
  BY <1>1
<1>8. claimed'[b] = Append(claimed[b], selected)
  BY <1>1, <1>2
<1> QED BY <1>1, <1>4, <1>5, <1>6, <1>7, <1>8 DEF OnlyRetired

LEMMA StepOnlyRetires ==
    ASSUME TypeOK, ActiveSlotsExact, [Next]_vars, NEW i \in DOMAIN vault
    PROVE  OnlyRetired(i)
<1>1. vault' = vault => OnlyRetired(i)
  BY DEF OnlyRetired
<1>2. ASSUME NEW s \in Senders, NEW m \in DepositMsgs, Deposit(s, m) PROVE OnlyRetired(i)
  <2> DEFINE payload == [proof |-> m.proof, depositor |-> s, active |-> TRUE]
  <2>1. vault' = Saved(vault, vaultCount, payload)
    BY <1>2 DEF Deposit, PayloadIndex
  <2> HIDE DEF payload
  <2>2. i # vaultCount
    BY DEF TypeOK
  <2>3. i \in DOMAIN vault' /\ vault'[i] = vault[i]
    BY <2>1, <2>2 DEF Saved
  <2> QED BY <2>3 DEF OnlyRetired
<1>3. ASSUME NEW b \in Senders
      PROVE  BurnAndRequest(b) \/ RecoverOracleTimeout(b) => vault' = vault
  BY DEF BurnAndRequest, RecoverOracleTimeout, registry
<1>4. ASSUME NEW s \in Senders, NEW b \in Accounts, NEW seed \in Seeds,
             FulfillRandomness(s, b, seed)
      PROVE  OnlyRetired(i)
  BY <1>4, FulfilmentRetires
<1> QED BY <1>1, <1>2, <1>3, <1>4, QuietSteps DEF Next, ExchangeTx

\* No payload ever leaves the vault or changes but by being retired, once, by
\* the very step that gives it to a buyer whose request ends with it.
THEOREM VaultAlwaysAppendOnly == Spec => VaultAppendOnly
<1>1. TypeOK /\ ActiveSlotsExact /\ [Next]_vars
          => [\A i \in DOMAIN vault :
                 /\ i \in DOMAIN vault'
                 /\ vault'[i] # vault[i] =>
                       /\ vault[i].active /\ vault'[i] = Retired(vault[i])
                       /\ \E b \in DOMAIN pending : /\ b \notin DOMAIN pending'
                                                    /\ claimed'[b] = Append(claimed[b], i)]_vars
  BY StepOnlyRetires DEF OnlyRetired
<1> QED BY <1>1, TypeCorrect, ActiveSlotsAlwaysExact, PTL DEF Spec, VaultAppendOnly

================================================================================
