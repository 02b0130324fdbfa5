------------------------------ MODULE RareBullet ------------------------------
(***************************************************************************)
(* The data-exchange contract (bulletproof-contract/src/contract.rs).      *)
(*                                                                         *)
(* A seller deposits an encrypted payload with a range proof and gets one  *)
(* range token.  A holder burns one token and asks for a payload; the      *)
(* oracle's answer picks one of the active payloads at random.  A buyer    *)
(* whom the oracle leaves without an answer takes the token back.          *)
(*                                                                         *)
(* Transactions execute one at a time, each in a block; one that returns   *)
(* an error is reverted as a whole.  So an action below is a transaction   *)
(* that succeeds, its guard the conjunction of the checks the handler      *)
(* makes before its first irreversible effect.                             *)
(***************************************************************************)
EXTENDS Integers, Sequences, FiniteSets, Functions, Bulletproof, Cw20

CONSTANTS
    Accounts,         \* the addresses that hold tokens
    Contract,         \* the address of this contract; it sends nothing
    Receivers,        \* the contracts that accept a cw20 Send (an AMM, say)
    OracleAddress,    \* the relayer's address, or None
    None,             \* Rust's Option::None
    MinVaultDepth,    \* k: config.min_vault_depth
    FallbackTimeout,  \* config.fallback_timeout_blocks
    OracleTimeout,    \* config.oracle_timeout_blocks
    OneToken,         \* ONE_TOKEN, in base units
    U64Max,           \* 2^64 - 1; arithmetic past it aborts the transaction
    DepositMsgs,      \* the Deposit messages that may be sent
    Seeds,            \* the numbers the oracle may send as random_seed
    Amounts,          \* the amounts token holders move, in base units
    Expiries,         \* the heights a holder may let an allowance expire at
    InitHeight,       \* the height the contract is instantiated at
    MaxAllowance,     \* bound: no allowance is raised above this amount
    MaxHeight         \* bound: no block is produced after this one

ASSUME ConfigAssumption ==
    /\ Contract \in Accounts /\ Receivers \subseteq Accounts \ {Contract}
    /\ OracleAddress \in Accounts \cup {None}
    /\ None \notin Accounts /\ None \notin Nat
    /\ MinVaultDepth \in Nat /\ FallbackTimeout \in Nat /\ OracleTimeout \in Nat
    /\ OneToken \in Nat \ {0} /\ U64Max \in Nat /\ Never \in Nat
    /\ Seeds \subseteq Nat /\ Amounts \subseteq Nat \ {0} /\ Expiries \subseteq Nat
    /\ InitHeight \in Nat /\ MaxHeight \in Nat /\ MaxAllowance \in Nat
    /\ InitHeight <= MaxHeight /\ MaxHeight < Never

ASSUME AccountsFinite == IsFiniteSet(Accounts)

ASSUME MessageAssumption == \A m \in DepositMsgs : m.commitment_hex \in CommitmentStrings

VARIABLES
    height,           \* env.block.height
    vault,            \* VAULT: payload id -> Payload
    vaultCount,       \* VAULT_COUNT
    activeMap,        \* ACTIVE_PAYLOAD_MAP: slot -> payload id
    activeCount,      \* ACTIVE_PAYLOAD_COUNT
    claimed,          \* CLAIMED_PAYLOADS: the ids each account has claimed
    usedCommitments,  \* USED_COMMITMENTS, a set of strings
    usedNullifiers,   \* USED_NULLIFIERS
    starvationStart,  \* STARVATION_START_HEIGHT
    pending,          \* PENDING_REQUESTS: buyer -> request
    balance,          \* cw20 balances
    totalSupply,      \* cw20 TOKEN_INFO.total_supply
    allowance         \* cw20 ALLOWANCES: <<owner, spender>> -> Allowance

registry == <<vault, vaultCount, usedCommitments, usedNullifiers>>
slots == <<activeMap, activeCount, starvationStart>>
claims == <<claimed, pending>>
token == <<balance, totalSupply, allowance>>
vars == <<height, registry, slots, claims, token>>

--------------------------------------------------------------------------------
(***************************************************************************)
(* Types.  A payload keeps the hash of its proof, which stands for the     *)
(* proof itself.  Its two opaque identifiers are not modelled.             *)
(***************************************************************************)

Senders == Accounts \ {Contract}

Payload == [proof: {m.proof : m \in DepositMsgs}, depositor: Accounts, active: BOOLEAN]

PendingRequest == [range_bucket_id: Nat, request_height: Nat]

--------------------------------------------------------------------------------
(***************************************************************************)
(* The contract's storage: Map::save, Map::remove and the u64 sums.        *)
(***************************************************************************)

Saved(map, key, value) ==
    [x \in DOMAIN map \cup {key} |-> IF x = key THEN value ELSE map[x]]

Removed(map, key) == [x \in DOMAIN map \ {key} |-> map[x]]

\* A faulty variant of Marked: an Item in place of the Map, which keeps the last.
MarkedLast(keys, key) == {key}

\* A save into a table of flags, as the set of its keys.
Marked(keys, key) == keys \cup {key}

\* A faulty variant of Elapsed, one block early (see the variants below).
ElapsedEarly(start, delay) == start + delay <= U64Max /\ height + 1 >= start + delay

\* height >= start + delay, where the sum must fit in a u64.
Elapsed(start, delay) == start + delay <= U64Max /\ height >= start + delay

--------------------------------------------------------------------------------

Init ==
    /\ height = InitHeight
    /\ vault = [i \in {} |-> None] /\ vaultCount = 0
    /\ activeMap = [i \in {} |-> 0] /\ activeCount = 0
    /\ claimed = [a \in Accounts |-> <<>>]
    /\ usedCommitments = {} /\ usedNullifiers = {}
    /\ starvationStart = None
    /\ pending = [a \in {} |-> None]
    /\ balance = [a \in Accounts |-> 0] /\ totalSupply = 0
    /\ allowance = [p \in Accounts \X Accounts |-> NoAllowance]

(***************************************************************************)
(* Faulty variants of operators below.  No action uses them: putting one   *)
(* in its original's place shows that a property notices the mistake.      *)
(***************************************************************************)

\* The tracker survives a healthy depth; it starts afresh on every update.
TrackNeverCleared(depth) ==
    IF depth < MinVaultDepth /\ starvationStart = None THEN height ELSE starvationStart
TrackRestarting(depth) == IF depth >= MinVaultDepth THEN None ELSE height

\* The fallback's clock is read as if it started now.
StarvedSinceNow == height

\* Ids are drawn from the active counter, which also goes down.
PayloadIndexFromActive == activeCount

\* A depth of k counts as starved.
StarvedAtK == activeCount <= MinVaultDepth

\* The last slot is not moved into the vacated one; that one is removed instead.
PopOnly(slot) == Removed(activeMap, activeCount - 1)
PopSlot(slot) == Removed(activeMap, slot)

\* A seed past the last slot picks the last one.
SelectedSlotClamped(seed) == IF seed < activeCount THEN seed ELSE activeCount - 1

\* A refund that leaves the request in place; one denied to a starved vault; one
\* written to the balances past the cw20 mint.
RecoverKeepingRequest(b) ==
    /\ b \in DOMAIN pending
    /\ Elapsed(pending[b].request_height, OracleTimeout)
    /\ balance' = Credit(balance, b, OneToken)
    /\ totalSupply' = totalSupply + OneToken
    /\ UNCHANGED <<height, registry, slots, claims, allowance>>
RecoverUnlessStarved(b) ==
    /\ activeCount >= MinVaultDepth
    /\ b \in DOMAIN pending
    /\ Elapsed(pending[b].request_height, OracleTimeout)
    /\ pending' = Removed(pending, b)
    /\ balance' = Credit(balance, b, OneToken)
    /\ totalSupply' = totalSupply + OneToken
    /\ UNCHANGED <<height, registry, slots, claimed, allowance>>

RecoverUncounted(b) ==
    /\ b \in DOMAIN pending
    /\ Elapsed(pending[b].request_height, OracleTimeout)
    /\ pending' = Removed(pending, b)
    /\ balance' = Credit(balance, b, OneToken)
    /\ UNCHANGED <<height, registry, slots, claimed, totalSupply, allowance>>

\* A spender's transfer that leaves the allowance as it was.
TransferFromKept(spender, owner, to, n) ==
    /\ CanSpend(allowance[<<owner, spender>>], n, height)
    /\ CanDebit(balance, owner, n)
    /\ balance' = Move(balance, owner, to, n)
    /\ UNCHANGED <<height, registry, slots, claims, totalSupply, allowance>>

--------------------------------------------------------------------------------
(***************************************************************************)
(* The starvation tracker, updated with the new depth by a deposit and by  *)
(* a fulfilment: cleared at depth k, started below it, never restarted.    *)
(***************************************************************************)
TrackStarvation(depth) ==
    IF depth >= MinVaultDepth THEN None
    ELSE IF starvationStart = None THEN height
    ELSE starvationStart

(***************************************************************************)
(* Deposit.                                                                *)
(***************************************************************************)

\* validate_nullifier: 64 lower-case hex digits.
ValidateNullifier(nullifier) == nullifier # Malformed

\* verify_oracle_signature, a stub: any string that decodes is accepted.
VerifyOracleSignature(signature) == signature # Malformed

AcceptsDeposit(s, m) ==
    /\ ValidateNullifier(m.payload_nullifier)
    /\ m.payload_nullifier \notin usedNullifiers
    /\ m.commitment_hex \notin usedCommitments
    /\ VerifyOracleSignature(m.oracle_signature)
    /\ Decode[m.commitment_hex] # Malformed
    /\ m.num_bits = NumBits
    /\ m.proof # Malformed
    /\ VerifyBulletproof(m.proof, Decode[m.commitment_hex], Contract, m.payload_nullifier, s)

\* The next id is the number of payloads ever deposited.
PayloadIndex == vaultCount

Deposit(s, m) ==
    /\ AcceptsDeposit(s, m)
    /\ usedCommitments' = Marked(usedCommitments, m.commitment_hex)
    /\ usedNullifiers' = Marked(usedNullifiers, m.payload_nullifier)
    /\ balance' = Credit(balance, s, OneToken)
    /\ totalSupply' = totalSupply + OneToken
    /\ vault' = Saved(vault, PayloadIndex, [proof |-> m.proof, depositor |-> s, active |-> TRUE])
    /\ vaultCount' = PayloadIndex + 1
    /\ activeMap' = Saved(activeMap, activeCount, PayloadIndex)
    /\ activeCount' = activeCount + 1
    /\ starvationStart' = TrackStarvation(activeCount + 1)
    /\ UNCHANGED <<height, claims, allowance>>

(***************************************************************************)
(* BurnAndRequest.  Below depth k a request needs the vault to have been   *)
(* starved for FallbackTimeout blocks.  The fail-safe that starts a        *)
(* missing tracker is kept only when the request then succeeds.            *)
(***************************************************************************)

Starved == activeCount < MinVaultDepth

StarvedSince == IF starvationStart = None THEN height ELSE starvationStart

BurnAndRequest(b) ==
    /\ OracleAddress # None
    /\ b \notin DOMAIN pending
    /\ balance[b] >= OneToken
    /\ activeCount > 0
    /\ Starved => Elapsed(StarvedSince, FallbackTimeout)
    /\ CanBurn(balance, totalSupply, b, OneToken)
    /\ starvationStart' = IF Starved THEN StarvedSince ELSE starvationStart
    /\ balance' = Debit(balance, b, OneToken)
    /\ totalSupply' = totalSupply - OneToken
    /\ pending' = Saved(pending, b, [range_bucket_id |-> activeCount, request_height |-> height])
    /\ UNCHANGED <<height, registry, activeMap, activeCount, claimed, allowance>>

(***************************************************************************)
(* FulfillRandomness: the seed picks a slot, the last slot moves into it.  *)
(***************************************************************************)

SelectedSlot(seed) == seed % activeCount

\* Every load of the selection finds its key.
Selects(seed) ==
    /\ activeCount > 0
    /\ {SelectedSlot(seed), activeCount - 1} \subseteq DOMAIN activeMap
    /\ activeMap[SelectedSlot(seed)] \in DOMAIN vault

SwapAndPop(slot) ==
    Removed([activeMap EXCEPT ![slot] = activeMap[activeCount - 1]], activeCount - 1)

Retired(p) == [proof |-> p.proof, depositor |-> p.depositor, active |-> FALSE]

FulfillRandomness(s, b, seed) ==
    /\ OracleAddress # None /\ s = OracleAddress
    /\ seed <= U64Max
    /\ b \in DOMAIN pending
    /\ Selects(seed)
    /\ LET slot == SelectedSlot(seed)
           selected == activeMap[slot]
       IN  /\ activeMap' = SwapAndPop(slot)
           /\ vault' = [vault EXCEPT ![selected] = Retired(@)]
           /\ claimed' = [claimed EXCEPT ![b] = Append(@, selected)]
    /\ activeCount' = activeCount - 1
    /\ pending' = Removed(pending, b)
    /\ starvationStart' = TrackStarvation(activeCount - 1)
    /\ UNCHANGED <<height, vaultCount, usedCommitments, usedNullifiers, token>>

(***************************************************************************)
(* RecoverOracleTimeout.                                                   *)
(***************************************************************************)

RecoverOracleTimeout(b) ==
    /\ b \in DOMAIN pending
    /\ Elapsed(pending[b].request_height, OracleTimeout)
    /\ pending' = Removed(pending, b)
    /\ balance' = Credit(balance, b, OneToken)
    /\ totalSupply' = totalSupply + OneToken
    /\ UNCHANGED <<height, registry, slots, claimed, allowance>>

(***************************************************************************)
(* The cw20 messages that execute forwards.  Burn, BurnFrom and Mint are   *)
(* not among them.  A Send also calls its recipient, which must accept it. *)
(***************************************************************************)

Transfer(s, to, n) ==
    /\ CanDebit(balance, s, n)
    /\ balance' = Move(balance, s, to, n)
    /\ UNCHANGED <<height, registry, slots, claims, totalSupply, allowance>>

Send(s, to, n) == to \in Receivers /\ Transfer(s, to, n)

IncreaseAllowance(owner, spender, n, newExpiry) ==
    /\ CanIncrease(owner, spender, newExpiry, height)
    /\ allowance[<<owner, spender>>].amount + n <= MaxAllowance
    /\ allowance' = [allowance EXCEPT ![<<owner, spender>>] = Increased(@, n, newExpiry)]
    /\ UNCHANGED <<height, registry, slots, claims, balance, totalSupply>>

DecreaseAllowance(owner, spender, n, newExpiry) ==
    /\ CanDecrease(owner, spender, allowance[<<owner, spender>>], n, newExpiry, height)
    /\ allowance' = [allowance EXCEPT ![<<owner, spender>>] = Decreased(@, n, newExpiry)]
    /\ UNCHANGED <<height, registry, slots, claims, balance, totalSupply>>

TransferFrom(spender, owner, to, n) ==
    /\ CanSpend(allowance[<<owner, spender>>], n, height)
    /\ CanDebit(balance, owner, n)
    /\ allowance' = [allowance EXCEPT ![<<owner, spender>>] = Spent(@, n)]
    /\ balance' = Move(balance, owner, to, n)
    /\ UNCHANGED <<height, registry, slots, claims, totalSupply>>

SendFrom(spender, owner, to, n) == to \in Receivers /\ TransferFrom(spender, owner, to, n)

--------------------------------------------------------------------------------

NextBlock ==
    /\ height < MaxHeight
    /\ height' = height + 1
    /\ UNCHANGED <<registry, slots, claims, token>>

\* The messages of the exchange itself.
ExchangeTx(s) ==
    \/ \E m \in DepositMsgs : Deposit(s, m)
    \/ BurnAndRequest(s)
    \/ \E b \in Accounts, seed \in Seeds : FulfillRandomness(s, b, seed)
    \/ RecoverOracleTimeout(s)

\* An optional expiry, as a set with at most one height.
NewExpiries == {{}} \cup {{e} : e \in Expiries}

TokenTx(s) ==
    \E other \in Accounts, n \in Amounts :
        \/ Transfer(s, other, n)
        \/ Send(s, other, n)
        \/ \E e \in NewExpiries :
              \/ IncreaseAllowance(s, other, n, e)
              \/ DecreaseAllowance(s, other, n, e)
        \/ \E to \in Accounts :
              \/ TransferFrom(s, other, to, n)
              \/ SendFrom(s, other, to, n)

Next ==
    \/ NextBlock
    \/ \E s \in Senders : ExchangeTx(s) \/ TokenTx(s)

Spec == Init /\ [][Next]_vars

(***************************************************************************)
(* Blocks are produced, a buyer whose oracle timeout elapsed recovers, a   *)
(* holder who may request does.  Nothing is assumed of the oracle.         *)
(***************************************************************************)
Fairness ==
    /\ WF_vars(NextBlock)
    /\ \A s \in Senders : WF_vars(RecoverOracleTimeout(s)) /\ WF_vars(BurnAndRequest(s))

--------------------------------------------------------------------------------
(***************************************************************************)
(* Invariants.                                                             *)
(***************************************************************************)

\* The storage has its types; in particular the vault has the ids
\* 0..VAULT_COUNT-1 and the active map the slots 0..ACTIVE_PAYLOAD_COUNT-1,
\* so no load of a handler misses its key.
TypeOK ==
    /\ height \in Nat
    /\ vaultCount \in Nat /\ vault \in [0 .. vaultCount - 1 -> Payload]
    /\ activeCount \in Nat /\ activeMap \in [0 .. activeCount - 1 -> 0 .. vaultCount - 1]
    /\ claimed \in [Accounts -> Seq(0 .. vaultCount - 1)]
    /\ usedCommitments \subseteq CommitmentStrings
    /\ usedNullifiers \subseteq {m.payload_nullifier : m \in DepositMsgs}
    /\ starvationStart \in Nat \cup {None}
    /\ DOMAIN pending \subseteq Senders /\ pending \in [DOMAIN pending -> PendingRequest]
    /\ balance \in [Accounts -> Nat] /\ totalSupply \in Nat
    /\ allowance \in [Accounts \X Accounts -> Allowance]

\* The swap-and-pop index lists every active payload once and no other: each
\* of them can be selected.
ActiveSlotsExact ==
    /\ IsInjective(activeMap)
    /\ Range(activeMap) = {i \in DOMAIN vault : vault[i].active}

\* The seeds that would pick the payload p now.
SeedsFor(p) == {seed \in 0 .. U64Max : Selects(seed) /\ activeMap[SelectedSlot(seed)] = p}

\* A uniform seed makes a uniform draw: whatever holes swap-and-pop has filled,
\* the active payloads, and no others, are each picked by some seed, and none by
\* more than one seed more than another (the count does not divide 2^64).
SelectionEven ==
    /\ \A p \in DOMAIN vault : SeedsFor(p) # {} => vault[p].active
    /\ activeCount <= U64Max => \A p \in DOMAIN vault : vault[p].active => SeedsFor(p) # {}
    /\ \A p, q \in DOMAIN vault : vault[p].active /\ vault[q].active
          => Cardinality(SeedsFor(p)) <= Cardinality(SeedsFor(q)) + 1

\* The payloads in the buyers' claims are the retired ones, and each of them is
\* in one buyer's claims, once.
ClaimedOnce ==
    /\ UNION {Range(claimed[a]) : a \in Accounts} = {i \in DOMAIN vault : ~vault[i].active}
    /\ \A a, b \in Accounts : \A i \in DOMAIN claimed[a], j \in DOMAIN claimed[b] :
          claimed[a][i] = claimed[b][j] => a = b /\ i = j

\* Every whole token in circulation and every pending request is backed by an
\* active payload of its own.
Backed == totalSupply + OneToken * Cardinality(DOMAIN pending) = OneToken * activeCount

\* So a holder of a whole token is never told that the vault is empty, wherever
\* the token came from and however many requests are pending.
NeverStranded == (\E a \in Accounts : balance[a] >= OneToken) => activeCount > 0

\* The base units in circulation, numbered in the account they are in.
Units(bal) == UNION {{a} \X (1 .. bal[a]) : a \in Accounts}

\* The cw20 ledger: no message creates or loses a base unit, counted one by one.
SupplyIsSum == Cardinality(Units(balance)) = totalSupply

\* From the first deposit on the tracker runs exactly while the depth is below
\* k, so BurnAndRequest's fail-safe never has to start it.
StarvationTracked ==
    /\ starvationStart # None <=> vaultCount > 0 /\ Starved
    /\ starvationStart # None => starvationStart <= height

\* Each payload in the vault came with a proof made for this contract by the
\* account that deposited it, of a value in the bucket; no datum is in twice.
VaultProven ==
    /\ \A i \in DOMAIN vault :
          /\ vault[i].proof.contract = Contract
          /\ vault[i].proof.sender = vault[i].depositor
          /\ InBucket(Opening[vault[i].proof.point], BucketFloor, BucketCeiling)
    /\ \A i, j \in DOMAIN vault :
          vault[i].proof.nullifier = vault[j].proof.nullifier => i = j

--------------------------------------------------------------------------------
(***************************************************************************)
(* What a step may do.                                                     *)
(***************************************************************************)

\* A request ends in one of two ways and never in both: with one more payload
\* for the buyer and no refund, or, no earlier than the oracle timeout, with
\* one token back and no payload.
ResolvesRequest(b) ==
    \/ Len(claimed'[b]) = Len(claimed[b]) + 1 /\ balance'[b] = balance[b]
    \/ /\ claimed'[b] = claimed[b] /\ balance'[b] = balance[b] + OneToken
       /\ height - pending[b].request_height >= OracleTimeout

RequestResolvedOnce ==
    [][\A b \in DOMAIN pending : b \notin DOMAIN pending' => ResolvesRequest(b)]_vars

\* While the vault stays starved no deposit, claim or request restarts the
\* clock of the fallback.
StarvationClockKept ==
    [][starvationStart # None /\ Starved /\ Starved' => starvationStart' = starvationStart]_vars

\* The vault is append-only, a payload is retired at most once, and only by
\* the step that answers a request.
VaultAppendOnly ==
    [][\A i \in DOMAIN vault :
          /\ i \in DOMAIN vault'
          /\ vault'[i] # vault[i] =>
                /\ vault[i].active /\ vault'[i] = Retired(vault[i])
                /\ \E b \in DOMAIN pending : /\ b \notin DOMAIN pending'
                                             /\ claimed'[b] = Append(claimed[b], i)]_vars

\* What a step takes from a, if anything, is covered by an allowance of a for s
\* that has not expired and is lowered by as much; no allowance of a is raised.
WithinAllowance(s, a) ==
    LET taken == balance[a] - balance'[a]
    IN  /\ taken > 0 => /\ CanSpend(allowance[<<a, s>>], taken, height)
                        /\ allowance'[<<a, s>>].amount = allowance[<<a, s>>].amount - taken
        /\ \A p \in Accounts : allowance'[<<a, p>>].amount <= allowance[<<a, p>>].amount

\* Nobody parts with tokens but by an own message or one of a spender within the
\* allowance granted: what goes beyond is no message of another account, neither
\* one of the token nor one of the exchange, which mints and burns.
TakenByConsent ==
    [][\A s \in Senders, a \in Accounts :
          s # a /\ ~WithinAllowance(s, a) => ~ExchangeTx(s) /\ ~TokenTx(s)]_vars

--------------------------------------------------------------------------------
(***************************************************************************)
(* What must happen, as far as the bound on heights lets it.               *)
(***************************************************************************)

InHorizon(start, delay) == start + delay <= MaxHeight /\ start + delay <= U64Max

\* A dead oracle cannot keep a buyer's token: every request ends.
EveryRequestEnds ==
    \A b \in Senders :
        (b \in DOMAIN pending /\ InHorizon(pending[b].request_height, OracleTimeout))
            ~> b \notin DOMAIN pending

\* A holder is not locked out of a starved vault: unless the clock is cleared by
\* new depth or the holder parts with the token, the request gets through.
StarvedVaultOpens ==
    \A b \in Senders : \A h \in {start \in InitHeight .. MaxHeight : InHorizon(start, FallbackTimeout)} :
        (starvationStart = h /\ balance[b] >= OneToken)
            ~> (b \in DOMAIN pending \/ starvationStart # h \/ balance[b] < OneToken)

================================================================================
