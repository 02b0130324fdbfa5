--------------------------- MODULE Interface_proofs ---------------------------
(***************************************************************************)
(* How far an answer of the contract can be relied on in a later block.    *)
(***************************************************************************)
EXTENDS RareBulletVault_proofs, RareBulletSteps_proofs

--------------------------------------------------------------------------------
(***************************************************************************)
(* What later blocks leave as it was.                                      *)
(***************************************************************************)

\* Blocks only go up; data and commitments that were taken stay taken.
LEMMA OnlyGrow ==
    ASSUME TypeOK, [Next]_vars
    PROVE  /\ height' >= height
           /\ usedNullifiers \subseteq usedNullifiers'
           /\ usedCommitments \subseteq usedCommitments'
<1> USE DEF registry, vars
<1>1. height \in Nat
  BY DEF TypeOK
<1>2. CASE NextBlock
  BY <1>1, <1>2 DEF NextBlock
<1>3. ASSUME NEW s \in Senders, NEW m \in DepositMsgs, Deposit(s, m)
      PROVE  /\ height' = height /\ usedNullifiers \subseteq usedNullifiers'
             /\ usedCommitments \subseteq usedCommitments'
  BY <1>3 DEF Deposit, Marked
<1>4. ASSUME NEW b \in Senders, BurnAndRequest(b) \/ RecoverOracleTimeout(b)
      PROVE  UNCHANGED <<height, usedNullifiers, usedCommitments>>
  BY <1>4 DEF BurnAndRequest, RecoverOracleTimeout
<1>5. ASSUME NEW s \in Senders, NEW b \in Accounts, NEW seed \in Seeds,
             FulfillRandomness(s, b, seed)
      PROVE  UNCHANGED <<height, usedNullifiers, usedCommitments>>
  BY <1>5 DEF FulfillRandomness
<1>6. ASSUME NEW s \in Senders, TokenTx(s)
      PROVE  UNCHANGED <<height, usedNullifiers, usedCommitments>>
  BY <1>6, TokenTxFrame DEF ExchangeUnchanged
<1>7. UNCHANGED vars => UNCHANGED <<height, usedNullifiers, usedCommitments>>
  OBVIOUS
<1> QED BY <1>1, <1>2, <1>3, <1>4, <1>5, <1>6, <1>7 DEF Next, ExchangeTx

\* A request that is still pending is the one it was.
LEMMA RequestKept ==
    ASSUME TypeOK, [Next]_vars, NEW b \in DOMAIN pending, b \in DOMAIN pending'
    PROVE  pending'[b] = pending[b]
<1>1. ASSUME NEW b0, pending' = Removed(pending, b0) PROVE pending'[b] = pending[b]
  BY <1>1 DEF Removed
<1>2. ASSUME NEW s \in Senders, NEW m \in DepositMsgs, Deposit(s, m) PROVE pending' = pending
  BY <1>2 DEF Deposit, claims
<1>3. ASSUME NEW b0 \in Senders, BurnAndRequest(b0) PROVE pending'[b] = pending[b]
  BY <1>3 DEF BurnAndRequest, Saved
<1>4. ASSUME NEW b0 \in Senders, RecoverOracleTimeout(b0) PROVE pending'[b] = pending[b]
  BY <1>1, <1>4 DEF RecoverOracleTimeout
<1>5. ASSUME NEW s \in Senders, NEW b0 \in Accounts, NEW seed \in Seeds,
             FulfillRandomness(s, b0, seed)
      PROVE  pending'[b] = pending[b]
  BY <1>1, <1>5 DEF FulfillRandomness
<1> QED BY <1>2, <1>3, <1>4, <1>5, QuietSteps DEF Next, ExchangeTx

\* The vault loses at most one active payload in a step.
LEMMA DepthFalls ==
    ASSUME TypeOK, [Next]_vars
    PROVE  activeCount' >= activeCount - 1
<1>1. activeCount \in Nat
  BY DEF TypeOK
<1>2. ASSUME NEW s \in Senders, NEW m \in DepositMsgs, Deposit(s, m)
      PROVE  activeCount' = activeCount + 1
  BY <1>2 DEF Deposit
<1>3. ASSUME NEW b \in Senders, BurnAndRequest(b) \/ RecoverOracleTimeout(b)
      PROVE  activeCount' = activeCount
  BY <1>3 DEF BurnAndRequest, RecoverOracleTimeout, slots
<1>4. ASSUME NEW s \in Senders, NEW b \in Accounts, NEW seed \in Seeds,
             FulfillRandomness(s, b, seed)
      PROVE  activeCount' = activeCount - 1
  BY <1>4 DEF FulfillRandomness
<1> QED BY <1>1, <1>2, <1>3, <1>4, QuietSteps DEF Next, ExchangeTx

--------------------------------------------------------------------------------
(***************************************************************************)
(* Deposits.                                                               *)
(***************************************************************************)

LEMMA StepVerdict ==
    ASSUME TypeOK, [Next]_vars, NEW s \in Senders, NEW m \in DepositMsgs
    PROVE  \/ DepositReply(s, m)' = DepositReply(s, m)
           \/ DepositReply(s, m)' = Reply("NullifierAlreadyUsed")
           \/ /\ DepositReply(s, m)' = Reply("CommitmentAlreadyUsed")
              /\ DepositReply(s, m) # Reply("NullifierAlreadyUsed")
<1>1. /\ usedNullifiers \subseteq usedNullifiers'
      /\ usedCommitments \subseteq usedCommitments'
  BY OnlyGrow
<1>2. CASE ~ValidateNullifier(m.payload_nullifier)
  BY <1>2 DEF DepositReply
<1>3. CASE ValidateNullifier(m.payload_nullifier) /\ m.payload_nullifier \in usedNullifiers'
  BY <1>3 DEF DepositReply
<1>4. CASE /\ ValidateNullifier(m.payload_nullifier) /\ m.payload_nullifier \notin usedNullifiers'
           /\ m.commitment_hex \in usedCommitments'
  <2>1. DepositReply(s, m)' = Reply("CommitmentAlreadyUsed")
    BY <1>4 DEF DepositReply
  <2>2. DepositReply(s, m) # Reply("NullifierAlreadyUsed")
    BY <1>1, <1>4 DEF DepositReply, Reply, Ok
  <2> QED BY <2>1, <2>2
<1>5. CASE /\ ValidateNullifier(m.payload_nullifier) /\ m.payload_nullifier \notin usedNullifiers'
           /\ m.commitment_hex \notin usedCommitments'
  BY <1>1, <1>5 DEF DepositReply
<1> QED BY <1>2, <1>3, <1>4, <1>5

\* The answer to a deposit changes only because its datum or its commitment is
\* taken: what was refused once is refused forever.
THEOREM VerdictsAreFinal == Spec => DepositVerdictFinal
<1>1. TypeOK /\ [Next]_vars
          => [\A s \in Senders, m \in DepositMsgs :
                 \/ DepositReply(s, m)' = DepositReply(s, m)
                 \/ DepositReply(s, m)' = Reply("NullifierAlreadyUsed")
                 \/ /\ DepositReply(s, m)' = Reply("CommitmentAlreadyUsed")
                    /\ DepositReply(s, m) # Reply("NullifierAlreadyUsed")]_vars
  BY StepVerdict
<1> QED BY <1>1, TypeCorrect, PTL DEF Spec, DepositVerdictFinal

\* A fresh and well-formed deposit whose proof its sender made for this contract
\* is accepted exactly when its value is in the bucket, whatever the group order,
\* the window, the openings and the messages before it.
THEOREM AcceptsExactlyTheBucket == Spec => []AcceptedIffInBucket
<1>1. AcceptedIffInBucket
  <2> SUFFICES ASSUME NEW m \in DepositMsgs,
                      Malformed \notin {m.payload_nullifier, m.oracle_signature, m.proof,
                                        Decode[m.commitment_hex]},
                      m.num_bits = NumBits,
                      m.payload_nullifier \notin usedNullifiers,
                      m.commitment_hex \notin usedCommitments,
                      m.proof.contract = Contract, m.proof.nullifier = m.payload_nullifier,
                      m.proof.point = Decode[m.commitment_hex]
               PROVE  DepositReply(m.proof.sender, m) = Ok
                          <=> InBucket(Opening[m.proof.point], BucketFloor, BucketCeiling)
    BY DEF AcceptedIffInBucket
  <2> DEFINE point == Decode[m.commitment_hex]
  <2>1. point \in Points
    BY MessageAssumption, CommitmentAssumption
  <2>2. DepositReply(m.proof.sender, m) = Ok
            <=> VerifyBulletproof(m.proof, point, Contract, m.payload_nullifier, m.proof.sender)
    BY DEF DepositReply, ValidateNullifier, VerifyOracleSignature, Reply, Ok
  <2>3. VerifyBulletproof(m.proof, point, Contract, m.payload_nullifier, m.proof.sender)
            <=> RangesHold(Opening[point], BucketFloor, BucketCeiling)
    BY DEF VerifyBulletproof
  <2>4. /\ BucketFloor \in Nat /\ BucketCeiling \in Nat
        /\ BucketFloor < BucketCeiling /\ BucketCeiling <= Window
    BY WindowAssumption DEF BucketFloor, BucketCeiling
  <2>5. Opening[point] \in Scalars
    BY <2>1, CommitmentAssumption
  <2>6. RangesHold(Opening[point], BucketFloor, BucketCeiling)
            <=> InBucket(Opening[point], BucketFloor, BucketCeiling)
    BY <2>4, <2>5, RangesCharacteriseBucket
  <2> QED BY <2>2, <2>3, <2>6
<1> QED BY <1>1, PTL

--------------------------------------------------------------------------------
(***************************************************************************)
(* Requests.                                                               *)
(***************************************************************************)

LEMMA PendingAnswerable == TypeOK /\ Backed => AlwaysAnswerable
<1> SUFFICES ASSUME TypeOK, Backed, NEW b \in DOMAIN pending, NEW seed \in Seeds,
                    OracleAddress # None, seed <= U64Max
             PROVE  FulfillReply(OracleAddress, b, seed) = Ok
  BY DEF AlwaysAnswerable
<1>1. seed \in Nat /\ U64Max \in Nat
  BY ConfigAssumption
<1>2. ~(seed > U64Max)
  BY <1>1
<1> QED BY <1>2, PendingSelects DEF FulfillReply

\* The oracle can answer every pending request with any number of 64 bits, in
\* any order and however late: no claim before it can take its payload away.
THEOREM RequestsAlwaysAnswerable == Spec => []AlwaysAnswerable
<1> QED BY TypeCorrect, AlwaysBacked, PendingAnswerable, PTL

LEMMA StepKeepsQuote ==
    ASSUME TypeOK, [Next]_vars, NEW b \in Senders,
           RecoverReply(b).result \in {"Ok", "OracleTimeoutNotElapsed"}, b \in DOMAIN pending'
    PROVE  RecoverReply(b)' =
              IF RecoverReply(b) = Ok \/ RecoverReply(b).timeout_height <= height'
              THEN Ok ELSE NotElapsed(RecoverReply(b).timeout_height, height')
<1> DEFINE start == pending[b].request_height
           end == start + OracleTimeout
<1>1. b \in DOMAIN pending
  BY DEF RecoverReply, Reply
<1>2. /\ start \in Nat /\ OracleTimeout \in Nat /\ U64Max \in Nat
      /\ height \in Nat /\ height' \in Nat /\ height' >= height
  BY <1>1, ConfigAssumption, OnlyGrow, StepType DEF TypeOK, PendingRequest
<1>3. pending'[b].request_height = start
  BY <1>1, RequestKept
<1>4. end <= U64Max
  BY <1>1, <1>2 DEF RecoverReply, RefundHeight, Aborted, Reply
<1>5. RecoverReply(b) = IF height >= end THEN Ok ELSE NotElapsed(end, height)
  BY <1>1, <1>2, <1>4 DEF RecoverReply, RefundHeight, Elapsed
<1>6. RecoverReply(b)' = IF height' >= end THEN Ok ELSE NotElapsed(end, height')
  BY <1>2, <1>3, <1>4 DEF RecoverReply, RefundHeight, Elapsed, Reply, Ok, NotElapsed
<1>7. NotElapsed(end, height) # Ok /\ NotElapsed(end, height).timeout_height = end
  BY DEF NotElapsed, Ok, Reply
<1> HIDE DEF end
<1>8. end \in Int
  BY <1>2 DEF end
<1>9. CASE height >= end
  BY <1>2, <1>5, <1>6, <1>8, <1>9
<1>10. CASE ~(height >= end)
  BY <1>2, <1>5, <1>6, <1>7, <1>8, <1>10
<1> QED BY <1>9, <1>10

\* The height a buyer is told to wait for is the height of the refund: nobody's
\* messages move it while the request is pending.
THEOREM RefundsAsQuoted == Spec => RefundAsQuoted
<1>1. TypeOK /\ [Next]_vars
          => [\A b \in Senders :
                 LET quoted == RecoverReply(b)
                 IN  quoted.result \in {"Ok", "OracleTimeoutNotElapsed"} /\ b \in DOMAIN pending' =>
                        RecoverReply(b)' =
                           IF quoted = Ok \/ quoted.timeout_height <= height'
                           THEN Ok ELSE NotElapsed(quoted.timeout_height, height')]_vars
  BY StepKeepsQuote
<1> QED BY <1>1, TypeCorrect, PTL DEF Spec, RefundAsQuoted

LEMMA StepStaysOpen ==
    ASSUME TypeOK, StarvationTracked, [Next]_vars, TypeOK', NeverStranded',
           \A a \in Accounts : balance'[a] <= totalSupply',
           NEW b \in Senders, RequestReply(b) = Ok
    PROVE  \/ RequestReply(b)' \in {Ok, Reply("RequestAlreadyPending"), Reply("NoTokenToBurn")}
           \/ activeCount = MinVaultDepth /\ activeCount' < activeCount
<1>1. /\ OracleAddress # None /\ activeCount # 0
      /\ Starved => Elapsed(StarvedSince, FallbackTimeout)
  <2> DEFINE insufficient == [result |-> "InsufficientVaultDepth",
                              required |-> MinVaultDepth, available |-> activeCount]
  <2>1. insufficient.result = "InsufficientVaultDepth" /\ Ok.result = "Ok"
    BY DEF Ok, Reply
  <2>2. insufficient # Ok
    BY <2>1
  <2>3. /\ Reply("OracleNotConfigured") # Ok /\ NoActivePayloads # Ok
        /\ Aborted # Ok /\ Reply("RequestAlreadyPending") # Ok /\ Reply("NoTokenToBurn") # Ok
    BY DEF NoActivePayloads, Aborted, Ok, Reply
  <2>4. RequestReply(b) =
           IF OracleAddress = None THEN Reply("OracleNotConfigured")
           ELSE IF b \in DOMAIN pending THEN Reply("RequestAlreadyPending")
           ELSE IF balance[b] < OneToken THEN Reply("NoTokenToBurn")
           ELSE IF activeCount = 0 THEN NoActivePayloads
           ELSE IF Starved /\ StarvedSince + FallbackTimeout > U64Max THEN Aborted
           ELSE IF Starved /\ ~Elapsed(StarvedSince, FallbackTimeout) THEN insufficient
           ELSE IF CanBurn(balance, totalSupply, b, OneToken) THEN Ok ELSE Reply("Cw20")
    BY DEF RequestReply
  <2> HIDE DEF insufficient
  <2> QED BY <2>2, <2>3, <2>4
<1>2. /\ activeCount \in Nat /\ activeCount' \in Nat /\ MinVaultDepth \in Nat
      /\ height \in Nat /\ height' \in Nat /\ height' >= height /\ activeCount' >= activeCount - 1
      /\ balance' \in [Accounts -> Nat] /\ b \in Accounts /\ OneToken \in Nat
      /\ FallbackTimeout \in Nat /\ U64Max \in Nat
  BY OnlyGrow, DepthFalls, SenderType, ConfigAssumption DEF TypeOK
<1>3. CASE b \in DOMAIN pending' \/ balance'[b] < OneToken
  BY <1>1, <1>3 DEF RequestReply
<1>4. CASE b \notin DOMAIN pending' /\ ~(balance'[b] < OneToken)
  <2>1. activeCount' # 0 /\ CanBurn(balance', totalSupply', b, OneToken)
    <3>1. balance'[b] >= OneToken
      BY <1>2, <1>4
    <3>2. totalSupply' >= OneToken
      BY <1>2, <3>1 DEF TypeOK
    <3> QED BY <1>2, <3>1, <3>2 DEF NeverStranded, CanBurn, CanDebit
  <2>2. CASE ~Starved'
    BY <1>1, <1>4, <2>1, <2>2 DEF RequestReply
  <2>3. CASE Starved' /\ ~Starved
    BY <1>2, <2>3 DEF Starved
  <2>4. CASE Starved' /\ Starved
    \* The clock runs and goes on running from where it started.
    <3>1. starvationStart # None
      BY <1>1, <1>2, <2>4, ActiveNeedsVault DEF StarvationTracked
    <3>2. starvationStart' = starvationStart
      BY <2>4, <3>1, StepKeepsClock
    <3>3. starvationStart \in Nat
      BY <3>1 DEF TypeOK
    <3>4. starvationStart + FallbackTimeout <= U64Max /\ height >= starvationStart + FallbackTimeout
      BY <1>1, <2>4, <3>1 DEF Elapsed, StarvedSince
    <3>5. height' >= starvationStart + FallbackTimeout
          /\ ~(starvationStart + FallbackTimeout > U64Max)
      BY <1>2, <3>3, <3>4
    <3>6. StarvedSince' = starvationStart
      BY <3>1, <3>2 DEF StarvedSince
    <3>7. Elapsed(StarvedSince, FallbackTimeout)'
      BY <3>4, <3>5, <3>6 DEF Elapsed
    <3> QED BY <1>1, <1>4, <2>1, <3>5, <3>6, <3>7 DEF RequestReply
  <2> QED BY <2>2, <2>3, <2>4
<1> QED BY <1>3, <1>4

\* A holder whose request would succeed is not shut out by anyone else, but by
\* the claim that takes the vault below depth k.
THEOREM RequestsStayOpen == Spec => RequestStaysOpen
<1>1. /\ TypeOK /\ StarvationTracked /\ [Next]_vars /\ TypeOK' /\ NeverStranded'
      /\ (\A a \in Accounts : balance[a] <= totalSupply)'
      => [\A b \in Senders :
             RequestReply(b) = Ok =>
                \/ RequestReply(b)' \in {Ok, Reply("RequestAlreadyPending"), Reply("NoTokenToBurn")}
                \/ activeCount = MinVaultDepth /\ activeCount' < activeCount]_vars
  BY StepStaysOpen
<1> QED BY <1>1, TypeCorrect, StarvationAlwaysTracked, HoldersNeverStranded,
           AlwaysWithinSupply, PTL DEF Spec, RequestStaysOpen

\* Every check of a request is met by a holder who has none waiting, once the
\* vault is at depth k or has been starved for long enough: the tracker is no
\* later than the starvation, the vault is not empty, and the burn succeeds.
THEOREM HoldersAlwaysAdmitted == HistorySpec => []HoldersAdmitted
<1>1. ASSUME TypeOK, NeverStranded, FallbackOnTime, \A a \in Accounts : balance[a] <= totalSupply,
             NEW b \in Senders, OracleAddress # None, b \notin DOMAIN pending,
             balance[b] >= OneToken, Starved => Elapsed(lastDeep, FallbackTimeout)
      PROVE  RequestReply(b) = Ok
  <2>1. /\ b \in Accounts /\ balance[b] \in Nat /\ totalSupply \in Nat /\ activeCount \in Nat
        /\ OneToken \in Nat /\ StarvedSince \in Nat /\ FallbackTimeout \in Nat /\ U64Max \in Nat
    BY <1>1, SenderType, ConfigAssumption DEF TypeOK, StarvedSince
  <2>2. activeCount > 0 /\ vaultCount > 0
    BY <1>1, <2>1, ActiveNeedsVault DEF NeverStranded
  <2>3. Starved => Elapsed(StarvedSince, FallbackTimeout)
    BY <1>1, <2>2 DEF FallbackOnTime
  <2>4. ~(Starved /\ StarvedSince + FallbackTimeout > U64Max)
    BY <2>1, <2>3 DEF Elapsed
  <2>5. CanBurn(balance, totalSupply, b, OneToken)
    <3>1. totalSupply >= OneToken
      BY <1>1, <2>1
    <3> QED BY <1>1, <3>1 DEF CanBurn, CanDebit
  <2>6. ~(balance[b] < OneToken) /\ activeCount # 0
    BY <1>1, <2>1, <2>2
  <2> QED BY <1>1, <2>3, <2>4, <2>5, <2>6 DEF RequestReply
<1>2. /\ TypeOK /\ NeverStranded /\ FallbackOnTime
      /\ (\A a \in Accounts : balance[a] <= totalSupply)
      => HoldersAdmitted
  BY <1>1 DEF HoldersAdmitted
<1> QED BY <1>2, HistoryIsSpec, TypeCorrect, HoldersNeverStranded, FallbackAlwaysOnTime,
           AlwaysWithinSupply, PTL

--------------------------------------------------------------------------------
(***************************************************************************)
(* Every answer.                                                           *)
(***************************************************************************)

\* What may answer any message but a transfer.
Foreseen == {Ok} \cup (ContractError \ {NoActivePayloads, Reply("Cw20")})

\* The errors that say nothing but their name.
LEMMA NamedErrors ==
    ASSUME NEW e \in {"InvalidProof", "VerificationFailed", "NoTokenToBurn",
                      "CommitmentAlreadyUsed", "InvalidOracleSignature",
                      "NullifierAlreadyUsed", "InvalidNullifier", "RequestAlreadyPending",
                      "NoPendingRequest", "UnauthorizedOracle", "OracleNotConfigured",
                      "InvalidRandomSeed"}
    PROVE  Reply(e) \in Foreseen
<1>1. /\ Reply(e).result = e /\ NoActivePayloads.result = "NoActivePayloads"
      /\ Reply("Cw20").result = "Cw20"
  BY DEF Reply, NoActivePayloads
<1>2. Reply(e) \in ContractError
  BY DEF Reply, ContractError
<1> QED BY <1>1, <1>2 DEF Foreseen

\* And the two that say more.
LEMMA DetailedErrors ==
    ASSUME NEW x \in Nat, NEW y \in Nat
    PROVE  /\ [result |-> "InsufficientVaultDepth", required |-> x, available |-> y] \in Foreseen
           /\ NotElapsed(x, y) \in Foreseen
<1> DEFINE insufficient == [result |-> "InsufficientVaultDepth", required |-> x, available |-> y]
<1>1. /\ insufficient.result = "InsufficientVaultDepth"
      /\ NotElapsed(x, y).result = "OracleTimeoutNotElapsed"
      /\ NoActivePayloads.result = "NoActivePayloads" /\ Reply("Cw20").result = "Cw20"
  BY DEF NotElapsed, Reply, NoActivePayloads
<1>2. insufficient \in [result: {"InsufficientVaultDepth"}, required: Nat, available: Nat]
  OBVIOUS
<1>3. NotElapsed(x, y)
        \in [result: {"OracleTimeoutNotElapsed"}, timeout_height: Nat, current_height: Nat]
  BY DEF NotElapsed
<1> HIDE DEF insufficient
<1>4. insufficient \in ContractError /\ NotElapsed(x, y) \in ContractError
  BY <1>2, <1>3 DEF ContractError
<1>5. {insufficient, NotElapsed(x, y)} \cap {NoActivePayloads, Reply("Cw20")} = {}
  BY <1>1
<1>6. insufficient \in Foreseen /\ NotElapsed(x, y) \in Foreseen
  BY <1>4, <1>5 DEF Foreseen
<1> QED BY <1>6 DEF insufficient

AbortForeseen == ~(height + FallbackTimeout <= U64Max /\ height + OracleTimeout <= U64Max)

LEMMA RequestForeseen ==
    ASSUME TypeOK, NeverStranded, StarvationTracked, \A a \in Accounts : balance[a] <= totalSupply,
           NEW b \in Senders
    PROVE  \/ RequestReply(b) \in Foreseen
           \/ RequestReply(b) = Aborted /\ AbortForeseen
<1>1. /\ activeCount \in Nat /\ MinVaultDepth \in Nat /\ height \in Nat /\ OneToken \in Nat
      /\ FallbackTimeout \in Nat /\ U64Max \in Nat /\ balance[b] \in Nat
  BY SenderType, ConfigAssumption DEF TypeOK
<1>2. CASE OracleAddress = None \/ b \in DOMAIN pending \/ balance[b] < OneToken
  BY <1>2, NamedErrors DEF RequestReply
<1>3. CASE ~(OracleAddress = None \/ b \in DOMAIN pending \/ balance[b] < OneToken)
  <2>1. activeCount # 0 /\ CanBurn(balance, totalSupply, b, OneToken)
    <3>1. balance[b] >= OneToken /\ b \in Accounts
      BY <1>1, <1>3, SenderType
    <3>2. totalSupply >= OneToken
      BY <1>1, <3>1 DEF TypeOK
    <3> QED BY <1>1, <3>1, <3>2 DEF NeverStranded, CanBurn, CanDebit
  <2>2. CASE Starved /\ StarvedSince + FallbackTimeout > U64Max
    <3>1. RequestReply(b) = Aborted
      BY <1>3, <2>1, <2>2 DEF RequestReply
    <3>2. StarvedSince \in Nat /\ StarvedSince <= height
      BY <1>1 DEF StarvedSince, StarvationTracked, TypeOK
    <3> QED BY <1>1, <2>2, <3>1, <3>2 DEF AbortForeseen
  <2>3. CASE ~(Starved /\ StarvedSince + FallbackTimeout > U64Max)
    <3>1. \/ RequestReply(b) = Ok
          \/ RequestReply(b) = [result |-> "InsufficientVaultDepth",
                                required |-> MinVaultDepth, available |-> activeCount]
      BY <1>3, <2>1, <2>3 DEF RequestReply
    <3> QED BY <1>1, <3>1, DetailedErrors DEF Foreseen
  <2> QED BY <2>2, <2>3
<1> QED BY <1>2, <1>3

LEMMA FulfilForeseen ==
    ASSUME TypeOK, Backed, NEW s \in Senders, NEW b \in Accounts, NEW seed \in Seeds
    PROVE  FulfillReply(s, b, seed) \in Foreseen
<1>1. CASE OracleAddress = None \/ s # OracleAddress \/ seed > U64Max \/ b \notin DOMAIN pending
  BY <1>1, NamedErrors DEF FulfillReply
<1>2. CASE ~(OracleAddress = None \/ s # OracleAddress \/ seed > U64Max \/ b \notin DOMAIN pending)
  <2>1. activeCount # 0 /\ Selects(seed)
    BY <1>2, PendingSelects
  <2> QED BY <1>2, <2>1 DEF FulfillReply, Foreseen
<1> QED BY <1>1, <1>2

\* A refund is quoted from the block of the request, which is past.
RequestsPast == \A b \in DOMAIN pending : pending[b].request_height <= height

LEMMA StepPast == TypeOK /\ RequestsPast /\ [Next]_vars => RequestsPast'
<1> SUFFICES ASSUME TypeOK, RequestsPast, [Next]_vars, NEW b \in DOMAIN pending'
             PROVE  pending'[b].request_height <= height'
  BY DEF RequestsPast
<1>1. height \in Nat /\ height' \in Nat /\ height' >= height
  BY OnlyGrow, StepType DEF TypeOK
<1>2. CASE b \in DOMAIN pending
  <2>1. pending'[b] = pending[b] /\ pending[b].request_height <= height
    BY <1>2, RequestKept DEF RequestsPast
  <2>2. pending[b].request_height \in Nat
    BY <1>2 DEF TypeOK, PendingRequest
  <2> QED BY <1>1, <2>1, <2>2
<1>3. CASE b \notin DOMAIN pending
  \* Only a request of this block is new.
  <2>1. ASSUME NEW s \in Senders, NEW m \in DepositMsgs, Deposit(s, m) PROVE FALSE
    BY <1>3, <2>1 DEF Deposit, claims
  <2>2. ASSUME NEW b0, pending' = Removed(pending, b0) PROVE FALSE
    BY <1>3, <2>2 DEF Removed
  <2>3. ASSUME NEW b0 \in Senders, BurnAndRequest(b0)
        PROVE  pending'[b].request_height <= height'
    <3>1. /\ pending' = Saved(pending, b0, [range_bucket_id |-> activeCount,
                                             request_height |-> height])
          /\ height' = height
      BY <2>3 DEF BurnAndRequest
    <3>2. pending'[b].request_height = height
      BY <1>3, <3>1 DEF Saved
    <3> QED BY <1>1, <3>1, <3>2
  <2>4. ASSUME NEW b0 \in Senders, RecoverOracleTimeout(b0) PROVE FALSE
    BY <2>2, <2>4 DEF RecoverOracleTimeout
  <2>5. ASSUME NEW s \in Senders, NEW b0 \in Accounts, NEW seed \in Seeds,
               FulfillRandomness(s, b0, seed)
        PROVE  FALSE
    BY <2>2, <2>5 DEF FulfillRandomness
  <2>6. pending' # pending
    BY <1>3
  <2> QED BY <2>1, <2>3, <2>4, <2>5, <2>6, QuietSteps DEF Next, ExchangeTx
<1> QED BY <1>2, <1>3

LEMMA RecoverForeseen ==
    ASSUME TypeOK, RequestsPast, NEW b \in Senders
    PROVE  \/ RecoverReply(b) \in Foreseen
           \/ RecoverReply(b) = Aborted /\ AbortForeseen
<1>1. CASE b \notin DOMAIN pending
  BY <1>1, NamedErrors DEF RecoverReply
<1>2. CASE b \in DOMAIN pending
  <2>1. /\ pending[b].request_height \in Nat /\ pending[b].request_height <= height
        /\ height \in Nat /\ OracleTimeout \in Nat /\ U64Max \in Nat
    BY <1>2, ConfigAssumption DEF TypeOK, PendingRequest, RequestsPast
  <2>2. RefundHeight(b) \in Nat /\ RefundHeight(b) <= height + OracleTimeout
    BY <2>1 DEF RefundHeight
  <2>3. CASE RefundHeight(b) > U64Max
    BY <1>2, <2>1, <2>2, <2>3 DEF RecoverReply, AbortForeseen
  <2>4. CASE ~(RefundHeight(b) > U64Max)
    <3>1. RecoverReply(b) \in {Ok, NotElapsed(RefundHeight(b), height)}
      BY <1>2, <2>4 DEF RecoverReply
    <3> QED BY <2>1, <2>2, <3>1, DetailedErrors DEF Foreseen
  <2> QED BY <2>3, <2>4
<1> QED BY <1>1, <1>2

LEMMA DepositForeseen ==
    ASSUME NEW s, NEW m
    PROVE  DepositReply(s, m) \in Foreseen
<1>1. DepositReply(s, m) \in
         {Reply("InvalidNullifier"), Reply("NullifierAlreadyUsed"), Reply("CommitmentAlreadyUsed"),
          Reply("InvalidOracleSignature"), Reply("InvalidProof"), Ok, Reply("VerificationFailed")}
  BY DEF DepositReply
<1> QED BY <1>1, NamedErrors DEF Foreseen

\* No message of any sender is answered by a failure the code does not foresee.
LEMMA MessagesForeseen ==
    ASSUME TypeOK, Backed, NeverStranded, StarvationTracked, RequestsPast,
           \A a \in Accounts : balance[a] <= totalSupply,
           NEW s \in Senders, NEW msg \in ExecuteMsg
    PROVE  \/ Answer(s, msg) \in Foreseen
           \/ Answer(s, msg) \in {Ok, Reply("Cw20")} /\ msg.execute = "Transfer"
           \/ Answer(s, msg) = Aborted /\ AbortForeseen
<1>1. CASE msg \in [execute: {"Deposit"}, deposit: DepositMsgs]
  <2>1. msg.execute = "Deposit"
    BY <1>1
  <2> QED BY <2>1, DepositForeseen DEF Answer
<1>2. CASE msg \in [execute: {"BurnAndRequest", "RecoverOracleTimeout"}]
  <2>1. CASE msg.execute = "BurnAndRequest"
    BY <2>1, RequestForeseen DEF Answer
  <2>2. CASE msg.execute = "RecoverOracleTimeout"
    BY <2>2, RecoverForeseen DEF Answer
  <2> QED BY <1>2, <2>1, <2>2
<1>3. CASE msg \in [execute: {"FulfillRandomness"}, buyer_address: Accounts, random_seed: Seeds]
  <2>1. /\ msg.execute = "FulfillRandomness"
        /\ msg.buyer_address \in Accounts /\ msg.random_seed \in Seeds
    BY <1>3
  <2> QED BY <2>1, FulfilForeseen DEF Answer
<1>4. CASE msg \in [execute: {"Transfer"}, recipient: Accounts, amount: Amounts]
  <2>1. msg.execute = "Transfer"
    BY <1>4
  <2> QED BY <2>1 DEF Answer
<1> QED BY <1>1, <1>2, <1>3, <1>4 DEF ExecuteMsg

\* A query answers in its type; only an id that was never given is not found.
LEMMA QueriesForeseen ==
    ASSUME TypeOK, NEW q \in QueryMsg
    PROVE  \/ Query(q) \in QueryResponse
           \/ Query(q) = NotFound /\ q.query = "GetVaultEntry" /\ q.index = vaultCount
<1>1. CASE q \in [query: {"ActiveCount", "TokenInfo", "GetConfig"}]
  <2>1. CASE q.query = "ActiveCount"
    <3>1. Query(q) \in ActiveCountResponse
      BY <2>1 DEF Query, QueryActiveCount, ActiveCountResponse, TypeOK
    <3> QED BY <3>1 DEF QueryResponse
  <2>2. CASE q.query = "TokenInfo"
    <3>1. Query(q) \in TokenResponse
      BY <2>2 DEF Query, TokenResponse, TypeOK
    <3> QED BY <3>1 DEF QueryResponse
  <2>3. CASE q.query = "GetConfig"
    <3>1. Query(q) \in ConfigResponse
      BY <2>3, ConfigAssumption DEF Query, QueryConfig, ConfigResponse, TypeOK
    <3> QED BY <3>1 DEF QueryResponse
  <2> QED BY <1>1, <2>1, <2>2, <2>3
<1>2. CASE q \in [query: {"GetVaultEntry"}, index: 0 .. vaultCount]
  <2>1. q.query = "GetVaultEntry" /\ q.index \in 0 .. vaultCount
    BY <1>2
  <2>2. Query(q) = QueryVaultEntry(q.index)
    BY <2>1 DEF Query
  <2>3. vault \in [0 .. vaultCount - 1 -> Payload] /\ vaultCount \in Nat
    BY DEF TypeOK
  <2>4. CASE q.index = vaultCount
    <3>1. q.index \notin DOMAIN vault
      BY <2>3, <2>4
    <3> QED BY <2>1, <2>2, <2>4, <3>1 DEF QueryVaultEntry
  <2>5. CASE q.index # vaultCount
    <3>1. q.index \in DOMAIN vault /\ vault[q.index] \in Payload
      BY <2>1, <2>3, <2>5
    <3>2. Query(q) \in VaultEntryResponse
      BY <2>2, <3>1 DEF QueryVaultEntry, VaultEntryResponse, Payload
    <3> QED BY <3>2 DEF QueryResponse
  <2> QED BY <2>4, <2>5
<1>3. CASE q \in [query: {"GetClaimedPayloads", "GetPendingRequest"}, buyer: Accounts]
  <2>1. q.buyer \in Accounts
    BY <1>3
  <2>2. CASE q.query = "GetClaimedPayloads"
    <3>1. claimed[q.buyer] \in Seq(Nat)
      <4>1. claimed[q.buyer] \in Seq(0 .. vaultCount - 1) /\ 0 .. vaultCount - 1 \subseteq Nat
        BY <2>1 DEF TypeOK
      <4> QED BY <4>1, SeqMonotone
    <3>2. Query(q) \in ClaimedPayloadsResponse
      BY <2>2, <3>1 DEF Query, QueryClaimedPayloads, ClaimedPayloadsResponse
    <3> QED BY <3>2 DEF QueryResponse
  <2>3. CASE q.query = "GetPendingRequest"
    <3>1. Query(q) = QueryPendingRequest(q.buyer)
      BY <2>3 DEF Query
    <3>2. q.buyer \in DOMAIN pending => pending[q.buyer] \in PendingRequest
      BY DEF TypeOK
    <3>3. Query(q) \in PendingRequestResponse
      BY <3>1, <3>2 DEF QueryPendingRequest, PendingRequestResponse, PendingRequest
    <3> QED BY <3>3 DEF QueryResponse
  <2> QED BY <1>3, <2>2, <2>3
<1>4. CASE q \in [query: {"Balance"}, address: Accounts]
  <2>1. q.query = "Balance" /\ balance[q.address] \in Nat
    BY <1>4, LedgerType
  <2>2. Query(q) \in TokenResponse
    BY <2>1 DEF Query, TokenResponse
  <2> QED BY <2>2 DEF QueryResponse
<1> QED BY <1>1, <1>2, <1>3, <1>4 DEF QueryMsg

\* Whatever was sent before, the contract answers every message with Ok or an
\* error of its own checks: no load misses its key, the vault is never empty
\* with a token at stake, no sum overflows but that of a height and a timeout.
THEOREM RepliesAlwaysForeseen == Spec => []RepliesForeseen
<1>1. Init => RequestsPast
  BY DEF Init, RequestsPast
<1>2. TypeOK /\ Backed /\ NeverStranded /\ StarvationTracked /\ RequestsPast
      /\ (\A a \in Accounts : balance[a] <= totalSupply)
      => RepliesForeseen
  <2>1. /\ Reply("Cw20") \in ContractError /\ Reply("Cw20") # NoActivePayloads
        /\ Ok # Reply("Cw20")
    BY DEF ContractError, Reply, NoActivePayloads, Ok
  <2> QED BY <2>1, MessagesForeseen, QueriesForeseen DEF RepliesForeseen, Foreseen, AbortForeseen
<1> QED BY <1>1, <1>2, TypeCorrect, AlwaysBacked, HoldersNeverStranded, StarvationAlwaysTracked,
           AlwaysWithinSupply, StepPast, PTL DEF Spec

--------------------------------------------------------------------------------
(***************************************************************************)
(* The answers against the transactions.                                   *)
(***************************************************************************)

LEMMA ExecutedOk ==
    ASSUME TypeOK, NEW s \in Senders, NEW msg \in ExecuteMsg, Execute(s, msg)
    PROVE  Answer(s, msg) = Ok
<1>1. CASE msg.execute = "Deposit" /\ Deposit(s, msg.deposit)
  <2>1. DepositReply(s, msg.deposit) = Ok
    BY <1>1 DEF Deposit, AcceptsDeposit, DepositReply
  <2> QED BY <1>1, <2>1 DEF Answer
<1>2. CASE msg.execute = "BurnAndRequest" /\ BurnAndRequest(s)
  <2>1. /\ balance[s] \in Nat /\ activeCount \in Nat /\ OneToken \in Nat
        /\ StarvedSince \in Nat /\ FallbackTimeout \in Nat /\ U64Max \in Nat
    BY SenderType, ConfigAssumption DEF TypeOK, StarvedSince
  <2>2. Starved => /\ StarvedSince + FallbackTimeout <= U64Max
                   /\ Elapsed(StarvedSince, FallbackTimeout)
    BY <1>2 DEF BurnAndRequest, Elapsed
  <2>3. /\ OracleAddress # None /\ s \notin DOMAIN pending /\ ~(balance[s] < OneToken)
        /\ activeCount # 0 /\ CanBurn(balance, totalSupply, s, OneToken)
        /\ ~(Starved /\ StarvedSince + FallbackTimeout > U64Max)
    BY <1>2, <2>1, <2>2 DEF BurnAndRequest
  <2>4. RequestReply(s) = Ok
    BY <2>2, <2>3 DEF RequestReply
  <2> QED BY <1>2, <2>4 DEF Answer
<1>3. CASE /\ msg.execute = "FulfillRandomness"
           /\ FulfillRandomness(s, msg.buyer_address, msg.random_seed)
  <2>1. activeCount # 0 /\ ~(msg.random_seed > U64Max)
    <3>1. msg.random_seed \in Nat
      BY <1>3, ConfigAssumption DEF ExecuteMsg
    <3> QED BY <1>3, <3>1, ConfigAssumption DEF FulfillRandomness, Selects
  <2>2. FulfillReply(s, msg.buyer_address, msg.random_seed) = Ok
    BY <1>3, <2>1 DEF FulfillRandomness, FulfillReply
  <2> QED BY <1>3, <2>2 DEF Answer
<1>4. CASE msg.execute = "RecoverOracleTimeout" /\ RecoverOracleTimeout(s)
  <2>1. pending[s].request_height \in Nat
    BY <1>4 DEF RecoverOracleTimeout, TypeOK, PendingRequest
  <2>2. ~(RefundHeight(s) > U64Max)
    BY <1>4, <2>1, ConfigAssumption DEF RecoverOracleTimeout, Elapsed, RefundHeight
  <2>3. RecoverReply(s) = Ok
    BY <1>4, <2>2 DEF RecoverOracleTimeout, RecoverReply
  <2> QED BY <1>4, <2>3 DEF Answer
<1>5. CASE msg.execute = "Transfer" /\ Transfer(s, msg.recipient, msg.amount)
  BY <1>5 DEF Transfer, Answer
<1> QED BY <1>1, <1>2, <1>3, <1>4, <1>5 DEF Execute

\* A message that is executed is answered with Ok: the checks in the handlers'
\* order leave none of the transactions out.
THEOREM ExecutedIsAnsweredOk ==
    Spec => [][\A s \in Senders, msg \in ExecuteMsg : Execute(s, msg) => Answer(s, msg) = Ok]_vars
<1>1. TypeOK => [\A s \in Senders, msg \in ExecuteMsg :
                    Execute(s, msg) => Answer(s, msg) = Ok]_vars
  BY ExecutedOk
<1> QED BY <1>1, TypeCorrect, PTL DEF Spec

================================================================================
