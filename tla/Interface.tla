------------------------------- MODULE Interface -------------------------------
(***************************************************************************)
(* What the contract answers: each message of the exchange with Ok or the  *)
(* first check of its handler that fails (error.rs), each query with a     *)
(* reading of the storage (msg.rs).                                        *)
(*                                                                         *)
(* A caller acts on an answer in a later block, when the contract has gone *)
(* on.  The properties say how far an answer can be relied on by then.     *)
(***************************************************************************)
EXTENDS RareBullet

Reply(result) == [result |-> result]

Ok == Reply("Ok")

\* The sum of a height and a timeout does not fit in a u64: the build aborts.
Aborted == Reply("aborted")

\* A load misses its key.
NotFound == Reply("Std")

NotElapsed(timeout, current) ==
    [result |-> "OracleTimeoutNotElapsed", timeout_height |-> timeout, current_height |-> current]

NoActivePayloads == Reply("NoActivePayloads")

\* The errors a message can be answered with, but for Std.
ContractError ==
    [result: {"Cw20", "InvalidProof", "VerificationFailed", "NoTokenToBurn",
              "NoActivePayloads", "CommitmentAlreadyUsed", "InvalidOracleSignature",
              "NullifierAlreadyUsed", "InvalidNullifier", "RequestAlreadyPending",
              "NoPendingRequest", "UnauthorizedOracle", "OracleNotConfigured", "InvalidRandomSeed"}]
    \cup [result: {"InsufficientVaultDepth"}, required: Nat, available: Nat]
    \cup [result: {"OracleTimeoutNotElapsed"}, timeout_height: Nat, current_height: Nat]

ExecuteMsg ==
    [execute: {"Deposit"}, deposit: DepositMsgs]
    \cup [execute: {"BurnAndRequest", "RecoverOracleTimeout"}]
    \cup [execute: {"FulfillRandomness"}, buyer_address: Accounts, random_seed: Seeds]
    \cup [execute: {"Transfer"}, recipient: Accounts, amount: Amounts]

--------------------------------------------------------------------------------
(***************************************************************************)
(* The answers to the messages, in the order of the checks.                *)
(***************************************************************************)

DepositReply(s, m) ==
    IF ~ValidateNullifier(m.payload_nullifier) THEN Reply("InvalidNullifier")
    ELSE IF m.payload_nullifier \in usedNullifiers THEN Reply("NullifierAlreadyUsed")
    ELSE IF m.commitment_hex \in usedCommitments THEN Reply("CommitmentAlreadyUsed")
    ELSE IF ~VerifyOracleSignature(m.oracle_signature) THEN Reply("InvalidOracleSignature")
    ELSE IF Malformed \in {m.proof, Decode[m.commitment_hex]} \/ m.num_bits # NumBits
         THEN Reply("InvalidProof")
    ELSE IF VerifyBulletproof(m.proof, Decode[m.commitment_hex], Contract, m.payload_nullifier, s)
         THEN Ok ELSE Reply("VerificationFailed")

RequestReply(b) ==
    IF OracleAddress = None THEN Reply("OracleNotConfigured")
    ELSE IF b \in DOMAIN pending THEN Reply("RequestAlreadyPending")
    ELSE IF balance[b] < OneToken THEN Reply("NoTokenToBurn")
    ELSE IF activeCount = 0 THEN NoActivePayloads
    ELSE IF Starved /\ StarvedSince + FallbackTimeout > U64Max THEN Aborted
    ELSE IF Starved /\ ~Elapsed(StarvedSince, FallbackTimeout)
         THEN [result |-> "InsufficientVaultDepth",
               required |-> MinVaultDepth, available |-> activeCount]
    ELSE IF CanBurn(balance, totalSupply, b, OneToken) THEN Ok ELSE Reply("Cw20")

FulfillReply(s, b, seed) ==
    IF OracleAddress = None THEN Reply("OracleNotConfigured")
    ELSE IF s # OracleAddress THEN Reply("UnauthorizedOracle")
    ELSE IF seed > U64Max THEN Reply("InvalidRandomSeed")
    ELSE IF b \notin DOMAIN pending THEN Reply("NoPendingRequest")
    ELSE IF activeCount = 0 THEN NoActivePayloads
    ELSE IF Selects(seed) THEN Ok ELSE NotFound

RefundHeight(b) == pending[b].request_height + OracleTimeout

RecoverReply(b) ==
    IF b \notin DOMAIN pending THEN Reply("NoPendingRequest")
    ELSE IF RefundHeight(b) > U64Max THEN Aborted
    ELSE IF ~Elapsed(pending[b].request_height, OracleTimeout)
         THEN NotElapsed(RefundHeight(b), height)
    ELSE Ok

Answer(s, msg) ==
    CASE msg.execute = "Deposit" -> DepositReply(s, msg.deposit)
      [] msg.execute = "BurnAndRequest" -> RequestReply(s)
      [] msg.execute = "FulfillRandomness" -> FulfillReply(s, msg.buyer_address, msg.random_seed)
      [] msg.execute = "RecoverOracleTimeout" -> RecoverReply(s)
      [] msg.execute = "Transfer" -> IF CanDebit(balance, s, msg.amount) THEN Ok ELSE Reply("Cw20")

\* The transaction that a message answered with Ok makes.
Execute(s, msg) ==
    \/ msg.execute = "Deposit" /\ Deposit(s, msg.deposit)
    \/ msg.execute = "BurnAndRequest" /\ BurnAndRequest(s)
    \/ msg.execute = "FulfillRandomness" /\ FulfillRandomness(s, msg.buyer_address, msg.random_seed)
    \/ msg.execute = "RecoverOracleTimeout" /\ RecoverOracleTimeout(s)
    \/ msg.execute = "Transfer" /\ Transfer(s, msg.recipient, msg.amount)

--------------------------------------------------------------------------------
(***************************************************************************)
(* The queries.  Names and decimals of the token are not modelled.         *)
(***************************************************************************)

QueryMsg ==
    [query: {"ActiveCount", "TokenInfo", "GetConfig"}]
    \cup [query: {"GetVaultEntry"}, index: 0 .. vaultCount]
    \cup [query: {"GetClaimedPayloads", "GetPendingRequest"}, buyer: Accounts]
    \cup [query: {"Balance"}, address: Accounts]

ActiveCountResponse == [count: Nat]

VaultEntryResponse ==
    [proof_hash: {m.proof : m \in DepositMsgs}, depositor: Accounts, active: BOOLEAN]

ClaimedPayloadsResponse == [payload_indices: Seq(Nat)]

ConfigResponse ==
    [min_vault_depth: Nat, total_supply: Nat, fallback_timeout_blocks: Nat,
     oracle_address: Accounts \cup {None}, oracle_timeout_blocks: Nat]

PendingRequestResponse ==
    [found: {TRUE}, range_bucket_id: Nat, request_height: Nat]
    \cup [found: {FALSE}, range_bucket_id: {None}, request_height: {None}]

TokenResponse == [total_supply: Nat] \cup [balance: Nat]

QueryActiveCount == [count |-> activeCount]

QueryVaultEntry(index) ==
    IF index \in DOMAIN vault
    THEN [proof_hash |-> vault[index].proof, depositor |-> vault[index].depositor,
          active |-> vault[index].active]
    ELSE NotFound

QueryClaimedPayloads(buyer) == [payload_indices |-> claimed[buyer]]

QueryConfig ==
    [min_vault_depth |-> MinVaultDepth, total_supply |-> totalSupply,
     fallback_timeout_blocks |-> FallbackTimeout, oracle_address |-> OracleAddress,
     oracle_timeout_blocks |-> OracleTimeout]

QueryPendingRequest(buyer) ==
    IF buyer \in DOMAIN pending
    THEN [found |-> TRUE, range_bucket_id |-> pending[buyer].range_bucket_id,
          request_height |-> pending[buyer].request_height]
    ELSE [found |-> FALSE, range_bucket_id |-> None, request_height |-> None]

Query(q) ==
    CASE q.query = "ActiveCount" -> QueryActiveCount
      [] q.query = "GetVaultEntry" -> QueryVaultEntry(q.index)
      [] q.query = "GetClaimedPayloads" -> QueryClaimedPayloads(q.buyer)
      [] q.query = "TokenInfo" -> [total_supply |-> totalSupply]
      [] q.query = "Balance" -> [balance |-> balance[q.address]]
      [] q.query = "GetConfig" -> QueryConfig
      [] q.query = "GetPendingRequest" -> QueryPendingRequest(q.buyer)

QueryResponse ==
    ActiveCountResponse \cup VaultEntryResponse \cup ClaimedPayloadsResponse
    \cup TokenResponse \cup ConfigResponse \cup PendingRequestResponse

--------------------------------------------------------------------------------
(***************************************************************************)
(* Properties.                                                             *)
(***************************************************************************)

\* Whatever the order of the messages, none is answered by a failure inside the
\* contract: no load misses its key, the vault is never found empty with a token
\* at stake, a request that passed the checks is not stopped by the burn, and a
\* transaction aborts only when a timeout leaves the u64 range.
\* A query answers in its type, for every id below VAULT_COUNT.
RepliesForeseen ==
    /\ \A s \in Senders, msg \in ExecuteMsg :
          \/ /\ Answer(s, msg) \in {Ok} \cup (ContractError \ {NoActivePayloads})
             /\ Answer(s, msg) = Reply("Cw20") => msg.execute = "Transfer"
          \/ Answer(s, msg) = Aborted /\ ~(height + FallbackTimeout <= U64Max
                                           /\ height + OracleTimeout <= U64Max)
    /\ \A q \in QueryMsg :
          \/ Query(q) \in QueryResponse
          \/ Query(q) = NotFound /\ q.query = "GetVaultEntry" /\ q.index = vaultCount

\* As long as a request is pending the oracle can answer it, with any seed,
\* whatever became of the vault since; also when its refund could only abort.
AlwaysAnswerable ==
    \A b \in DOMAIN pending, seed \in Seeds :
        OracleAddress # None /\ seed <= U64Max => FulfillReply(OracleAddress, b, seed) = Ok

\* A fresh deposit, whose proof was made by its sender for this contract, is
\* accepted exactly when the value is in the bucket: none is turned away, and no
\* value outside wraps around the group order into both ranges.
AcceptedIffInBucket ==
    \A m \in DepositMsgs :
        /\ Malformed \notin {m.payload_nullifier, m.oracle_signature, m.proof, Decode[m.commitment_hex]}
        /\ m.num_bits = NumBits
        /\ m.payload_nullifier \notin usedNullifiers /\ m.commitment_hex \notin usedCommitments
        /\ m.proof.contract = Contract /\ m.proof.nullifier = m.payload_nullifier
        /\ m.proof.point = Decode[m.commitment_hex]
        => DepositReply(m.proof.sender, m) = Ok
               <=> InBucket(Opening[m.proof.point], BucketFloor, BucketCeiling)

\* The refund a buyer is quoted stands: until the request is resolved the height
\* never moves, and from that height on RecoverOracleTimeout succeeds.
RefundAsQuoted ==
    [][\A b \in Senders :
          LET quoted == RecoverReply(b)
          IN  quoted.result \in {"Ok", "OracleTimeoutNotElapsed"} /\ b \in DOMAIN pending' =>
                 RecoverReply(b)' =
                    IF quoted = Ok \/ quoted.timeout_height <= height'
                    THEN Ok ELSE NotElapsed(quoted.timeout_height, height')]_vars

\* A holder who may request may go on doing so, until the token or the request
\* is made use of, or a claim takes the vault from depth k to below it.
RequestStaysOpen ==
    [][\A b \in Senders :
          RequestReply(b) = Ok =>
             \/ RequestReply(b)' \in {Ok, Reply("RequestAlreadyPending"), Reply("NoTokenToBurn")}
             \/ activeCount = MinVaultDepth /\ activeCount' < activeCount]_vars

\* A deposit that was accepted or refused once is answered alike forever, but
\* for its datum or its commitment being taken; a refused one never succeeds.
DepositVerdictFinal ==
    [][\A s \in Senders, m \in DepositMsgs :
          \/ DepositReply(s, m)' = DepositReply(s, m)
          \/ DepositReply(s, m)' = Reply("NullifierAlreadyUsed")
          \/ /\ DepositReply(s, m)' = Reply("CommitmentAlreadyUsed")
             /\ DepositReply(s, m) # Reply("NullifierAlreadyUsed")]_vars

================================================================================
