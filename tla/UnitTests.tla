------------------------------- MODULE UnitTests -------------------------------
(***************************************************************************)
(* The unit tests of contract.rs, replayed on the model.  A test is the    *)
(* sequence of the messages it sends, the queries it makes and the blocks  *)
(* it lets pass, each with what it asserts of the answer.                  *)
(*                                                                         *)
(* The setup is setup_contract_with_oracle.  Tests that use setup_contract *)
(* and never reach the oracle read nothing of what it sets differently.    *)
(***************************************************************************)
EXTENDS Interface

VARIABLES
    test,  \* the test that runs
    at     \* how far it is

WithoutOracle == INSTANCE Interface WITH OracleAddress <- None

--------------------------------------------------------------------------------
(***************************************************************************)
(* What a test does.                                                       *)
(***************************************************************************)

Sends(s, msg, replies) == <<[does |-> "send", sender |-> s, msg |-> msg, replies |-> replies]>>

\* Each field asserted is in the set given for it.
Asks(q, asserted) == <<[does |-> "ask", query |-> q, asserted |-> asserted]>>

Blocks(n) == [i \in 1 .. n |-> [does |-> "wait"]]

DepositOf(m) == [execute |-> "Deposit", deposit |-> m]
Request == [execute |-> "BurnAndRequest"]
Recover == [execute |-> "RecoverOracleTimeout"]
Fulfill(seed) ==
    [execute |-> "FulfillRandomness", buyer_address |-> "buyer", random_seed |-> seed]

\* A fresh datum n of s: its proof, of the value 95, and its commitment.
generate_proof(s, n) ==
    [payload_nullifier |-> n, commitment_hex |-> n, oracle_signature |-> 0, num_bits |-> 32,
     proof |-> [contract |-> Contract, nullifier |-> n, sender |-> s, point |-> n]]

deposit_valid(s, n) == Sends(s, DepositOf(generate_proof(s, n)), {Ok})

\* A deposit of the seller that is refused.
Refused(m, errors) == Sends("seller", DepositOf(m), {Reply(e) : e \in errors})

Sellers == <<"seller0", "seller1", "seller2", "seller3", "seller4", "seller5">>

SixDeposits == [i \in 1 .. 6 |-> deposit_valid(Sellers[i], i)[1]]

Buys(seller) ==
    Sends(seller, [execute |-> "Transfer", recipient |-> "buyer", amount |-> OneToken], {Ok})

\* Six sellers deposit, one sells its token, and the buyer asks for a payload.
Requested == SixDeposits \o Buys("seller0") \o Sends("buyer", Request, {Ok})

Balance(a, n) == Asks([query |-> "Balance", address |-> a], [balance |-> {n}])
Active(n) == Asks([query |-> "ActiveCount"], [count |-> {n}])
Pending(asserted) == Asks([query |-> "GetPendingRequest", buyer |-> "buyer"], asserted)

--------------------------------------------------------------------------------
(***************************************************************************)
(* The tests.                                                              *)
(***************************************************************************)

proper_instantiation ==
    Asks([query |-> "GetConfig"], [min_vault_depth |-> {5}, total_supply |-> {0}])

deposit_stores_payload_and_mints_token ==
    deposit_valid("seller", 1) \o Balance("seller", OneToken)
    \o Asks([query |-> "GetVaultEntry", index |-> 0], [active |-> {TRUE}]) \o Active(1)

\* The zeros of the test are the encoding of a proof, of nothing.
deposit_with_invalid_proof_fails ==
    Refused([generate_proof("seller", 1) EXCEPT !.proof.point = 2],
            {"InvalidProof", "VerificationFailed"})

deposit_with_invalid_hex_fails ==
    Refused([generate_proof("seller", 1) EXCEPT !.proof = Malformed], {"InvalidProof"})

deposit_with_invalid_bits_fails ==
    Refused([generate_proof("seller", 1) EXCEPT !.num_bits = 15], {"InvalidProof"})

multiple_deposits_increment_index ==
    deposit_valid("seller", 1) \o deposit_valid("seller", 2)
    \o Active(2) \o Balance("seller", 2 * OneToken)

deposit_with_fresh_proof == deposit_valid("seller", 1)

duplicate_commitment_rejected ==
    deposit_valid("seller", 1)
    \o Refused([generate_proof("seller", 2) EXCEPT !.commitment_hex = 1],
               {"CommitmentAlreadyUsed"})

empty_oracle_signature_rejected ==
    Refused([generate_proof("seller", 1) EXCEPT !.oracle_signature = Malformed],
            {"InvalidOracleSignature"})

non_hex_oracle_signature_rejected == empty_oracle_signature_rejected

duplicate_nullifier_rejected ==
    deposit_valid("seller", 1)
    \o Refused([generate_proof("seller", 2) EXCEPT !.payload_nullifier = 1],
               {"NullifierAlreadyUsed"})

\* Too short, in upper case, and not in hex: none is a nullifier.
invalid_nullifier_format_rejected ==
    LET Bad(n) == Refused([generate_proof("seller", n) EXCEPT !.payload_nullifier = Malformed],
                          {"InvalidNullifier"})
    IN  Bad(1) \o Bad(2) \o Bad(3)

burn_and_request_emits_oracle_event ==
    Requested \o Balance("buyer", 0) \o Pending([found |-> {TRUE}, range_bucket_id |-> {6}])

fulfill_randomness_completes_claim ==
    Requested \o Sends("oracle_relayer", Fulfill(42), {Ok}) \o Active(5)
    \o Asks([query |-> "GetClaimedPayloads", buyer |-> "buyer"],
            [payload_indices |-> {<<i>> : i \in 0 .. 5}])
    \o Pending([found |-> {FALSE}])

fulfill_randomness_rejects_non_oracle ==
    Requested \o Sends("attacker", Fulfill(42), {Reply("UnauthorizedOracle")})

duplicate_burn_and_request_rejected ==
    SixDeposits \o Buys("seller0") \o Buys("seller1") \o Sends("buyer", Request, {Ok})
    \o Sends("buyer", Request, {Reply("RequestAlreadyPending")})

burn_and_request_fails_without_oracle ==
    SixDeposits \o Buys("seller0") \o Sends("buyer", Request, {Reply("OracleNotConfigured")})

fulfill_randomness_no_pending_request ==
    Sends("oracle_relayer", Fulfill(42), {Reply("NoPendingRequest")})

recover_oracle_timeout_succeeds ==
    Requested \o Balance("buyer", 0)
    \o Sends("buyer", Recover, {NotElapsed(InitHeight + OracleTimeout, InitHeight)})
    \o Blocks(100) \o Sends("buyer", Recover, {Ok})
    \o Balance("buyer", OneToken) \o Pending([found |-> {FALSE}])

recover_oracle_timeout_no_pending == Sends("buyer", Recover, {Reply("NoPendingRequest")})

\* What is not a number is no u64 either.
fulfill_randomness_invalid_seed_rejected ==
    Requested \o Sends("oracle_relayer", Fulfill(U64Max + 1), {Reply("InvalidRandomSeed")})

Tests ==
    [proper_instantiation |-> proper_instantiation,
     deposit_stores_payload |-> deposit_stores_payload_and_mints_token,
     deposit_invalid_proof |-> deposit_with_invalid_proof_fails,
     deposit_invalid_hex |-> deposit_with_invalid_hex_fails,
     deposit_invalid_bits |-> deposit_with_invalid_bits_fails,
     multiple_deposits |-> multiple_deposits_increment_index,
     deposit_fresh_proof |-> deposit_with_fresh_proof,
     duplicate_commitment |-> duplicate_commitment_rejected,
     empty_oracle_signature |-> empty_oracle_signature_rejected,
     non_hex_oracle_signature |-> non_hex_oracle_signature_rejected,
     duplicate_nullifier |-> duplicate_nullifier_rejected,
     invalid_nullifier |-> invalid_nullifier_format_rejected,
     burn_and_request_event |-> burn_and_request_emits_oracle_event,
     fulfill_completes |-> fulfill_randomness_completes_claim,
     fulfill_non_oracle |-> fulfill_randomness_rejects_non_oracle,
     duplicate_request |-> duplicate_burn_and_request_rejected,
     request_without_oracle |-> burn_and_request_fails_without_oracle,
     fulfill_no_pending |-> fulfill_randomness_no_pending_request,
     recover_succeeds |-> recover_oracle_timeout_succeeds,
     recover_no_pending |-> recover_oracle_timeout_no_pending,
     fulfill_invalid_seed |-> fulfill_randomness_invalid_seed_rejected]

--------------------------------------------------------------------------------

Running == at <= Len(Tests[test])
Step == Tests[test][at]

TestInit == Init /\ test \in DOMAIN Tests /\ at = 1

\* A message that the test expects to succeed is executed; nothing else changes
\* the contract, but for the blocks.
TestNext ==
    /\ Running
    /\ at' = at + 1 /\ UNCHANGED test
    /\ \/ Step.does = "send" /\ Ok \in Step.replies /\ Execute(Step.sender, Step.msg)
       \/ Step.does = "send" /\ Ok \notin Step.replies /\ UNCHANGED vars
       \/ Step.does = "ask" /\ UNCHANGED vars
       \/ Step.does = "wait" /\ NextBlock

Passed == ~Running /\ UNCHANGED <<vars, test, at>>

TestSpec == TestInit /\ [][TestNext \/ Passed]_<<vars, test, at>>

Answered(s, msg) ==
    IF test = "request_without_oracle" THEN WithoutOracle!Answer(s, msg) ELSE Answer(s, msg)

\* The model answers every message and query of the unit tests as they assert:
\* it is the contract that the tests describe.
AnswersAsTested ==
    Running =>
        /\ Step.does = "send" => Answered(Step.sender, Step.msg) \in Step.replies
        /\ Step.does = "ask" => \A field \in DOMAIN Step.asserted :
                                   Query(Step.query)[field] \in Step.asserted[field]

================================================================================
