# Rare Bullet: models and proofs

This directory holds TLA+ models of Rare Bullet, the TLC configurations that
check them and TLAPS proofs about them. Every definition is translated from the
source under `src/eval/d1_bulletproof_cosmwasm/`; `PROJECT.json` names the lines
each one stands for.

## The system

Rare Bullet is a data exchange on a CosmWasm chain. A seller deposits an
encrypted payload with a zero-knowledge proof that a committed score lies in a
range bucket, and is minted one fungible range token. A holder of a token burns
it to be given one of the payloads of the vault, picked at random by a number an
off-chain relayer sends.

| component | state it keeps | operations | interacts by |
|---|---|---|---|
| contract (`bulletproof-contract/src/contract.rs`, `state.rs`, `msg.rs`) | vault, swap-and-pop index of active payloads, claims, used commitments and nullifiers, starvation tracker, pending requests, configuration | `instantiate`, `Deposit`, `BurnAndRequest`, `FulfillRandomness`, `RecoverOracleTimeout`, six cw20 messages, seven queries | transactions, one at a time; events; answers |
| range proofs (`verify_bulletproof`) | none | the two shifted, aggregated range checks | called by `Deposit` |
| cw20-base (library) | balances, total supply, allowances | transfer, send, allowances, mint, burn | called by the contract's handlers and dispatcher |
| relayer (`relayer-bot/relayer.js`) | last processed height and the results at hand, in memory only | a polling loop: getBlock, searchTx, query, execute | reads committed state and the event index, sends `FulfillRandomness` |
| benchmark harness (`setup_singlenode_bench.sh`) | sequence lanes, counters of accepted and settled transactions | presign, broadcast in bursts, wait to settle, scan blocks | the node's RPC |
| load sender (`hippod-send-tx.sh`) | a lane per wallet, the count of dispatched transactions | broadcast asynchronously, reconnect | the node's RPC |
| unit tests (`mod tests` of `contract.rs`) | the contract's storage | 21 scripts of messages, queries and blocks with what they assert | call the contract's entry points |
| other scripts, `tests/`, `d1_wasm_vm_bench` | none of the protocol's | gas measurements, timings, test data | none |

What is hard here, and hard to reach in a test (the `hazards` of `PROJECT.json`
give the line of each):

- Requests and answers are separate transactions. A request is admitted against
  the depth of one block and answered in a later one, when other requests have
  been answered, deposits made, and perhaps the buyer has taken its token back.
- The vault, the index, the claims, the token supply and the pending requests
  are separate tables that must agree after any sequence of messages.
- Three handlers write the starvation tracker. It may neither be restarted by
  activity that leaves the vault starved nor survive activity that fills it.
- The oracle may stop, or be late by exactly the blocks that let the buyer
  recover.
- A caller acts on an answer (a refusal with a height, a depth, a verdict on a
  deposit) in a later block, when the contract has gone on.
- The relayer forgets everything when it dies, retries nothing, and reads a node
  whose block height, state and event index do not move together.

What makes each component correct: a token in circulation and a pending request
always have an active payload behind them, and no payload goes to two buyers;
every request ends once, in a payload or a refund; a vault entry is proven, its
own depositor's, and never changes but to be retired; the fallback opens after an
uninterrupted starvation and does open; tokens are neither created nor lost; the
two shifted ranges accept the bucket and nothing else; what an answer promises is
still true when it is acted on; the relayer passes over no request unless
something failed.

## Modules

| module | contents |
|---|---|
| `Bulletproof` | `verify_bulletproof` on the openings of the commitments: the shifts `C - floor G` and `(ceiling - 1) G - C` in a scalar field of order `GroupOrder`, and the two ranges below `Window` |
| `Cw20` | the cw20-base calls as operators on balances and allowances (external) |
| `RareBullet` | the contract: state, `Init` (`instantiate`), one action per message, `NextBlock`, and its invariants, action properties and liveness properties |
| `ClaimHistory` | the contract and its answers with a history variable, the last height at which the vault was deep |
| `Claims`, `RareBulletClaims` | the abstract exchange (items, vouchers, a queue of the waiting) and the refinement mapping under which the contract implements it |
| `Interface` | what the contract answers: each message with `Ok` or the first check that fails, each query with a reading of the storage; how long an answer can be relied on |
| `UnitTests` | the unit tests of `contract.rs` as scripts, replayed on `RareBullet` and `Interface` with their assertions |
| `Relayer` | the polling loop of `relayer.js` with its failures, the node between it and the contract, and the contract |
| `LoadTest` | the load test of `setup_singlenode_bench.sh`: bursts, settlement loop and block scan, against a node of its own |
| `LoadSender` | the lanes of `hippod-send-tx.sh` against the same node |
| `Documented`, `DocumentedRelayer`, `DocumentedLoad` | statements of the repository's comments and messages that the code does not satisfy |
| `MC*` | constants for TLC |
| `Bulletproof_proofs`, `RareBullet_proofs`, `RareBulletVault_proofs`, `RareBulletSteps_proofs`, `RareBulletClaims_proofs`, `Interface_proofs`, `Relayer_proofs`, `LoadSender_proofs` | theorems: the two ranges; types and index; backing, vault, draw and token ledger; step properties and the starvation clock; claims and the refinement; answers; the relayer; the load scripts |

### How the contract is modelled

The variables of `RareBullet` are the storage items of `state.rs` with cw20's
tables. A `Map` is a function whose domain is the set of its keys, `Map::save`
is `Saved`, `Map::remove` is `Removed`. Keeping the domains explicit lets
`TypeOK` say that the vault's ids and the index's slots have no gaps, so that no
`load` in a handler can miss its key.

An action is one successful transaction: the guard is the conjunction of the
checks of the handler, the effect its writes. A transaction that returns an
error is rolled back, so it is no step. This matters once: the fail-safe of
`BurnAndRequest` (contract.rs:813) writes the tracker before the check that may
reject the request, so its write is in the action only as part of a request that
succeeds. Checks of a `u64` overflow abort the transaction (the release profile
keeps overflow checks) and are the conjunct `start + delay <= U64Max` of
`Elapsed`.

A proof in a message is a record of what the transcript binds it to (contract,
nullifier, sender) and the point it was made for. `Opening` gives the scalar
behind a point. A point may have several strings (`Decode`), because the
handler looks commitments up by the string and decodes them afterwards. The
payload's opaque identifiers, the buyer's public key and the attributes of the
responses are left out. `Malformed` stands for every string a handler cannot
decode. The range token's unit is `OneToken`, so that parts of a token can move.

Definitions under the heading "faulty variants" are used by no action. Each is a
plausible mistake in the operator it precedes, and `PROJECT.json` names the
property that notices it.

### How the answers are modelled

`DepositReply`, `RequestReply`, `FulfillReply` and `RecoverReply` repeat the
checks of the handlers in their order, which the guards of the actions do not
have, and name the `ContractError` that each returns. An answer is a function of
the state, so a property can ask what the same message would be answered after
another step. `RequestReply` ends with the cw20 burn, which has checks of its
own and comes after all those of the handler: that it never fails there is part
of `RepliesForeseen`. `Aborted` is a `u64` sum that overflows, `NotFound` a load
that misses its key. Each branch of `query` is an operator. Of the cw20 messages
only `Transfer` has its answer here, for the tests that use it; what a query
says of the token's name or of opaque payload fields is left out.

`UnitTests` is the other direction: it takes the assertions from the tests, not
from the handlers. A test is a sequence of `send`, `ask` and `wait` steps; a
message that the test expects to succeed is executed by the action of
`RareBullet`. Both of the setups are the one with an oracle, except that the test
of an unset oracle reads its answer from an instance of `Interface` without one.

### How the relayer is modelled

`height` is the block being built; the relayer sees `height - 1`. `pc` is where
the loop of `main` stands, `todo` the search results it has not handled, `draw`
the seed it has drawn. `committed` is the state a query reads: the buyers with a
request when the last block was committed. The index is filled by `IndexBlock`
after the commit. `mempool` holds at most one transaction of the relayer: they
are signed with consecutive sequence numbers, and the node refuses one while an
earlier one is not committed. `Include` delivers it, into a block where the
contract may well refuse it.

Everything that can go wrong costs one of `MaxFaults`: an exception in the outer
`try` (`PollError`: nothing is recorded), one in the inner ones (`EventError`: the
event is passed over, what reached the mempool stays there), a search before
the index has caught up (`SearchTooEarly`), an answer that is delivered and runs
out of the gas that was estimated a block before (`OutOfGas`), a crash and restart
(`Crash`, `Start`). A lagging index is no defect of the node, and any poll may
meet it. It is counted with the faults because it costs the relayer the same: the
events it does not see yet are recorded as processed and never looked at again.
So what is said of a relayer without faults is said of polls that the index
kept up with. The history variables `dropped` and `startHeight` record which events a
fault took. Token movements and the other queries are left out of this
composition: the relayer reads none of them.

### How the load test is modelled

`LoadTest` stands apart from the contract: a deposit is a transaction with an
account and a burst. `step` is where the script is. A request of a burst is
`sent`, then `accepted` or `refused` by the node's `CheckTx`, then `done` for
the script, by its answer (`Answer`) or because it timed out (`GiveUp`), and what
timed out may still reach the node (`ArriveLate`). `CheckTx` takes the sequence
number that follows those of the chain and the mempool. Transactions sent over
one connection arrive in their order (`InOrder`); a connection that fails ends
that.

The node makes a block in three steps, and the script can look between any two of
them: `Reap` takes transactions from the mempool, `Save` makes the height
visible, `ExecuteBlock` gives the block its results and empties the mempool of
it. `ReadHeight`, `CountTxs`, `ReadLatest` and `ScanBlock` are one curl each and
may fail. Under `pipefail` a failed `get_block_tx_count` prints two zeros on two
lines, which is not the string "0": a failed read counts as a block with
transactions. A failed read of the latest height gives 0, and nothing is
scanned (with a `seq` that does not count down). A failed or premature
`block_results` reads as an empty block.

`LoadSender` starts the same node with the other script's step, `lanes`. A worker
has no bursts to wait for: `AsyncAnswer` and `Reconnect` both count the
transaction and go to the next of the lane (`Dispatched`), because an asynchronous
broadcast is answered whatever becomes of the transaction and a dropped connection
is counted as a success. The answer may come before `CheckTx`: both leave the
transaction with the node or on its way (`stray`), where `ArriveLate` finds it or
nothing ever does. After `AsyncAnswer` the next of the lane is behind it on the same
connection; after `Reconnect` it may overtake it.

## Runs

| run | what it asks | instance | distinct states |
|---|---|---|---|
| `exchange` | storage: `TypeOK`, `ActiveSlotsExact`, `ClaimedOnce`, `Backed`, `NeverStranded`, `StarvationTracked`, `VaultProven`; steps: `RequestResolvedOnce`, `StarvationClockKept`, `VaultAppendOnly`, `BypassNeedsStarvation`; the refinement `ImplementsClaims`; the draw: `SelectionEven`; answers: `RepliesForeseen`, `AlwaysAnswerable`, `HoldersAdmitted`, `RefundAsQuoted`, `RequestStaysOpen`, `DepositVerdictFinal`; progress, under `FairHistorySpec`: `EveryRequestEnds`, `StarvedVaultOpens` | two sellers who are buyers, three payloads (and every defect a deposit is refused for), k = 2, timeouts of 2 blocks, 4 seeds of which one is no `u64`, 6 heights, the last two of which a timeout overflows; with the history variable of `ClaimHistory` | 74,059 |
| `tokens` | `SupplyIsSum`, `TakenByConsent` | two holders, one of them a contract that accepts sends, amounts of half a token, allowances with and without expiry, 2 heights | 348,650 |
| `tested` | `AnswersAsTested`, `AcceptedIffInBucket` | the 21 unit tests at their own heights and amounts; in each state, a fresh deposit of every scalar of a field of 200 | 216 |
| `relayer` | `NothingForgotten`, `ProcessedMeansOver`, `SeedAnswersItsRequest` | two buyers, 4 heights, two faults of any kind | 1,556,224 |
| `served` | `RequestsServed` under `FairRelaySpec` | one buyer with two tokens, 5 heights, no fault | 18,974 |
| `loadtest` | `RefusedOnlyAfterLoss`, `SettledMeansIncluded`, `ReportIsComplete`, `CountedUnlessCutOff` | both load scripts: two interchangeable accounts, two bursts or lanes of two, blocks of three transactions, one fault | 2,428,400 |
| `doc_kanonymity`, `doc_fallback`, `doc_commitment`, `doc_legacy`, `doc_relayer`, `doc_settlement` | one statement of a comment or message each; TLC finds a violation | small instances | |

### Bounds

- Three payloads and two buyers are the least at which swap-and-pop moves a slot
  that is neither first nor last, two requests compete for what is left, and the
  depth crosses k = 2 in both directions more than once.
- Heights are bounded by `MaxHeight`. With timeouts of 2 blocks, 6 heights leave
  room for a starvation, a recovery of it and a second one. `U64Max` is 6 there, so
  that a request made in the last blocks has a refund that can only abort. The runs of the
  relayer need a request, its commit, a poll, an answer's block, and one more.
- `Seeds` of 0, 1, 2 reach every slot of a vault of at most three; 7 is above
  `U64Max` and stands for a string that is no `u64`.
- `U64Max`, `Never` and the field's order are small numbers that stand for ones
  that TLC's integers cannot hold; the theorems hold of the real ones.
- `tested` has a state per step of a test; 100 of them are the blocks that
  `recover_oracle_timeout_succeeds` lets pass. The field of 200 with a window of
  100 satisfies `WindowAssumption` with nothing to spare.
- Allowances are bounded by `MaxAllowance`, faults by `MaxFaults`. In `tokens` a
  whole token moves in two steps of half a token; messages of a whole one reach
  the same states.
- In `loadtest`, four transactions and blocks of three leave some for a second
  block; five heights and three rounds are the least at which the loop can
  settle after having looked at three blocks. The mempool has no limit: the
  script sets it far above the load. A block's transactions all succeed or all
  fail (`Successes`); the properties only use the sum.
- Deadlock is not checked: with heights and messages bounded the model stops
  when both are used up. The contract itself has no obligation to be called.
  In `tested` a test that has passed stutters and deadlock is checked: it would be
  a message that the test expects to succeed and the model cannot execute.

### Fairness

`FairHistorySpec` adds `Fairness` of `RareBullet`: blocks are produced, a buyer
whose oracle timeout has elapsed does call `RecoverOracleTimeout`, and a holder who
is allowed to request does so. All three are weak: `RecoverOracleTimeout` and, in a
starved vault, `BurnAndRequest` stay enabled once they are, until the buyer or the
oracle acts. Nothing is assumed of the oracle. `EveryRequestEnds` and
`StarvedVaultOpens` claim only what falls due before `MaxHeight` and `U64Max`
(`InHorizon`). The safety properties of the run do not depend on the fairness.

`FairRelaySpec` assumes a chain that commits, indexes and includes, and a relayer
process that runs; all weak, as the loop blocks on one thing at a time. It
assumes nothing of buyers. `RequestsServed` is checked with no fault, since any
of them may cost a request.

### What the runs show

The tables of the contract agree in all reachable states, requests end exactly
once, the fallback's clock is exact, and the contract implements the abstract
exchange. No message is answered by a failed load or by `NoActivePayloads`: the
checks for them can be relied on never to fire. A buyer who is quoted a height
for the refund can act on it; a request stays admissible until a claim takes the
vault from depth k to below it, which is the one thing another user can do to a
holder. That one is admitted again when the vault is back at depth k, or has
been below it for `FallbackTimeout` blocks since it was last there, to the
block. The draw is even: however swap-and-pop has rearranged the index, the
seeds that pick two active payloads differ in number by one at most. Nobody
loses tokens to another account's message beyond an unexpired allowance. A
request whose refund would overflow a `u64` can still be answered. The relayer,
reading the height before it searches, forgets no request of its own accord;
each fault does cost the requests it hits, which then end by recovery only.
Without one, every request made since its start and up to the height it records
is over: since it waits for each receipt, no answer is refused because the one
before it is still in the mempool. Until something fails, a seed reaches a
request made after it was drawn only if the buyer took the earlier one back.
After a crash or a wait that was given up this is no longer so: a second seed
drawn for a request already answered can be sent when the same buyer has asked
again, which is why `SeedAnswersItsRequest` is limited to `faults = 0`.

The settlement loop of the load test prints "All transactions included" after two
sampled empty blocks. Two do not show it: the first may be saved and the second
already reaped before the last burst arrives, and the load is then in neither.
`doc_settlement` shows it with one transaction and no failure
(`AllTransactionsIncluded`). A third block is always reaped after the burst, so
`SettledMeansIncluded` and `ReportIsComplete` have the condition
`LookedLongEnough`. With it the report covers all that was
counted as broadcast, although the last block may have no results yet when it is
scanned, and exceeds it only by what timed out.

A lane of `hippod-send-tx.sh` has no such loop. What it reports as dispatched is
what it sent: after one connection that drops at the wrong moment the rest of the
lane is refused and counted all the same. `CountedUnlessCutOff` says that only
this can make the count wrong, though the answers come before `CheckTx`; it rests
on the one connection per lane, without which two transactions of a lane could
change places (`AnyOrder`).

Five comments and a message do not describe the code:

1. `min_vault_depth` is "Minimum active vault entries required before a buyer may
   claim" (state.rs:9), but the depth is checked at the request only. Two
   requests at depth k are both answered (`doc_kanonymity`).
2. The fallback opens at `start + timeout`, not strictly after it as state.rs:90
   says (`doc_fallback`).
3. Duplicate commitments are rejected (contract.rs:507) by their spelling: the
   same bytes in another case are accepted, under a fresh nullifier
   (`doc_commitment`).
4. "Only the legacy atomic BurnAndClaim path is active" without an oracle
   (msg.rs:25), but its dispatch is commented out (contract.rs:424): such a
   contract mints tokens that nothing redeems (`doc_legacy`).
5. The relayer's height-based skip does not avoid processing an event twice
   (relayer.js:142): a block committed after `getBlock` is searched in this poll
   and in the next (`doc_relayer`). The query for a pending request makes the
   second time harmless as a rule.
6. "All transactions included (2 consecutive empty blocks [...])"
   (setup_singlenode_bench.sh:977) is printed when the second of the two was reaped
   before the last burst and no block has it (`doc_settlement`).

Two more are only inexact, and no run is about them. msg.rs:53 lists the bit sizes
8, 16, 32 and 64 for a proof, and the handler accepts 32 alone (contract.rs:550).
error.rs:59 says that recovery is available "after" the height it quotes, and it
is at that height (contract.rs:985), as `recover_oracle_timeout_succeeds` asserts
and `RefundAsQuoted` takes it.

## Proofs

The theorems hold for every configuration, set of accounts, messages and seeds
that satisfies the assumptions `ConfigAssumption`, `AccountsFinite`,
`MessageAssumption`, `WindowAssumption` and `CommitmentAssumption`, and for the
relayer `RelayerAssumption`: the oracle's account can send, the first block is
not 0, and `None` is no transaction. Those about the load scripts need
`LoadAssumption` only: finitely many accounts, and any numbers of bursts, rounds,
blocks, faults and transactions per block. `WindowAssumption` and `CommitmentAssumption`
say that the field has room for two windows, which 2^252 and 2^32 do, and that a
point has one opening, which is the binding of Pedersen commitments. Soundness of
the bulletproofs crate is what `VerifyBulletproof` says and is not proved.

| theorem | argument |
|---|---|
| `TypeCorrect` | `TypeOK` is inductive: one lemma per message. That the index has no gap rests on swap-and-pop removing exactly the last slot (`SwapAndPopType`). |
| `StarvationAlwaysTracked` | inductive with `TypeOK`. A request needs an active payload, so the vault is not empty and the tracker is running if it must: the fail-safe is dead code. |
| `ActiveSlotsAlwaysExact` | inductive with `TypeOK`: a deposit appends a fresh id (`AppendSlot`), a fulfilment takes out the selected one and keeps the others once each (`SwapAndPopRange`). |
| `AlwaysBacked` | inductive with `TypeOK`, counting: supply + requests changes with the active payloads, message by message. |
| `VaultAlwaysProven` | not inductive alone: that no nullifier is in the vault twice needs the vault's nullifiers to be marked (`NullifiersMarked`). A value in the bucket comes from `VerifiedIsInBucket`. |
| `RequestsResolveOnce` | of each step, from `TypeOK`: a fulfilment and a recovery are the only messages that remove a request, and each removes its own (`FulfilmentResolves`, `RecoveryResolves`); a new one goes to a buyer who has none. |
| `StarvationClockAlwaysKept` | of each step, from `TypeOK`: the tracker is left alone unless the depth crosses k. |
| `VaultAlwaysAppendOnly` | of each step, from `TypeOK` and `ActiveSlotsExact`: the payload a fulfilment takes out of the index was active, so its status only ever falls. |
| `BypassAlwaysNeedsStarvation` | of the specification with the history variable: a running tracker was started no earlier than the vault was last deep (`ClockAfterDepth`), so what has elapsed since the one has elapsed since the other. |
| `SupplyAlwaysSum` | `SupplyIsSum` counts base units as elements of a set, the pairs of a holder and a number up to its balance. A mint adds as many elements as it adds to the supply, a move takes as many from one holder as it gives the other, so finite cardinalities do the work of a sum over accounts. |
| `HoldersNeverStranded` | from `AlwaysBacked` and the same count: a holder's units are a part of the supply. |
| `ClaimedAlwaysOnce` | inductive with `TypeOK` and `ActiveSlotsExact`: the selected payload is active, hence in nobody's claims. |
| `ContractImplementsClaims` | step simulation under the refinement mapping: a deposit is a `Register`, a request a `Redeem`, a fulfilment an `Award`, a recovery a `Refund`; every other transaction is a stutter. Needs every id the vault can use to be an abstract item (`Nat \subseteq PayloadIds`). |
| `SelectionAlwaysEven` | from `TypeOK` and `ActiveSlotsExact`: each active payload has one slot, and a slot the seeds below 2^w with its remainder. Adding the count to a seed keeps the remainder (`RemainderShift`), and two seeds of one remainder are at least the count apart (`RemainderGap`), so the seeds of one slot, but for the first, go one to one to those of any other (`RemaindersEven`). |
| `QueueWithinVault` | from `Backed`: a token is worth a payload and the supply is not negative. |
| `AlwaysTakenByConsent` | of each message, from `TypeOK`: a message that takes from an account not its sender's spends the allowance of exactly that pair (`TokenTxWithin`), and the exchange takes from its sender or gives (`ExchangeTxWithin`). |
| `FailSafeIsDead` | from `StarvationTracked`: whenever the handler would start the tracker, it runs. |
| `VerdictsAreFinal` | of each step: nullifiers and commitments are never unmarked, and nothing else of the state enters a verdict. |
| `AcceptsExactlyTheBucket` | the checks that are not the hypothesis reduce to the two ranges, then `RangesCharacteriseBucket`. |
| `RequestsAlwaysAnswerable` | `Backed`: a pending request means an active payload, so `seed % count` is a slot of the index (`PendingSelects`). |
| `RefundsAsQuoted`, `RequestsStayOpen` | of each step, by message: what a third party can change of an answer. The second needs that a balance is within the supply (`AlwaysWithinSupply`), or the burn could refuse what the checks admit. |
| `RepliesAlwaysForeseen` | from `TypeOK`, `Backed`, `NeverStranded`, `StarvationTracked`, `AlwaysWithinSupply`, and that no recorded height lies in the future (`RequestsPast`). |
| `HoldersAlwaysAdmitted` | of the specification with the history variable: the converse of `ClockAfterDepth` is inductive as well (`ClockFromDepth`), so a running tracker holds exactly the height at which the vault was last deep, and the gate opens when that says (`FallbackAlwaysOnTime`). The vault is not empty (`NeverStranded`) and the burn succeeds (`AlwaysWithinSupply`). |
| `ExecutedIsAnsweredOk` | by message: the guard of each action implies every check of its answer, `TypeOK` supplying the numbers. With `RepliesAlwaysForeseen` it ties the two readings of a handler, as a guard and as a list of checks, to each other. |
| `RelayerUsesTheContract` | step simulation with a type invariant of the loop (`RelayType`): what the relayer sends is a `FulfillRandomness` of its own account. The theorems about the contract therefore hold in the composition. |
| `RelayerForgetsNothing` | `NothingForgotten` is about `lastProcessedHeight`, which only `FinishPoll` moves, so the invariant must say what a poll under way still owes: every last event of a waiting buyer up to `currentHeight` is in `todo` or was taken by a fault (`Owed`). Removing an event from `todo` without a fault needs its request to be over, or made after the height was read: by the committed state (`LogTracks`), or because the transaction at hand, once in a block, ended it (`AtHand`, `IncludeEnds`, which rests on `RequestsAlwaysAnswerable`'s lemma). |
| `InclusionEndsRequest` | from `TypeOK` and `Backed` (`IncludeEnds`): with a request pending some payload is active, so every check of the answer is met; without one the answer fails and there was nothing to end. An answer that runs out of gas is not an `Include`: it is a fault, and its event is in `dropped`. |
| `ProcessedIsOver` | `RelayerForgetsNothing` with the invariant that nothing is in `dropped` while `faults` is 0 (`NoneDropped`). Only an answer refused for its sequence number could drop one then, and `OneAtATime` excludes it. |
| `SeedsAnswerTheirRequests` | of each step that takes a request from a buyer and gives it a payload, from an invariant about what is in flight. `InTime`: the draw, and the transaction in the mempool, carry an event that is `Fresh`, which is to say the last of a buyer who waits, or so old that the buyer could have taken it back; only a recovery or an answer can end the first, and the recovery makes it the second (`StepFresh`). A draw starts fresh because the committed state shows it (`Seen`), and that is true only while no answer has gone into the block being built. `OneAtATime` says so: without a fault the relayer queries only when the receipt of its last answer was in the index, hence after that block. With a fault it may query earlier, which is why the property stops there. |
| `RefusalsFollowLosses` | by the invariant `ScriptsInv` of both load scripts. Of each account the node holds the first transactions of its lane, each once (`Lanes`, `Once`), so the sequence number it expects is known. A transaction is sent after all before it in its lane, and what was sent and is not in the node is on its way or was cut off (`Placed`). What is on its way comes first, unless a connection failed in between (`InOrder`), so the number fits unless one before it was lost (`NoGapNoRefusal`, `RefusedBehindCut`). |
| `TheCountIsOffByTheCutOff` | from `Placed` of the same invariant. |
| `SettlementIsBelievable` | `Settlement`: a block reaped after a watched height was saved is reaped when nothing is on its way any more, so if it is empty the mempool was too, and all that counts is in blocks. It is at least the second after that height (`Pipeline`: the block under way may have been reaped before). Of three heights looked at, the last is two above the first. |
| `ReportsAreComplete` | the scan has counted the transactions of the blocks it has read, or of all but the last, which had no results yet (`Scan`). The last one, if it has none, is the empty block that settled the run or one above it; the count of the others, in which no transaction is twice (`Once`), lies between what was counted and that with what was given up (`Acknowledged`). |
| `RangesCharacteriseBucket` | by cases on where the value lies; a value below the floor wraps to the top of the field, one above the ceiling passes at most one of the ranges. |

The invariants behind `SeedsAnswerTheirRequests` and the load scripts' theorems
were first checked by TLC on the instances of `relayer` and `loadtest`. The
theorems cover boundaries no instance has: k = 0, an oracle timeout of 0, a
`U64Max` of any size, a block of one transaction.

Only model-checked: the liveness properties (`EveryRequestEnds`,
`StarvedVaultOpens`, `RequestsServed`), which need fairness and `ENABLED` and are
out of the prover's reach, and `AnswersAsTested`, which is about 21 fixed scripts
at their own constants. Every other property of a passing run is stated by a
theorem.

## Not modelled

- The Threshold TEE committee and the attestation oracle have no code. The
  README's "re-mints the token if the TEE committee fails to respond"
  (README.md:35) has no counterpart: the recovery covers an oracle that does not
  answer, before the payload is selected.
- The legacy `BurnAndClaim` and its tests are commented out.
- Gas, events other than `oracle_request`, response attributes, the token's name
  and decimals and the opaque fields of a payload: nothing in the state depends
  on them.
- The rest of `setup_singlenode_bench.sh` (set-up of the chain, deployment, signing,
  timings) and of `hippod-send-tx.sh` (funding, signing) is straight-line commands
  that finish before, or start after, what is modelled. A second run of the sender
  next to a mempool that still holds the first, and a full mempool, are not in the
  model: the scripts start with an empty one and set its limit far above the load.
- `wasmd_gas_estimate.sh`, `gas_sim.sh`, `instantiate.sh`, the files of `tests/` and
  the timing crate `d1_wasm_vm_bench` keep no state of the protocol: they measure,
  or make the proofs that deposits carry.

## Plan

1. (done) `Bulletproof`, `Cw20`, `RareBullet` with the `exchange` and
   `tokens` runs; `Claims` and the refinement; `Relayer` with its runs.
2. (done) `LoadTest` and `LoadSender`; `Interface` with the boundaries of the
   configuration (an unset oracle, a timeout next to `U64Max`); `UnitTests`.
3. (done) Proofs of the safety properties of the contract and its answers, of the
   refinement, of the relayer's and of the load scripts'.
4. (done) The draw, the allowances, the fallback opening on time and the relayer
   without faults, each with its theorem.
5. Left: k = 0 and an oracle timeout of 0 as an instance of their own. The
   theorems cover both.
