------------------------------- MODULE LoadTest -------------------------------
(***************************************************************************)
(* The load test of setup_singlenode_bench.sh: bursts of presigned         *)
(* deposits, the wait until they have settled, and the scan of the blocks  *)
(* that the reported numbers come from.                                    *)
(*                                                                         *)
(* The node is external and modelled by what the script relies on.  A      *)
(* block is reaped from the mempool, saved, which is when the node's       *)
(* status shows its height, and executed, which is when it has results and *)
(* its transactions leave the mempool.  Heights count from the block after *)
(* DEPLOY_END_HEIGHT.                                                      *)
(***************************************************************************)
EXTENDS Integers, Sequences, FiniteSets, SequencesExt

CONSTANTS
    LoadAccounts,     \* the load_user_i, one transaction of each per burst
    SustainedBlocks,  \* how many bursts
    Capacity,         \* how many transactions a block holds
    MaxSettleWait,    \* rounds of the settlement loop
    MaxBlocks,        \* bound: the heights of the chain
    MaxFaults         \* bound: requests and reads that fail

ASSUME LoadAssumption ==
    /\ IsFiniteSet(LoadAccounts) /\ SustainedBlocks \in Nat \ {0}
    /\ {Capacity, MaxSettleWait, MaxBlocks} \subseteq Nat \ {0} /\ MaxFaults \in Nat

VARIABLES
    step,          \* where the script is
    burst,         \* of each account: the burst it is at, block_idx
    request,       \* of each account: its request of this burst
    acknowledged,  \* the transactions counted in BROADCAST_OK
    curH, prevH,   \* CUR_H and PREV_SETTLE_H; 0 when the status is not read
    stable,        \* STABLE_COUNT
    elapsed,       \* SETTLE_ELAPSED, in rounds
    settled,       \* "All transactions included" was printed
    latest,        \* LATEST_HEIGHT
    scanned,       \* the last height scanned
    confirmed,     \* CONFIRMED
    failed,        \* TOTAL_FAILED_WASM + TOTAL_FAILED_GAS + TOTAL_FAILED_OTHER
    mempool,
    proposal,      \* the block reaped and not saved yet, if any
    blocks,        \* the saved blocks
    results,       \* of the executed ones: how many transactions succeeded and failed
    stray,         \* the script has gone on without them: not yet seen by the node
    refused,       \* history: what CheckTx turned down
    abandoned,     \* history: what the script gave up on
    probed,        \* history: the heights the settlement loop looked at
    unread,        \* history: some read of the scan failed
    faults         \* how many faults there were

load == <<burst, request, acknowledged>>
settle == <<curH, prevH, stable, elapsed, settled>>
scan == <<latest, scanned, confirmed, failed>>
chain == <<mempool, proposal, blocks, results>>
lost == <<stray, refused, abandoned>>
ghost == <<probed, unread, faults>>
loadVars == <<step, load, settle, scan, chain, lost, ghost>>

Tx(a, b) == [account |-> a, burst |-> b]
Current(a) == Tx(a, burst[a])
NoBlock == <<>>
None == [reaped |-> FALSE, txs |-> NoBlock]

\* Signing takes longer than a block: empty ones are saved before the first
\* burst, and one stands for them.
RestInit ==
    /\ curH = 0 /\ prevH = 0 /\ stable = 0 /\ elapsed = 0 /\ settled = FALSE
    /\ latest = 0 /\ scanned = 0 /\ confirmed = 0 /\ failed = 0
    /\ mempool = <<>> /\ proposal = None
    /\ blocks = <<NoBlock>> /\ results = <<[succeeded |-> 0, failed |-> 0]>>
    /\ stray = {} /\ refused = {} /\ abandoned = {}
    /\ probed = {} /\ unread = FALSE /\ faults = 0

LoadInit ==
    /\ step = "broadcast"
    /\ burst = [a \in LoadAccounts |-> 1] /\ request = [a \in LoadAccounts |-> "sent"]
    /\ acknowledged = {}
    /\ RestInit

Fault == faults < MaxFaults /\ faults' = faults + 1

--------------------------------------------------------------------------------
(***************************************************************************)
(* The node.                                                               *)
(***************************************************************************)

Included == UNION {ToSet(blocks[h]) : h \in DOMAIN blocks}

\* An account's sequence number in the state that CheckTx uses.
Sequence(a) == Cardinality({t \in Included \cup ToSet(mempool) : t.account = a})

\* Faulty variant: the sequence numbers start at 1.
SignedFromOne(t) == t.burst

\* The transaction of burst b was signed with sequence number b - 1.
SignedSequence(t) == t.burst - 1

CheckTx(t) ==
    IF SignedSequence(t) = Sequence(t.account)
    THEN mempool' = Append(mempool, t) /\ UNCHANGED refused
    ELSE refused' = refused \cup {t} /\ UNCHANGED mempool

\* Faulty variant: each transaction has a connection of its own.
AnyOrder(t) == TRUE

\* One connection keeps its transactions in order: only one that was cut off in
\* between lets t overtake another of its account.
InOrder(t) ==
    \A u \in stray : u.account = t.account /\ u.burst < t.burst =>
        \E v \in abandoned : v.account = t.account /\ v.burst \in u.burst .. t.burst - 1

Arrive(a) ==
    /\ request[a] = "sent" /\ InOrder(Current(a))
    /\ CheckTx(Current(a))
    /\ request' = [request EXCEPT ![a] =
           IF SignedSequence(Current(a)) = Sequence(a) THEN "accepted" ELSE "refused"]
    /\ UNCHANGED <<step, burst, acknowledged, settle, scan, proposal, blocks, results,
                   stray, abandoned, ghost>>

\* A request that its sender does not wait for any more reaches the node.
ArriveLate(t) ==
    /\ t \in stray /\ InOrder(t)
    /\ stray' = stray \ {t}
    /\ CheckTx(t)
    /\ UNCHANGED <<step, load, settle, scan, proposal, blocks, results, abandoned, ghost>>

Reap ==
    /\ ~proposal.reaped /\ Len(results) = Len(blocks) /\ Len(blocks) < MaxBlocks
    /\ proposal' = [reaped |-> TRUE,
                    txs |-> IF Len(mempool) > Capacity THEN SubSeq(mempool, 1, Capacity)
                            ELSE mempool]
    /\ UNCHANGED <<step, load, settle, scan, mempool, blocks, results, lost, ghost>>

Save ==
    /\ proposal.reaped
    /\ blocks' = Append(blocks, proposal.txs) /\ proposal' = None
    /\ UNCHANGED <<step, load, settle, scan, mempool, results, lost, ghost>>

\* How many of n may succeed: the reports add up successes and failures, so
\* that all or none of a block stand for the rest.
Successes(n) == {0, n}

\* The oldest transactions of the mempool are those of the block.
ExecuteBlock ==
    /\ Len(results) < Len(blocks)
    /\ LET n == Len(Last(blocks)) IN
       /\ \E ok \in Successes(n) :
             results' = Append(results, [succeeded |-> ok, failed |-> n - ok])
       /\ mempool' = SubSeq(mempool, n + 1, Len(mempool))
    /\ UNCHANGED <<step, load, settle, scan, proposal, blocks, lost, ghost>>

Node == \/ \E a \in LoadAccounts : Arrive(a)
        \/ \E t \in stray : ArriveLate(t)
        \/ Reap \/ Save \/ ExecuteBlock

--------------------------------------------------------------------------------
(***************************************************************************)
(* The bursts.                                                             *)
(***************************************************************************)

\* The script goes on before the node may have seen the transaction.
LeftBehind(a) == IF request[a] = "sent" THEN stray \cup {Current(a)} ELSE stray

\* The node's answer reaches the script, which counts it if its code is 0.
Answer(a) ==
    /\ step # "lanes" /\ request[a] \in {"accepted", "refused"}
    /\ request' = [request EXCEPT ![a] = "done"]
    /\ acknowledged' = IF request[a] = "accepted" THEN acknowledged \cup {Current(a)}
                       ELSE acknowledged
    /\ UNCHANGED <<step, burst, settle, scan, chain, lost, ghost>>

\* The request times out, before or after the node has taken it.
GiveUp(a) ==
    /\ step # "lanes" /\ request[a] # "done" /\ Fault
    /\ request' = [request EXCEPT ![a] = "done"]
    /\ abandoned' = abandoned \cup {Current(a)}
    /\ stray' = LeftBehind(a)
    /\ UNCHANGED <<step, burst, acknowledged, settle, scan, chain, refused, probed, unread>>

LastBurst == \A a \in LoadAccounts : burst[a] = SustainedBlocks

\* Faulty variant: the last burst is not waited for.
BurstEndsEarly ==
    /\ step = "broadcast"
    /\ LastBurst \/ \A a \in LoadAccounts : request[a] = "done"
    /\ IF LastBurst THEN step' = "height" /\ UNCHANGED <<burst, request>>
       ELSE /\ burst' = [a \in LoadAccounts |-> burst[a] + 1]
            /\ request' = [a \in LoadAccounts |-> "sent"]
            /\ UNCHANGED step
    /\ UNCHANGED <<acknowledged, settle, scan, chain, lost, ghost>>

\* The next burst waits for every request of this one.
BurstEnds ==
    /\ step = "broadcast"
    /\ \A a \in LoadAccounts : request[a] = "done"
    /\ IF LastBurst THEN step' = "height" /\ UNCHANGED <<burst, request>>
       ELSE /\ burst' = [a \in LoadAccounts |-> burst[a] + 1]
            /\ request' = [a \in LoadAccounts |-> "sent"]
            /\ UNCHANGED step
    /\ UNCHANGED <<acknowledged, settle, scan, chain, lost, ghost>>

--------------------------------------------------------------------------------
(***************************************************************************)
(* The settlement loop.                                                    *)
(***************************************************************************)

\* Sleep, and go round again if there is time left.
NextRound ==
    /\ elapsed' = elapsed + 1
    /\ step' = IF elapsed' < MaxSettleWait THEN "height" ELSE "latest"

\* get_chain_height_rpc: the last saved block, or 0 if the status is not read.
ReadHeight ==
    /\ step = "height"
    /\ \/ curH' = Len(blocks) /\ UNCHANGED faults
       \/ curH' = 0 /\ Fault
    /\ IF curH' # prevH /\ curH' # 0 THEN step' = "count" /\ UNCHANGED elapsed
       ELSE NextRound
    /\ UNCHANGED <<prevH, stable, settled, load, scan, chain, lost, probed, unread>>

\* get_block_tx_count and the two branches on it.  Its output when curl fails
\* is the 0 of the parser and the 0 of the fallback: not the string "0".
CountTxs ==
    /\ step = "count"
    /\ probed' = probed \cup {curH}
    /\ \/ /\ blocks[curH] = NoBlock /\ stable' = stable + 1 /\ UNCHANGED faults
       \/ /\ blocks[curH] # NoBlock /\ stable' = 0 /\ UNCHANGED faults
       \/ /\ Fault /\ stable' = 0
    /\ settled' = (stable' >= 2)
    /\ IF settled' THEN step' = "latest" /\ UNCHANGED <<prevH, elapsed>>
       ELSE prevH' = curH /\ NextRound
    /\ UNCHANGED <<curH, load, scan, chain, lost, unread>>

--------------------------------------------------------------------------------
(***************************************************************************)
(* The scan.                                                               *)
(***************************************************************************)

\* With no height read there is nothing to scan.
ReadLatest ==
    /\ step = "latest"
    /\ \/ latest' = Len(blocks) /\ UNCHANGED <<faults, unread>>
       \/ latest' = 0 /\ Fault /\ unread' = TRUE
    /\ step' = "scan"
    /\ UNCHANGED <<load, settle, scanned, confirmed, failed, chain, lost, probed>>

NoResult == [succeeded |-> 0, failed |-> 0]

\* block_results of a height, as parse_block_results reads it.
BlockResults(h) == IF h \in DOMAIN results THEN results[h] ELSE NoResult

\* Faulty variant: only a block with a success counts.
CountedIfConfirmed(r) == IF r.succeeded > 0 THEN r ELSE NoResult

\* A block counts if it has any transaction, successful or not.
Counted(r) == IF r.succeeded + r.failed > 0 THEN r ELSE NoResult

ScanBlock ==
    /\ step = "scan" /\ scanned < latest
    /\ scanned' = scanned + 1
    /\ \/ LET r == Counted(BlockResults(scanned')) IN
          /\ confirmed' = confirmed + r.succeeded /\ failed' = failed + r.failed
          /\ UNCHANGED <<faults, unread>>
       \/ Fault /\ unread' = TRUE /\ UNCHANGED <<confirmed, failed>>
    /\ UNCHANGED <<step, load, settle, latest, chain, lost, probed>>

Report ==
    /\ step = "scan" /\ scanned >= latest
    /\ step' = "report"
    /\ UNCHANGED <<load, settle, scan, chain, lost, ghost>>

Script == \/ \E a \in LoadAccounts : Answer(a) \/ GiveUp(a)
          \/ BurstEnds \/ ReadHeight \/ CountTxs \/ ReadLatest \/ ScanBlock \/ Report

LoadNext == Node \/ Script

LoadSpec == LoadInit /\ [][LoadNext]_loadVars

--------------------------------------------------------------------------------
(***************************************************************************)
(* Properties.                                                             *)
(***************************************************************************)

\* Only a request that was lost before it costs a transaction its sequence
\* number: one account per transaction of a burst, and bursts that wait for
\* each other's answers, leave no collisions.
RefusedOnlyAfterLoss ==
    \A t \in refused : \E u \in abandoned : u.account = t.account /\ u.burst < t.burst

\* The third block looked at was reaped after the last burst.
LookedLongEnough == Cardinality(probed) >= 3

\* Settlement seen over three blocks or more means what it says: every
\* transaction counted as broadcast is in a block up to the one looked at.
SettledMeansIncluded ==
    settled /\ LookedLongEnough =>
        acknowledged \subseteq UNION {ToSet(blocks[h]) : h \in 1 .. curH}

\* Then the scan, if its reads succeed, misses no transaction that was counted
\* as broadcast, though the last blocks may have no results yet, and finds none
\* that was not sent.
ReportIsComplete ==
    step = "report" /\ settled /\ LookedLongEnough /\ ~unread =>
        confirmed + failed \in Cardinality(acknowledged)
                               .. Cardinality(acknowledged \cup abandoned)

================================================================================
