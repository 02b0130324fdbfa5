-------------------------------- MODULE Relayer --------------------------------
(***************************************************************************)
(* The oracle relayer (relayer-bot/relayer.js) and the contract it serves. *)
(*                                                                         *)
(* The relayer polls for blocks, searches the node's index for the events  *)
(* of BurnAndRequest, and answers each with FulfillRandomness if the       *)
(* contract still holds a request of that buyer.  It has no state on disk, *)
(* retries nothing, and sees only committed blocks: `height` is the block  *)
(* being built, height - 1 the last one it can see.                        *)
(*                                                                         *)
(* Between the relayer and the contract are a mempool, which holds at most *)
(* one of its transactions because they are signed with consecutive        *)
(* sequence numbers, and an index that is filled after the commit.  The    *)
(* holders' token movements are left out: the relayer reads none of them.  *)
(***************************************************************************)
EXTENDS RareBullet, FiniteSetsExt

CONSTANT MaxFaults  \* bound: how often the node or the relayer fails

\* The first block is 1: a relayer that starts at 0 misses none.
ASSUME RelayerAssumption ==
    /\ OracleAddress \in Senders /\ MaxFaults \in Nat /\ InitHeight > 0
    /\ None \notin [buyer: Accounts, seed: Seeds, asked: Nat]

VARIABLES
    pc,                   \* where main's loop is
    lastProcessedHeight,
    currentHeight,        \* of the poll under way
    todo,                 \* the search results not handled yet, as positions in log
    draw,                 \* the seed drawn for the request being answered, or None
    log,                  \* every oracle_request event ever emitted
    committed,            \* the buyers with a request in the last committed state
    indexedHeight,        \* the node has indexed the blocks up to this one
    mempool,              \* the relayer's transaction in flight, or None
    includedAt,           \* the block of its last transaction that got into one
    startHeight,          \* history: where the relayer last started from
    dropped,              \* history: the events a fault made the relayer pass over
    faults                \* how many faults there were

loop == <<pc, lastProcessedHeight, currentHeight, todo, draw>>
node == <<log, committed, indexedHeight, mempool, includedAt>>
ghost == <<startHeight, dropped, faults>>
relayVars == <<vars, loop, node, ghost>>

RelayInit ==
    /\ Init
    /\ pc = "start" /\ lastProcessedHeight = 0 /\ currentHeight = 0
    /\ todo = {} /\ draw = None
    /\ log = <<>> /\ committed = {} /\ indexedHeight = InitHeight - 1
    /\ mempool = None /\ includedAt = 0
    /\ startHeight = 0 /\ dropped = {} /\ faults = 0

--------------------------------------------------------------------------------
(***************************************************************************)
(* The chain: the contract's transactions, commits and the index.          *)
(***************************************************************************)

\* The position of the last request event of b among those of blocks up to h.
LastRequest(b, h) == Max({i \in DOMAIN log : log[i].buyer = b /\ log[i].height <= h})

UserTx(s) ==
    /\ \/ (\E m \in DepositMsgs : Deposit(s, m)) /\ UNCHANGED log
       \/ RecoverOracleTimeout(s) /\ UNCHANGED log
       \/ BurnAndRequest(s) /\ log' = Append(log, [buyer |-> s, height |-> height])
    /\ UNCHANGED <<loop, committed, indexedHeight, mempool, includedAt, ghost>>

Commit ==
    /\ NextBlock
    /\ committed' = DOMAIN pending
    /\ UNCHANGED <<loop, log, indexedHeight, mempool, includedAt, ghost>>

IndexBlock ==
    /\ indexedHeight < height - 1
    /\ indexedHeight' = indexedHeight + 1
    /\ UNCHANGED <<vars, loop, log, committed, mempool, includedAt, ghost>>

Answerable(tx) == tx.buyer \in DOMAIN pending /\ Selects(tx.seed)

\* A transaction in a block takes effect, or the contract refuses it there.
Include ==
    /\ mempool # None
    /\ \/ FulfillRandomness(OracleAddress, mempool.buyer, mempool.seed)
       \/ ~Answerable(mempool) /\ UNCHANGED vars
    /\ mempool' = None /\ includedAt' = height
    /\ UNCHANGED <<loop, log, committed, indexedHeight, ghost>>

--------------------------------------------------------------------------------
(***************************************************************************)
(* One poll, as far as nothing fails.                                      *)
(***************************************************************************)

\* main starts at the current block, or at 0 if it cannot fetch it.
Start ==
    /\ pc = "start" /\ pc' = "poll"
    /\ lastProcessedHeight' \in {height - 1, 0}
    /\ startHeight' = lastProcessedHeight'
    /\ UNCHANGED <<vars, node, currentHeight, todo, draw, dropped, faults>>

\* Without a new block the loop sleeps and polls again.
GetBlock ==
    /\ pc = "poll" /\ height - 1 > lastProcessedHeight
    /\ pc' = "search" /\ currentHeight' = height - 1
    /\ UNCHANGED <<vars, node, ghost, lastProcessedHeight, todo, draw>>

\* The search returns all that is indexed now, whatever currentHeight is; the
\* loop skips what is not above lastProcessedHeight.
SearchResult ==
    {i \in DOMAIN log : lastProcessedHeight < log[i].height /\ log[i].height <= indexedHeight}

SearchTx ==
    /\ pc = "search" /\ indexedHeight >= currentHeight
    /\ pc' = "handle"
    /\ todo' = SearchResult
    /\ UNCHANGED <<vars, node, ghost, lastProcessedHeight, currentHeight, draw>>

Event == Min(todo)

\* Seed for the event's buyer if there is a pending request, else next event.
QueryPending(seed) ==
    /\ pc = "handle" /\ todo # {}
    /\ LET b == log[Event].buyer
       IN  IF b \in committed
           THEN /\ pc' = "execute"
                /\ draw' = [buyer |-> b, seed |-> seed, asked |-> LastRequest(b, height - 1)]
                /\ UNCHANGED todo
           ELSE todo' = todo \ {Event} /\ UNCHANGED <<pc, draw>>
    /\ UNCHANGED <<vars, node, ghost, lastProcessedHeight, currentHeight>>

NextEvent == pc' = "handle" /\ todo' = todo \ {Event} /\ draw' = None

\* The node takes a transaction if it simulates on the committed state and no
\* earlier one of the relayer is still to be committed.
Simulates == draw.buyer \in committed
SequenceFree == mempool = None /\ includedAt < height

Execute ==
    /\ pc = "execute" /\ Simulates /\ SequenceFree
    /\ pc' = "await" /\ mempool' = draw /\ draw' = None
    /\ UNCHANGED <<vars, ghost, lastProcessedHeight, currentHeight, todo,
                   log, committed, indexedHeight, includedAt>>

\* It is refused: the request is gone, or an earlier transaction is in the way.
ExecuteRefused ==
    /\ pc = "execute" /\ ~(Simulates /\ SequenceFree)
    /\ NextEvent
    /\ dropped' = IF SequenceFree THEN dropped ELSE dropped \cup {Event}
    /\ UNCHANGED <<vars, node, lastProcessedHeight, currentHeight, startHeight, faults>>

\* A faulty variant of Confirmed: the receipt is not waited for.
ConfirmedEarly ==
    /\ pc = "await"
    /\ NextEvent
    /\ UNCHANGED <<vars, node, ghost, lastProcessedHeight, currentHeight>>

\* The client looks the transaction up in the index until it is there.
Confirmed ==
    /\ pc = "await" /\ mempool = None /\ includedAt <= indexedHeight
    /\ NextEvent
    /\ UNCHANGED <<vars, node, ghost, lastProcessedHeight, currentHeight>>

\* A faulty variant of FinishPoll: the height is read when the poll ends.
FinishPollLate ==
    /\ pc = "handle" /\ todo = {}
    /\ pc' = "poll" /\ lastProcessedHeight' = height - 1 /\ currentHeight' = 0
    /\ UNCHANGED <<vars, node, ghost, todo, draw>>

\* What was processed is up to the height read when the poll began.
FinishPoll ==
    /\ pc = "handle" /\ todo = {}
    /\ pc' = "poll" /\ lastProcessedHeight' = currentHeight /\ currentHeight' = 0
    /\ UNCHANGED <<vars, node, ghost, todo, draw>>

--------------------------------------------------------------------------------
(***************************************************************************)
(* What can fail.  Each fault counts against MaxFaults.                    *)
(***************************************************************************)

Fault == faults < MaxFaults /\ faults' = faults + 1

\* getBlock or searchTx throws: the poll is given up and nothing is recorded.
PollError ==
    /\ Fault /\ pc = "search"
    /\ pc' = "poll" /\ currentHeight' = 0
    /\ UNCHANGED <<vars, node, lastProcessedHeight, todo, draw, startHeight, dropped>>

\* The index lags behind the block that getBlock returned.  That happens to a
\* node that works well, but what it costs the relayer is what a fault costs.
SearchTooEarly ==
    /\ Fault /\ pc = "search" /\ indexedHeight < currentHeight
    /\ pc' = "handle"
    /\ todo' = SearchResult
    /\ dropped' = dropped \cup {i \in DOMAIN log : indexedHeight < log[i].height
                                                   /\ log[i].height <= currentHeight}
    /\ UNCHANGED <<vars, node, lastProcessedHeight, currentHeight, draw, startHeight>>

\* The query, the broadcast or the wait for the receipt throws.  What is in the
\* mempool by then stays there.
EventError ==
    /\ Fault
    /\ todo # {} /\ pc \in {"handle", "execute", "await"}
    /\ NextEvent
    /\ dropped' = dropped \cup {Event}
    /\ UNCHANGED <<vars, node, lastProcessedHeight, currentHeight, startHeight>>

\* The gas that was estimated on the committed state is not enough for the state
\* in which the transaction is delivered: it is in a block and changes nothing,
\* and the relayer, if it waits for it, goes on to the next event.
OutOfGas ==
    /\ Fault /\ mempool # None
    /\ mempool' = None /\ includedAt' = height
    /\ dropped' = IF pc = "await" THEN dropped \cup {Event} ELSE dropped
    /\ UNCHANGED <<vars, loop, log, committed, indexedHeight, startHeight>>

\* The process dies and is started again.
Crash ==
    /\ Fault /\ pc # "start"
    /\ pc' = "start" /\ lastProcessedHeight' = 0 /\ currentHeight' = 0
    /\ todo' = {} /\ draw' = None
    /\ UNCHANGED <<vars, node, startHeight, dropped>>

--------------------------------------------------------------------------------

Handle == (\E seed \in Seeds : QueryPending(seed)) \/ Execute \/ ExecuteRefused \/ Confirmed
Poll == Start \/ GetBlock \/ SearchTx \/ FinishPoll
Fails == PollError \/ SearchTooEarly \/ EventError \/ OutOfGas \/ Crash

RelayNext ==
    \/ \E s \in Senders : UserTx(s)
    \/ Commit \/ IndexBlock \/ Include
    \/ Poll \/ Handle \/ Fails

RelaySpec == RelayInit /\ [][RelayNext]_relayVars

(***************************************************************************)
(* A node that produces blocks, indexes them and includes what it accepted,*)
(* and a relayer whose process runs.                                       *)
(***************************************************************************)
FairRelaySpec ==
    /\ RelaySpec
    /\ WF_relayVars(Commit) /\ WF_relayVars(IndexBlock) /\ WF_relayVars(Include)
    /\ WF_relayVars(Poll) /\ WF_relayVars(Handle)

--------------------------------------------------------------------------------

\* The only requests the relayer has passed over and left pending are those
\* that a fault took from it, or that were made before it started: reading the
\* height before the search loses no event.
NothingForgotten ==
    \A b \in DOMAIN pending :
        LET i == LastRequest(b, height)
        IN  startHeight < log[i].height /\ log[i].height <= lastProcessedHeight => i \in dropped

\* And unless something failed it has passed over none at all: as each answer's
\* receipt is waited for, no later one is refused because an earlier one is in
\* the way, and what was made since the start and is processed is over.
ProcessedMeansOver ==
    faults = 0 =>
        \A b \in DOMAIN pending :
            LET i == LastRequest(b, height)
            IN  startHeight < log[i].height => lastProcessedHeight < log[i].height

\* Until something fails, a seed answers the request it was drawn for.  It can
\* answer a later request of the same buyer only if the buyer took the earlier
\* one back while the transaction was on its way.
SeedAnswersItsRequest ==
    [][\A b \in DOMAIN pending :
          (faults = 0 /\ b \notin DOMAIN pending' /\ claimed'[b] # claimed[b])
              => \/ mempool.asked = LastRequest(b, height)
                 \/ height - log[mempool.asked].height >= OracleTimeout]_relayVars

\* Without faults, a request made after the relayer started ends.
RequestsServed ==
    \A b \in Senders :
        (b \in DOMAIN pending /\ startHeight < pending[b].request_height
            /\ pending[b].request_height < MaxHeight /\ pc # "start")
        ~> b \notin DOMAIN pending

================================================================================
