---------------------------- MODULE Relayer_proofs ----------------------------
(***************************************************************************)
(* The relayer sends the contract nothing but its messages, passes over no *)
(* pending request unless a fault or a restart makes it, and until a fault *)
(* answers a request with the seed it has drawn for it.                    *)
(***************************************************************************)
EXTENDS Relayer, RareBulletVault_proofs, WellFoundedInduction

\* Of some natural numbers one is the least; if they are bounded, one is the
\* greatest.
LEMMA LeastNatural ==
    ASSUME NEW T, T \subseteq Nat, T # {}
    PROVE  \E x \in T : \A y \in T : x <= y
<1>1. PICK x \in T : \A y \in T : ~ (<<y, x>> \in OpToRel(<, Nat))
  BY NatLessThanWellFounded, WFMin
<1>2. ASSUME NEW y \in T PROVE x <= y
  <2>1. y < x => <<y, x>> \in OpToRel(<, Nat)
    BY DEF OpToRel
  <2>2. ~ (y < x)
    BY <1>1, <2>1
  <2>3. x \in Nat /\ y \in Nat
    OBVIOUS
  <2> QED BY <2>2, <2>3
<1> QED BY <1>2

LEMMA GreatestNatural ==
    ASSUME NEW T, NEW n \in Nat, T \subseteq 0 .. n, T # {}
    PROVE  \E x \in T : \A y \in T : x >= y
<1> DEFINE U == {n - x : x \in T}
<1>1. U \subseteq Nat /\ U # {}
  <2>1. \A x \in T : x \in 0 .. n
    OBVIOUS
  <2>2. \A x \in T : n - x \in Nat
    BY <2>1
  <2> QED BY <2>2
<1> HIDE DEF U
<1>2. PICK u \in U : \A v \in U : u <= v
  BY <1>1, LeastNatural
<1>3. PICK x \in T : u = n - x
  BY DEF U
<1>4. ASSUME NEW y \in T PROVE x >= y
  <2>1. n - y \in U /\ x \in Nat /\ y \in Nat
    BY DEF U
  <2>2. n - x <= n - y
    BY <1>2, <1>3, <2>1
  <2> QED BY <2>1, <2>2
<1> QED BY <1>4

--------------------------------------------------------------------------------
(***************************************************************************)
(* Types of the loop and the node, and the chain under them.               *)
(***************************************************************************)

LogEntry == [buyer: Accounts, height: Nat]

RelayType ==
    /\ lastProcessedHeight \in Nat /\ currentHeight \in Nat /\ startHeight \in Nat
    /\ indexedHeight \in Int
    /\ log \in Seq(LogEntry) /\ todo \subseteq DOMAIN log
    /\ committed \subseteq Senders
    /\ pc = "execute" => draw.buyer \in Senders /\ draw.seed \in Seeds
    /\ mempool # None => mempool.buyer \in Senders /\ mempool.seed \in Seeds
    /\ pc \in {"execute", "await"} => todo # {}
    /\ height > 0

\* The contract sees a step of the exchange, or none.
LEMMA StepOfContract == RelayType /\ [RelayNext]_relayVars => [Next]_vars
<1> SUFFICES ASSUME RelayType, [RelayNext]_relayVars PROVE [Next]_vars
  OBVIOUS
<1>1. ASSUME NEW s \in Senders, UserTx(s) PROVE Next
  BY <1>1 DEF UserTx, Next, ExchangeTx
<1>2. Commit => Next
  BY DEF Commit, Next
<1>3. CASE Include
  <2>1. /\ OracleAddress \in Senders /\ mempool.buyer \in Accounts /\ mempool.seed \in Seeds
    BY <1>3, RelayerAssumption, SenderType DEF Include, RelayType
  <2>2. \/ FulfillRandomness(OracleAddress, mempool.buyer, mempool.seed)
        \/ UNCHANGED vars
    BY <1>3 DEF Include
  <2> QED BY <2>1, <2>2 DEF Next, ExchangeTx
<1>4. IndexBlock \/ Poll \/ Handle \/ Fails => UNCHANGED vars
  BY DEF IndexBlock, Poll, Start, GetBlock, SearchTx, FinishPoll, Handle, QueryPending, Execute,
         ExecuteRefused, Confirmed, Fails, PollError, SearchTooEarly, EventError, OutOfGas, Crash
<1>5. UNCHANGED relayVars => UNCHANGED vars
  BY DEF relayVars
<1> QED BY <1>1, <1>2, <1>3, <1>4, <1>5 DEF RelayNext

\* A request is logged; nothing else is.
LEMMA LogSteps ==
    ASSUME RelayType, TypeOK, [RelayNext]_relayVars
    PROVE  \/ UNCHANGED log
           \/ \E s \in Senders :
                 /\ UserTx(s) /\ BurnAndRequest(s)
                 /\ log' = Append(log, [buyer |-> s, height |-> height])
  BY DEF RelayNext, UserTx, Commit, IndexBlock, Include, Poll, Start, GetBlock, SearchTx,
         FinishPoll, Handle, QueryPending, Execute, ExecuteRefused, Confirmed, Fails, PollError,
         SearchTooEarly, EventError, OutOfGas, Crash, relayVars, node

LEMMA LogEntries ==
    ASSUME RelayType, NEW j \in DOMAIN log
    PROVE  j \in Nat /\ log[j].buyer \in Accounts /\ log[j].height \in Nat
<1>1. log \in Seq(LogEntry)
  BY DEF RelayType
<1>2. j \in Nat /\ log[j] \in LogEntry
  BY <1>1
<1> QED BY <1>2 DEF LogEntry

\* The log only grows, by one request at the end.
LEMMA LogGrows ==
    ASSUME RelayType, NEW e \in LogEntry, log' = Append(log, e)
    PROVE  /\ log' \in Seq(LogEntry)
           /\ DOMAIN log' = DOMAIN log \cup {Len(log) + 1}
           /\ \A k \in DOMAIN log : k < Len(log) + 1 /\ log'[k] = log[k]
           /\ log'[Len(log) + 1] = e
  BY DEF RelayType

LEMMA StepRelayType ==
    RelayType /\ TypeOK /\ TypeOK' /\ [RelayNext]_relayVars => RelayType'
<1> SUFFICES ASSUME RelayType, TypeOK, TypeOK', [RelayNext]_relayVars PROVE RelayType'
  OBVIOUS
<1>1. height \in Nat /\ height > 0 /\ DOMAIN pending \subseteq Senders
  BY DEF RelayType, TypeOK
<1>2. ASSUME NEW s \in Senders, UserTx(s) PROVE RelayType'
  <2>1. UNCHANGED <<pc, lastProcessedHeight, currentHeight, todo, draw, committed, mempool,
                    indexedHeight, startHeight, height>>
    BY <1>2 DEF UserTx, loop, ghost, Deposit, RecoverOracleTimeout, BurnAndRequest
  <2>2. CASE UNCHANGED log
    BY <2>1, <2>2 DEF RelayType
  <2>3. CASE log' = Append(log, [buyer |-> s, height |-> height])
    <3>1. [buyer |-> s, height |-> height] \in LogEntry
      BY <1>1, SenderType DEF LogEntry
    <3>2. log' \in Seq(LogEntry) /\ DOMAIN log \subseteq DOMAIN log'
      BY <2>3, <3>1, LogGrows
    <3> QED BY <2>1, <3>2 DEF RelayType
  <2> QED BY <1>2, <2>2, <2>3 DEF UserTx
<1>3. CASE Commit
  BY <1>1, <1>3 DEF Commit, NextBlock, RelayType, loop, ghost, claims
<1>4. CASE Include
  <2>1. height' = height
    BY <1>4 DEF Include, FulfillRandomness, vars
  <2> QED BY <1>4, <2>1 DEF Include, RelayType, loop, ghost
<1>5. CASE IndexBlock
  BY <1>5 DEF IndexBlock, RelayType, loop, ghost, vars
<1>6. CASE Poll
  BY <1>1, <1>6 DEF Poll, Start, GetBlock, SearchTx, FinishPoll, SearchResult, RelayType, node,
                    ghost, vars
<1>7. CASE Handle
  <2>1. ASSUME NEW seed \in Seeds, QueryPending(seed) PROVE RelayType'
    BY <2>1 DEF QueryPending, RelayType, node, ghost, vars
  <2>2. CASE Execute
    BY <2>2 DEF Execute, RelayType, ghost, vars
  <2>3. CASE ExecuteRefused \/ Confirmed
    BY <2>3 DEF ExecuteRefused, Confirmed, NextEvent, RelayType, node, ghost, vars
  <2> QED BY <1>7, <2>1, <2>2, <2>3 DEF Handle
<1>8. CASE Fails
  BY <1>8 DEF Fails, PollError, SearchTooEarly, EventError, OutOfGas, Crash, NextEvent, SearchResult,
              RelayType, loop, node, vars
<1>9. CASE UNCHANGED relayVars
  BY <1>9 DEF relayVars, RelayType, loop, node, ghost, vars
<1> QED BY <1>2, <1>3, <1>4, <1>5, <1>6, <1>7, <1>8, <1>9 DEF RelayNext

LEMMA InitRelayType == RelayInit => RelayType
  BY RelayerAssumption, ConfigAssumption DEF RelayInit, Init, RelayType

LEMMA RelayTyped == RelaySpec => [](RelayType /\ TypeOK)
<1>1. RelayInit => RelayType /\ TypeOK
  BY InitRelayType, InitType DEF RelayInit
<1>2. RelayType /\ TypeOK /\ [RelayNext]_relayVars => (RelayType /\ TypeOK)'
  BY StepOfContract, StepType, StepRelayType
<1> QED BY <1>1, <1>2, PTL DEF RelaySpec

\* Whatever the relayer and its node do, crash and replay included, the contract
\* behaves as its own specification says: all that is proved of it holds here.
THEOREM RelayerUsesTheContract == RelaySpec => Spec
<1>1. RelayInit => Init
  BY DEF RelayInit
<1> QED BY <1>1, StepOfContract, RelayTyped, PTL DEF RelaySpec, Spec

--------------------------------------------------------------------------------
(***************************************************************************)
(* The log and the committed state against the requests of the contract.   *)
(***************************************************************************)

LastOf(j, b) ==
    /\ log[j].buyer = b
    /\ \A k \in DOMAIN log : log[k].buyer = b => k <= j

\* The last event of a buyer with a request is that of the request, and the
\* relayer can see the request from the next block on.
LogTracks ==
    /\ \A j \in DOMAIN log : log[j].height <= height
    /\ \A b \in DOMAIN pending :
          /\ \E j \in DOMAIN log : LastOf(j, b) /\ log[j].height = pending[b].request_height
          /\ pending[b].request_height < height => b \in committed
    /\ \A b \in committed : \E j \in DOMAIN log : log[j].buyer = b /\ log[j].height < height

\* There is one last event.
LEMMA LastIsRequest ==
    ASSUME RelayType, LogTracks, NEW b \in DOMAIN pending, NEW j \in DOMAIN log, LastOf(j, b)
    PROVE  /\ log[j].height = pending[b].request_height
           /\ LastRequest(b, height) = j
<1>1. PICK i \in DOMAIN log : LastOf(i, b) /\ log[i].height = pending[b].request_height
  BY DEF LogTracks
<1>2. DOMAIN log \subseteq Nat
  BY DEF RelayType
<1>3. i = j
  <2>1. i <= j /\ j <= i
    BY <1>1 DEF LastOf
  <2> QED BY <1>1, <1>2, <2>1
<1> DEFINE ofB == {k \in DOMAIN log : log[k].buyer = b /\ log[k].height <= height}
<1>4. j \in ofB /\ \A k \in ofB : j >= k /\ k \in Nat
  BY <1>2 DEF LastOf, LogTracks
<1>5. j \in Nat
  BY <1>2
<1> HIDE DEF ofB
<1>6. Max(ofB) = j
  <2>1. \A x \in ofB : (\A y \in ofB : x >= y) => x = j
    BY <1>4, <1>5
  <2> QED BY <1>4, <2>1 DEF Max
<1> QED BY <1>1, <1>3, <1>6 DEF LastRequest, ofB

\* Steps that leave the log, the commits and the height keep this, if they leave
\* the requests or remove one.
LEMMA TracksFrame ==
    ASSUME TypeOK, LogTracks, UNCHANGED <<log, committed, height>>,
           DOMAIN pending' \subseteq DOMAIN pending,
           \A b \in DOMAIN pending' : pending'[b] = pending[b]
    PROVE  LogTracks'
  BY DEF LogTracks, LastOf

LEMMA RequestTracks ==
    ASSUME RelayType, TypeOK, LogTracks, NEW s \in Senders, BurnAndRequest(s),
           log' = Append(log, [buyer |-> s, height |-> height]), UNCHANGED committed
    PROVE  LogTracks'
<1>1. PICK e \in LogEntry : e = [buyer |-> s, height |-> height] /\ e.buyer = s /\ e.height = height
  <2>1. [buyer |-> s, height |-> height] \in LogEntry
    BY SenderType DEF LogEntry, TypeOK
  <2> QED BY <2>1
<1>2. PICK last \in Nat : last = Len(log) + 1
  BY DEF RelayType
<1>3. /\ DOMAIN log' = DOMAIN log \cup {last}
      /\ \A k \in DOMAIN log : k < last /\ log'[k] = log[k]
      /\ log'[last] = e
  BY <1>1, <1>2, LogGrows
<1>4. last \in Nat /\ DOMAIN log \subseteq Nat /\ height \in Nat
  BY DEF RelayType, TypeOK
<1>5. /\ pending' = Saved(pending, s, [range_bucket_id |-> activeCount, request_height |-> height])
      /\ s \notin DOMAIN pending /\ height' = height
  BY DEF BurnAndRequest
<1>6. /\ DOMAIN pending' = DOMAIN pending \cup {s} /\ pending'[s].request_height = height
      /\ \A b \in DOMAIN pending : pending'[b] = pending[b] /\ b # s
  BY <1>5 DEF Saved
<1>7. \A j \in DOMAIN log' : log'[j].height <= height'
  BY <1>1, <1>3, <1>4, <1>5 DEF LogTracks
<1>8. LastOf(last, s)' /\ log'[last].height = pending'[s].request_height
  <2>1. \A k \in DOMAIN log' : k <= last
    BY <1>3, <1>4
  <2> QED BY <1>1, <1>3, <1>6, <2>1 DEF LastOf
<1>9. ASSUME NEW b \in DOMAIN pending
      PROVE  /\ \E j \in DOMAIN log' : LastOf(j, b)' /\ log'[j].height = pending'[b].request_height
             /\ pending'[b].request_height < height' => b \in committed'
  <2>1. PICK j \in DOMAIN log : LastOf(j, b) /\ log[j].height = pending[b].request_height
    BY DEF LogTracks
  <2>2. LastOf(j, b)'
    BY <1>1, <1>3, <1>6, <2>1 DEF LastOf
  <2>3. pending[b].request_height < height => b \in committed
    BY DEF LogTracks
  <2> QED BY <1>3, <1>5, <1>6, <2>1, <2>2, <2>3
<1>10. ~(pending'[s].request_height < height')
  BY <1>4, <1>5, <1>6
<1>11. \A b \in committed' : \E j \in DOMAIN log' : log'[j].buyer = b /\ log'[j].height < height'
  BY <1>3, <1>5 DEF LogTracks
<1> QED BY <1>3, <1>6, <1>7, <1>8, <1>9, <1>10, <1>11 DEF LogTracks

\* What the other steps leave.
LEMMA RequestSteps ==
    ASSUME RelayType, TypeOK, [RelayNext]_relayVars
    PROVE  \/ Commit
           \/ \E s \in Senders :
                 /\ UserTx(s) /\ BurnAndRequest(s)
                 /\ log' = Append(log, [buyer |-> s, height |-> height])
           \/ /\ UNCHANGED <<log, committed, height>>
              /\ DOMAIN pending' \subseteq DOMAIN pending
              /\ \A b \in DOMAIN pending' : pending'[b] = pending[b]
<1> DEFINE Keeps == /\ UNCHANGED <<log, committed, height>>
                    /\ DOMAIN pending' \subseteq DOMAIN pending
                    /\ \A b \in DOMAIN pending' : pending'[b] = pending[b]
<1>1. ASSUME UNCHANGED <<log, committed, height>>,
             pending' = pending \/ \E b : pending' = Removed(pending, b)
      PROVE  Keeps
  BY <1>1 DEF Removed
<1> HIDE DEF Keeps
<1>2. ASSUME NEW s \in Senders, UserTx(s)
      PROVE  \/ Keeps
             \/ BurnAndRequest(s) /\ log' = Append(log, [buyer |-> s, height |-> height])
  BY <1>1, <1>2 DEF UserTx, Deposit, RecoverOracleTimeout, claims
<1>3. ASSUME Include PROVE Keeps
  <2>1. CASE FulfillRandomness(OracleAddress, mempool.buyer, mempool.seed)
    <3>1. UNCHANGED height /\ pending' = Removed(pending, mempool.buyer)
      BY <2>1 DEF FulfillRandomness
    <3> QED BY <1>1, <1>3, <3>1 DEF Include
  <2>2. CASE UNCHANGED vars
    BY <1>1, <1>3, <2>2 DEF Include, vars, claims
  <2> QED BY <1>3, <2>1, <2>2 DEF Include
<1>4. IndexBlock \/ Poll \/ Handle \/ Fails => Keeps
  BY <1>1 DEF IndexBlock, Poll, Start, GetBlock, SearchTx, FinishPoll, Handle, QueryPending,
              Execute, ExecuteRefused, Confirmed, Fails, PollError, SearchTooEarly, EventError,
              OutOfGas, Crash, vars, claims, node
<1>5. UNCHANGED relayVars => Keeps
  BY <1>1 DEF relayVars, vars, claims, node
<1> QED BY <1>2, <1>3, <1>4, <1>5 DEF RelayNext, Keeps

LEMMA StepTracks ==
    RelayType /\ TypeOK /\ TypeOK' /\ LogTracks /\ [RelayNext]_relayVars => LogTracks'
<1> SUFFICES ASSUME RelayType, TypeOK, TypeOK', LogTracks, [RelayNext]_relayVars PROVE LogTracks'
  OBVIOUS
<1>1. CASE Commit
  <2>1. UNCHANGED <<log, pending>> /\ height' = height + 1 /\ committed' = DOMAIN pending
    BY <1>1 DEF Commit, NextBlock, claims
  <2>2. /\ height \in Nat /\ \A j \in DOMAIN log : log[j].height \in Nat
    BY LogEntries DEF TypeOK
  <2> QED BY <2>1, <2>2 DEF LogTracks, LastOf
<1>2. ASSUME NEW s \in Senders, UserTx(s), BurnAndRequest(s),
             log' = Append(log, [buyer |-> s, height |-> height])
      PROVE  LogTracks'
  BY <1>2, RequestTracks DEF UserTx
<1> QED BY <1>1, <1>2, RequestSteps, TracksFrame

--------------------------------------------------------------------------------
(***************************************************************************)
(* No request is passed over.                                              *)
(***************************************************************************)

Handling == pc \in {"handle", "execute", "await"}

\* The poll is behind the block being built.
Behind ==
    /\ lastProcessedHeight < height
    /\ pc = "search" \/ Handling => currentHeight < height

\* What is owed to a request with the last event j: a fault took it, or the poll
\* under way still has it to handle.
Owed(j) ==
    /\ startHeight < log[j].height /\ log[j].height <= lastProcessedHeight => j \in dropped
    /\ Handling /\ lastProcessedHeight < log[j].height /\ log[j].height <= currentHeight
          => j \in todo \cup dropped

AllOwed == \A b \in DOMAIN pending, j \in DOMAIN log : LastOf(j, b) => Owed(j)

\* The transaction under way is for the event at hand, and when it is in a block
\* the request of that event is over, unless a fault took the event.
AtHand ==
    /\ pc = "execute" => draw # None /\ draw.buyer = log[Event].buyer
    /\ pc = "await" /\ mempool # None => mempool.buyer = log[Event].buyer
    /\ pc = "await" /\ mempool = None /\ log[Event].buyer \in DOMAIN pending
          => \/ pending[log[Event].buyer].request_height > currentHeight
             \/ Event \in dropped

Unanswered == Behind /\ AllOwed /\ AtHand

LEMMA EventInLog ==
    ASSUME RelayType, todo # {}
    PROVE  Event \in todo /\ Event \in DOMAIN log
<1>1. todo \subseteq Nat /\ todo \subseteq DOMAIN log
  BY DEF RelayType
<1>2. \E x \in todo : \A y \in todo : x <= y
  BY <1>1, LeastNatural
<1>3. Min(todo) \in todo
  BY <1>2 DEF Min
<1> QED BY <1>1, <1>3 DEF Event

\* A draw for a buyer of the committed state is a transaction.
LEMMA DrawExists ==
    ASSUME RelayType, LogTracks, TypeOK, NEW b \in committed, NEW seed \in Seeds
    PROVE  [buyer |-> b, seed |-> seed, asked |-> LastRequest(b, height - 1)] # None
<1> DEFINE T == {i \in DOMAIN log : log[i].buyer = b /\ log[i].height <= height - 1}
<1>1. PICK j \in DOMAIN log : log[j].buyer = b /\ log[j].height < height
  BY DEF LogTracks
<1>2. T \subseteq 0 .. Len(log) /\ Len(log) \in Nat
  BY DEF RelayType
<1>3. T # {}
  BY <1>1, LogEntries DEF TypeOK
<1>4. T \subseteq Nat
  BY <1>2
<1> HIDE DEF T
<1>5. \E x \in T : \A y \in T : x >= y
  BY <1>2, <1>3, GreatestNatural
<1>6. Max(T) \in Nat
  BY <1>4, <1>5 DEF Max
<1>7. b \in Accounts
  BY SenderType DEF RelayType
<1>8. LastRequest(b, height - 1) \in Nat
  BY <1>6 DEF LastRequest, T
<1> QED BY <1>7, <1>8, RelayerAssumption

\* A holder's transaction that logs nothing adds no request.
LEMMA UserKeeps ==
    ASSUME RelayType, NEW s \in Senders, UserTx(s), UNCHANGED log
    PROVE  /\ DOMAIN pending' \subseteq DOMAIN pending
           /\ \A b \in DOMAIN pending' : pending'[b] = pending[b]
<1>1. log' # Append(log, [buyer |-> s, height |-> height])
  <2>1. log \in Seq(LogEntry) /\ Len(log) \in Nat
    BY DEF RelayType
  <2>2. Len(Append(log, [buyer |-> s, height |-> height])) = Len(log) + 1
    BY <2>1
  <2> QED BY <2>1, <2>2
<1>2. pending' = pending \/ pending' = Removed(pending, s)
  BY <1>1 DEF UserTx, Deposit, RecoverOracleTimeout, claims
<1> QED BY <1>2 DEF Removed

LEMMA StepBehind ==
    ASSUME RelayType, TypeOK, Behind, [RelayNext]_relayVars
    PROVE  Behind'
<1>1. height \in Nat /\ height > 0 /\ lastProcessedHeight \in Nat /\ currentHeight \in Nat
  BY DEF RelayType, TypeOK
<1>2. ASSUME UNCHANGED <<pc, lastProcessedHeight, currentHeight>>, height' = height
      PROVE  Behind'
  BY <1>2 DEF Behind, Handling
<1>3. ASSUME NEW s \in Senders, UserTx(s) PROVE Behind'
  BY <1>2, <1>3 DEF UserTx, Deposit, RecoverOracleTimeout, BurnAndRequest, loop
<1>4. Commit => Behind'
  BY <1>1 DEF Commit, NextBlock, loop, Behind, Handling
<1>5. Include => Behind'
  BY <1>2 DEF Include, FulfillRandomness, loop, vars
<1>6. IndexBlock => Behind'
  BY <1>2 DEF IndexBlock, loop, vars
<1>7. Poll => Behind'
  BY <1>1 DEF Poll, Start, GetBlock, SearchTx, FinishPoll, vars, Behind, Handling
<1>8. Handle => Behind'
  BY DEF Handle, QueryPending, Execute, ExecuteRefused, Confirmed, NextEvent, vars, Behind, Handling
<1>9. Fails => Behind'
  BY <1>1 DEF Fails, PollError, SearchTooEarly, EventError, OutOfGas, Crash, NextEvent, loop, vars,
              Behind, Handling
<1>10. UNCHANGED relayVars => Behind'
  BY <1>2 DEF relayVars, loop, vars
<1> QED BY <1>3, <1>4, <1>5, <1>6, <1>7, <1>8, <1>9, <1>10 DEF RelayNext

\* The answer that gets into a block ends its request.
LEMMA IncludeEnds ==
    ASSUME RelayType, TypeOK, Backed, Include
    PROVE  mempool.buyer \notin DOMAIN pending'
<1>1. CASE FulfillRandomness(OracleAddress, mempool.buyer, mempool.seed)
  BY <1>1 DEF FulfillRandomness, Removed
<1>2. CASE ~Answerable(mempool) /\ UNCHANGED vars
  <2>1. mempool.seed \in Seeds
    BY DEF RelayType, Include
  <2>2. mempool.buyer \notin DOMAIN pending
    BY <1>2, <2>1, PendingSelects DEF Answerable
  <2> QED BY <1>2, <2>2 DEF vars, claims
<1> QED BY <1>1, <1>2 DEF Include

LEMMA StepAtHand ==
    ASSUME RelayType, TypeOK, LogTracks, Backed, Behind, AtHand, [RelayNext]_relayVars
    PROVE  AtHand'
<1>1. pc \in {"execute", "await"} => todo # {} /\ Event \in DOMAIN log
  BY EventInLog DEF RelayType
<1>2. ASSUME UNCHANGED <<pc, todo, draw, log, mempool, currentHeight, pending, dropped>> PROVE AtHand'
  BY <1>2 DEF AtHand, Event
<1>3. ASSUME pc' \notin {"execute", "await"} PROVE AtHand'
  BY <1>3 DEF AtHand
<1>4. ASSUME UNCHANGED <<pc, todo, draw, log, mempool, currentHeight, dropped>>,
             DOMAIN pending' \subseteq DOMAIN pending,
             \A b \in DOMAIN pending' : pending'[b] = pending[b]
      PROVE  AtHand'
  BY <1>4 DEF AtHand, Event
<1>5. ASSUME NEW s \in Senders, UserTx(s), BurnAndRequest(s),
             log' = Append(log, [buyer |-> s, height |-> height])
      PROVE  AtHand'
  <2>1. UNCHANGED <<pc, todo, draw, mempool, currentHeight, height, dropped>>
    BY <1>5 DEF UserTx, loop, ghost, BurnAndRequest
  <2>2. Event' = Event
    BY <2>1 DEF Event
  <2>3. [buyer |-> s, height |-> height] \in LogEntry
    BY SenderType DEF LogEntry, TypeOK
  <2>4. Event \in DOMAIN log => log'[Event] = log[Event]
    BY <1>5, <2>3, LogGrows
  <2>5. pending' = Saved(pending, s, [range_bucket_id |-> activeCount, request_height |-> height])
    BY <1>5 DEF BurnAndRequest
  <2>6. /\ DOMAIN pending' = DOMAIN pending \cup {s} /\ pending'[s].request_height = height
        /\ \A b \in DOMAIN pending : b # s => pending'[b] = pending[b]
    BY <2>5 DEF Saved
  <2>7. pc = "await" => height > currentHeight
    BY DEF Behind, Handling, TypeOK, RelayType
  <2>8. \A b \in DOMAIN pending' : \/ b \in DOMAIN pending /\ pending'[b] = pending[b]
                                   \/ pending'[b].request_height = height
    BY <2>6
  <2> QED BY <1>1, <2>1, <2>2, <2>4, <2>7, <2>8 DEF AtHand
<1>6. CASE Include
  <2>1. /\ UNCHANGED <<pc, todo, draw, log, currentHeight>> /\ mempool' = None /\ mempool # None
    BY <1>6 DEF Include, loop
  <2>2. Event' = Event
    BY <2>1 DEF Event
  <2>3. mempool.buyer \notin DOMAIN pending'
    BY <1>6, IncludeEnds
  <2> QED BY <2>1, <2>2, <2>3 DEF AtHand
<1>7. ASSUME NEW seed \in Seeds, QueryPending(seed) PROVE AtHand'
  <2>1. CASE log[Event].buyer \in committed
    <3>1. /\ pc' = "execute" /\ UNCHANGED <<todo, log>>
          /\ draw' = [buyer |-> log[Event].buyer, seed |-> seed,
                      asked |-> LastRequest(log[Event].buyer, height - 1)]
      BY <1>7, <2>1 DEF QueryPending, node
    <3>2. draw' # None /\ draw'.buyer = log[Event].buyer /\ Event' = Event
      BY <2>1, <3>1, DrawExists DEF Event
    <3> QED BY <3>1, <3>2 DEF AtHand
  <2>2. CASE log[Event].buyer \notin committed
    BY <1>3, <1>7, <2>2 DEF QueryPending
  <2> QED BY <2>1, <2>2
<1>8. CASE Execute
  <2>1. /\ pc = "execute" /\ pc' = "await" /\ mempool' = draw /\ UNCHANGED <<todo, log>>
    BY <1>8 DEF Execute
  <2>2. Event' = Event
    BY <2>1 DEF Event
  <2> QED BY <2>1, <2>2 DEF AtHand
<1>9. CASE ExecuteRefused \/ Confirmed
  BY <1>3, <1>9 DEF ExecuteRefused, Confirmed, NextEvent
<1>10. CASE Poll
  BY <1>3, <1>10 DEF Poll, Start, GetBlock, SearchTx, FinishPoll
<1>11. CASE PollError \/ SearchTooEarly \/ EventError \/ Crash
  BY <1>3, <1>11 DEF PollError, SearchTooEarly, EventError, Crash, NextEvent
<1>12. CASE Commit \/ IndexBlock \/ UNCHANGED relayVars
  BY <1>2, <1>12 DEF Commit, NextBlock, IndexBlock, relayVars, loop, node, ghost, vars, claims
<1>13. CASE OutOfGas
  <2>1. /\ UNCHANGED <<pc, todo, draw>> /\ mempool' = None
        /\ pc = "await" => dropped' = dropped \cup {Event}
    BY <1>13 DEF OutOfGas, loop
  <2>2. UNCHANGED log /\ Event' = Event
    BY <1>13, <2>1 DEF OutOfGas, Event
  <2> QED BY <2>1, <2>2 DEF AtHand
<1>14. ASSUME NEW s \in Senders, UserTx(s)
       PROVE  AtHand'
  <2>1. CASE UNCHANGED log
    <3>1. /\ DOMAIN pending' \subseteq DOMAIN pending
          /\ \A b \in DOMAIN pending' : pending'[b] = pending[b]
      BY <1>14, <2>1, UserKeeps
    <3> QED BY <1>4, <1>14, <2>1, <3>1 DEF UserTx, loop, ghost
  <2>2. CASE ~ UNCHANGED log
    BY <1>5, <1>14, <2>2 DEF UserTx
  <2> QED BY <2>1, <2>2
<1> QED BY <1>6, <1>7, <1>8, <1>9, <1>10, <1>11, <1>12, <1>13, <1>14 DEF RelayNext, Handle, Fails

--------------------------------------------------------------------------------
(***************************************************************************)
(* What is owed is kept by every step.                                     *)
(***************************************************************************)

\* Steps that move no height, and take from todo only what they put in dropped.
LEMMA OwedFrame ==
    ASSUME AllOwed, UNCHANGED <<log, startHeight, lastProcessedHeight>>,
           dropped \subseteq dropped', DOMAIN pending' \subseteq DOMAIN pending,
           Handling' => /\ Handling /\ currentHeight' = currentHeight
                        /\ todo \subseteq todo' \cup dropped'
    PROVE  AllOwed'
  BY DEF AllOwed, LastOf, Owed

\* Steps that leave an event whose request is over, or too late for this poll.
LEMMA OwedHandled ==
    ASSUME RelayType, LogTracks, AllOwed, Handling,
           UNCHANGED <<log, startHeight, lastProcessedHeight, currentHeight, dropped, pending>>,
           todo' = todo \ {Event},
           log[Event].buyer \in DOMAIN pending
              => pending[log[Event].buyer].request_height > currentHeight
    PROVE  AllOwed'
<1> SUFFICES ASSUME NEW b \in DOMAIN pending', NEW j \in DOMAIN log', LastOf(j, b)'
             PROVE  Owed(j)'
  BY DEF AllOwed
<1>1. b \in DOMAIN pending /\ j \in DOMAIN log /\ LastOf(j, b)
  BY DEF LastOf
<1>2. Owed(j)
  BY <1>1 DEF AllOwed
<1>3. CASE j # Event
  BY <1>2, <1>3 DEF Owed
<1>4. CASE j = Event
  <2>1. log[j].height = pending[b].request_height
    BY <1>1, LastIsRequest
  <2>2. b = log[Event].buyer
    BY <1>1, <1>4 DEF LastOf
  <2>3. log[j].height > currentHeight
    BY <1>1, <2>1, <2>2
  <2>4. ~(log[j].height <= currentHeight)
    BY <1>1, <2>3, LogEntries DEF RelayType
  <2> QED BY <1>2, <2>4 DEF Owed
<1> QED BY <1>3, <1>4

\* A buyer the relayer does not see yet can only have a request of this block.
LEMMA NotCommitted ==
    ASSUME RelayType, TypeOK, LogTracks, Behind, Handling, NEW b, b \notin committed
    PROVE  b \in DOMAIN pending => pending[b].request_height > currentHeight
<1> SUFFICES ASSUME b \in DOMAIN pending PROVE pending[b].request_height > currentHeight
  OBVIOUS
<1>1. PICK j \in DOMAIN log : log[j].height = pending[b].request_height
  BY DEF LogTracks
<1>2. pending[b].request_height \in Nat
  BY <1>1, LogEntries
<1>3. ~(pending[b].request_height < height) /\ currentHeight < height
  BY DEF LogTracks, Behind
<1> QED BY <1>2, <1>3 DEF RelayType, TypeOK

\* A new request is above both heights.
LEMMA OwedRequest ==
    ASSUME RelayType, TypeOK, Behind, AllOwed, NEW s \in Senders, UserTx(s), BurnAndRequest(s),
           log' = Append(log, [buyer |-> s, height |-> height])
    PROVE  AllOwed'
<1> SUFFICES ASSUME NEW b \in DOMAIN pending', NEW j \in DOMAIN log', LastOf(j, b)'
             PROVE  Owed(j)'
  BY DEF AllOwed
<1>1. PICK e \in LogEntry : e = [buyer |-> s, height |-> height] /\ e.buyer = s /\ e.height = height
  <2>1. [buyer |-> s, height |-> height] \in LogEntry
    BY SenderType DEF LogEntry, TypeOK
  <2> QED BY <2>1
<1>2. PICK last \in Nat : last = Len(log) + 1
  BY DEF RelayType
<1>3. /\ DOMAIN log' = DOMAIN log \cup {last}
      /\ \A k \in DOMAIN log : k < last /\ log'[k] = log[k]
      /\ log'[last] = e
  BY <1>1, <1>2, LogGrows
<1>4. UNCHANGED <<pc, lastProcessedHeight, currentHeight, todo, startHeight, dropped>>
  BY DEF UserTx, loop, ghost
<1>5. CASE j = last
  <2>1. log'[j].height = height
    BY <1>1, <1>3, <1>5
  <2>2. /\ height \in Nat /\ lastProcessedHeight \in Nat /\ currentHeight \in Nat
        /\ lastProcessedHeight < height /\ (Handling => currentHeight < height)
    BY DEF Behind, RelayType, TypeOK
  <2>3. Handling' <=> Handling
    BY <1>4 DEF Handling
  <2>4. ~(log'[j].height <= lastProcessedHeight') /\ (Handling' => ~(log'[j].height <= currentHeight'))
    BY <1>4, <2>1, <2>2, <2>3
  <2> QED BY <2>4 DEF Owed
<1>6. CASE j # last
  <2>1. j \in DOMAIN log /\ log'[j] = log[j]
    BY <1>3, <1>6
  <2>2. b # s
    <3>1. ~ last <= j
      BY <1>3, <2>1, LogEntries
    <3> QED BY <1>1, <1>3, <3>1 DEF LastOf
  <2>3. b \in DOMAIN pending
    BY <2>2 DEF BurnAndRequest, Saved
  <2>4. LastOf(j, b)
    BY <1>3, <2>1 DEF LastOf
  <2>5. Owed(j)
    BY <2>1, <2>3, <2>4 DEF AllOwed
  <2> QED BY <1>4, <2>1, <2>5 DEF Owed, Handling
<1> QED BY <1>5, <1>6

\* The end of a poll: what it had to handle is handled.
LEMMA OwedFinished ==
    ASSUME RelayType, AllOwed, FinishPoll
    PROVE  AllOwed'
<1> SUFFICES ASSUME NEW b \in DOMAIN pending', NEW j \in DOMAIN log', LastOf(j, b)'
             PROVE  Owed(j)'
  BY DEF AllOwed
<1>1. UNCHANGED <<log, pending, dropped, startHeight>> /\ todo = {} /\ Handling
      /\ pc' = "poll" /\ lastProcessedHeight' = currentHeight
  BY DEF FinishPoll, vars, claims, node, ghost, Handling
<1>2. b \in DOMAIN pending /\ j \in DOMAIN log /\ LastOf(j, b)
  BY <1>1 DEF LastOf
<1>3. Owed(j)
  BY <1>2 DEF AllOwed
<1>4. log[j].height \in Nat /\ lastProcessedHeight \in Nat
  BY <1>2, LogEntries DEF RelayType
<1> QED BY <1>1, <1>3, <1>4 DEF Owed, Handling

\* The search finds every event it has to, or the fault is that it does not.
LEMMA OwedSearched ==
    ASSUME RelayType, AllOwed, SearchTx \/ SearchTooEarly
    PROVE  AllOwed'
<1> SUFFICES ASSUME NEW b \in DOMAIN pending', NEW j \in DOMAIN log', LastOf(j, b)'
             PROVE  Owed(j)'
  BY DEF AllOwed
<1>1. /\ UNCHANGED <<log, pending, startHeight, lastProcessedHeight, currentHeight>>
      /\ todo' = SearchResult /\ dropped \subseteq dropped'
  BY DEF SearchTx, SearchTooEarly, vars, claims, node, ghost
<1>2. b \in DOMAIN pending /\ j \in DOMAIN log /\ LastOf(j, b)
  BY <1>1 DEF LastOf
<1>3. Owed(j)
  BY <1>2 DEF AllOwed
<1>4. /\ log[j].height \in Nat /\ lastProcessedHeight \in Nat /\ currentHeight \in Nat
      /\ indexedHeight \in Int
  BY <1>2, LogEntries DEF RelayType
<1>5. lastProcessedHeight < log[j].height /\ log[j].height <= currentHeight
         => j \in todo' \cup dropped'
  BY <1>1, <1>2, <1>4 DEF SearchTx, SearchTooEarly, SearchResult
<1>6. startHeight < log[j].height /\ log[j].height <= lastProcessedHeight => j \in dropped'
  BY <1>1, <1>3 DEF Owed
<1> QED BY <1>1, <1>5, <1>6 DEF Owed

LEMMA StepAllOwed ==
    ASSUME RelayType, TypeOK, LogTracks, Behind, AtHand, AllOwed, [RelayNext]_relayVars
    PROVE  AllOwed'
<1>1. ASSUME NEW s \in Senders, UserTx(s) PROVE AllOwed'
  <2>1. CASE UNCHANGED log
    BY <1>1, <2>1, UserKeeps, OwedFrame DEF UserTx, loop, ghost, Handling
  <2>2. CASE ~ UNCHANGED log
    BY <1>1, <2>2, OwedRequest DEF UserTx
  <2> QED BY <2>1, <2>2
<1>2. CASE Commit \/ IndexBlock \/ UNCHANGED relayVars
  BY <1>2, OwedFrame DEF Commit, NextBlock, IndexBlock, relayVars, loop, ghost, node, vars, claims,
                         Handling
<1>3. CASE Include
  <2>1. DOMAIN pending' \subseteq DOMAIN pending
    BY <1>3 DEF Include, FulfillRandomness, Removed, vars, claims
  <2> QED BY <1>3, <2>1, OwedFrame DEF Include, loop, ghost, Handling
<1>4. CASE Start
  <2>1. /\ startHeight' = lastProcessedHeight' /\ pc' = "poll" /\ UNCHANGED log
        /\ lastProcessedHeight' \in Nat
    BY <1>4 DEF Start, node, RelayType, TypeOK
  <2> QED BY <2>1, LogEntries DEF AllOwed, Owed, Handling
<1>5. CASE GetBlock \/ PollError
  BY <1>5, OwedFrame DEF GetBlock, PollError, node, ghost, vars, claims, Handling
<1>6. CASE Crash
  <2>1. /\ lastProcessedHeight' = 0 /\ pc' = "start" /\ UNCHANGED <<log, startHeight>>
        /\ startHeight \in Nat
    BY <1>6 DEF Crash, node, RelayType
  <2> QED BY <2>1, LogEntries DEF AllOwed, Owed, Handling
<1>7. ASSUME NEW seed \in Seeds, QueryPending(seed) PROVE AllOwed'
  <2>1. /\ UNCHANGED <<log, pending, startHeight, dropped, lastProcessedHeight, currentHeight>>
        /\ Handling
    BY <1>7 DEF QueryPending, node, ghost, vars, claims, Handling
  <2>2. CASE log[Event].buyer \in committed
    BY <1>7, <2>1, <2>2, OwedFrame DEF QueryPending
  <2>3. CASE log[Event].buyer \notin committed
    BY <1>7, <2>1, <2>3, NotCommitted, OwedHandled DEF QueryPending
  <2> QED BY <2>2, <2>3
<1>8. CASE Execute
  BY <1>8, OwedFrame DEF Execute, ghost, vars, claims, Handling
<1>9. CASE ExecuteRefused
  <2>1. /\ UNCHANGED <<log, pending, startHeight, lastProcessedHeight, currentHeight>>
        /\ Handling /\ todo' = todo \ {Event}
    BY <1>9 DEF ExecuteRefused, NextEvent, node, vars, claims, Handling
  <2>2. CASE SequenceFree
    <3>1. log[Event].buyer \notin committed /\ dropped' = dropped
      BY <1>9, <2>2 DEF ExecuteRefused, Simulates, AtHand
    <3> QED BY <2>1, <3>1, NotCommitted, OwedHandled
  <2>3. CASE ~SequenceFree
    <3>1. dropped' = dropped \cup {Event}
      BY <1>9, <2>3 DEF ExecuteRefused
    <3> QED BY <2>1, <3>1, OwedFrame
  <2> QED BY <2>2, <2>3
<1>10. CASE Confirmed
  <2>1. /\ UNCHANGED <<log, pending, startHeight, dropped, lastProcessedHeight, currentHeight>>
        /\ Handling /\ todo' = todo \ {Event} /\ pc = "await" /\ mempool = None
    BY <1>10 DEF Confirmed, NextEvent, node, ghost, vars, claims, Handling
  <2>2. CASE Event \in dropped
    BY <2>1, <2>2, OwedFrame
  <2>3. CASE Event \notin dropped
    BY <2>1, <2>3, OwedHandled DEF AtHand
  <2> QED BY <2>2, <2>3
<1>11. CASE EventError
  BY <1>11, OwedFrame DEF EventError, NextEvent, node, vars, claims, Handling
<1>12. CASE OutOfGas
  BY <1>12, OwedFrame DEF OutOfGas, loop, vars, claims, Handling
<1> QED BY <1>1, <1>2, <1>3, <1>4, <1>5, <1>6, <1>7, <1>8, <1>9, <1>10, <1>11, <1>12,
           OwedFinished, OwedSearched DEF RelayNext, Poll, Handle, Fails

--------------------------------------------------------------------------------

LEMMA InitForgets == RelayInit => LogTracks /\ Unanswered
<1> SUFFICES ASSUME RelayInit PROVE LogTracks /\ Unanswered
  OBVIOUS
<1>1. log = <<>> /\ DOMAIN pending = {} /\ committed = {} /\ pc = "start"
      /\ lastProcessedHeight = 0 /\ height > 0
  BY RelayerAssumption, ConfigAssumption DEF RelayInit, Init
<1>2. DOMAIN log = {}
  BY <1>1
<1> QED BY <1>1, <1>2 DEF LogTracks, Unanswered, Behind, Handling, AllOwed, AtHand

LEMMA AnsweredOrDropped == RelayType /\ LogTracks /\ AllOwed => NothingForgotten
<1> SUFFICES ASSUME RelayType, LogTracks, AllOwed, NEW b \in DOMAIN pending
             PROVE  LET i == LastRequest(b, height)
                    IN  startHeight < log[i].height /\ log[i].height <= lastProcessedHeight
                           => i \in dropped
  BY DEF NothingForgotten
<1>1. PICK j \in DOMAIN log : LastOf(j, b)
  BY DEF LogTracks
<1>2. LastRequest(b, height) = j
  BY <1>1, LastIsRequest
<1>3. Owed(j)
  BY <1>1 DEF AllOwed
<1> QED BY <1>2, <1>3 DEF Owed

\* The relayer leaves no pending request behind lastProcessedHeight unless a fault
\* took its event, whatever the order of requests, commits, indexing and
\* inclusion.  The height is read before the search, so events are never skipped,
\* only seen again.
THEOREM RelayerForgetsNothing == RelaySpec => []NothingForgotten
<1>1. RelayInit => LogTracks /\ Unanswered
  BY InitForgets
<1>2. /\ RelayType /\ TypeOK /\ TypeOK' /\ Backed /\ LogTracks /\ Unanswered
      /\ [RelayNext]_relayVars
      => LogTracks' /\ Unanswered'
  BY StepTracks, StepBehind, StepAtHand, StepAllOwed DEF Unanswered
<1>3. RelayType /\ LogTracks /\ Unanswered => NothingForgotten
  BY AnsweredOrDropped DEF Unanswered
<1>4. RelaySpec => []Backed
  BY RelayerUsesTheContract, AlwaysBacked, PTL
<1> QED BY <1>1, <1>2, <1>3, <1>4, RelayTyped, PTL DEF RelaySpec

\* The transaction of the relayer that gets into a block, and does not run out of
\* gas there, leaves its buyer without a request, whatever else has failed: the
\* contract refuses it only if the request was over already.
THEOREM InclusionEndsRequest ==
    RelaySpec => [][Include => mempool.buyer \notin DOMAIN pending']_relayVars
<1>1. RelayType /\ TypeOK /\ Backed => [Include => mempool.buyer \notin DOMAIN pending']_relayVars
  BY IncludeEnds
<1>2. RelaySpec => []Backed
  BY RelayerUsesTheContract, AlwaysBacked, PTL
<1> QED BY <1>1, <1>2, RelayTyped, PTL DEF RelaySpec

--------------------------------------------------------------------------------
(***************************************************************************)
(* A seed answers the request it was drawn for.                            *)
(***************************************************************************)

\* The event j of the buyer b is that of the request b has, or is so old that b
\* could have taken that request back.
Fresh(j, b) ==
    \/ b \in DOMAIN pending /\ LastOf(j, b)
    \/ height - log[j].height >= OracleTimeout

\* The last event of b in the blocks the relayer can see.
SeenLast(j, b) ==
    /\ log[j].buyer = b /\ log[j].height < height
    /\ \A k \in DOMAIN log : log[k].buyer = b /\ log[k].height < height => k <= j

\* The committed state is that of before this block: what it shows is fresh until
\* an answer gets into this block.
Seen ==
    includedAt < height =>
        \A b \in committed : \E j \in DOMAIN log : SeenLast(j, b) /\ Fresh(j, b)

\* Until something fails, the relayer waits for each answer: it looks at the
\* committed state only when no answer of its own is on its way or in this block.
OneAtATime ==
    /\ faults \in Nat /\ includedAt \in Int /\ indexedHeight < height
    /\ faults = 0 /\ pc # "await" => mempool = None /\ includedAt < height

Aimed(tx) ==
    /\ tx.asked \in DOMAIN log /\ log[tx.asked].buyer = tx.buyer
    /\ Fresh(tx.asked, tx.buyer)

InTime ==
    faults = 0 => /\ pc = "execute" => Aimed(draw)
                  /\ mempool # None => Aimed(mempool)

\* A request ends by the buyer's recovery or by the answer in the mempool.
LEMMA RequestEnds ==
    ASSUME RelayType, TypeOK, [RelayNext]_relayVars, NEW b \in DOMAIN pending, b \notin DOMAIN pending'
    PROVE  \/ RecoverOracleTimeout(b) /\ UNCHANGED log
           \/ /\ Include /\ mempool.buyer = b
              /\ FulfillRandomness(OracleAddress, mempool.buyer, mempool.seed)
<1>1. pending' # pending
  OBVIOUS
<1>2. ASSUME NEW s \in Senders, UserTx(s) PROVE RecoverOracleTimeout(b) /\ UNCHANGED log
  <2>1. CASE \E m \in DepositMsgs : Deposit(s, m)
    BY <1>1, <2>1 DEF Deposit, claims
  <2>2. CASE BurnAndRequest(s)
    BY <2>2 DEF BurnAndRequest, Saved
  <2>3. CASE RecoverOracleTimeout(s) /\ UNCHANGED log
    <3>1. pending' = Removed(pending, s)
      BY <2>3 DEF RecoverOracleTimeout
    <3>2. s = b
      BY <3>1 DEF Removed
    <3> QED BY <2>3, <3>2
  <2> QED BY <1>2, <2>1, <2>2, <2>3 DEF UserTx
<1>3. CASE Include
  <2>1. CASE FulfillRandomness(OracleAddress, mempool.buyer, mempool.seed)
    <3>1. pending' = Removed(pending, mempool.buyer)
      BY <2>1 DEF FulfillRandomness
    <3>2. mempool.buyer = b
      BY <3>1 DEF Removed
    <3> QED BY <1>3, <2>1, <3>2
  <2>2. CASE UNCHANGED vars
    BY <1>1, <2>2 DEF vars, claims
  <2> QED BY <1>3, <2>1, <2>2 DEF Include
<1>4. ~ (Commit \/ IndexBlock \/ Poll \/ Handle \/ Fails \/ UNCHANGED relayVars)
  BY <1>1 DEF Commit, NextBlock, IndexBlock, Poll, Start, GetBlock, SearchTx, FinishPoll, Handle,
              QueryPending, Execute, ExecuteRefused, Confirmed, Fails, PollError, SearchTooEarly,
              EventError, OutOfGas, Crash, relayVars, vars, claims
<1> QED BY <1>2, <1>3, <1>4 DEF RelayNext

\* An event stays fresh until an answer for its buyer gets into a block.
LEMMA StepFresh ==
    ASSUME RelayType, TypeOK, LogTracks, [RelayNext]_relayVars,
           NEW b, NEW j \in DOMAIN log, log[j].buyer = b, Fresh(j, b),
           ~ (Include /\ mempool.buyer = b)
    PROVE  /\ j \in DOMAIN log' /\ log'[j] = log[j]
           /\ Fresh(j, b)'
<1>1. /\ log[j].height \in Nat /\ height \in Nat /\ OracleTimeout \in Nat /\ DOMAIN log \subseteq Nat
  BY LogEntries, ConfigAssumption DEF TypeOK, RelayType
<1>2. CASE Commit
  <2>1. UNCHANGED <<log, pending>> /\ height' = height + 1
    BY <1>2 DEF Commit, NextBlock, claims
  <2>2. height - log[j].height >= OracleTimeout => height' - log'[j].height >= OracleTimeout
    BY <1>1, <2>1
  <2>3. LastOf(j, b) => LastOf(j, b)'
    BY <2>1 DEF LastOf
  <2> QED BY <2>1, <2>2, <2>3 DEF Fresh
<1>3. ASSUME NEW s \in Senders, UserTx(s), BurnAndRequest(s),
             log' = Append(log, [buyer |-> s, height |-> height])
      PROVE  j \in DOMAIN log' /\ log'[j] = log[j] /\ Fresh(j, b)'
  <2>1. PICK e \in LogEntry : e = [buyer |-> s, height |-> height] /\ e.buyer = s
    <3>1. [buyer |-> s, height |-> height] \in LogEntry
      BY SenderType DEF LogEntry, TypeOK
    <3> QED BY <3>1
  <2>2. PICK last \in Nat : last = Len(log) + 1
    BY DEF RelayType
  <2>3. /\ DOMAIN log' = DOMAIN log \cup {last}
        /\ \A k \in DOMAIN log : log'[k] = log[k]
        /\ log'[last].buyer = s
    BY <1>3, <2>1, <2>2, LogGrows
  <2>4. /\ s \notin DOMAIN pending /\ height' = height
        /\ DOMAIN pending \subseteq DOMAIN pending'
    BY <1>3 DEF BurnAndRequest, Saved
  <2>5. CASE b \in DOMAIN pending /\ LastOf(j, b)
    <3>1. b # s
      BY <2>4, <2>5
    <3>2. LastOf(j, b)'
      BY <2>3, <2>5, <3>1 DEF LastOf
    <3> QED BY <2>3, <2>4, <2>5, <3>2 DEF Fresh
  <2>6. CASE height - log[j].height >= OracleTimeout
    BY <2>3, <2>4, <2>6 DEF Fresh
  <2> QED BY <2>5, <2>6 DEF Fresh
<1>4. CASE /\ UNCHANGED <<log, committed, height>>
           /\ DOMAIN pending' \subseteq DOMAIN pending
  <2>1. LastOf(j, b)' <=> LastOf(j, b)
    BY <1>4 DEF LastOf
  <2>2. CASE b \in DOMAIN pending \ DOMAIN pending' /\ LastOf(j, b)
    <3>1. RecoverOracleTimeout(b)
      BY <2>2, RequestEnds
    <3>2. log[j].height = pending[b].request_height
      BY <2>2, LastIsRequest
    <3>3. height >= log[j].height + OracleTimeout
      BY <3>1, <3>2 DEF RecoverOracleTimeout, Elapsed
    <3>4. height - log[j].height >= OracleTimeout
      BY <1>1, <3>3
    <3> QED BY <1>4, <3>4 DEF Fresh
  <2>3. CASE b \in DOMAIN pending' /\ LastOf(j, b)
    BY <1>4, <2>1, <2>3 DEF Fresh
  <2>4. CASE height - log[j].height >= OracleTimeout
    BY <1>4, <2>4 DEF Fresh
  <2> QED BY <2>2, <2>3, <2>4 DEF Fresh
<1> QED BY <1>2, <1>3, <1>4, RequestSteps

\* At a commit the last event of a request is one the relayer can see.
LEMMA CommitSeen ==
    ASSUME RelayType, TypeOK, LogTracks, Commit
    PROVE  Seen'
<1> SUFFICES ASSUME NEW b \in committed'
             PROVE  \E j \in DOMAIN log' : SeenLast(j, b)' /\ Fresh(j, b)'
  BY DEF Seen
<1>1. /\ UNCHANGED <<log, pending>> /\ height' = height + 1 /\ committed' = DOMAIN pending
      /\ height \in Nat
  BY DEF Commit, NextBlock, claims, TypeOK
<1>2. PICK j \in DOMAIN log : LastOf(j, b)
  BY <1>1 DEF LogTracks
<1>3. log[j].height \in Nat /\ log[j].height <= height
  BY LogEntries DEF LogTracks
<1>4. log'[j].height < height'
  BY <1>1, <1>3
<1>5. SeenLast(j, b)'
  BY <1>1, <1>2, <1>4 DEF SeenLast, LastOf
<1>6. Fresh(j, b)'
  BY <1>1, <1>2 DEF Fresh, LastOf
<1> QED BY <1>1, <1>5, <1>6

LEMMA StepSeen ==
    ASSUME RelayType, TypeOK, LogTracks, OneAtATime, Seen, [RelayNext]_relayVars
    PROVE  Seen'
<1>1. CASE Commit
  BY <1>1, CommitSeen
<1>2. CASE Include
  <2>1. height' = height /\ includedAt' = height /\ height \in Nat
    BY <1>2 DEF Include, FulfillRandomness, vars, TypeOK
  <2> QED BY <2>1 DEF Seen
<1>3. CASE OutOfGas
  <2>1. height' = height /\ includedAt' = height /\ height \in Nat
    BY <1>3 DEF OutOfGas, vars, TypeOK
  <2> QED BY <2>1 DEF Seen
<1>4. CASE ~ Commit /\ ~ Include /\ ~ OutOfGas
  <2>1. UNCHANGED <<includedAt, committed, height>>
    BY <1>4 DEF RelayNext, UserTx, Deposit, RecoverOracleTimeout, BurnAndRequest, IndexBlock, Poll,
                Start, GetBlock, SearchTx, FinishPoll, Handle, QueryPending, Execute,
                ExecuteRefused, Confirmed, Fails, PollError, SearchTooEarly, EventError, Crash,
                relayVars, vars, node
  <2> SUFFICES ASSUME includedAt < height, NEW b \in committed
               PROVE  \E j \in DOMAIN log' : SeenLast(j, b)' /\ Fresh(j, b)'
    BY <2>1 DEF Seen
  <2>2. PICK j \in DOMAIN log : SeenLast(j, b) /\ Fresh(j, b)
    BY DEF Seen
  <2>3. j \in DOMAIN log' /\ log'[j] = log[j] /\ Fresh(j, b)'
    BY <1>4, <2>2, StepFresh DEF SeenLast
  <2>4. \A k \in DOMAIN log' :
           \/ k \in DOMAIN log /\ log'[k] = log[k]
           \/ log'[k].height = height
    <3>1. ASSUME NEW s \in Senders, log' = Append(log, [buyer |-> s, height |-> height])
          PROVE  \A k \in DOMAIN log' :
                    \/ k \in DOMAIN log /\ log'[k] = log[k]
                    \/ log'[k].height = height
      <4>1. [buyer |-> s, height |-> height] \in LogEntry
        BY SenderType DEF LogEntry, TypeOK
      <4> QED BY <3>1, <4>1, LogGrows
    <3> QED BY <3>1, LogSteps
  <2>5. SeenLast(j, b)'
    <3>1. ~ (height < height)
      BY DEF TypeOK
    <3> QED BY <2>1, <2>2, <2>3, <2>4, <3>1 DEF SeenLast
  <2> QED BY <2>3, <2>5
<1> QED BY <1>1, <1>2, <1>3, <1>4

LEMMA StepOneAtATime ==
    ASSUME RelayType, TypeOK, OneAtATime, [RelayNext]_relayVars
    PROVE  OneAtATime'
<1>1. height \in Nat /\ indexedHeight \in Int /\ includedAt \in Int /\ faults \in Nat
  BY DEF RelayType, TypeOK, OneAtATime
<1>2. ASSUME NEW s \in Senders, UserTx(s) PROVE OneAtATime'
  <2>1. UNCHANGED <<height, pc, faults, includedAt, indexedHeight, mempool>>
    BY <1>2 DEF UserTx, loop, ghost, Deposit, RecoverOracleTimeout, BurnAndRequest
  <2> QED BY <2>1 DEF OneAtATime
<1>3. CASE Commit
  BY <1>1, <1>3 DEF Commit, NextBlock, loop, ghost, OneAtATime
<1>4. CASE IndexBlock
  BY <1>1, <1>4 DEF IndexBlock, loop, ghost, vars, OneAtATime
<1>5. CASE Include
  <2>1. height' = height
    BY <1>5 DEF Include, FulfillRandomness, vars
  <2> QED BY <1>1, <1>5, <2>1 DEF Include, loop, ghost, OneAtATime
<1>6. CASE Poll
  BY <1>6 DEF Poll, Start, GetBlock, SearchTx, FinishPoll, node, ghost, vars, OneAtATime
<1>7. ASSUME NEW seed \in Seeds, QueryPending(seed) PROVE OneAtATime'
  BY <1>7 DEF QueryPending, node, ghost, vars, OneAtATime
<1>8. CASE Execute
  BY <1>8 DEF Execute, ghost, vars, OneAtATime
<1>9. CASE ExecuteRefused
  BY <1>9 DEF ExecuteRefused, NextEvent, node, vars, OneAtATime
<1>10. CASE Confirmed
  BY <1>1, <1>10 DEF Confirmed, NextEvent, node, ghost, vars, OneAtATime
<1>11. CASE Fails
  <2>1. UNCHANGED <<height, indexedHeight>> /\ includedAt' \in {includedAt, height}
        /\ faults' = faults + 1
    BY <1>11 DEF Fails, Fault, PollError, SearchTooEarly, EventError, OutOfGas, Crash, node, vars
  <2> QED BY <1>1, <2>1 DEF OneAtATime
<1>12. CASE UNCHANGED relayVars
  BY <1>12 DEF relayVars, loop, node, ghost, vars, OneAtATime
<1> QED BY <1>2, <1>3, <1>4, <1>5, <1>6, <1>7, <1>8, <1>9, <1>10, <1>11, <1>12
        DEF RelayNext, Handle

\* The query of the committed state gives the draw the last event it shows.
LEMMA DrawAimed ==
    ASSUME RelayType, TypeOK, LogTracks, Seen, includedAt < height, NEW seed \in Seeds,
           QueryPending(seed), pc' = "execute"
    PROVE  Aimed(draw)'
<1>1. /\ UNCHANGED <<log, pending, height>>
      /\ pc = "handle" /\ height \in Nat /\ height > 0
  BY DEF QueryPending, node, vars, claims, TypeOK, RelayType
<1>2. PICK b \in committed : draw' = [buyer |-> b, seed |-> seed, asked |-> LastRequest(b, height - 1)]
  BY <1>1 DEF QueryPending
<1>3. PICK j \in DOMAIN log : SeenLast(j, b) /\ Fresh(j, b)
  BY DEF Seen
<1> DEFINE T == {i \in DOMAIN log : log[i].buyer = b /\ log[i].height <= height - 1}
<1>4. \A k \in DOMAIN log : k \in Nat /\ (log[k].height < height <=> log[k].height <= height - 1)
  BY <1>1, LogEntries
<1>5. j \in T /\ j \in Nat /\ \A k \in T : j >= k /\ k \in Nat
  BY <1>3, <1>4 DEF SeenLast
<1> HIDE DEF T
<1>6. Max(T) = j
  <2>1. \A x \in T : (\A y \in T : x >= y) => x = j
    BY <1>5
  <2> QED BY <1>5, <2>1 DEF Max
<1>7. LastRequest(b, height - 1) = j
  BY <1>6 DEF LastRequest, T
<1>8. draw'.asked = j /\ draw'.buyer = b
  BY <1>2, <1>7
<1>9. Fresh(j, b)'
  BY <1>1, <1>3 DEF Fresh, LastOf
<1>10. \A i, a : i = j /\ a = b => Fresh(i, a)'
  BY <1>9
<1> QED BY <1>1, <1>3, <1>8, <1>10 DEF Aimed, SeenLast, Fresh, LastOf

\* What is aimed stays so until an answer gets into a block.
LEMMA StepAimed ==
    ASSUME RelayType, TypeOK, LogTracks, [RelayNext]_relayVars, ~ Include,
           NEW tx, Aimed(tx)
    PROVE  /\ tx.asked \in DOMAIN log' /\ log'[tx.asked].buyer = tx.buyer
           /\ \A j, b : j = tx.asked /\ b = tx.buyer => Fresh(j, b)'
<1>1. tx.asked \in DOMAIN log /\ log[tx.asked].buyer = tx.buyer /\ Fresh(tx.asked, tx.buyer)
  BY DEF Aimed
<1> QED BY <1>1, StepFresh

LEMMA DrawStaysAimed ==
    ASSUME RelayType, TypeOK, LogTracks, [RelayNext]_relayVars, ~ Include, Aimed(draw), draw' = draw
    PROVE  Aimed(draw)'
<1>1. PICK tx : tx = draw
  OBVIOUS
<1>2. Aimed(tx)
  BY <1>1
<1>3. draw' = tx
  BY <1>1
<1> QED BY <1>2, <1>3, StepAimed DEF Aimed, Fresh, LastOf

\* The transaction in flight is the one that was there, or the draw just sent.
LEMMA SentStaysAimed ==
    ASSUME RelayType, TypeOK, LogTracks, [RelayNext]_relayVars, ~ Include,
           \/ mempool' = mempool /\ Aimed(mempool)
           \/ mempool' = draw /\ Aimed(draw)
    PROVE  Aimed(mempool)'
<1>1. PICK tx : mempool' = tx /\ Aimed(tx)
  OBVIOUS
<1> QED BY <1>1, StepAimed DEF Aimed, Fresh, LastOf

LEMMA StepInTime ==
    ASSUME RelayType, TypeOK, LogTracks, OneAtATime, Seen, InTime, [RelayNext]_relayVars
    PROVE  InTime'
<1> SUFFICES ASSUME faults' = 0
             PROVE  /\ pc' = "execute" => Aimed(draw)'
                    /\ mempool' # None => Aimed(mempool)'
  BY DEF InTime
<1>1. faults \in Nat
  BY DEF OneAtATime
<1>2. ~ Fails
  BY <1>1 DEF Fails, Fault, PollError, SearchTooEarly, EventError, OutOfGas, Crash
<1>3. faults = 0
  BY <1>2 DEF RelayNext, UserTx, Commit, IndexBlock, Include, Poll, Start, GetBlock, SearchTx,
              FinishPoll, Handle, QueryPending, Execute, ExecuteRefused, Confirmed, relayVars, ghost
<1>4. /\ pc = "execute" => Aimed(draw)
      /\ mempool # None => Aimed(mempool)
      /\ pc # "await" => mempool = None /\ includedAt < height
  BY <1>3 DEF InTime, OneAtATime
<1>5. CASE Include
  BY <1>4, <1>5 DEF Include, loop
<1>6. ASSUME NEW seed \in Seeds, QueryPending(seed) PROVE InTime'
  <2>1. pc = "handle" /\ mempool' = mempool
    BY <1>6 DEF QueryPending, node
  <2>2. mempool' = None /\ includedAt < height
    BY <1>4, <2>1
  <2>3. pc' = "execute" => Aimed(draw)'
    BY <1>6, <2>2, DrawAimed
  <2> QED BY <2>2, <2>3 DEF InTime
<1>7. CASE Execute
  <2>1. pc = "execute" /\ pc' = "await" /\ mempool' = draw
    BY <1>7 DEF Execute
  <2>2. ~ Include
    BY <2>1 DEF Include, loop
  <2> QED BY <1>4, <2>1, <2>2, SentStaysAimed
<1>8. CASE \/ \E s \in Senders : UserTx(s)
           \/ Commit \/ IndexBlock \/ Poll \/ ExecuteRefused \/ Confirmed \/ UNCHANGED relayVars
  <2>1. /\ mempool' = mempool
        /\ pc' = "execute" => pc = "execute" /\ draw' = draw
    BY <1>8 DEF UserTx, Commit, IndexBlock, Poll, Start, GetBlock, SearchTx, FinishPoll,
                ExecuteRefused, Confirmed, NextEvent, relayVars, loop, node
  <2>2. CASE Include
    BY <1>5, <2>2
  <2>3. CASE ~ Include
    BY <1>4, <2>1, <2>3, DrawStaysAimed, SentStaysAimed
  <2> QED BY <2>2, <2>3
<1> QED BY <1>2, <1>5, <1>6, <1>7, <1>8 DEF RelayNext, Handle, InTime

LEMMA InitSeed == RelayInit => OneAtATime /\ Seen /\ InTime
  BY RelayerAssumption, ConfigAssumption DEF RelayInit, Init, OneAtATime, Seen, InTime

LEMMA SeedAnswers ==
    ASSUME RelayType, TypeOK, LogTracks, InTime, [RelayNext]_relayVars, faults = 0,
           NEW b \in DOMAIN pending, b \notin DOMAIN pending', claimed'[b] # claimed[b]
    PROVE  \/ mempool.asked = LastRequest(b, height)
           \/ height - log[mempool.asked].height >= OracleTimeout
<1>1. Include /\ mempool.buyer = b
  BY RequestEnds DEF RecoverOracleTimeout
<1>2. Aimed(mempool)
  BY <1>1 DEF InTime, Include
<1>3. mempool.asked \in DOMAIN log /\ Fresh(mempool.asked, b)
  BY <1>1, <1>2 DEF Aimed
<1>4. LastOf(mempool.asked, b) => LastRequest(b, height) = mempool.asked
  BY <1>3, LastIsRequest
<1> QED BY <1>3, <1>4 DEF Fresh

\* Until something fails, a buyer gets its payload by a seed drawn for the request
\* that the seed ends, or for one so old that the buyer could have taken it back:
\* the relayer waits for the receipt of each answer before it looks at the
\* committed state again, so it never answers twice what it has seen once.
THEOREM SeedsAnswerTheirRequests == RelaySpec => SeedAnswersItsRequest
<1>1. RelayInit => LogTracks /\ OneAtATime /\ Seen /\ InTime
  BY InitForgets, InitSeed
<1>2. RelayType /\ TypeOK /\ TypeOK' /\ LogTracks /\ OneAtATime /\ Seen /\ InTime /\ [RelayNext]_relayVars
      => LogTracks' /\ OneAtATime' /\ Seen' /\ InTime'
  BY StepTracks, StepOneAtATime, StepSeen, StepInTime
<1>3. RelayType /\ TypeOK /\ LogTracks /\ InTime /\ [RelayNext]_relayVars
      => [\A b \in DOMAIN pending :
             (faults = 0 /\ b \notin DOMAIN pending' /\ claimed'[b] # claimed[b])
                 => \/ mempool.asked = LastRequest(b, height)
                    \/ height - log[mempool.asked].height >= OracleTimeout]_relayVars
  BY SeedAnswers
<1> QED BY <1>1, <1>2, <1>3, RelayTyped, PTL DEF RelaySpec, SeedAnswersItsRequest

--------------------------------------------------------------------------------
(***************************************************************************)
(* Until something fails, what is processed is over.                       *)
(***************************************************************************)

NoneDropped == faults = 0 => dropped = {}

\* Without a fault an event is dropped only by a transaction refused because of an
\* earlier one, and the relayer has waited for that one.
LEMMA StepNoneDropped ==
    ASSUME OneAtATime, NoneDropped, [RelayNext]_relayVars
    PROVE  NoneDropped'
<1> SUFFICES ASSUME faults' = 0 PROVE dropped' = {}
  BY DEF NoneDropped
<1>1. faults \in Nat
  BY DEF OneAtATime
<1>2. ~ Fails
  BY <1>1 DEF Fails, Fault, PollError, SearchTooEarly, EventError, OutOfGas, Crash
<1>3. faults = 0
  BY <1>2 DEF RelayNext, UserTx, Commit, IndexBlock, Include, Poll, Start, GetBlock, SearchTx,
              FinishPoll, Handle, QueryPending, Execute, ExecuteRefused, Confirmed, relayVars, ghost
<1>4. dropped = {}
  BY <1>3 DEF NoneDropped
<1>5. CASE ExecuteRefused
  <2>1. SequenceFree
    BY <1>3, <1>5 DEF ExecuteRefused, OneAtATime, SequenceFree
  <2> QED BY <1>4, <1>5, <2>1 DEF ExecuteRefused
<1>6. CASE ~ ExecuteRefused
  BY <1>2, <1>4, <1>6 DEF RelayNext, UserTx, Commit, IndexBlock, Include, Poll, Start, GetBlock,
                          SearchTx, FinishPoll, Handle, QueryPending, Execute, Confirmed, relayVars,
                          ghost
<1> QED BY <1>5, <1>6

LEMMA OverWhenProcessed ==
    ASSUME RelayType, LogTracks, NothingForgotten, NoneDropped
    PROVE  ProcessedMeansOver
<1> SUFFICES ASSUME faults = 0, NEW b \in DOMAIN pending, NEW i, i = LastRequest(b, height),
                    startHeight < log[i].height
             PROVE  lastProcessedHeight < log[i].height
  BY DEF ProcessedMeansOver
<1>1. ~ (log[i].height <= lastProcessedHeight)
  BY DEF NothingForgotten, NoneDropped
<1>2. PICK j \in DOMAIN log : LastOf(j, b)
  BY DEF LogTracks
<1>3. i = j
  BY <1>2, LastIsRequest
<1>4. log[i].height \in Nat /\ lastProcessedHeight \in Nat
  BY <1>2, <1>3, LogEntries DEF RelayType
<1> QED BY <1>1, <1>4

\* A relayer that nothing went wrong for leaves no request made after its start and
\* up to lastProcessedHeight: it has answered it, or its buyer has taken it back.
THEOREM ProcessedIsOver == RelaySpec => []ProcessedMeansOver
<1>1. RelayInit => LogTracks /\ OneAtATime /\ NoneDropped
  BY InitForgets, InitSeed DEF RelayInit, NoneDropped
<1>2. RelayType /\ TypeOK /\ TypeOK' /\ LogTracks /\ OneAtATime /\ NoneDropped
      /\ [RelayNext]_relayVars
      => LogTracks' /\ OneAtATime' /\ NoneDropped'
  BY StepTracks, StepOneAtATime, StepNoneDropped
<1>3. RelayType /\ LogTracks /\ NothingForgotten /\ NoneDropped => ProcessedMeansOver
  BY OverWhenProcessed
<1> QED BY <1>1, <1>2, <1>3, RelayTyped, RelayerForgetsNothing, PTL DEF RelaySpec

================================================================================
