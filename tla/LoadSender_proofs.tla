--------------------------- MODULE LoadSender_proofs ---------------------------
(***************************************************************************)
(* What the load scripts may conclude of the node, for any number of       *)
(* accounts, bursts, blocks and faults, and any capacity of a block.       *)
(*                                                                         *)
(* The sequence numbers are the heart of it: the node holds, of each       *)
(* account, the transactions 1 to n of its lane and no other (Lanes), and  *)
(* what is missing from the lane is on its way or was cut off (Placed).    *)
(***************************************************************************)
EXTENDS LoadSender, FiniteSetTheorems, SequenceTheorems, TLAPS

Txs == [account: LoadAccounts, burst: 1 .. SustainedBlocks]

Result == [succeeded: Nat, failed: Nat]

LoadType ==
    /\ step \in {"broadcast", "lanes", "height", "count", "latest", "scan", "report"}
    /\ burst \in [LoadAccounts -> 1 .. SustainedBlocks]
    /\ request \in [LoadAccounts -> {"sent", "accepted", "refused", "done"}]
    /\ acknowledged \subseteq Txs
    /\ curH \in Nat /\ latest \in Nat /\ scanned \in Nat /\ confirmed \in Nat /\ failed \in Nat
    /\ settled \in BOOLEAN /\ unread \in BOOLEAN
    /\ mempool \in Seq(Txs) /\ proposal \in [reaped: BOOLEAN, txs: Seq(Txs)]
    /\ blocks \in Seq(Seq(Txs)) /\ results \in Seq(Result)
    /\ stray \subseteq Txs /\ refused \subseteq Txs /\ abandoned \subseteq Txs
    /\ step = "broadcast" => \A a, c \in LoadAccounts : burst[a] = burst[c]

--------------------------------------------------------------------------------
(***************************************************************************)
(* The node.                                                               *)
(***************************************************************************)

Prefix(s, t) == Len(s) <= Len(t) /\ \A i \in 1 .. Len(s) : s[i] = t[i]

\* The results are those of all blocks, or of all but the last; the block being
\* made is the head of the mempool until it is executed.
Pipeline ==
    /\ Len(results) <= Len(blocks) /\ Len(blocks) <= Len(results) + 1
    /\ Len(results) < Len(blocks) => ~proposal.reaped /\ Prefix(blocks[Len(blocks)], mempool)
    /\ proposal.reaped => Prefix(proposal.txs, mempool)
    /\ \A h \in DOMAIN results : results[h].succeeded + results[h].failed = Len(blocks[h])

\* No transaction is in the node twice, but for those of the block that is not
\* executed yet.
Once ==
    /\ \A i, j \in DOMAIN mempool : mempool[i] = mempool[j] => i = j
    /\ \A g, h \in DOMAIN blocks : \A i \in DOMAIN blocks[g], j \in DOMAIN blocks[h] :
          blocks[g][i] = blocks[h][j] => g = h /\ i = j
    /\ \A h \in DOMAIN blocks : \A i \in DOMAIN blocks[h], j \in DOMAIN mempool :
          blocks[h][i] = mempool[j] => h = Len(results) + 1 /\ i = j

InNode == Included \cup ToSet(mempool)

Lane(a, n) == {Tx(a, b) : b \in 1 .. n}

\* Of each account the node has the first transactions of the lane.
Lanes ==
    \A a \in LoadAccounts :
        Sequence(a) \in Nat /\ {t \in InNode : t.account = a} = Lane(a, Sequence(a))

--------------------------------------------------------------------------------
(***************************************************************************)
(* The scripts and the node.                                               *)
(***************************************************************************)

CutOff(t) == \E u \in abandoned : u.account = t.account /\ u.burst <= t.burst
CutBefore(t) == \E u \in abandoned : u.account = t.account /\ u.burst < t.burst

IsSent(t) ==
    \/ t.burst < burst[t.account]
    \/ t.burst = burst[t.account] /\ request[t.account] # "sent"

\* What was sent is in the node, on its way to it, or was cut off; nothing else
\* is anywhere.
Placed ==
    /\ \A t \in Txs : IsSent(t) => t \in InNode \cup stray \/ CutOff(t)
    /\ \A t \in InNode \cup stray \cup acknowledged : IsSent(t)
    /\ stray \cap InNode = {}
    /\ \A a \in LoadAccounts : request[a] = "accepted" => Current(a) \in InNode

Over == step \notin {"broadcast", "lanes"}

\* The setup script knows what became of its requests, but for what it gave up.
Acknowledged ==
    /\ Over => \A a \in LoadAccounts : request[a] = "done"
    /\ step # "lanes" =>
          /\ stray \subseteq abandoned
          /\ acknowledged \subseteq InNode
          /\ InNode \subseteq acknowledged \cup abandoned
                              \cup {Current(a) : a \in {a \in LoadAccounts : request[a] = "accepted"}}

\* The transactions of the blocks up to height n.
UpTo(n) == UNION {ToSet(blocks[h]) : h \in 1 .. n}

\* The heights read while nothing was on its way.
Watched == probed \cup {h \in {curH} : step = "count"}

\* A block reaped when a watched height was already saved is empty only if all
\* that counts is in blocks.  That is the second block after it: the first may
\* have been reaped before it was read.
Settlement ==
    /\ Watched # {} => Over
    /\ \A p \in Watched : p \in DOMAIN blocks
    /\ step = "count" => \A p \in probed : p <= curH
    /\ \A p \in Watched, h \in DOMAIN blocks :
          p + 2 <= h /\ blocks[h] = NoBlock => acknowledged \subseteq UpTo(h)
    /\ \A p \in Watched :
          proposal.reaped /\ p < Len(blocks) /\ proposal.txs = NoBlock
             => acknowledged \subseteq Included
    /\ settled => /\ step \in {"latest", "scan", "report"}
                  /\ curH \in DOMAIN blocks /\ blocks[curH] = NoBlock
                  /\ \A p \in probed : p <= curH

\* The scan has counted the blocks it has read, but for the last if that had no
\* results.
Scan ==
    /\ scanned <= latest /\ latest <= Len(blocks)
    /\ step \notin {"scan", "report"} =>
          latest = 0 /\ scanned = 0 /\ confirmed = 0 /\ failed = 0
    /\ step \in {"scan", "report"} /\ settled /\ ~unread => curH <= latest
    /\ step = "report" => scanned = latest
    /\ unread \/ confirmed + failed = Cardinality(UpTo(scanned))
       \/ /\ scanned = latest /\ scanned > 0
          /\ confirmed + failed = Cardinality(UpTo(scanned - 1))

--------------------------------------------------------------------------------
(***************************************************************************)
(* Types.                                                                  *)
(***************************************************************************)

ScriptsNext == LoadNext \/ SenderNext

LEMMA TxType ==
    ASSUME NEW a \in LoadAccounts, NEW b \in 1 .. SustainedBlocks
    PROVE  Tx(a, b) \in Txs /\ Tx(a, b).account = a /\ Tx(a, b).burst = b
  BY DEF Tx, Txs

LEMMA CurrentType ==
    ASSUME LoadType, NEW a \in LoadAccounts
    PROVE  /\ Current(a) \in Txs /\ Current(a).account = a /\ Current(a).burst = burst[a]
           /\ burst[a] \in 1 .. SustainedBlocks
<1>1. burst[a] \in 1 .. SustainedBlocks
  BY DEF LoadType
<1> QED BY <1>1, TxType DEF Current

LEMMA InitLoadType == LoadInit \/ SenderInit => LoadType
<1>1. SustainedBlocks \in Nat \ {0}
  BY LoadAssumption
<1> SUFFICES ASSUME LoadInit \/ SenderInit PROVE LoadType
  OBVIOUS
<1>2. /\ step \in {"broadcast", "lanes"} /\ acknowledged = {} /\ RestInit
      /\ burst = [a \in LoadAccounts |-> 1] /\ request = [a \in LoadAccounts |-> "sent"]
  BY DEF LoadInit, SenderInit
<1>3. /\ blocks = <<NoBlock>> /\ NoBlock \in Seq(Txs)
      /\ results = <<[succeeded |-> 0, failed |-> 0]>> /\ [succeeded |-> 0, failed |-> 0] \in Result
      /\ mempool = <<>> /\ proposal = [reaped |-> FALSE, txs |-> NoBlock]
  BY <1>2 DEF RestInit, NoBlock, None, Result
<1>4. /\ blocks \in Seq(Seq(Txs)) /\ results \in Seq(Result) /\ mempool \in Seq(Txs)
      /\ proposal \in [reaped: BOOLEAN, txs: Seq(Txs)]
  BY <1>3
<1>5. /\ curH = 0 /\ latest = 0 /\ scanned = 0 /\ confirmed = 0 /\ failed = 0
      /\ settled = FALSE /\ unread = FALSE
      /\ stray = {} /\ refused = {} /\ abandoned = {}
  BY <1>2 DEF RestInit
<1>6. /\ burst \in [LoadAccounts -> 1 .. SustainedBlocks]
      /\ request \in [LoadAccounts -> {"sent", "accepted", "refused", "done"}]
      /\ \A a, c \in LoadAccounts : burst[a] = burst[c]
  BY <1>1, <1>2
<1>7. settled \in BOOLEAN /\ unread \in BOOLEAN
  BY <1>5
<1>8. acknowledged \subseteq Txs /\ stray \subseteq Txs /\ refused \subseteq Txs /\ abandoned \subseteq Txs
  BY <1>2, <1>5
<1>9. curH \in Nat /\ latest \in Nat /\ scanned \in Nat /\ confirmed \in Nat /\ failed \in Nat
  BY <1>5
<1>10. step \in {"broadcast", "lanes", "height", "count", "latest", "scan", "report"}
  BY <1>2
<1> QED BY <1>4, <1>6, <1>7, <1>8, <1>9, <1>10 DEF LoadType

\* What the chain's part of a step is.
LEMMA ChainSteps ==
    ASSUME [ScriptsNext]_loadVars
    PROVE  \/ UNCHANGED chain /\ (refused' = refused)
           \/ /\ UNCHANGED <<proposal, blocks, results>>
              /\ \/ \E a \in LoadAccounts : Arrive(a)
                 \/ \E t \in stray : ArriveLate(t)
           \/ Reap \/ Save \/ ExecuteBlock
  BY DEF ScriptsNext, LoadNext, SenderNext, Node, Script, Answer, GiveUp, BurstEnds, ReadHeight,
         CountTxs, ReadLatest, ScanBlock, Report, AsyncAnswer, Reconnect, loadVars, lost, Arrive,
         ArriveLate

ChainType ==
    /\ mempool \in Seq(Txs) /\ proposal \in [reaped: BOOLEAN, txs: Seq(Txs)]
    /\ blocks \in Seq(Seq(Txs)) /\ results \in Seq(Result) /\ refused \subseteq Txs

LEMMA CheckTxType ==
    ASSUME ChainType, NEW t \in Txs, CheckTx(t)
    PROVE  mempool' \in Seq(Txs) /\ refused' \subseteq Txs
<1>1. mempool \in Seq(Txs) /\ refused \subseteq Txs
  BY DEF ChainType
<1>2. CASE mempool' = Append(mempool, t) /\ refused' = refused
  BY <1>1, <1>2
<1>3. CASE mempool' = mempool /\ refused' = refused \cup {t}
  BY <1>1, <1>3
<1> QED BY <1>2, <1>3 DEF CheckTx

\* The head and the rest of the mempool.
LEMMA SplitType ==
    ASSUME NEW S, NEW s \in Seq(S), NEW n \in 0 .. Len(s)
    PROVE  /\ SubSeq(s, 1, n) \in Seq(S) /\ Len(SubSeq(s, 1, n)) = n
           /\ \A i \in 1 .. n : SubSeq(s, 1, n)[i] = s[i]
           /\ SubSeq(s, n + 1, Len(s)) \in Seq(S) /\ Len(SubSeq(s, n + 1, Len(s))) = Len(s) - n
           /\ \A i \in 1 .. Len(s) - n : SubSeq(s, n + 1, Len(s))[i] = s[n + i]
<1>1. Len(s) \in Nat /\ \A i \in 1 .. Len(s) : s[i] \in S
  BY ElementOfSeq
<1>2. /\ SubSeq(s, 1, n) \in Seq(S) /\ Len(SubSeq(s, 1, n)) = n
      /\ \A i \in 1 .. n : SubSeq(s, 1, n)[i] = s[i]
  BY <1>1, SubSeqProperties
<1>3. /\ SubSeq(s, n + 1, Len(s)) \in Seq(S) /\ Len(SubSeq(s, n + 1, Len(s))) = Len(s) - n
      /\ \A i \in 1 .. Len(s) - n : SubSeq(s, n + 1, Len(s))[i] = s[n + i]
  BY <1>1, SubSeqProperties
<1> QED BY <1>2, <1>3

LEMMA StepChainType ==
    ASSUME LoadType, Pipeline, [ScriptsNext]_loadVars
    PROVE  ChainType'
<1>1. ChainType
  BY DEF LoadType, ChainType
<1>2. CASE UNCHANGED chain /\ refused' = refused
  BY <1>1, <1>2 DEF ChainType, chain
<1>3. ASSUME NEW a \in LoadAccounts, Arrive(a) PROVE ChainType'
  <2>1. mempool' \in Seq(Txs) /\ refused' \subseteq Txs
    BY <1>1, <1>3, CheckTxType, CurrentType DEF Arrive
  <2> QED BY <1>1, <1>3, <2>1 DEF Arrive, ChainType
<1>4. ASSUME NEW t \in stray, ArriveLate(t) PROVE ChainType'
  <2>1. mempool' \in Seq(Txs) /\ refused' \subseteq Txs
    BY <1>1, <1>4, CheckTxType DEF ArriveLate, LoadType
  <2> QED BY <1>1, <1>4, <2>1 DEF ArriveLate, ChainType
<1>5. CASE Reap
  <2>1. Capacity \in Nat /\ Len(mempool) \in Nat
    BY <1>1, LoadAssumption DEF ChainType
  <2>2. Len(mempool) > Capacity => SubSeq(mempool, 1, Capacity) \in Seq(Txs)
    BY <1>1, <2>1, SplitType DEF ChainType
  <2>3. proposal' \in [reaped: BOOLEAN, txs: Seq(Txs)]
    BY <1>1, <1>5, <2>2 DEF Reap, ChainType
  <2> QED BY <1>1, <1>5, <2>3 DEF Reap, ChainType, lost
<1>6. CASE Save
  <2>1. proposal.txs \in Seq(Txs) /\ None \in [reaped: BOOLEAN, txs: Seq(Txs)]
    BY <1>1 DEF ChainType, None, NoBlock
  <2> QED BY <1>1, <1>6, <2>1 DEF Save, ChainType, lost
<1>7. CASE ExecuteBlock
  <2> DEFINE n == Len(Last(blocks))
  <2>1. /\ blocks # <<>> /\ Last(blocks) = blocks[Len(blocks)] /\ Last(blocks) \in Seq(Txs)
        /\ Prefix(Last(blocks), mempool)
    BY <1>1, <1>7 DEF ExecuteBlock, ChainType, Last, Pipeline
  <2>2. n \in 0 .. Len(mempool)
    BY <1>1, <2>1 DEF Prefix, ChainType
  <2>3. SubSeq(mempool, n + 1, Len(mempool)) \in Seq(Txs)
    BY <1>1, <2>2, SplitType DEF ChainType
  <2>4. \A ok \in Successes(n) : [succeeded |-> ok, failed |-> n - ok] \in Result
    BY <2>2 DEF Successes, Result
  <2>5. results' \in Seq(Result)
    BY <1>1, <1>7, <2>4 DEF ExecuteBlock, ChainType
  <2> QED BY <1>1, <1>7, <2>3, <2>5 DEF ExecuteBlock, ChainType, lost
<1> QED BY <1>2, <1>3, <1>4, <1>5, <1>6, <1>7, ChainSteps

ScriptType ==
    /\ step \in {"broadcast", "lanes", "height", "count", "latest", "scan", "report"}
    /\ burst \in [LoadAccounts -> 1 .. SustainedBlocks]
    /\ request \in [LoadAccounts -> {"sent", "accepted", "refused", "done"}]
    /\ acknowledged \subseteq Txs
    /\ curH \in Nat /\ latest \in Nat /\ scanned \in Nat /\ confirmed \in Nat /\ failed \in Nat
    /\ settled \in BOOLEAN /\ unread \in BOOLEAN
    /\ stray \subseteq Txs /\ abandoned \subseteq Txs
    /\ step = "broadcast" => \A a, c \in LoadAccounts : burst[a] = burst[c]

LEMMA StepScriptType ==
    ASSUME LoadType, [ScriptsNext]_loadVars
    PROVE  ScriptType'
<1>1. ScriptType /\ Len(blocks) \in Nat
  BY DEF LoadType, ScriptType
<1>2. \A a \in LoadAccounts : Current(a) \in Txs
  BY CurrentType
<1>3. ASSUME NEW a \in LoadAccounts,
             Arrive(a) \/ Answer(a) \/ GiveUp(a) \/ AsyncAnswer(a) \/ Reconnect(a)
      PROVE  ScriptType'
  <2>1. UNCHANGED <<step, settle, scan, unread>>
    BY <1>3 DEF Arrive, Answer, GiveUp, AsyncAnswer, Reconnect, ghost
  <2>2. /\ acknowledged' \in {acknowledged, acknowledged \cup {Current(a)}}
        /\ stray' \in {stray, stray \cup {Current(a)}}
        /\ abandoned' \in {abandoned, abandoned \cup {Current(a)}}
    BY <1>3 DEF Arrive, Answer, GiveUp, AsyncAnswer, Reconnect, Dispatched, LeftBehind, ghost, lost
  <2>3. acknowledged' \subseteq Txs /\ stray' \subseteq Txs /\ abandoned' \subseteq Txs
    BY <1>1, <1>2, <2>2 DEF ScriptType
  <2>4. \/ burst' = burst
        \/ /\ step = "lanes" /\ burst[a] < SustainedBlocks
           /\ burst' = [burst EXCEPT ![a] = burst[a] + 1]
    BY <1>3 DEF Arrive, Answer, GiveUp, AsyncAnswer, Reconnect, Dispatched
  <2>5. burst' \in [LoadAccounts -> 1 .. SustainedBlocks]
    BY <1>1, <2>4, LoadAssumption DEF ScriptType
  <2>6. \E r \in {"sent", "accepted", "refused", "done"} : request' = [request EXCEPT ![a] = r]
    BY <1>3 DEF Arrive, Answer, GiveUp, AsyncAnswer, Reconnect, Dispatched
  <2>7. request' \in [LoadAccounts -> {"sent", "accepted", "refused", "done"}]
    BY <1>1, <2>6 DEF ScriptType
  <2> QED BY <1>1, <2>1, <2>3, <2>4, <2>5, <2>7 DEF ScriptType, settle, scan
<1>4. CASE BurstEnds
  <2>1. /\ step = "broadcast" /\ UNCHANGED <<acknowledged, settle, scan, stray, abandoned, unread>>
        /\ \/ step' = "height" /\ UNCHANGED <<burst, request>>
           \/ /\ ~LastBurst /\ step' = step
              /\ burst' = [a \in LoadAccounts |-> burst[a] + 1]
              /\ request' = [a \in LoadAccounts |-> "sent"]
    BY <1>4 DEF BurstEnds, lost, ghost
  <2>2. ~LastBurst => \A a \in LoadAccounts : burst[a] + 1 \in 1 .. SustainedBlocks
    <3>1. ~LastBurst => \E a \in LoadAccounts : burst[a] # SustainedBlocks
      BY DEF LastBurst
    <3> QED BY <1>1, <2>1, <3>1, LoadAssumption DEF ScriptType
  <2> QED BY <1>1, <2>1, <2>2 DEF ScriptType, settle, scan
<1>5. ASSUME NEW t \in stray, ArriveLate(t) PROVE ScriptType'
  BY <1>1, <1>5 DEF ArriveLate, ScriptType, load, settle, scan, ghost
<1>6. CASE Reap \/ Save \/ ExecuteBlock
  BY <1>1, <1>6 DEF Reap, Save, ExecuteBlock, ScriptType, load, settle, scan, ghost, lost
<1>7. CASE ReadHeight \/ CountTxs
  <2>1. UNCHANGED <<load, scan, lost, unread>>
    BY <1>7 DEF ReadHeight, CountTxs
  <2>2. step' \in {"height", "count", "latest"}
    BY <1>7 DEF ReadHeight, CountTxs, NextRound
  <2>3. curH' \in {Len(blocks), 0, curH}
    BY <1>7 DEF ReadHeight, CountTxs
  <2>6. settled' = settled \/ settled' = (stable' >= 2)
    BY <1>7 DEF ReadHeight, CountTxs
  <2>7. settled' \in BOOLEAN
    <3>1. settled \in BOOLEAN
      BY <1>1 DEF ScriptType
    <3>2. (stable' >= 2) \in BOOLEAN
      OBVIOUS
    <3> QED BY <2>6, <3>1, <3>2, Zenon
  <2>4. /\ UNCHANGED <<burst, request, acknowledged>> /\ UNCHANGED <<latest, scanned, confirmed, failed>>
        /\ UNCHANGED <<stray, abandoned, unread>>
    BY <2>1 DEF load, scan, lost
  <2>5. curH' \in Nat
    BY <1>1, <2>3 DEF ScriptType
  <2> QED BY <1>1, <2>2, <2>4, <2>5, <2>7 DEF ScriptType
<1>8. CASE ReadLatest \/ Report
  <2>1. UNCHANGED <<load, settle, lost>> /\ UNCHANGED <<scanned, confirmed, failed>>
    BY <1>8 DEF ReadLatest, Report, scan
  <2>2. step' \in {"scan", "report"} /\ latest' \in {latest, Len(blocks), 0}
    BY <1>8 DEF ReadLatest, Report, scan
  <2>3. latest' \in Nat
    BY <1>1, <2>2 DEF ScriptType
  <2>4. unread' = unread \/ unread' = TRUE
    BY <1>8 DEF ReadLatest, Report, ghost
  <2>5. unread' \in BOOLEAN
    BY <1>1, <2>4, Zenon DEF ScriptType
  <2> QED BY <1>1, <2>1, <2>2, <2>3, <2>5 DEF ScriptType, load, settle, lost
<1>9. CASE ScanBlock
  <2>1. \A h : Counted(BlockResults(h)) \in Result
    <3>1. \A h \in DOMAIN results : results[h] \in Result
      BY DEF LoadType
    <3> QED BY <3>1 DEF Counted, BlockResults, NoResult, Result
  <2>2. \/ \E n, m \in Nat : confirmed' = confirmed + n /\ failed' = failed + m /\ unread' = unread
        \/ UNCHANGED <<confirmed, failed>> /\ unread' = TRUE
    BY <1>9, <2>1 DEF ScanBlock, Result, ghost
  <2>3. unread' \in BOOLEAN
    BY <1>1, <2>2, Zenon DEF ScriptType
  <2>4. UNCHANGED <<step, load, settle, latest, lost>> /\ scanned' = scanned + 1
    BY <1>9 DEF ScanBlock
  <2>5. scanned' \in Nat /\ confirmed' \in Nat /\ failed' \in Nat
    BY <1>1, <2>2, <2>4 DEF ScriptType
  <2> QED BY <1>1, <2>3, <2>4, <2>5 DEF ScriptType, load, settle, lost
<1>10. CASE UNCHANGED loadVars
  BY <1>1, <1>10 DEF loadVars, ScriptType, load, settle, scan, ghost, lost
<1> QED BY <1>3, <1>4, <1>5, <1>6, <1>7, <1>8, <1>9, <1>10
        DEF ScriptsNext, LoadNext, SenderNext, Node, Script

LEMMA StepLoadType == ASSUME LoadType, Pipeline, [ScriptsNext]_loadVars PROVE LoadType'
  BY StepChainType, StepScriptType DEF LoadType, ChainType, ScriptType

--------------------------------------------------------------------------------
(***************************************************************************)
(* The chain and its mempool.                                              *)
(***************************************************************************)

\* What a sequence of blocks holds.
Contents(bs) == UNION {ToSet(bs[h]) : h \in DOMAIN bs}

LEMMA TxSeqs ==
    ASSUME NEW s \in Seq(Txs)
    PROVE  /\ Len(s) \in Nat /\ DOMAIN s = 1 .. Len(s)
           /\ \A i \in 1 .. Len(s) : s[i] \in Txs
           /\ \A t : t \in ToSet(s) <=> \E i \in 1 .. Len(s) : s[i] = t
<1>1. Len(s) \in Nat /\ DOMAIN s = 1 .. Len(s)
  BY LenProperties
<1>2. \A i \in 1 .. Len(s) : s[i] \in Txs
  BY ElementOfSeq
<1> QED BY <1>1, <1>2 DEF ToSet

LEMMA BlockSeqs ==
    ASSUME NEW bs \in Seq(Seq(Txs))
    PROVE  /\ Len(bs) \in Nat /\ DOMAIN bs = 1 .. Len(bs)
           /\ \A h \in 1 .. Len(bs) :
                 /\ bs[h] \in Seq(Txs) /\ Len(bs[h]) \in Nat /\ DOMAIN bs[h] = 1 .. Len(bs[h])
                 /\ \A i \in 1 .. Len(bs[h]) : bs[h][i] \in Txs
           /\ \A t : t \in Contents(bs) <=>
                 \E h \in 1 .. Len(bs) : \E i \in 1 .. Len(bs[h]) : bs[h][i] = t
<1>1. Len(bs) \in Nat /\ DOMAIN bs = 1 .. Len(bs)
  BY LenProperties
<1>2. \A h \in 1 .. Len(bs) : bs[h] \in Seq(Txs)
  BY ElementOfSeq
<1>3. \A h \in 1 .. Len(bs) :
         /\ Len(bs[h]) \in Nat /\ DOMAIN bs[h] = 1 .. Len(bs[h])
         /\ \A i \in 1 .. Len(bs[h]) : bs[h][i] \in Txs
  BY <1>2, TxSeqs
<1>4. ASSUME NEW t
      PROVE  t \in Contents(bs) <=>
                 \E h \in 1 .. Len(bs) : \E i \in 1 .. Len(bs[h]) : bs[h][i] = t
  <2>1. t \in Contents(bs) <=> \E h \in 1 .. Len(bs) : t \in ToSet(bs[h])
    BY <1>1 DEF Contents
  <2> QED BY <1>2, <2>1, TxSeqs
<1> QED BY <1>1, <1>2, <1>3, <1>4

LEMMA NodeHolds ==
    /\ Included = Contents(blocks) /\ InNode = Contents(blocks) \cup ToSet(mempool)
    /\ Included' = Contents(blocks') /\ InNode' = Contents(blocks') \cup ToSet(mempool')
    /\ \A a \in LoadAccounts : Sequence(a) = Cardinality({t \in InNode : t.account = a})
    /\ \A a \in LoadAccounts : Sequence(a)' = Cardinality({t \in InNode' : t.account = a})
  BY DEF Included, InNode, Contents, Sequence

LEMMA InNodeType == ASSUME LoadType PROVE InNode \subseteq Txs
<1>1. mempool \in Seq(Txs) /\ blocks \in Seq(Seq(Txs))
  BY DEF LoadType
<1>2. ToSet(mempool) \subseteq Txs
  BY <1>1, TxSeqs
<1>3. Contents(blocks) \subseteq Txs
  <2> SUFFICES ASSUME NEW t \in Contents(blocks) PROVE t \in Txs
    OBVIOUS
  <2>1. PICK h \in 1 .. Len(blocks) : \E i \in 1 .. Len(blocks[h]) : blocks[h][i] = t
    BY <1>1, BlockSeqs
  <2> QED BY <1>1, <2>1, BlockSeqs
<1> QED BY <1>2, <1>3, NodeHolds

LEMMA AppendTx ==
    ASSUME NEW s \in Seq(Txs), NEW t \in Txs
    PROVE  /\ Append(s, t) \in Seq(Txs) /\ Len(Append(s, t)) = Len(s) + 1
           /\ \A i \in 1 .. Len(s) : Append(s, t)[i] = s[i]
           /\ Append(s, t)[Len(s) + 1] = t
           /\ ToSet(Append(s, t)) = ToSet(s) \cup {t}
<1>1. /\ Append(s, t) \in Seq(Txs) /\ Len(Append(s, t)) = Len(s) + 1
      /\ \A i \in 1 .. Len(s) : Append(s, t)[i] = s[i]
      /\ Append(s, t)[Len(s) + 1] = t
  BY AppendProperties
<1>2. Len(s) \in Nat
  BY TxSeqs
<1>3. ASSUME NEW u PROVE u \in ToSet(Append(s, t)) <=> u \in ToSet(s) \cup {t}
  <2>1. u \in ToSet(Append(s, t)) <=> \E i \in 1 .. Len(s) + 1 : Append(s, t)[i] = u
    BY <1>1, TxSeqs
  <2>2. u \in ToSet(s) <=> \E i \in 1 .. Len(s) : s[i] = u
    BY TxSeqs
  <2> QED BY <1>1, <1>2, <2>1, <2>2
<1> QED BY <1>1, <1>3

LEMMA AppendBlock ==
    ASSUME NEW bs \in Seq(Seq(Txs)), NEW b \in Seq(Txs)
    PROVE  /\ Append(bs, b) \in Seq(Seq(Txs)) /\ Len(Append(bs, b)) = Len(bs) + 1
           /\ \A h \in 1 .. Len(bs) : Append(bs, b)[h] = bs[h]
           /\ Append(bs, b)[Len(bs) + 1] = b
           /\ Contents(Append(bs, b)) = Contents(bs) \cup ToSet(b)
<1> DEFINE cs == Append(bs, b)
<1>1. /\ cs \in Seq(Seq(Txs)) /\ Len(cs) = Len(bs) + 1
      /\ \A h \in 1 .. Len(bs) : cs[h] = bs[h]
      /\ cs[Len(bs) + 1] = b
  BY AppendProperties
<1>2. Len(bs) \in Nat /\ DOMAIN bs = 1 .. Len(bs) /\ DOMAIN cs = 1 .. Len(bs) + 1
  BY <1>1, BlockSeqs
<1>3. ASSUME NEW t PROVE t \in Contents(cs) <=> t \in Contents(bs) \cup ToSet(b)
  <2>1. t \in Contents(cs) <=> \E h \in 1 .. Len(bs) + 1 : t \in ToSet(cs[h])
    BY <1>2 DEF Contents
  <2>2. t \in Contents(bs) <=> \E h \in 1 .. Len(bs) : t \in ToSet(bs[h])
    BY <1>2 DEF Contents
  <2>3. \A h \in 1 .. Len(bs) + 1 : h \in 1 .. Len(bs) \/ h = Len(bs) + 1
    BY <1>2
  <2>4. 1 .. Len(bs) \subseteq 1 .. Len(bs) + 1 /\ Len(bs) + 1 \in 1 .. Len(bs) + 1
    BY <1>2
  <2>5. ASSUME t \in Contents(cs) PROVE t \in Contents(bs) \cup ToSet(b)
    <3>1. PICK h \in 1 .. Len(bs) + 1 : t \in ToSet(cs[h])
      BY <2>1, <2>5
    <3> QED BY <1>1, <2>2, <2>3, <3>1
  <2>6. ASSUME t \in Contents(bs) PROVE t \in Contents(cs)
    <3>1. PICK h \in 1 .. Len(bs) : t \in ToSet(bs[h])
      BY <2>2, <2>6
    <3> QED BY <1>1, <2>1, <2>4, <3>1
  <2>7. ASSUME t \in ToSet(b) PROVE t \in Contents(cs)
    BY <1>1, <2>1, <2>4, <2>7
  <2> HIDE DEF cs
  <2> QED BY <2>5, <2>6, <2>7
<1> QED BY <1>1, <1>3

\* Without its head, the rest of a sequence.
LEMMA DropTx ==
    ASSUME NEW s \in Seq(Txs), NEW b \in Seq(Txs), Prefix(b, s)
    PROVE  LET r == SubSeq(s, Len(b) + 1, Len(s)) IN
           /\ r \in Seq(Txs) /\ Len(r) = Len(s) - Len(b)
           /\ \A i \in 1 .. Len(s) - Len(b) : r[i] = s[Len(b) + i]
           /\ ToSet(s) = ToSet(r) \cup ToSet(b)
<1> DEFINE r == SubSeq(s, Len(b) + 1, Len(s))
<1>1. Len(s) \in Nat /\ Len(b) \in Nat /\ Len(b) <= Len(s) /\ \A i \in 1 .. Len(b) : b[i] = s[i]
  BY TxSeqs DEF Prefix
<1>2. Len(b) \in 0 .. Len(s)
  BY <1>1
<1>3. /\ r \in Seq(Txs) /\ Len(r) = Len(s) - Len(b)
      /\ \A i \in 1 .. Len(s) - Len(b) : r[i] = s[Len(b) + i]
  BY <1>2, SplitType
<1>4. ASSUME NEW t PROVE t \in ToSet(s) <=> t \in ToSet(r) \cup ToSet(b)
  <2>1. /\ t \in ToSet(s) <=> \E i \in 1 .. Len(s) : s[i] = t
        /\ t \in ToSet(b) <=> \E i \in 1 .. Len(b) : b[i] = t
        /\ t \in ToSet(r) <=> \E i \in 1 .. Len(r) : r[i] = t
    <3> HIDE DEF r
    <3> QED BY <1>3, TxSeqs
  <2>2. ASSUME NEW i \in 1 .. Len(s), s[i] = t PROVE t \in ToSet(r) \cup ToSet(b)
    <3>1. CASE i <= Len(b)
      BY <1>1, <2>1, <2>2, <3>1
    <3>2. CASE i > Len(b)
      <4>1. i - Len(b) \in 1 .. Len(s) - Len(b) /\ Len(b) + (i - Len(b)) = i
        BY <1>1, <3>2
      <4>2. r[i - Len(b)] = t
        BY <1>3, <2>2, <4>1
      <4> QED BY <1>3, <2>1, <4>1, <4>2
    <3> QED BY <1>1, <3>1, <3>2
  <2>3. ASSUME t \in ToSet(r) PROVE t \in ToSet(s)
    <3>1. PICK i \in 1 .. Len(s) - Len(b) : r[i] = t
      BY <1>3, <2>1, <2>3
    <3>2. Len(b) + i \in 1 .. Len(s) /\ s[Len(b) + i] = t
      BY <1>1, <1>3, <3>1
    <3> QED BY <2>1, <3>2
  <2>4. ASSUME t \in ToSet(b) PROVE t \in ToSet(s)
    BY <1>1, <2>1, <2>4
  <2> QED BY <2>1, <2>2, <2>3, <2>4
<1> QED BY <1>3, <1>4

\* A reaped block is the head of the mempool.
LEMMA ReapedHead ==
    ASSUME LoadType, Reap
    PROVE  /\ proposal'.reaped /\ proposal'.txs \in Seq(Txs) /\ Prefix(proposal'.txs, mempool)
           /\ proposal'.txs = NoBlock => mempool = <<>>
<1>1. mempool \in Seq(Txs) /\ Len(mempool) \in Nat /\ Capacity \in Nat \ {0}
  BY LoadAssumption, TxSeqs DEF LoadType
<1>2. CASE Len(mempool) > Capacity
  <2>1. Capacity \in 0 .. Len(mempool)
    BY <1>1, <1>2
  <2>2. /\ SubSeq(mempool, 1, Capacity) \in Seq(Txs) /\ Len(SubSeq(mempool, 1, Capacity)) = Capacity
        /\ \A i \in 1 .. Capacity : SubSeq(mempool, 1, Capacity)[i] = mempool[i]
    BY <1>1, <2>1, SplitType
  <2>3. SubSeq(mempool, 1, Capacity) # <<>>
    BY <1>1, <2>2, EmptySeq
  <2>4. proposal' = [reaped |-> TRUE, txs |-> SubSeq(mempool, 1, Capacity)]
    BY <1>2 DEF Reap
  <2> QED BY <1>1, <1>2, <2>2, <2>3, <2>4 DEF Prefix, NoBlock
<1>3. CASE ~(Len(mempool) > Capacity)
  BY <1>1, <1>3 DEF Reap, Prefix, NoBlock
<1> QED BY <1>2, <1>3

LEMMA SizeOfInterval ==
    ASSUME NEW n \in Nat PROVE IsFiniteSet(1 .. n) /\ Cardinality(1 .. n) = n
  BY FS_Interval

LEMMA LaneSize ==
    ASSUME NEW a, NEW n \in Nat
    PROVE  IsFiniteSet(Lane(a, n)) /\ Cardinality(Lane(a, n)) = n
<1> DEFINE f == [b \in 1 .. n |-> Tx(a, b)]
<1>1. f \in Bijection(1 .. n, Lane(a, n))
  BY DEF Bijection, Injection, Surjection, IsInjective, Lane, Tx
<1>2. ExistsBijection(1 .. n, Lane(a, n))
  BY <1>1 DEF ExistsBijection
<1>3. IsFiniteSet(1 .. n) /\ Cardinality(1 .. n) = n
  BY SizeOfInterval
<1> QED BY <1>2, <1>3, FS_Bijection

LEMMA InLane ==
    ASSUME NEW a \in LoadAccounts, NEW n \in Nat, NEW t \in Txs
    PROVE  t \in Lane(a, n) <=> t.account = a /\ t.burst <= n
  BY DEF Lane, Tx, Txs

\* The node takes a transaction exactly when it is the next of its lane.
LEMMA Accepts ==
    ASSUME LoadType, Lanes, NEW t \in Txs, CheckTx(t)
    PROVE  LET a == t.account IN
           /\ a \in LoadAccounts /\ Sequence(a) \in Nat /\ t.burst \in Nat
           /\ \/ /\ t.burst = Sequence(a) + 1 /\ t \notin InNode
                 /\ mempool' = Append(mempool, t) /\ refused' = refused
              \/ /\ t.burst # Sequence(a) + 1
                 /\ mempool' = mempool /\ refused' = refused \cup {t}
<1> DEFINE a == t.account
<1>1. a \in LoadAccounts /\ t.burst \in Nat
  BY DEF Txs
<1>2. Sequence(a) \in Nat /\ {u \in InNode : u.account = a} = Lane(a, Sequence(a))
  BY <1>1 DEF Lanes
<1>3. t.burst = Sequence(a) + 1 => t \notin InNode
  BY <1>1, <1>2, InLane
<1>4. t.burst - 1 = Sequence(a) <=> t.burst = Sequence(a) + 1
  BY <1>1, <1>2
<1> QED BY <1>1, <1>2, <1>3, <1>4 DEF CheckTx, SignedSequence

LEMMA LanesKept ==
    ASSUME Lanes, InNode' = InNode
    PROVE  Lanes' /\ \A a \in LoadAccounts : Sequence(a)' = Sequence(a)
<1>1. \A a \in LoadAccounts : Sequence(a)' = Sequence(a)
  BY NodeHolds
<1> QED BY <1>1 DEF Lanes

LEMMA LanesGrow ==
    ASSUME LoadType, Lanes, NEW t \in Txs,
           t.burst = Sequence(t.account) + 1, InNode' = InNode \cup {t}
    PROVE  /\ Lanes'
           /\ Sequence(t.account)' = Sequence(t.account) + 1
           /\ \A a \in LoadAccounts : a # t.account => Sequence(a)' = Sequence(a)
<1>1. /\ \A a \in LoadAccounts :
            Sequence(a) \in Nat /\ {u \in InNode : u.account = a} = Lane(a, Sequence(a))
      /\ \A a \in LoadAccounts : Sequence(a)' = Cardinality({u \in InNode' : u.account = a})
      /\ \A a \in LoadAccounts : Sequence(a) = Cardinality({u \in InNode : u.account = a})
  BY NodeHolds DEF Lanes
<1>2. ASSUME NEW a \in LoadAccounts, a # t.account
      PROVE  Sequence(a)' = Sequence(a) /\ {u \in InNode' : u.account = a} = Lane(a, Sequence(a))
  <2>1. {u \in InNode' : u.account = a} = {u \in InNode : u.account = a}
    BY <1>2
  <2> QED BY <1>1, <2>1
<1>3. t.account \in LoadAccounts /\ t = Tx(t.account, t.burst)
  BY DEF Txs, Tx
<1> DEFINE n == Sequence(t.account)
<1>4. {u \in InNode' : u.account = t.account} = Lane(t.account, n + 1)
  <2>1. {u \in InNode' : u.account = t.account} = {u \in InNode : u.account = t.account} \cup {t}
    OBVIOUS
  <2>2. n \in Nat /\ {u \in InNode : u.account = t.account} = Lane(t.account, n)
    BY <1>1, <1>3
  <2>3. 1 .. n + 1 = (1 .. n) \cup {n + 1}
    BY <2>2
  <2>4. Lane(t.account, n + 1) = Lane(t.account, n) \cup {Tx(t.account, n + 1)}
    BY <2>3 DEF Lane
  <2> QED BY <1>3, <2>1, <2>2, <2>4
<1>5. n + 1 \in Nat /\ Sequence(t.account)' = n + 1
  BY <1>1, <1>3, <1>4, LaneSize
<1> QED BY <1>1, <1>2, <1>3, <1>4, <1>5 DEF Lanes

\* The chain's part of a step: a transaction taken, a block reaped, saved or
\* executed, or nothing.
LEMMA ChainMoves ==
    ASSUME LoadType, Pipeline, Lanes, [ScriptsNext]_loadVars
    PROVE  \/ UNCHANGED <<mempool, proposal, blocks, results>>
           \/ /\ UNCHANGED <<proposal, blocks, results>>
              /\ \E t \in Txs : /\ t.burst = Sequence(t.account) + 1 /\ t \notin InNode
                                /\ mempool' = Append(mempool, t)
           \/ /\ UNCHANGED <<mempool, blocks, results>> /\ ~proposal.reaped
              /\ Len(results) = Len(blocks) /\ Reap
           \/ /\ UNCHANGED <<mempool, results>> /\ proposal.reaped /\ Len(results) = Len(blocks)
              /\ proposal.txs \in Seq(Txs) /\ Prefix(proposal.txs, mempool)
              /\ blocks' = Append(blocks, proposal.txs) /\ proposal' = None
           \/ /\ UNCHANGED <<proposal, blocks>> /\ ~proposal.reaped
              /\ Len(results) + 1 = Len(blocks)
              /\ Prefix(blocks[Len(blocks)], mempool)
              /\ mempool' = SubSeq(mempool, Len(blocks[Len(blocks)]) + 1, Len(mempool))
              /\ \E r \in Result : /\ r.succeeded + r.failed = Len(blocks[Len(blocks)])
                                   /\ results' = Append(results, r)
<1>1. /\ Len(results) \in Nat /\ Len(blocks) \in Nat /\ proposal.txs \in Seq(Txs)
      /\ Len(results) <= Len(blocks) /\ Len(blocks) <= Len(results) + 1
      /\ Len(results) < Len(blocks) => ~proposal.reaped /\ Prefix(blocks[Len(blocks)], mempool)
      /\ proposal.reaped => Prefix(proposal.txs, mempool)
  BY DEF LoadType, Pipeline
<1>2. CASE UNCHANGED chain
  BY <1>2 DEF chain
<1>3. ASSUME NEW t \in Txs, CheckTx(t), UNCHANGED <<proposal, blocks, results>>
      PROVE  \/ UNCHANGED <<mempool, proposal, blocks, results>>
             \/ /\ t.burst = Sequence(t.account) + 1 /\ t \notin InNode
                /\ mempool' = Append(mempool, t)
  BY <1>3, Accepts
<1>4. CASE \E a \in LoadAccounts : Arrive(a)
  <2>1. PICK a \in LoadAccounts : Arrive(a)
    BY <1>4
  <2>2. Current(a) \in Txs /\ CheckTx(Current(a)) /\ UNCHANGED <<proposal, blocks, results>>
    BY <2>1, CurrentType DEF Arrive
  <2> QED BY <1>3, <2>2
<1>5. CASE \E t \in stray : ArriveLate(t)
  <2>1. PICK t \in stray : ArriveLate(t)
    BY <1>5
  <2>2. t \in Txs /\ CheckTx(t) /\ UNCHANGED <<proposal, blocks, results>>
    BY <2>1 DEF ArriveLate, LoadType
  <2> QED BY <1>3, <2>2
<1>6. CASE Reap
  BY <1>6 DEF Reap
<1>7. CASE Save
  BY <1>1, <1>7 DEF Save
<1>8. CASE ExecuteBlock
  <2> DEFINE n == Len(blocks[Len(blocks)])
  <2>1. Len(blocks) \in 1 .. Len(blocks) /\ n \in Nat
    <3>1. Len(blocks) \in 1 .. Len(blocks)
      BY <1>1, <1>8 DEF ExecuteBlock
    <3> QED BY <3>1, BlockSeqs DEF LoadType
  <2>2. /\ \E ok \in {0, n} : results' = Append(results, [succeeded |-> ok, failed |-> n - ok])
        /\ mempool' = SubSeq(mempool, n + 1, Len(mempool)) /\ UNCHANGED <<proposal, blocks>>
        /\ Len(results) < Len(blocks)
    BY <1>8 DEF ExecuteBlock, Successes, Last
  <2>3. PICK ok \in {0, n} : results' = Append(results, [succeeded |-> ok, failed |-> n - ok])
    BY <2>2
  <2>4. ok \in Nat /\ n - ok \in Nat /\ ok + (n - ok) = n
    BY <2>1, <2>3
  <2>5. \E r \in Result : r.succeeded + r.failed = n /\ results' = Append(results, r)
    <3>1. [succeeded |-> ok, failed |-> n - ok] \in Result
      BY <2>4 DEF Result
    <3> QED BY <2>3, <2>4, <3>1
  <2>6. ~proposal.reaped /\ Len(results) + 1 = Len(blocks) /\ Prefix(blocks[Len(blocks)], mempool)
    BY <1>1, <2>2
  <2> QED BY <2>2, <2>5, <2>6, Zenon
<1> QED BY <1>2, <1>4, <1>5, <1>6, <1>7, <1>8, ChainSteps

LEMMA StepPipeline ==
    ASSUME LoadType, Pipeline, Lanes, [ScriptsNext]_loadVars
    PROVE  Pipeline'
<1>1. /\ mempool \in Seq(Txs) /\ blocks \in Seq(Seq(Txs)) /\ results \in Seq(Result)
      /\ Len(mempool) \in Nat /\ Len(blocks) \in Nat /\ Len(results) \in Nat
      /\ DOMAIN results = 1 .. Len(results)
  BY LenProperties DEF LoadType
<1>2. /\ Len(results) <= Len(blocks) /\ Len(blocks) <= Len(results) + 1
      /\ Len(results) < Len(blocks) => ~proposal.reaped /\ Prefix(blocks[Len(blocks)], mempool)
      /\ proposal.reaped => Prefix(proposal.txs, mempool)
      /\ \A h \in DOMAIN results : results[h].succeeded + results[h].failed = Len(blocks[h])
  BY DEF Pipeline
<1>3. CASE UNCHANGED <<mempool, proposal, blocks, results>>
  BY <1>2, <1>3 DEF Pipeline
<1>4. CASE /\ UNCHANGED <<proposal, blocks, results>>
           /\ \E t \in Txs : mempool' = Append(mempool, t)
  <2>1. Len(mempool') = Len(mempool) + 1 /\ \A i \in 1 .. Len(mempool) : mempool'[i] = mempool[i]
    BY <1>1, <1>4, AppendTx
  <2>2. ASSUME NEW s \in Seq(Txs), Prefix(s, mempool) PROVE Prefix(s, mempool')
    BY <1>1, <2>1, <2>2, TxSeqs DEF Prefix
  <2>3. proposal.txs \in Seq(Txs)
    BY DEF LoadType
  <2>4. Len(results) < Len(blocks) => blocks[Len(blocks)] \in Seq(Txs)
    <3>1. Len(results) < Len(blocks) => Len(blocks) \in 1 .. Len(blocks)
      BY <1>1
    <3> QED BY <1>1, <3>1, BlockSeqs
  <2> QED BY <1>2, <1>4, <2>2, <2>3, <2>4 DEF Pipeline
<1>5. CASE /\ UNCHANGED <<mempool, blocks, results>> /\ Len(results) = Len(blocks) /\ Reap
  BY <1>1, <1>2, <1>5, ReapedHead DEF Pipeline
<1>6. CASE /\ UNCHANGED <<mempool, results>> /\ Len(results) = Len(blocks)
           /\ proposal.txs \in Seq(Txs) /\ Prefix(proposal.txs, mempool)
           /\ blocks' = Append(blocks, proposal.txs) /\ proposal' = None
  <2>1. /\ Len(blocks') = Len(blocks) + 1 /\ blocks'[Len(blocks) + 1] = proposal.txs
        /\ \A h \in 1 .. Len(blocks) : blocks'[h] = blocks[h]
    BY <1>1, <1>6, AppendBlock
  <2>2. ~proposal'.reaped
    BY <1>6 DEF None
  <2> QED BY <1>1, <1>2, <1>6, <2>1, <2>2 DEF Pipeline
<1>7. CASE /\ UNCHANGED <<proposal, blocks>> /\ ~proposal.reaped
           /\ Len(results) + 1 = Len(blocks)
           /\ \E r \in Result : /\ r.succeeded + r.failed = Len(blocks[Len(blocks)])
                                /\ results' = Append(results, r)
  <2>1. PICK r \in Result : /\ r.succeeded + r.failed = Len(blocks[Len(blocks)])
                            /\ results' = Append(results, r)
    BY <1>7
  <2>2. /\ Len(results') = Len(results) + 1 /\ DOMAIN results' = 1 .. Len(results) + 1
        /\ \A h \in 1 .. Len(results) : results'[h] = results[h]
        /\ results'[Len(results) + 1] = r
    BY <1>1, <2>1, AppendProperties, LenProperties
  <2>3. \A h \in 1 .. Len(results) + 1 :
            results'[h].succeeded + results'[h].failed = Len(blocks[h])
    <3>1. ASSUME NEW h \in 1 .. Len(results)
          PROVE  results'[h].succeeded + results'[h].failed = Len(blocks[h])
      BY <1>1, <1>2, <2>2
    <3>2. results'[Len(results) + 1].succeeded + results'[Len(results) + 1].failed
              = Len(blocks[Len(results) + 1])
      BY <1>7, <2>1, <2>2
    <3>3. \A h \in 1 .. Len(results) + 1 : h \in 1 .. Len(results) \/ h = Len(results) + 1
      BY <1>1
    <3> QED BY <3>1, <3>2, <3>3
  <2> QED BY <1>1, <1>7, <2>2, <2>3 DEF Pipeline
<1> QED BY <1>3, <1>4, <1>5, <1>6, <1>7, ChainMoves

\* The node loses nothing, and takes transactions in the order of their lanes.
LEMMA StepHolds ==
    ASSUME LoadType, Pipeline, Lanes, [ScriptsNext]_loadVars
    PROVE  /\ Included \subseteq Included' /\ Included \subseteq InNode
           /\ \/ InNode' = InNode
              \/ \E t \in Txs : /\ t.burst = Sequence(t.account) + 1 /\ t \notin InNode
                                /\ InNode' = InNode \cup {t}
<1>1. mempool \in Seq(Txs) /\ blocks \in Seq(Seq(Txs)) /\ Len(blocks) \in Nat
  BY LenProperties DEF LoadType
<1>2. CASE UNCHANGED <<mempool, proposal, blocks, results>>
  BY <1>2, NodeHolds
<1>3. CASE /\ UNCHANGED <<proposal, blocks, results>>
           /\ \E t \in Txs : /\ t.burst = Sequence(t.account) + 1 /\ t \notin InNode
                             /\ mempool' = Append(mempool, t)
  BY <1>1, <1>3, NodeHolds, AppendTx
<1>4. CASE UNCHANGED <<mempool, blocks, results>> /\ Reap
  BY <1>4, NodeHolds
<1>5. CASE /\ UNCHANGED <<mempool, results>>
           /\ proposal.txs \in Seq(Txs) /\ Prefix(proposal.txs, mempool)
           /\ blocks' = Append(blocks, proposal.txs) /\ proposal' = None
  <2>1. Contents(blocks') = Contents(blocks) \cup ToSet(proposal.txs)
    BY <1>1, <1>5, AppendBlock
  <2>2. ToSet(proposal.txs) \subseteq ToSet(mempool)
    BY <1>1, <1>5, DropTx
  <2> QED BY <1>5, <2>1, <2>2, NodeHolds
<1>6. CASE /\ UNCHANGED <<proposal, blocks>>
           /\ Len(results) + 1 = Len(blocks)
           /\ Prefix(blocks[Len(blocks)], mempool)
           /\ mempool' = SubSeq(mempool, Len(blocks[Len(blocks)]) + 1, Len(mempool))
  <2>1. Len(blocks) \in 1 .. Len(blocks)
    <3>1. Len(results) \in Nat
      BY LenProperties DEF LoadType
    <3> QED BY <1>1, <1>6, <3>1
  <2>2. blocks[Len(blocks)] \in Seq(Txs)
    BY <1>1, <2>1, BlockSeqs
  <2>3. ToSet(mempool) = ToSet(mempool') \cup ToSet(blocks[Len(blocks)])
    BY <1>1, <1>6, <2>2, DropTx
  <2>4. ToSet(blocks[Len(blocks)]) \subseteq Contents(blocks)
    BY <1>1, <2>1, BlockSeqs DEF Contents
  <2> QED BY <1>6, <2>3, <2>4, NodeHolds
<1> QED BY <1>2, <1>3, <1>4, <1>5, <1>6, ChainMoves

LEMMA StepLanes ==
    ASSUME LoadType, Pipeline, Lanes, [ScriptsNext]_loadVars
    PROVE  Lanes'
  BY StepHolds, LanesKept, LanesGrow

LEMMA StepOnce ==
    ASSUME LoadType, Pipeline, Once, Lanes, [ScriptsNext]_loadVars
    PROVE  Once'
<1>1. /\ mempool \in Seq(Txs) /\ blocks \in Seq(Seq(Txs)) /\ Len(blocks) \in Nat
      /\ Len(mempool) \in Nat /\ DOMAIN mempool = 1 .. Len(mempool)
      /\ DOMAIN blocks = 1 .. Len(blocks) /\ Len(results) \in Nat
      /\ Len(results) <= Len(blocks) /\ Len(blocks) <= Len(results) + 1
  BY LenProperties DEF LoadType, Pipeline
<1>2. /\ \A i, j \in DOMAIN mempool : mempool[i] = mempool[j] => i = j
      /\ \A g, h \in DOMAIN blocks : \A i \in DOMAIN blocks[g], j \in DOMAIN blocks[h] :
            blocks[g][i] = blocks[h][j] => g = h /\ i = j
      /\ \A h \in DOMAIN blocks : \A i \in DOMAIN blocks[h], j \in DOMAIN mempool :
            blocks[h][i] = mempool[j] => h = Len(results) + 1 /\ i = j
  BY DEF Once
<1>3. CASE UNCHANGED <<mempool, blocks, results>>
  BY <1>2, <1>3 DEF Once
<1>4. CASE /\ UNCHANGED <<proposal, blocks, results>>
           /\ \E t \in Txs : t \notin InNode /\ mempool' = Append(mempool, t)
  <2>1. PICK t \in Txs : t \notin InNode /\ mempool' = Append(mempool, t)
    BY <1>4
  <2>2. /\ DOMAIN mempool' = 1 .. Len(mempool) + 1
        /\ \A i \in 1 .. Len(mempool) : mempool'[i] = mempool[i]
        /\ mempool'[Len(mempool) + 1] = t
    BY <1>1, <2>1, AppendTx, LenProperties
  <2>3. \A i \in 1 .. Len(mempool) : mempool[i] # t
    BY <1>1, <2>1, TxSeqs, NodeHolds
  <2>4. \A h \in DOMAIN blocks : \A i \in DOMAIN blocks[h] : blocks[h][i] # t
    BY <1>1, <2>1, BlockSeqs, NodeHolds
  <2>5. \A i \in DOMAIN mempool' : i \in DOMAIN mempool \/ i = Len(mempool) + 1
    BY <1>1, <2>2
  <2>6. \A i, j \in DOMAIN mempool' : mempool'[i] = mempool'[j] => i = j
    BY <1>1, <1>2, <2>2, <2>3, <2>5
  <2>7. \A h \in DOMAIN blocks : \A i \in DOMAIN blocks[h], j \in DOMAIN mempool' :
            blocks[h][i] = mempool'[j] => h = Len(results) + 1 /\ i = j
    BY <1>1, <1>2, <2>2, <2>4, <2>5
  <2> QED BY <1>2, <1>4, <2>6, <2>7 DEF Once
<1>5. CASE /\ UNCHANGED <<mempool, results>> /\ Len(results) = Len(blocks)
           /\ proposal.txs \in Seq(Txs) /\ Prefix(proposal.txs, mempool)
           /\ blocks' = Append(blocks, proposal.txs)
  <2> DEFINE b == proposal.txs
  <2>1. /\ DOMAIN blocks' = 1 .. Len(blocks) + 1
        /\ \A h \in 1 .. Len(blocks) : blocks'[h] = blocks[h]
        /\ blocks'[Len(blocks) + 1] = b
    BY <1>1, <1>5, AppendBlock, LenProperties
  <2>2. \A i \in DOMAIN b : i \in DOMAIN mempool /\ b[i] = mempool[i]
    <3>1. b \in Seq(Txs) /\ Len(b) <= Len(mempool) /\ \A i \in 1 .. Len(b) : b[i] = mempool[i]
      BY <1>5 DEF Prefix
    <3> HIDE DEF b
    <3>2. Len(b) \in Nat /\ DOMAIN b = 1 .. Len(b)
      BY <3>1, TxSeqs
    <3> QED BY <1>1, <3>1, <3>2
  <2>3. \A h \in DOMAIN blocks' : (h \in DOMAIN blocks /\ h # Len(results) + 1) \/ h = Len(blocks) + 1
    BY <1>1, <1>5, <2>1
  <2>4. \A h \in DOMAIN blocks : h # Len(blocks) + 1 /\ h # Len(results) + 1
    BY <1>1, <1>5
  <2> HIDE DEF b
  <2>5. ASSUME NEW g \in DOMAIN blocks', NEW h \in DOMAIN blocks',
               NEW i \in DOMAIN blocks'[g], NEW j \in DOMAIN blocks'[h],
               blocks'[g][i] = blocks'[h][j]
        PROVE  g = h /\ i = j
    <3>1. CASE g \in DOMAIN blocks /\ h \in DOMAIN blocks
      BY <1>1, <1>2, <2>1, <2>5, <3>1
    <3>2. CASE g \in DOMAIN blocks /\ h = Len(blocks) + 1
      <4>1. blocks[g][i] = mempool[j] /\ i \in DOMAIN blocks[g] /\ j \in DOMAIN mempool
        BY <1>1, <2>1, <2>2, <2>5, <3>2
      <4> QED BY <1>2, <2>4, <3>2, <4>1
    <3>3. CASE g = Len(blocks) + 1 /\ h \in DOMAIN blocks
      <4>1. blocks[h][j] = mempool[i] /\ j \in DOMAIN blocks[h] /\ i \in DOMAIN mempool
        BY <1>1, <2>1, <2>2, <2>5, <3>3
      <4> QED BY <1>2, <2>4, <3>3, <4>1
    <3>4. CASE g = Len(blocks) + 1 /\ h = Len(blocks) + 1
      BY <1>2, <2>1, <2>2, <2>5, <3>4
    <3> QED BY <2>3, <3>1, <3>2, <3>3, <3>4
  <2>6. ASSUME NEW h \in DOMAIN blocks', NEW i \in DOMAIN blocks'[h], NEW j \in DOMAIN mempool,
               blocks'[h][i] = mempool[j]
        PROVE  h = Len(results) + 1 /\ i = j
    <3>1. CASE h \in DOMAIN blocks
      BY <1>1, <1>2, <2>1, <2>4, <2>6, <3>1
    <3>2. CASE h = Len(blocks) + 1
      BY <1>2, <1>5, <2>1, <2>2, <2>6, <3>2
    <3> QED BY <2>3, <3>1, <3>2
  <2> QED BY <1>2, <1>5, <2>5, <2>6 DEF Once
<1>6. CASE /\ UNCHANGED blocks
           /\ Len(results) + 1 = Len(blocks)
           /\ Prefix(blocks[Len(blocks)], mempool)
           /\ mempool' = SubSeq(mempool, Len(blocks[Len(blocks)]) + 1, Len(mempool))
  <2> DEFINE n == Len(blocks[Len(blocks)])
  <2>1. /\ Len(blocks) \in 1 .. Len(blocks) /\ blocks[Len(blocks)] \in Seq(Txs) /\ n \in Nat
        /\ DOMAIN blocks[Len(blocks)] = 1 .. n
    <3>1. Len(blocks) \in 1 .. Len(blocks)
      BY <1>1, <1>6
    <3> QED BY <1>1, <3>1, BlockSeqs
  <2>2. /\ mempool' \in Seq(Txs) /\ Len(mempool') = Len(mempool) - n
        /\ \A i \in 1 .. Len(mempool) - n : mempool'[i] = mempool[n + i]
    BY <1>1, <1>6, <2>1, DropTx
  <2>3. DOMAIN mempool' = 1 .. Len(mempool) - n
    BY <2>2, LenProperties
  <2> HIDE DEF n
  <2>4. \A i \in DOMAIN mempool' : n + i \in DOMAIN mempool /\ mempool'[i] = mempool[n + i]
    BY <1>1, <2>1, <2>2, <2>3
  <2>5. \A i, j \in DOMAIN mempool' : n + i = n + j => i = j
    BY <2>1, <2>3
  <2>6. \A i, j \in DOMAIN mempool' : mempool'[i] = mempool'[j] => i = j
    BY <1>2, <2>4, <2>5
  <2>7. ASSUME NEW h \in DOMAIN blocks, NEW i \in DOMAIN blocks[h], NEW j \in DOMAIN mempool',
               blocks[h][i] = mempool'[j]
        PROVE  FALSE
    <3>1. n + j \in DOMAIN mempool /\ blocks[h][i] = mempool[n + j]
      BY <2>4, <2>7
    <3>2. h = Len(results) + 1 /\ i = n + j
      BY <1>2, <3>1
    <3>3. h = Len(blocks)
      BY <1>6, <3>2
    <3>4. i \in 1 .. n /\ j \in 1 .. Len(mempool) - n
      BY <2>1, <2>3, <3>3
    <3> QED BY <2>1, <3>2, <3>4
  <2>8. blocks' = blocks
    BY <1>6
  <2> QED BY <1>2, <2>6, <2>7, <2>8 DEF Once
<1> QED BY <1>3, <1>4, <1>5, <1>6, ChainMoves

--------------------------------------------------------------------------------
(***************************************************************************)
(* The requests.                                                           *)
(***************************************************************************)

\* A request whose answer is counted, or given up.
Answered(a) == Answer(a) \/ AsyncAnswer(a)
Lost(a) == GiveUp(a) \/ Reconnect(a)

\* A block made, saved or executed changes nothing of what the node has.
LEMMA BlocksHold ==
    ASSUME LoadType, Pipeline, Lanes, [ScriptsNext]_loadVars, Reap \/ Save \/ ExecuteBlock
    PROVE  InNode' = InNode
<1>1. CASE InNode' = InNode
  BY <1>1
<1>2. ASSUME NEW t \in Txs, t \notin InNode, InNode' = InNode \cup {t} PROVE FALSE
  <2>1. CASE Reap
    BY <1>2, <2>1, NodeHolds DEF Reap
  <2>2. CASE Save
    <3>1. /\ proposal.txs \in Seq(Txs) /\ Prefix(proposal.txs, mempool) /\ mempool \in Seq(Txs)
          /\ blocks' = Append(blocks, proposal.txs) /\ blocks \in Seq(Seq(Txs)) /\ mempool' = mempool
      BY <2>2 DEF Save, LoadType, Pipeline
    <3>2. /\ Contents(blocks') = Contents(blocks) \cup ToSet(proposal.txs)
          /\ ToSet(proposal.txs) \subseteq ToSet(mempool)
      BY <3>1, AppendBlock, DropTx
    <3> QED BY <1>2, <3>1, <3>2, NodeHolds
  <2>3. CASE ExecuteBlock
    <3>1. /\ Len(results) < Len(blocks) /\ blocks \in Seq(Seq(Txs)) /\ mempool \in Seq(Txs)
          /\ Len(blocks) \in Nat /\ Len(results) \in Nat
          /\ Prefix(blocks[Len(blocks)], mempool) /\ blocks' = blocks
          /\ mempool' = SubSeq(mempool, Len(blocks[Len(blocks)]) + 1, Len(mempool))
      BY <2>3, LenProperties DEF ExecuteBlock, LoadType, Pipeline, Last
    <3>2. Len(blocks) \in 1 .. Len(blocks)
      BY <3>1
    <3>3. ToSet(mempool') \subseteq ToSet(mempool)
      BY <3>1, <3>2, BlockSeqs, DropTx
    <3> QED BY <1>2, <3>1, <3>3, NodeHolds
  <2> QED BY <2>1, <2>2, <2>3
<1> QED BY <1>1, <1>2, StepHolds

\* What a step does to the requests.
LEMMA RequestMoves ==
    ASSUME LoadType, Pipeline, Lanes, [ScriptsNext]_loadVars
    PROVE  \/ \E a \in LoadAccounts : Arrive(a)
           \/ \E t \in stray : ArriveLate(t)
           \/ /\ InNode' = InNode /\ refused' = refused
              /\ \/ UNCHANGED <<burst, request, acknowledged, stray, abandoned>>
                 \/ \E a \in LoadAccounts : Answered(a) \/ Lost(a)
                 \/ BurstEnds
<1>1. CASE Reap \/ Save \/ ExecuteBlock
  <2>1. UNCHANGED <<burst, request, acknowledged, stray, refused, abandoned>>
    BY <1>1 DEF Reap, Save, ExecuteBlock, load, lost
  <2> QED BY <1>1, <2>1, BlocksHold
<1>2. CASE \E a \in LoadAccounts : Answered(a) \/ Lost(a)
  <2>1. UNCHANGED <<chain, refused>>
    BY <1>2 DEF Answered, Lost, Answer, AsyncAnswer, GiveUp, Reconnect, lost
  <2>2. InNode' = InNode
    BY <2>1, NodeHolds DEF chain
  <2> QED BY <1>2, <2>1, <2>2
<1>3. CASE BurstEnds
  <2>1. UNCHANGED <<chain, refused>>
    BY <1>3 DEF BurstEnds, lost
  <2>2. InNode' = InNode
    BY <2>1, NodeHolds DEF chain
  <2> QED BY <1>3, <2>1, <2>2
<1>4. CASE ReadHeight \/ CountTxs \/ ReadLatest \/ ScanBlock \/ Report \/ UNCHANGED loadVars
  <2>1. UNCHANGED <<chain, load, lost>>
    BY <1>4 DEF ReadHeight, CountTxs, ReadLatest, ScanBlock, Report, loadVars
  <2>2. InNode' = InNode
    BY <2>1, NodeHolds DEF chain
  <2> QED BY <2>1, <2>2 DEF load, lost
<1> QED BY <1>1, <1>2, <1>3, <1>4
        DEF ScriptsNext, LoadNext, SenderNext, Node, Script, Answered, Lost

\* A transaction arrives: it is taken, or there is a gap before it.
LEMMA Arrives ==
    ASSUME LoadType, Lanes, NEW t \in Txs, CheckTx(t), blocks' = blocks
    PROVE  \/ /\ t.burst = Sequence(t.account) + 1
              /\ InNode' = InNode \cup {t} /\ refused' = refused
           \/ /\ t.burst # Sequence(t.account) + 1
              /\ InNode' = InNode /\ refused' = refused \cup {t}
<1>1. mempool \in Seq(Txs)
  BY DEF LoadType
<1>2. ToSet(Append(mempool, t)) = ToSet(mempool) \cup {t}
  BY <1>1, AppendTx
<1> QED BY <1>2, Accepts, NodeHolds

\* What was sent stays sent, and only a request of now becomes sent.
LEMMA Sending ==
    ASSUME LoadType, Pipeline, Lanes, [ScriptsNext]_loadVars, NEW t \in Txs
    PROVE  /\ IsSent(t) => IsSent(t)'
           /\ IsSent(t)' =>
                 \/ IsSent(t)
                 \/ /\ t = Current(t.account) /\ request[t.account] = "sent"
                    /\ \/ Arrive(t.account)
                       \/ t \in stray'
           /\ abandoned \subseteq abandoned'
<1> DEFINE a == t.account
<1>1. /\ a \in LoadAccounts /\ t.burst \in Nat /\ burst[a] \in Nat /\ t = Tx(a, t.burst)
      /\ burst \in [LoadAccounts -> 1 .. SustainedBlocks] /\ request \in [LoadAccounts -> {"sent", "accepted", "refused", "done"}]
      /\ SustainedBlocks \in Nat
  BY LoadAssumption DEF LoadType, Txs, Tx
<1>2. CASE UNCHANGED <<burst, request, abandoned>>
  BY <1>2 DEF IsSent
<1>3. ASSUME NEW c \in LoadAccounts, Arrive(c)
      PROVE  /\ IsSent(t) => IsSent(t)'
             /\ IsSent(t)' =>
                   \/ IsSent(t)
                   \/ c = a /\ t = Current(a) /\ request[a] = "sent"
             /\ abandoned' = abandoned
  <2>1. /\ request[c] = "sent" /\ burst' = burst /\ abandoned' = abandoned
        /\ \E r \in {"accepted", "refused"} : request' = [request EXCEPT ![c] = r]
    BY <1>3 DEF Arrive
  <2>2. CASE c = a
    BY <1>1, <2>1, <2>2 DEF IsSent, Current
  <2>3. CASE c # a
    BY <1>1, <2>1, <2>3 DEF IsSent
  <2> QED BY <2>1, <2>2, <2>3
<1>4. ASSUME NEW c \in LoadAccounts, Answered(c) \/ Lost(c)
      PROVE  /\ IsSent(t) => IsSent(t)'
             /\ IsSent(t)' =>
                   \/ IsSent(t)
                   \/ t = Current(a) /\ request[a] = "sent" /\ t \in stray'
             /\ abandoned \subseteq abandoned'
  <2>1. /\ request[c] = "sent" => Current(c) \in stray'
        /\ abandoned \subseteq abandoned'
        /\ \/ burst' = burst /\ request' = [request EXCEPT ![c] = "done"]
           \/ /\ burst' = [burst EXCEPT ![c] = burst[c] + 1]
              /\ request' = [request EXCEPT ![c] = "sent"]
    BY <1>4 DEF Answered, Lost, Answer, AsyncAnswer, GiveUp, Reconnect, Dispatched, LeftBehind, lost
  <2>2. CASE c = a
    <3>1. /\ \/ burst'[a] = burst[a] /\ request'[a] = "done"
             \/ burst'[a] = burst[a] + 1 /\ request'[a] = "sent"
      BY <1>1, <2>1, <2>2
    <3>2. IsSent(t)' <=> t.burst <= burst[a]
      BY <1>1, <3>1 DEF IsSent
    <3>3. request[a] # "sent" => (IsSent(t) <=> t.burst <= burst[a])
      BY <1>1 DEF IsSent
    <3>4. IsSent(t) => t.burst <= burst[a]
      BY <1>1 DEF IsSent
    <3>5. t.burst <= burst[a] => IsSent(t) \/ t.burst = burst[a]
      BY <1>1 DEF IsSent
    <3>6. t.burst = burst[a] => t = Current(a)
      BY <1>1 DEF Current
    <3> QED BY <2>1, <2>2, <3>2, <3>3, <3>4, <3>5, <3>6
  <2>3. CASE c # a
    <3>1. burst'[a] = burst[a] /\ request'[a] = request[a]
      BY <1>1, <2>1, <2>3
    <3> QED BY <2>1, <3>1 DEF IsSent
  <2> QED BY <2>2, <2>3
<1>5. CASE BurstEnds
  <2>1. /\ request[a] = "done" /\ abandoned' = abandoned
        /\ \/ burst'[a] = burst[a] /\ request'[a] = "done"
           \/ burst'[a] = burst[a] + 1 /\ request'[a] = "sent"
    BY <1>1, <1>5 DEF BurstEnds, lost
  <2> QED BY <1>1, <2>1 DEF IsSent
<1>6. ASSUME NEW u \in stray, ArriveLate(u) PROVE UNCHANGED <<burst, request, abandoned>>
  BY <1>6 DEF ArriveLate, load
<1>7. CASE \E c \in LoadAccounts : Arrive(c)
  <2>1. PICK c \in LoadAccounts : Arrive(c)
    BY <1>7
  <2>2. /\ IsSent(t) => IsSent(t)'
        /\ IsSent(t)' => IsSent(t) \/ (c = a /\ t = Current(a) /\ request[a] = "sent")
        /\ abandoned \subseteq abandoned'
    BY <1>3, <2>1
  <2>3. CASE c = a
    BY <2>1, <2>2, <2>3
  <2> QED BY <2>2, <2>3
<1>8. CASE \E c \in LoadAccounts : Answered(c) \/ Lost(c)
  BY <1>4, <1>8, Zenon
<1>9. CASE \E u \in stray : ArriveLate(u)
  BY <1>2, <1>6, <1>9, Zenon
<1> QED BY <1>2, <1>5, <1>7, <1>8, <1>9, RequestMoves, Zenon

\* A transaction that reaches the node behind its lane is the next one, unless one
\* before it was cut off.
LEMMA NoGapNoRefusal ==
    ASSUME LoadType, Lanes, Placed, NEW t \in Txs, InOrder(t), t \notin InNode,
           \A b \in 1 .. t.burst - 1 : IsSent(Tx(t.account, b)),
           ~CutBefore(t)
    PROVE  t.burst = Sequence(t.account) + 1
<1> DEFINE a == t.account
           n == Sequence(a)
<1>1. /\ a \in LoadAccounts /\ t.burst \in 1 .. SustainedBlocks /\ t = Tx(a, t.burst)
      /\ SustainedBlocks \in Nat
  BY LoadAssumption DEF Txs, Tx
<1>2. n \in Nat /\ {u \in InNode : u.account = a} = Lane(a, n)
  BY <1>1 DEF Lanes
<1> HIDE DEF n
<1>3. ASSUME NEW b \in 1 .. t.burst - 1 PROVE b <= n
  <2>1. b \in 1 .. SustainedBlocks /\ b < t.burst /\ b \in Nat
    BY <1>1
  <2>2. Tx(a, b) \in Txs /\ Tx(a, b).account = a /\ Tx(a, b).burst = b
    BY <1>1, <2>1, TxType
  <2>3. ASSUME NEW u \in abandoned, u.account = a, u.burst < t.burst PROVE FALSE
    BY <2>3 DEF CutBefore
  <2>4. ~CutOff(Tx(a, b))
    <3> SUFFICES ASSUME NEW u \in abandoned, u.account = a, u.burst <= b PROVE FALSE
      BY <2>2 DEF CutOff
    <3>1. u.burst \in Nat
      BY DEF LoadType, Txs
    <3>2. u.burst < t.burst
      BY <1>1, <2>1, <3>1
    <3> QED BY <2>3, <3>2
  <2>5. Tx(a, b) \notin stray
    <3> SUFFICES ASSUME Tx(a, b) \in stray PROVE FALSE
      OBVIOUS
    <3>1. PICK v \in abandoned : v.account = a /\ v.burst \in b .. t.burst - 1
      BY <2>1, <2>2 DEF InOrder
    <3>2. v.burst < t.burst
      BY <1>1, <2>1, <3>1
    <3> QED BY <2>3, <3>1, <3>2
  <2>6. Tx(a, b) \in InNode
    BY <2>2, <2>4, <2>5 DEF Placed
  <2>7. Tx(a, b) \in Lane(a, n)
    BY <1>2, <2>2, <2>6
  <2> QED BY <1>1, <1>2, <2>2, <2>7, InLane
<1>4. n < t.burst
  <2>1. t \notin Lane(a, n)
    BY <1>2
  <2> QED BY <1>1, <1>2, <2>1, InLane
<1>5. n >= t.burst - 1
  <2>1. CASE t.burst = 1
    BY <1>1, <1>2, <2>1
  <2>2. CASE t.burst # 1
    BY <1>1, <1>2, <1>3, <2>2
  <2> QED BY <2>1, <2>2
<1> QED BY <1>1, <1>2, <1>4, <1>5 DEF n

\* What is turned down when it reaches the node had one before it cut off.
LEMMA RefusedBehindCut ==
    ASSUME LoadType, Lanes, Placed, NEW t \in Txs, InOrder(t), CheckTx(t), blocks' = blocks,
           \/ t = Current(t.account) /\ request[t.account] = "sent"
           \/ t \in stray
    PROVE  \/ InNode' = InNode \cup {t} /\ refused' = refused
           \/ InNode' = InNode /\ refused' = refused \cup {t} /\ CutBefore(t)
<1>1. /\ t.account \in LoadAccounts /\ t.burst \in 1 .. SustainedBlocks
      /\ burst[t.account] \in 1 .. SustainedBlocks /\ SustainedBlocks \in Nat
      /\ t = Current(t.account) => t.burst = burst[t.account]
  BY LoadAssumption, CurrentType DEF Txs
<1>2. t.burst <= burst[t.account]
  BY <1>1 DEF Placed, IsSent
<1>3. t \notin InNode
  <2>1. t \in InNode => IsSent(t) /\ t \notin stray
    BY DEF Placed
  <2> QED BY <1>1, <2>1 DEF IsSent
<1>4. ASSUME NEW b \in 1 .. t.burst - 1 PROVE IsSent(Tx(t.account, b))
  <2>1. b \in 1 .. SustainedBlocks /\ b < burst[t.account]
    BY <1>1, <1>2
  <2> QED BY <1>1, <2>1, TxType DEF IsSent
<1>5. ~CutBefore(t) => t.burst = Sequence(t.account) + 1
  BY <1>3, <1>4, NoGapNoRefusal
<1> QED BY <1>5, Arrives

LEMMA StaysCutOff ==
    ASSUME abandoned \subseteq abandoned', NEW t
    PROVE  (CutOff(t) => CutOff(t)') /\ (CutBefore(t) => CutBefore(t)')
  BY DEF CutOff, CutBefore

LEMMA BeforeIsCutOff ==
    ASSUME LoadType, NEW t \in Txs, CutBefore(t)
    PROVE  CutOff(t)
<1>1. t.burst \in Nat /\ \A u \in abandoned : u.burst \in Nat
  BY DEF LoadType, Txs
<1> QED BY <1>1 DEF CutOff, CutBefore

LEMMA StepPlaced ==
    ASSUME LoadType, Pipeline, Lanes, Placed, RefusedOnlyAfterLoss, [ScriptsNext]_loadVars
    PROVE  Placed' /\ RefusedOnlyAfterLoss'
<1>1. /\ stray \subseteq Txs /\ acknowledged \subseteq Txs
      /\ refused \subseteq Txs /\ abandoned \subseteq Txs
      /\ \A t \in Txs : IsSent(t) => t \in InNode \cup stray \/ CutOff(t)
      /\ \A t \in InNode \cup stray \cup acknowledged : IsSent(t)
      /\ stray \cap InNode = {}
      /\ \A a \in LoadAccounts : request[a] = "accepted" => Current(a) \in InNode
      /\ \A t \in refused : CutBefore(t)
  BY DEF LoadType, Placed, RefusedOnlyAfterLoss, CutBefore
<1>2. InNode \subseteq Txs
  BY InNodeType
<1>3. /\ abandoned \subseteq abandoned'
      /\ \A t \in Txs : /\ IsSent(t) => IsSent(t)'
                        /\ IsSent(t)' =>
                              \/ IsSent(t)
                              \/ /\ t = Current(t.account) /\ request[t.account] = "sent"
                                 /\ Arrive(t.account) \/ t \in stray'
                        /\ CutOff(t) => CutOff(t)'
                        /\ CutBefore(t) => CutBefore(t)' /\ CutOff(t)
  <2>1. \A u \in abandoned : u \in abandoned'
    BY <1>1, Sending
  <2> QED BY <2>1, Sending, StaysCutOff, BeforeIsCutOff
<1>4. InNode \subseteq InNode'
  BY StepHolds
<1>5. ASSUME NEW c \in LoadAccounts, NEW t, t = Current(c), Arrive(c)
      PROVE  /\ t \in Txs /\ UNCHANGED <<burst, stray, acknowledged>>
             /\ \/ InNode' = InNode \cup {t} /\ refused' = refused
                \/ InNode' = InNode /\ refused' = refused \cup {t} /\ CutBefore(t)
             /\ ~IsSent(t) /\ IsSent(t)'
             /\ \A a \in LoadAccounts :
                   request'[a] = "accepted" => request[a] = "accepted" \/ Current(a) \in InNode'
  <2>1. /\ t \in Txs /\ t.account = c /\ t.burst = burst[c] /\ request[c] = "sent"
        /\ InOrder(t) /\ CheckTx(t) /\ UNCHANGED <<burst, stray, acknowledged, blocks>>
        /\ request' = [request EXCEPT ![c] =
               IF SignedSequence(t) = Sequence(c) THEN "accepted" ELSE "refused"]
    BY <1>5, CurrentType DEF Arrive
  <2>2. request \in [LoadAccounts -> {"sent", "accepted", "refused", "done"}]
    BY DEF LoadType
  <2>3. request'[c] \in {"accepted", "refused"} /\ \A a \in LoadAccounts : a # c => request'[a] = request[a]
    BY <2>1, <2>2
  <2>4. IsSent(t)'
    BY <2>1, <2>3 DEF IsSent
  <2>5. /\ t.burst \in Nat /\ Sequence(c) \in Nat
        /\ SignedSequence(t) = Sequence(c) <=> t.burst = Sequence(c) + 1
    BY <2>1 DEF Lanes, Txs, SignedSequence
  <2>6. \/ InNode' = InNode \cup {t} /\ refused' = refused
        \/ InNode' = InNode /\ refused' = refused \cup {t} /\ CutBefore(t)
    BY <1>5, <2>1, RefusedBehindCut
  <2>7. \/ t.burst = Sequence(c) + 1 /\ InNode' = InNode \cup {t}
        \/ t.burst # Sequence(c) + 1
    BY <2>1, Arrives
  <2>8. request'[c] = "accepted" => t \in InNode'
    BY <2>1, <2>2, <2>5, <2>7
  <2>9. ~IsSent(t)
    BY <2>1, <2>5 DEF IsSent
  <2> QED BY <1>5, <2>1, <2>3, <2>4, <2>6, <2>8, <2>9
<1>6. ASSUME NEW t \in stray, ArriveLate(t)
      PROVE  /\ t \in Txs /\ stray' = stray \ {t} /\ UNCHANGED <<burst, request, acknowledged>>
             /\ \/ InNode' = InNode \cup {t} /\ refused' = refused
                \/ InNode' = InNode /\ refused' = refused \cup {t} /\ CutBefore(t)
  <2>1. /\ t \in Txs /\ InOrder(t) /\ CheckTx(t) /\ blocks' = blocks /\ stray' = stray \ {t}
        /\ UNCHANGED <<burst, request, acknowledged>>
    BY <1>1, <1>6 DEF ArriveLate, load
  <2> QED BY <2>1, RefusedBehindCut
<1>7. ASSUME NEW c \in LoadAccounts, NEW t, t = Current(c), Answered(c) \/ Lost(c)
      PROVE  /\ t \in Txs
             /\ stray' = stray \/ (stray' = stray \cup {t} /\ ~IsSent(t))
             /\ acknowledged' \subseteq acknowledged \cup {t} /\ IsSent(t)'
             /\ \A a \in LoadAccounts : request'[a] = "accepted" =>
                   request[a] = "accepted" /\ burst'[a] = burst[a]
  <2>1. /\ \/ stray' = stray
           \/ stray' = stray \cup {t} /\ request[c] = "sent"
        /\ acknowledged' \subseteq acknowledged \cup {t}
        /\ \/ burst' = burst /\ request' = [request EXCEPT ![c] = "done"]
           \/ /\ burst' = [burst EXCEPT ![c] = burst[c] + 1]
              /\ request' = [request EXCEPT ![c] = "sent"]
    BY <1>7 DEF Answered, Lost, Answer, AsyncAnswer, GiveUp, Reconnect, Dispatched, LeftBehind, lost
  <2>2. /\ request \in [LoadAccounts -> {"sent", "accepted", "refused", "done"}]
        /\ burst \in [LoadAccounts -> 1 .. SustainedBlocks] /\ SustainedBlocks \in Nat
        /\ t \in Txs /\ t.account = c /\ t.burst = burst[c] /\ burst[c] \in Nat
    BY <1>7, LoadAssumption, CurrentType DEF LoadType
  <2>3. /\ \A a \in LoadAccounts : a # c => request'[a] = request[a] /\ burst'[a] = burst[a]
        /\ \/ burst'[c] = burst[c] /\ request'[c] = "done"
           \/ burst'[c] = burst[c] + 1 /\ request'[c] = "sent"
    BY <2>1, <2>2
  <2>4. IsSent(t)' /\ (request[c] = "sent" => ~IsSent(t))
    BY <2>2, <2>3 DEF IsSent
  <2> QED BY <2>1, <2>2, <2>3, <2>4
<1>8. ASSUME BurstEnds
      PROVE  /\ UNCHANGED <<stray, acknowledged>>
             /\ \A a \in LoadAccounts : request'[a] # "accepted"
  BY <1>8 DEF BurstEnds, lost
<1>9. /\ \A t \in InNode \cup stray \cup acknowledged : IsSent(t)'
      /\ \A t \in refused : CutBefore(t)'
      /\ \A a \in LoadAccounts : burst'[a] = burst[a] => Current(a)' = Current(a)
      /\ \A a \in LoadAccounts : Current(a) \in Txs
  BY <1>1, <1>2, <1>3, CurrentType DEF Current
<1>10. CASE \E c \in LoadAccounts : Arrive(c)
  <2>1. PICK c \in LoadAccounts : Arrive(c)
    BY <1>10
  <2>0. PICK w \in Txs : w = Current(c)
    BY <1>9
  <2>2. /\ w \in Txs /\ UNCHANGED <<burst, stray, acknowledged>>
        /\ \/ InNode' = InNode \cup {w} /\ refused' = refused
           \/ InNode' = InNode /\ refused' = refused \cup {w} /\ CutBefore(w)
        /\ ~IsSent(w) /\ IsSent(w)'
        /\ \A a \in LoadAccounts :
              request'[a] = "accepted" => request[a] = "accepted" \/ Current(a) \in InNode'
    BY <1>5, <2>1, <2>0
  <2>3. w \in InNode' \/ CutOff(w)'
    BY <1>3, <2>2
  <2>4. \A t \in Txs : IsSent(t)' => IsSent(t) \/ t = w \/ t \in stray'
    <3>1. \A t \in Txs : Arrive(t.account) /\ t = Current(t.account) => t = w
      <4> SUFFICES ASSUME NEW t \in Txs, Arrive(t.account), t = Current(t.account), t # w PROVE FALSE
        OBVIOUS
      <4>1. /\ t.account \in LoadAccounts /\ ~IsSent(t) /\ IsSent(t)'
            /\ t.account # c /\ request[t.account] = "sent" /\ burst' = burst
            /\ request' = [request EXCEPT ![c] =
                 IF SignedSequence(w) = Sequence(c) THEN "accepted" ELSE "refused"]
        BY <1>5, <2>1, <2>0 DEF Arrive, Txs
      <4>2. request \in [LoadAccounts -> {"sent", "accepted", "refused", "done"}]
        BY DEF LoadType
      <4>3. request'[t.account] = "sent"
        BY <4>1, <4>2
      <4> QED BY <4>1, <4>3 DEF IsSent
    <3> QED BY <1>3, <3>1
  <2>5. \A t \in Txs : IsSent(t)' => t \in InNode' \cup stray' \/ CutOff(t)'
    BY <1>1, <1>3, <1>4, <2>2, <2>3, <2>4
  <2>6. \A t \in InNode' \cup stray' \cup acknowledged' : IsSent(t)'
    BY <1>9, <2>2
  <2>7. stray' \cap InNode' = {}
    BY <1>1, <2>2
  <2>8. \A a \in LoadAccounts : request'[a] = "accepted" => Current(a)' \in InNode'
    BY <1>1, <1>4, <1>9, <2>2
  <2>9. \A t \in refused' : CutBefore(t)'
    BY <1>3, <1>9, <2>2
  <2> QED BY <2>5, <2>6, <2>7, <2>8, <2>9 DEF Placed, RefusedOnlyAfterLoss, CutBefore
<1>11. ASSUME NEW t \in Txs, IsSent(t)', ~\E c \in LoadAccounts : Arrive(c)
       PROVE  IsSent(t) \/ t \in stray'
  BY <1>3, <1>11 DEF Txs
<1>12. CASE (\E t \in stray : ArriveLate(t)) /\ ~\E c \in LoadAccounts : Arrive(c)
  <2>1. PICK w \in stray : ArriveLate(w)
    BY <1>12
  <2>2. /\ w \in Txs /\ stray' = stray \ {w} /\ UNCHANGED <<burst, request, acknowledged>>
        /\ \/ InNode' = InNode \cup {w} /\ refused' = refused
           \/ InNode' = InNode /\ refused' = refused \cup {w} /\ CutBefore(w)
    BY <1>6, <2>1
  <2>3. w \in InNode' \/ CutOff(w)'
    BY <1>3, <2>2
  <2>4. \A t \in Txs : IsSent(t)' => t \in InNode' \cup stray' \/ CutOff(t)'
    BY <1>1, <1>3, <1>4, <1>11, <1>12, <2>2, <2>3
  <2>5. \A t \in InNode' \cup stray' \cup acknowledged' : IsSent(t)'
    BY <1>9, <2>2
  <2>6. stray' \cap InNode' = {}
    BY <1>1, <2>2
  <2>7. \A a \in LoadAccounts : request'[a] = "accepted" => Current(a)' \in InNode'
    BY <1>1, <1>4, <1>9, <2>2
  <2>8. \A t \in refused' : CutBefore(t)'
    BY <1>3, <1>9, <2>2
  <2> QED BY <2>4, <2>5, <2>6, <2>7, <2>8 DEF Placed, RefusedOnlyAfterLoss, CutBefore
<1>13. ASSUME InNode' = InNode, refused' = refused, ~\E c \in LoadAccounts : Arrive(c),
              NEW w \in Txs, stray' = stray \/ (stray' = stray \cup {w} /\ ~IsSent(w)),
              acknowledged' \subseteq acknowledged \cup {w}, IsSent(w)',
              \A a \in LoadAccounts : request'[a] = "accepted" =>
                  request[a] = "accepted" /\ burst'[a] = burst[a]
       PROVE  Placed' /\ RefusedOnlyAfterLoss'
  <2>1. \A t \in Txs : IsSent(t)' => t \in InNode' \cup stray' \/ CutOff(t)'
    BY <1>1, <1>3, <1>11, <1>13
  <2>2. \A t \in InNode' \cup stray' \cup acknowledged' : IsSent(t)'
    BY <1>9, <1>13
  <2>3. stray' \cap InNode' = {}
    BY <1>1, <1>13
  <2>4. \A a \in LoadAccounts : request'[a] = "accepted" => Current(a)' \in InNode'
    BY <1>1, <1>9, <1>13
  <2>5. \A t \in refused' : CutBefore(t)'
    BY <1>9, <1>13
  <2> QED BY <2>1, <2>2, <2>3, <2>4, <2>5 DEF Placed, RefusedOnlyAfterLoss, CutBefore
<1>14. CASE /\ InNode' = InNode /\ refused' = refused /\ ~\E c \in LoadAccounts : Arrive(c)
            /\ \E c \in LoadAccounts : Answered(c) \/ Lost(c)
  <2>1. PICK c \in LoadAccounts : Answered(c) \/ Lost(c)
    BY <1>14
  <2>0. PICK w \in Txs : w = Current(c)
    BY <1>9
  <2>2. /\ w \in Txs /\ (stray' = stray \/ (stray' = stray \cup {w} /\ ~IsSent(w)))
        /\ acknowledged' \subseteq acknowledged \cup {w} /\ IsSent(w)'
        /\ \A a \in LoadAccounts : request'[a] = "accepted" =>
               request[a] = "accepted" /\ burst'[a] = burst[a]
    BY <1>7, <2>1, <2>0
  <2> QED BY <1>13, <1>14, <2>2
<1>15. CASE /\ InNode' = InNode /\ refused' = refused /\ ~\E c \in LoadAccounts : Arrive(c)
            /\ BurstEnds \/ UNCHANGED <<burst, request, acknowledged, stray, abandoned>>
  <2>1. /\ UNCHANGED <<stray, acknowledged>>
        /\ \A a \in LoadAccounts : request'[a] = "accepted" =>
               request[a] = "accepted" /\ burst'[a] = burst[a]
    BY <1>8, <1>15
  <2>2. \A t \in Txs : IsSent(t)' => t \in InNode' \cup stray' \/ CutOff(t)'
    BY <1>1, <1>3, <1>11, <1>15, <2>1
  <2>3. \A a \in LoadAccounts : request'[a] = "accepted" => Current(a)' \in InNode'
    BY <1>1, <1>9, <1>15, <2>1
  <2> QED BY <1>1, <1>9, <1>15, <2>1, <2>2, <2>3 DEF Placed, RefusedOnlyAfterLoss, CutBefore
<1> QED BY <1>10, <1>12, <1>14, <1>15, RequestMoves

LEMMA StepAcknowledged ==
    ASSUME LoadType, Pipeline, Lanes, Placed, Acknowledged, [ScriptsNext]_loadVars
    PROVE  Acknowledged'
<1> DEFINE Accepted == {Current(a) : a \in {a \in LoadAccounts : request[a] = "accepted"}}
<1>1. /\ Over => \A a \in LoadAccounts : request[a] = "done"
      /\ step # "lanes" => /\ stray \subseteq abandoned
                           /\ acknowledged \subseteq InNode
                           /\ InNode \subseteq acknowledged \cup abandoned \cup Accepted
      /\ \A a \in LoadAccounts : request[a] = "accepted" => Current(a) \in InNode
      /\ stray \subseteq Txs
      /\ request \in [LoadAccounts -> {"sent", "accepted", "refused", "done"}]
      /\ step \in {"broadcast", "lanes", "height", "count", "latest", "scan", "report"}
  BY DEF Acknowledged, Placed, LoadType
<1>2. InNode \subseteq InNode'
  BY StepHolds
<1> SUFFICES /\ Over' => \A a \in LoadAccounts : request'[a] = "done"
             /\ step' # "lanes" =>
                   /\ stray' \subseteq abandoned'
                   /\ acknowledged' \subseteq InNode'
                   /\ InNode' \subseteq acknowledged' \cup abandoned' \cup Accepted'
  BY DEF Acknowledged
<1>3. CASE \E c \in LoadAccounts : Arrive(c)
  <2>1. PICK c \in LoadAccounts : Arrive(c)
    BY <1>3
  <2>2. /\ request[c] = "sent" /\ CheckTx(Current(c))
        /\ UNCHANGED <<step, burst, acknowledged, stray, abandoned, blocks>>
        /\ request' = [request EXCEPT ![c] =
               IF SignedSequence(Current(c)) = Sequence(c) THEN "accepted" ELSE "refused"]
    BY <2>1 DEF Arrive
  <2>3. Over' = Over /\ ~Over
    BY <1>1, <2>2 DEF Over
  <2>4. Current(c) \in Txs /\ Current(c).account = c /\ Sequence(c) \in Nat /\ Current(c).burst \in Nat
    BY CurrentType DEF Lanes, Txs
  <2>5. \/ InNode' = InNode
        \/ InNode' = InNode \cup {Current(c)} /\ request'[c] = "accepted"
    BY <1>1, <2>2, <2>4, Arrives DEF SignedSequence
  <2>6. \A a \in LoadAccounts : /\ request[a] = "accepted" => request'[a] = "accepted"
                                /\ Current(a)' = Current(a)
    BY <1>1, <2>2 DEF Current
  <2>7. Accepted \subseteq Accepted' /\ (request'[c] = "accepted" => Current(c) \in Accepted')
    BY <2>6
  <2> QED BY <1>1, <1>2, <2>2, <2>3, <2>5, <2>7
<1>4. CASE \E t \in stray : ArriveLate(t)
  <2>1. PICK t \in stray : ArriveLate(t)
    BY <1>4
  <2>2. /\ CheckTx(t) /\ t \in Txs /\ t \in stray /\ stray' \subseteq stray
        /\ UNCHANGED <<step, burst, request, acknowledged, abandoned, blocks>>
    BY <1>1, <2>1 DEF ArriveLate, load
  <2>3. InNode' \subseteq InNode \cup {t}
    BY <2>2, Arrives
  <2>4. Accepted' = Accepted /\ Over' = Over
    BY <2>2 DEF Current, Over
  <2> QED BY <1>1, <1>2, <2>2, <2>3, <2>4
<1>5. CASE /\ InNode' = InNode
           /\ \E c \in LoadAccounts : Answered(c) \/ Lost(c)
  <2>1. PICK c \in LoadAccounts : Answered(c) \/ Lost(c)
    BY <1>5
  <2>2. /\ step' = step /\ abandoned \subseteq abandoned'
        /\ request[c] # "done"
        /\ step # "lanes" =>
              /\ burst' = burst /\ request' = [request EXCEPT ![c] = "done"]
              /\ acknowledged' \in {acknowledged, acknowledged \cup {Current(c)}}
              /\ acknowledged' # acknowledged => request[c] = "accepted"
              /\ request[c] = "accepted" => Current(c) \in acknowledged' \cup abandoned'
              /\ stray' \subseteq stray \cup abandoned'
    BY <2>1 DEF Answered, Lost, Answer, AsyncAnswer, GiveUp, Reconnect, LeftBehind, lost
  <2>3. ~Over /\ ~Over'
    BY <1>1, <2>2 DEF Over
  <2>4. step # "lanes" => acknowledged' \subseteq InNode'
    BY <1>1, <1>5, <2>2
  <2>5. ASSUME step # "lanes", NEW t \in Accepted PROVE t \in Accepted' \cup acknowledged' \cup abandoned'
    <3>1. PICK a \in LoadAccounts : request[a] = "accepted" /\ t = Current(a)
      OBVIOUS
    <3>2. CASE a = c
      BY <2>2, <2>5, <3>1, <3>2
    <3>3. CASE a # c
      <4>1. request'[a] = "accepted" /\ Current(a)' = Current(a)
        BY <1>1, <2>2, <2>5, <3>1, <3>3 DEF Current
      <4> QED BY <3>1, <4>1
    <3> QED BY <3>2, <3>3
  <2>6. step # "lanes" => acknowledged \subseteq acknowledged'
    BY <2>2
  <2> HIDE DEF Accepted
  <2> QED BY <1>1, <1>5, <2>2, <2>3, <2>4, <2>5, <2>6
<1>6. CASE InNode' = InNode /\ BurstEnds
  <2>1. /\ step = "broadcast" /\ UNCHANGED <<acknowledged, stray, abandoned>>
        /\ \A a \in LoadAccounts : request[a] = "done"
        /\ \/ step' = "height" /\ request' = request
           \/ step' = step
    BY <1>6 DEF BurstEnds, lost
  <2>2. Accepted = {}
    BY <2>1
  <2> QED BY <1>1, <1>6, <2>1, <2>2 DEF Over
<1>7. CASE Reap \/ Save \/ ExecuteBlock \/ UNCHANGED loadVars
  <2>1. UNCHANGED <<step, burst, request, acknowledged, stray, abandoned>>
    BY <1>7 DEF Reap, Save, ExecuteBlock, loadVars, load, lost
  <2>2. Accepted' = Accepted /\ Over' = Over
    BY <2>1 DEF Current, Over
  <2>3. InNode' = InNode
    <3>1. CASE UNCHANGED loadVars
      BY <3>1, NodeHolds DEF loadVars, chain
    <3> QED BY <1>7, <3>1, BlocksHold
  <2> QED BY <1>1, <2>1, <2>2, <2>3
<1>8. CASE ReadHeight \/ CountTxs \/ ReadLatest \/ ScanBlock \/ Report
  <2>1. /\ UNCHANGED <<burst, request, acknowledged, stray, abandoned>> /\ UNCHANGED chain
        /\ step \notin {"broadcast", "lanes"}
    BY <1>8 DEF ReadHeight, CountTxs, ReadLatest, ScanBlock, Report, load, lost
  <2>2. Accepted' = Accepted /\ Over /\ InNode' = InNode
    BY <2>1, NodeHolds DEF Current, Over, chain
  <2> QED BY <1>1, <2>1, <2>2
<1> QED BY <1>3, <1>4, <1>5, <1>6, <1>7, <1>8, RequestMoves
        DEF ScriptsNext, LoadNext, SenderNext, Node, Script, Answered, Lost

--------------------------------------------------------------------------------
(***************************************************************************)
(* The settlement loop.                                                    *)
(***************************************************************************)

LEMMA UpToGrows ==
    ASSUME LoadType
    PROVE  /\ \A n \in Nat : n <= Len(blocks) => UpTo(n) \subseteq Included
           /\ UpTo(Len(blocks)) = Included
           /\ \A m, n \in Nat : m <= n => UpTo(m) \subseteq UpTo(n)
<1>1. Len(blocks) \in Nat /\ DOMAIN blocks = 1 .. Len(blocks)
  BY BlockSeqs DEF LoadType
<1>2. UpTo(Len(blocks)) = Included
  BY <1>1 DEF UpTo, Included
<1>3. \A m, n \in Nat : m <= n => 1 .. m \subseteq 1 .. n
  OBVIOUS
<1>4. \A m, n \in Nat : m <= n => UpTo(m) \subseteq UpTo(n)
  BY <1>3 DEF UpTo
<1> QED BY <1>1, <1>2, <1>4

\* What the blocks already hold does not change.
LEMMA UpToStays ==
    ASSUME LoadType, NEW b \in Seq(Txs), blocks' = Append(blocks, b)
    PROVE  /\ \A n \in Nat : n <= Len(blocks) => UpTo(n)' = UpTo(n)
           /\ \A n : n = Len(blocks) + 1 => Included \subseteq UpTo(n)'
<1>1. /\ Len(blocks) \in Nat /\ DOMAIN blocks = 1 .. Len(blocks)
      /\ \A h \in 1 .. Len(blocks) : blocks'[h] = blocks[h]
  BY BlockSeqs, AppendBlock DEF LoadType
<1>2. \A n \in Nat : n <= Len(blocks) => \A h \in 1 .. n : blocks'[h] = blocks[h]
  BY <1>1
<1>3. \A n \in Nat : n <= Len(blocks) => UpTo(n)' = UpTo(n)
  BY <1>2 DEF UpTo
<1>4. 1 .. Len(blocks) \subseteq 1 .. Len(blocks) + 1
  BY <1>1
<1>5. \A n : n = Len(blocks) + 1 => Included \subseteq UpTo(n)'
  BY <1>1, <1>4 DEF UpTo, Included
<1> QED BY <1>3, <1>5

LEMMA StepSettlement ==
    ASSUME LoadType, Pipeline, Lanes, Placed, Acknowledged, Settlement, [ScriptsNext]_loadVars
    PROVE  Settlement'
<1>1. /\ blocks \in Seq(Seq(Txs)) /\ Len(blocks) \in Nat /\ DOMAIN blocks = 1 .. Len(blocks)
      /\ step \in {"broadcast", "lanes", "height", "count", "latest", "scan", "report"}
      /\ curH \in Nat /\ settled \in BOOLEAN
  BY BlockSeqs DEF LoadType
<1>2. /\ Over => \A a \in LoadAccounts : request[a] = "done"
      /\ Over => acknowledged \subseteq InNode
  BY DEF Acknowledged, Over
<1>3. /\ Watched # {} => Over
      /\ \A p \in Watched : p \in DOMAIN blocks
      /\ step = "count" => \A p \in probed : p <= curH
      /\ \A p \in Watched, h \in DOMAIN blocks :
            p + 2 <= h /\ blocks[h] = NoBlock => acknowledged \subseteq UpTo(h)
      /\ \A p \in Watched :
            proposal.reaped /\ p < Len(blocks) /\ proposal.txs = NoBlock
               => acknowledged \subseteq Included
      /\ settled => /\ step \in {"latest", "scan", "report"}
                    /\ curH \in DOMAIN blocks /\ blocks[curH] = NoBlock
                    /\ \A p \in probed : p <= curH
  BY DEF Settlement
<1>4. CASE UNCHANGED <<step, settle, probed, acknowledged, blocks, proposal>>
  <2>1. /\ Watched' = Watched /\ Over' = Over /\ Included' = Included
        /\ \A h : UpTo(h)' = UpTo(h)
    BY <1>4 DEF Watched, Over, Included, UpTo, settle
  <2> QED BY <1>3, <1>4, <2>1 DEF Settlement, settle
<1>5. CASE \E a \in LoadAccounts : Answered(a) \/ Lost(a)
  <2>1. PICK a \in LoadAccounts : Answered(a) \/ Lost(a)
    BY <1>5
  <2>2. request[a] # "done" /\ UNCHANGED <<step, curH, settled, probed>>
    BY <2>1 DEF Answered, Lost, Answer, AsyncAnswer, GiveUp, Reconnect, settle, ghost
  <2>3. ~Over /\ Watched = {} /\ Watched' = {} /\ step' \in {"broadcast", "lanes"}
    BY <1>1, <1>2, <1>3, <2>2 DEF Watched, Over
  <2>4. ~settled'
    BY <1>3, <2>2, <2>3 DEF Over
  <2> QED BY <2>3, <2>4 DEF Settlement
<1>6. CASE BurstEnds
  <2>1. /\ step = "broadcast" /\ step' \in {"broadcast", "height"}
        /\ UNCHANGED <<curH, settled, probed>>
    BY <1>6 DEF BurstEnds, settle, ghost
  <2>2. Watched = {} /\ Watched' = {} /\ ~settled'
    BY <1>3, <2>1 DEF Watched, Over
  <2> QED BY <2>1, <2>2 DEF Settlement
<1>7. CASE ReadHeight
  <2>1. /\ step = "height" /\ UNCHANGED <<settled, probed, acknowledged, blocks, proposal>>
        /\ \/ step' = "count" /\ curH' = Len(blocks) /\ curH' # 0
           \/ step' \in {"height", "latest"}
    BY <1>1, <1>7 DEF ReadHeight, NextRound, load, chain
  <2>2. /\ \A p \in Watched' : p \in Watched \/ (p = Len(blocks) /\ p # 0)
        /\ Over /\ Over' /\ Watched = probed /\ ~settled' /\ Included' = Included
        /\ \A h : UpTo(h)' = UpTo(h)
    BY <1>3, <2>1 DEF Watched, Over, Included, UpTo
  <2>3. \A p \in Watched' : p \in DOMAIN blocks
    BY <1>1, <1>3, <2>2
  <2>4. step' = "count" => \A p \in probed' : p <= curH'
    BY <1>1, <1>3, <2>1, <2>2
  <2>5. \A p \in Watched', h \in DOMAIN blocks :
            p + 2 <= h /\ blocks[h] = NoBlock => acknowledged \subseteq UpTo(h)
    BY <1>1, <1>3, <2>2
  <2>6. \A p \in Watched' :
            proposal.reaped /\ p < Len(blocks) /\ proposal.txs = NoBlock
               => acknowledged \subseteq Included
    BY <1>1, <1>3, <2>2
  <2> QED BY <2>1, <2>2, <2>3, <2>4, <2>5, <2>6 DEF Settlement
<1>8. CASE CountTxs
  <2>1. /\ step = "count" /\ step' \in {"height", "latest"} /\ UNCHANGED <<curH, acknowledged, blocks, proposal>>
        /\ probed' = probed \cup {curH}
        /\ settled' => blocks[curH] = NoBlock /\ step' = "latest"
    <3>1. /\ step = "count" /\ UNCHANGED <<curH, load, chain>> /\ probed' = probed \cup {curH}
          /\ blocks[curH] = NoBlock \/ stable' = 0
          /\ step' \in {"height", "latest"}
      BY <1>8 DEF CountTxs, NextRound
    <3>2. settled' = (stable' >= 2)
      BY <1>8 DEF CountTxs
    <3>3. settled' => step' = "latest"
      BY <1>8, Zenon DEF CountTxs
    <3>4. stable' = 0 => ~(stable' >= 2)
      OBVIOUS
    <3>5. stable' = 0 => ~settled'
      BY <3>2, <3>4, Zenon
    <3> QED BY <3>1, <3>3, <3>5 DEF load, chain
  <2>2. /\ Watched' = Watched /\ Watched = probed \cup {curH} /\ Over /\ Over' /\ Included' = Included
        /\ \A h : UpTo(h)' = UpTo(h)
    BY <2>1 DEF Watched, Over, Included, UpTo
  <2>3. \A p \in probed' : p <= curH
    BY <1>1, <1>3, <2>1
  <2>4. curH \in DOMAIN blocks
    BY <1>3, <2>2
  <2> QED BY <1>3, <2>1, <2>2, <2>3, <2>4 DEF Settlement
<1>9. CASE ReadLatest \/ ScanBlock \/ Report
  <2>1. /\ step \in {"latest", "scan"} /\ step' \in {"scan", "report"}
        /\ UNCHANGED <<curH, settled, probed, acknowledged, blocks, proposal>>
    BY <1>9 DEF ReadLatest, ScanBlock, Report, settle, load, chain, ghost
  <2>2. /\ Watched' = Watched /\ Over /\ Over' /\ Included' = Included
        /\ \A h : UpTo(h)' = UpTo(h)
    BY <2>1 DEF Watched, Over, Included, UpTo
  <2> QED BY <1>3, <2>1, <2>2 DEF Settlement
<1>10. CASE Reap
  <2>1. /\ UNCHANGED <<step, curH, settled, probed, acknowledged, blocks, mempool>>
        /\ proposal'.txs = NoBlock => mempool = <<>>
    BY <1>10, ReapedHead DEF Reap, settle, load, ghost
  <2>2. /\ Watched' = Watched /\ Over' = Over /\ Included' = Included
        /\ \A h : UpTo(h)' = UpTo(h)
    BY <2>1 DEF Watched, Over, Included, UpTo
  <2>3. mempool = <<>> => InNode = Included
    BY DEF InNode, ToSet
  <2>4. \A p \in Watched : proposal'.txs = NoBlock => acknowledged \subseteq Included
    BY <1>2, <1>3, <2>1, <2>3
  <2> QED BY <1>3, <2>1, <2>2, <2>4 DEF Settlement
<1>11. CASE Save
  <2>1. /\ UNCHANGED <<step, curH, settled, probed, acknowledged>>
        /\ proposal.reaped /\ proposal.txs \in Seq(Txs)
        /\ blocks' = Append(blocks, proposal.txs) /\ ~proposal'.reaped
    BY <1>11 DEF Save, settle, load, ghost, LoadType, None
  <2>2. /\ Watched' = Watched /\ Over' = Over
        /\ \A n \in Nat : n <= Len(blocks) => UpTo(n)' = UpTo(n)
        /\ \A n : n = Len(blocks) + 1 => Included \subseteq UpTo(n)'
    BY <2>1, UpToStays DEF Watched, Over
  <2>3. /\ DOMAIN blocks' = 1 .. Len(blocks) + 1
        /\ \A h \in 1 .. Len(blocks) : blocks'[h] = blocks[h]
        /\ blocks'[Len(blocks) + 1] = proposal.txs
    BY <1>1, <2>1, AppendBlock, BlockSeqs
  <2>4. ASSUME NEW p \in Watched, NEW h \in DOMAIN blocks', p + 2 <= h, blocks'[h] = NoBlock
        PROVE  acknowledged \subseteq UpTo(h)'
    <3>1. p \in 1 .. Len(blocks) /\ h \in 1 .. Len(blocks) + 1
      BY <1>1, <1>3, <2>3
    <3>2. CASE h <= Len(blocks)
      <4>1. h \in Nat /\ h \in 1 .. Len(blocks) /\ blocks[h] = NoBlock /\ UpTo(h)' = UpTo(h)
        BY <1>1, <2>2, <2>3, <2>4, <3>1, <3>2
      <4> QED BY <1>1, <1>3, <2>4, <4>1
    <3>3. CASE h = Len(blocks) + 1
      <4>1. p < Len(blocks) /\ proposal.txs = NoBlock
        BY <1>1, <2>3, <2>4, <3>1, <3>3
      <4> QED BY <1>3, <2>1, <2>2, <3>3, <4>1
    <3> QED BY <1>1, <3>1, <3>2, <3>3
  <2>5. \A p \in Watched : p \in DOMAIN blocks'
    BY <1>1, <1>3, <2>3
  <2>6. settled => curH \in DOMAIN blocks' /\ blocks'[curH] = NoBlock
    BY <1>1, <1>3, <2>3
  <2> QED BY <1>3, <2>1, <2>2, <2>4, <2>5, <2>6 DEF Settlement
<1>12. ASSUME NEW a \in LoadAccounts, Arrive(a)
       PROVE  UNCHANGED <<step, settle, probed, acknowledged, blocks, proposal>>
  BY <1>12 DEF Arrive, ghost
<1>13. ASSUME NEW t \in stray, ArriveLate(t)
       PROVE  UNCHANGED <<step, settle, probed, acknowledged, blocks, proposal>>
  BY <1>13 DEF ArriveLate, load, ghost
<1>14. ASSUME ExecuteBlock \/ UNCHANGED loadVars
       PROVE  UNCHANGED <<step, settle, probed, acknowledged, blocks, proposal>>
  BY <1>14 DEF ExecuteBlock, loadVars, load, chain, ghost
<1> QED BY <1>4, <1>5, <1>6, <1>7, <1>8, <1>9, <1>10, <1>11, <1>12, <1>13, <1>14
        DEF ScriptsNext, LoadNext, SenderNext, Node, Script, Answered, Lost

\* Three heights span more than two blocks.
LEMMA ThreeHeights ==
    ASSUME NEW H \in Nat, NEW P, \A p \in P : p \in Nat /\ p <= H, Cardinality(P) >= 3
    PROVE  \E p \in P : p + 2 <= H
<1> SUFFICES ASSUME \A p \in P : ~(p + 2 <= H) PROVE FALSE
  OBVIOUS
<1>1. P \subseteq {H - 1, H}
  OBVIOUS
<1>2. IsFiniteSet({H - 1}) /\ Cardinality({H - 1}) = 1
  BY FS_Singleton
<1>3. {H - 1, H} = {H - 1} \cup {H}
  OBVIOUS
<1>4. IsFiniteSet({H - 1, H}) /\ Cardinality({H - 1, H}) <= 2
  BY <1>2, <1>3, FS_AddElement
<1>5. Cardinality(P) <= 2 /\ Cardinality(P) \in Nat
  <2>1. IsFiniteSet(P) /\ Cardinality(P) <= Cardinality({H - 1, H})
    BY <1>1, <1>4, FS_Subset
  <2> QED BY <1>4, <2>1, FS_CardinalityType
<1> QED BY <1>5

LEMMA SettledIncludes ==
    ASSUME LoadType, Settlement
    PROVE  SettledMeansIncluded
<1> SUFFICES ASSUME settled, LookedLongEnough
             PROVE  acknowledged \subseteq UpTo(curH)
  BY DEF SettledMeansIncluded, UpTo
<1>1. /\ \A p \in probed : p \in Watched /\ p \in DOMAIN blocks /\ p <= curH
      /\ curH \in DOMAIN blocks /\ blocks[curH] = NoBlock
      /\ \A p \in Watched, h \in DOMAIN blocks :
            p + 2 <= h /\ blocks[h] = NoBlock => acknowledged \subseteq UpTo(h)
  BY DEF Settlement, Watched
<1>2. \A p \in probed : p \in Nat
  BY <1>1, BlockSeqs DEF LoadType
<1>3. \E p \in probed : p + 2 <= curH
  BY <1>1, <1>2, ThreeHeights DEF LookedLongEnough, LoadType
<1> QED BY <1>1, <1>3

--------------------------------------------------------------------------------
(***************************************************************************)
(* The scan.                                                               *)
(***************************************************************************)

LEMMA TxsFinite == IsFiniteSet(Txs)
<1> DEFINE P == LoadAccounts \X (1 .. SustainedBlocks)
           f == [p \in P |-> Tx(p[1], p[2])]
<1>1. IsFiniteSet(LoadAccounts) /\ SustainedBlocks \in Nat
  BY LoadAssumption
<1>2. IsFiniteSet(1 .. SustainedBlocks)
  BY <1>1, FS_Interval
<1>3. IsFiniteSet(P)
  BY <1>1, <1>2, FS_Product
<1>4. f \in Surjection(P, Txs)
  <2>1. \A p \in P : f[p] \in Txs
    BY DEF Tx, Txs
  <2>2. ASSUME NEW t \in Txs PROVE \E p \in P : f[p] = t
    <3>1. <<t.account, t.burst>> \in P /\ Tx(t.account, t.burst) = t
      BY DEF Tx, Txs
    <3> QED BY <3>1
  <2> QED BY <2>1, <2>2 DEF Surjection
<1> HIDE DEF P, f
<1> QED BY <1>3, <1>4, FS_Surjection

LEMMA UpToFinite ==
    ASSUME LoadType, NEW n \in Nat, n <= Len(blocks)
    PROVE  IsFiniteSet(UpTo(n)) /\ Cardinality(UpTo(n)) \in Nat
<1>1. UpTo(n) \subseteq Txs
  BY UpToGrows, InNodeType, NodeHolds
<1> QED BY <1>1, TxsFinite, FS_Subset, FS_CardinalityType

\* No transaction counts twice.
LEMMA UpToNext ==
    ASSUME LoadType, Once, NEW n \in Nat, n < Len(blocks)
    PROVE  Cardinality(UpTo(n + 1)) = Cardinality(UpTo(n)) + Len(blocks[n + 1])
<1>1. /\ blocks \in Seq(Seq(Txs)) /\ Len(blocks) \in Nat /\ DOMAIN blocks = 1 .. Len(blocks)
      /\ n + 1 \in 1 .. Len(blocks)
  BY BlockSeqs DEF LoadType
<1> DEFINE b == blocks[n + 1]
           f == [i \in 1 .. Len(b) |-> b[i]]
<1>2. b \in Seq(Txs) /\ Len(b) \in Nat /\ DOMAIN b = 1 .. Len(b)
  BY <1>1, BlockSeqs
<1>3. \A h \in 1 .. n : h \in DOMAIN blocks /\ h # n + 1
  BY <1>1
<1>4. /\ \A i, j \in DOMAIN b : b[i] = b[j] => i = j
      /\ \A h \in 1 .. n : \A i \in DOMAIN blocks[h], j \in DOMAIN b : blocks[h][i] # b[j]
  <2>1. n + 1 \in DOMAIN blocks
    BY <1>1
  <2>2. \A g, h \in DOMAIN blocks : \A i \in DOMAIN blocks[g], j \in DOMAIN blocks[h] :
            blocks[g][i] = blocks[h][j] => g = h /\ i = j
    BY DEF Once
  <2>3. \A h \in 1 .. n : \A i \in DOMAIN blocks[h], j \in DOMAIN blocks[n + 1] :
            blocks[h][i] # blocks[n + 1][j]
    BY <1>3, <2>1, <2>2
  <2> QED BY <2>1, <2>2, <2>3
<1>5. UpTo(n + 1) = UpTo(n) \cup ToSet(b)
  <2>1. 1 .. n + 1 = (1 .. n) \cup {n + 1}
    OBVIOUS
  <2> QED BY <2>1 DEF UpTo
<1>6. UpTo(n) \cap ToSet(b) = {}
  BY <1>4 DEF UpTo, ToSet
<1> HIDE DEF b
<1>7. IsFiniteSet(ToSet(b)) /\ Cardinality(ToSet(b)) = Len(b)
  <2>1. f \in Bijection(1 .. Len(b), ToSet(b))
    <3>1. f \in [1 .. Len(b) -> ToSet(b)]
      BY <1>2 DEF ToSet
    <3>2. \A i, j \in 1 .. Len(b) : f[i] = f[j] => i = j
      BY <1>2, <1>4
    <3>3. \A t \in ToSet(b) : \E i \in 1 .. Len(b) : f[i] = t
      BY <1>2 DEF ToSet
    <3> HIDE DEF f
    <3>4. f \in Injection(1 .. Len(b), ToSet(b))
      BY <3>1, <3>2 DEF Injection, IsInjective
    <3>5. f \in Surjection(1 .. Len(b), ToSet(b))
      BY <3>1, <3>3 DEF Surjection
    <3> QED BY <3>4, <3>5 DEF Bijection
  <2>2. IsFiniteSet(1 .. Len(b)) /\ Cardinality(1 .. Len(b)) = Len(b)
    BY <1>2, SizeOfInterval
  <2>3. ExistsBijection(1 .. Len(b), ToSet(b))
    BY <2>1 DEF ExistsBijection
  <2> QED BY <2>2, <2>3, FS_Bijection
<1>8. IsFiniteSet(UpTo(n)) /\ Cardinality(UpTo(n)) \in Nat
  BY <1>1, UpToFinite
<1>9. Cardinality({}) = 0
  BY FS_EmptySet
<1>10. Cardinality(UpTo(n + 1)) = Cardinality(UpTo(n)) + Len(b) - 0
  BY <1>5, <1>6, <1>7, <1>8, <1>9, FS_Union
<1> QED BY <1>2, <1>8, <1>10 DEF b

LEMMA NothingYet == UpTo(0) = {} /\ Cardinality(UpTo(0)) = 0
  BY FS_EmptySet DEF UpTo

\* What the scan adds for a height.
LEMMA CountedResults ==
    ASSUME LoadType, Pipeline, NEW h \in 1 .. Len(blocks)
    PROVE  LET r == Counted(BlockResults(h)) IN
           /\ r \in Result
           /\ h \in DOMAIN results => r.succeeded + r.failed = Len(blocks[h])
           /\ h \notin DOMAIN results => r = NoResult /\ h = Len(blocks)
<1>1. /\ Len(results) \in Nat /\ DOMAIN results = 1 .. Len(results) /\ Len(blocks) \in Nat
      /\ \A g \in DOMAIN results : results[g] \in Result
      /\ Len(blocks) <= Len(results) + 1
  BY LenProperties, ElementOfSeq DEF LoadType, Pipeline
<1>2. NoResult \in Result /\ NoResult.succeeded = 0 /\ NoResult.failed = 0
  BY DEF NoResult, Result
<1>3. CASE h \in DOMAIN results
  <2>1. BlockResults(h) = results[h] /\ results[h] \in Result
    BY <1>1, <1>3 DEF BlockResults
  <2>2. results[h].succeeded + results[h].failed = Len(blocks[h])
    BY <1>3 DEF Pipeline
  <2>3. results[h].succeeded \in Nat /\ results[h].failed \in Nat
    BY <2>1 DEF Result
  <2>4. \/ Counted(BlockResults(h)) = results[h]
        \/ /\ Counted(BlockResults(h)) = NoResult
           /\ ~(results[h].succeeded + results[h].failed > 0)
    BY <2>1 DEF Counted
  <2> QED BY <1>2, <1>3, <2>1, <2>2, <2>3, <2>4
<1>4. CASE h \notin DOMAIN results
  <2>1. Counted(BlockResults(h)) = NoResult
    BY <1>2, <1>4 DEF BlockResults, Counted
  <2>2. h = Len(blocks)
    BY <1>1, <1>4
  <2> QED BY <1>2, <1>4, <2>1, <2>2
<1> QED BY <1>3, <1>4

\* The numbers of the scan say how many transactions the blocks hold that it read.
ScanCount ==
    \/ unread
    \/ confirmed + failed = Cardinality(UpTo(scanned))
    \/ /\ scanned = latest /\ scanned > 0
       /\ confirmed + failed = Cardinality(UpTo(scanned - 1))

LEMMA StepScan ==
    ASSUME LoadType, Pipeline, Once, Lanes, Settlement, Scan, [ScriptsNext]_loadVars
    PROVE  Scan'
<1>1. /\ scanned \in Nat /\ latest \in Nat /\ confirmed \in Nat /\ failed \in Nat
      /\ Len(blocks) \in Nat /\ DOMAIN blocks = 1 .. Len(blocks) /\ curH \in Nat
      /\ step \in {"broadcast", "lanes", "height", "count", "latest", "scan", "report"}
      /\ unread \in BOOLEAN
  BY BlockSeqs DEF LoadType
<1>2. /\ scanned <= latest /\ latest <= Len(blocks)
      /\ step \notin {"scan", "report"} =>
            latest = 0 /\ scanned = 0 /\ confirmed = 0 /\ failed = 0
      /\ step \in {"scan", "report"} /\ settled /\ ~unread => curH <= latest
      /\ step = "report" => scanned = latest
      /\ ScanCount
  BY DEF Scan, ScanCount
<1> SUFFICES
      /\ scanned' <= latest' /\ latest' <= Len(blocks')
      /\ step' \notin {"scan", "report"} =>
            latest' = 0 /\ scanned' = 0 /\ confirmed' = 0 /\ failed' = 0
      /\ step' \in {"scan", "report"} /\ settled' /\ ~unread' => curH' <= latest'
      /\ step' = "report" => scanned' = latest'
      /\ ScanCount'
  BY DEF Scan, ScanCount
<1>3. UNCHANGED <<scan, unread, blocks>> => ScanCount'
  BY <1>2 DEF ScanCount, scan, UpTo
<1>4. CASE UNCHANGED <<step, settled, curH, scan, unread, blocks>>
  BY <1>2, <1>3, <1>4 DEF scan
<1>5. CASE BurstEnds \/ ReadHeight \/ CountTxs
  <2>1. /\ step \notin {"scan", "report"} /\ step' \notin {"scan", "report"}
        /\ UNCHANGED <<scan, unread, blocks>>
    BY <1>5 DEF BurstEnds, ReadHeight, CountTxs, NextRound, chain, ghost
  <2> QED BY <1>2, <1>3, <2>1 DEF scan
<1>6. CASE Report
  <2>1. /\ step = "scan" /\ step' = "report" /\ scanned >= latest
        /\ UNCHANGED <<settled, curH, scan, unread, blocks>>
    BY <1>6 DEF Report, settle, chain, ghost
  <2> QED BY <1>1, <1>2, <1>3, <2>1 DEF scan
<1>7. CASE ReadLatest
  <2>1. /\ step = "latest" /\ step' = "scan" /\ UNCHANGED <<settled, curH, scanned, confirmed, failed, blocks>>
        /\ \/ latest' = Len(blocks)
           \/ latest' = 0 /\ unread' = TRUE
    BY <1>7 DEF ReadLatest, settle, chain
  <2>2. settled => curH <= Len(blocks)
    BY <1>1 DEF Settlement
  <2>3. scanned' = 0 /\ confirmed' = 0 /\ failed' = 0 /\ ScanCount'
    BY <1>2, <2>1, NothingYet DEF ScanCount, UpTo
  <2> QED BY <1>1, <2>1, <2>2, <2>3
<1>8. CASE ScanBlock
  <2> DEFINE h == scanned + 1
             r == Counted(BlockResults(h))
  <2>1. /\ step = "scan" /\ scanned < latest /\ scanned' = h
        /\ UNCHANGED <<step, settled, curH, latest, blocks>>
        /\ \/ confirmed' = confirmed + r.succeeded /\ failed' = failed + r.failed /\ unread' = unread
           \/ unread' = TRUE
    BY <1>8 DEF ScanBlock, settle, chain
  <2>2. h \in 1 .. Len(blocks) /\ h <= latest /\ h - 1 = scanned /\ scanned < Len(blocks)
    BY <1>1, <1>2, <2>1
  <2>3. /\ Cardinality(UpTo(h)) = Cardinality(UpTo(scanned)) + Len(blocks[h])
        /\ Cardinality(UpTo(scanned)) \in Nat
    BY <1>1, <2>2, UpToNext, UpToFinite
  <2>4. unread \/ confirmed + failed = Cardinality(UpTo(scanned))
    BY <1>1, <1>2, <2>1 DEF ScanCount
  <2>5. /\ r.succeeded \in Nat /\ r.failed \in Nat
        /\ \/ r.succeeded + r.failed = Len(blocks[h])
           \/ r.succeeded = 0 /\ r.failed = 0 /\ h = Len(blocks)
    BY <2>2, CountedResults DEF Result, NoResult
  <2>6. \A n : UpTo(n)' = UpTo(n)
    BY <2>1 DEF UpTo
  <2> HIDE DEF h, r
  <2>7. ASSUME ~unread, confirmed' = confirmed + r.succeeded, failed' = failed + r.failed
        PROVE  \/ confirmed' + failed' = Cardinality(UpTo(h))
               \/ h = latest /\ confirmed' + failed' = Cardinality(UpTo(h - 1))
    <3>1. confirmed' + failed' = (confirmed + failed) + (r.succeeded + r.failed)
      BY <1>1, <2>5, <2>7
    <3>2. confirmed + failed = Cardinality(UpTo(scanned))
      BY <2>4, <2>7
    <3>3. CASE r.succeeded + r.failed = Len(blocks[h])
      BY <2>3, <3>1, <3>2, <3>3
    <3>4. CASE r.succeeded = 0 /\ r.failed = 0 /\ h = Len(blocks)
      <4>1. confirmed' + failed' = Cardinality(UpTo(scanned))
        BY <1>1, <3>1, <3>2, <3>4
      <4>2. h = latest
        <5>1. latest \in Nat /\ latest <= Len(blocks) /\ Len(blocks) \in Nat
          BY <1>1, <1>2
        <5>2. h <= latest
          BY <2>2
        <5> QED BY <3>4, <5>1, <5>2
      <4> QED BY <2>2, <4>1, <4>2
    <3> QED BY <2>5, <3>3, <3>4
  <2>8. h > 0
    BY <2>2
  <2>9. ScanCount'
    BY <2>1, <2>6, <2>7, <2>8 DEF ScanCount
  <2> QED BY <1>1, <1>2, <2>1, <2>2, <2>9
<1>9. CASE Save
  <2>1. /\ blocks' = Append(blocks, proposal.txs) /\ proposal.txs \in Seq(Txs)
        /\ UNCHANGED <<step, settled, curH, scan, unread>>
    BY <1>9 DEF Save, settle, ghost, LoadType
  <2>2. Len(blocks') = Len(blocks) + 1
    BY <2>1, AppendBlock DEF LoadType
  <2>3. UpTo(scanned)' = UpTo(scanned) /\ (scanned > 0 => UpTo(scanned - 1)' = UpTo(scanned - 1))
    <3>1. \A n \in Nat : n <= Len(blocks) => UpTo(n)' = UpTo(n)
      BY <2>1, UpToStays
    <3>2. scanned' = scanned
      BY <2>1 DEF scan
    <3>3. scanned <= Len(blocks) /\ (scanned > 0 => scanned - 1 \in Nat /\ scanned - 1 <= Len(blocks))
      BY <1>1, <1>2
    <3> QED BY <1>1, <3>1, <3>2, <3>3 DEF UpTo
  <2>4. ScanCount'
    BY <1>2, <2>1, <2>3 DEF ScanCount, scan
  <2> QED BY <1>1, <1>2, <2>1, <2>2, <2>4 DEF scan
<1>10. ASSUME NEW a \in LoadAccounts, Arrive(a) \/ Answer(a) \/ GiveUp(a) \/ AsyncAnswer(a) \/ Reconnect(a)
       PROVE  UNCHANGED <<step, settled, curH, scan, unread, blocks>>
  BY <1>10 DEF Arrive, Answer, GiveUp, AsyncAnswer, Reconnect, settle, chain, ghost
<1>11. ASSUME NEW t \in stray, ArriveLate(t) PROVE UNCHANGED <<step, settled, curH, scan, unread, blocks>>
  BY <1>11 DEF ArriveLate, settle, ghost
<1>12. ASSUME Reap \/ ExecuteBlock \/ UNCHANGED loadVars
       PROVE  UNCHANGED <<step, settled, curH, scan, unread, blocks>>
  BY <1>12 DEF Reap, ExecuteBlock, loadVars, settle, chain, ghost
<1> QED BY <1>4, <1>5, <1>6, <1>7, <1>8, <1>9, <1>10, <1>11, <1>12
        DEF ScriptsNext, LoadNext, SenderNext, Node, Script

LEMMA ReportComplete ==
    ASSUME LoadType, Lanes, Placed, Acknowledged, Settlement, Scan
    PROVE  ReportIsComplete
<1> SUFFICES ASSUME step = "report", settled, LookedLongEnough, ~unread
             PROVE  confirmed + failed \in Cardinality(acknowledged)
                                           .. Cardinality(acknowledged \cup abandoned)
  BY DEF ReportIsComplete
<1>1. /\ latest \in Nat /\ curH \in Nat /\ scanned \in Nat /\ Len(blocks) \in Nat
      /\ scanned = latest /\ curH <= latest /\ latest <= Len(blocks) /\ ScanCount
      /\ curH \in 1 .. Len(blocks) /\ blocks[curH] = NoBlock
      /\ acknowledged \subseteq Txs /\ abandoned \subseteq Txs
  BY BlockSeqs DEF LoadType, Scan, ScanCount, Settlement
<1>2. acknowledged \subseteq UpTo(curH)
  BY SettledIncludes DEF SettledMeansIncluded, UpTo
<1>3. UpTo(curH) = UpTo(curH - 1)
  <2>1. 1 .. curH = (1 .. curH - 1) \cup {curH}
    BY <1>1
  <2>2. ToSet(blocks[curH]) = {}
    BY <1>1 DEF ToSet, NoBlock
  <2> QED BY <2>1, <2>2 DEF UpTo
<1>4. PICK n \in Nat : n <= Len(blocks) /\ curH - 1 <= n /\ confirmed + failed = Cardinality(UpTo(n))
  <2>1. latest - 1 \in Nat /\ curH - 1 <= latest - 1 /\ latest - 1 <= Len(blocks)
    BY <1>1
  <2> QED BY <1>1, <2>1 DEF ScanCount
<1>5. acknowledged \subseteq UpTo(n)
  <2>1. curH - 1 \in Nat
    BY <1>1
  <2> QED BY <1>2, <1>3, <1>4, <2>1, UpToGrows
<1>6. UpTo(n) \subseteq acknowledged \cup abandoned
  <2>1. InNode \subseteq acknowledged \cup abandoned
    BY DEF Acknowledged, Over
  <2> QED BY <1>4, <2>1, UpToGrows DEF InNode
<1>7. IsFiniteSet(acknowledged \cup abandoned) /\ Cardinality(acknowledged \cup abandoned) \in Nat
  <2>1. acknowledged \cup abandoned \subseteq Txs
    BY <1>1
  <2> QED BY <2>1, TxsFinite, FS_Subset, FS_CardinalityType
<1>8. IsFiniteSet(UpTo(n)) /\ Cardinality(UpTo(n)) \in Nat
  BY <1>4, UpToFinite
<1>9. /\ Cardinality(acknowledged) \in Nat /\ Cardinality(acknowledged) <= Cardinality(UpTo(n))
      /\ Cardinality(UpTo(n)) <= Cardinality(acknowledged \cup abandoned)
  BY <1>5, <1>6, <1>7, <1>8, FS_Subset, FS_CardinalityType
<1> QED BY <1>4, <1>7, <1>8, <1>9

--------------------------------------------------------------------------------
(***************************************************************************)
(* The results.                                                            *)
(***************************************************************************)

ScriptsInv ==
    /\ LoadType /\ Pipeline /\ Once /\ Lanes
    /\ Placed /\ RefusedOnlyAfterLoss /\ Acknowledged /\ Settlement /\ Scan

LEMMA InitScripts == LoadInit \/ SenderInit => ScriptsInv
<1> SUFFICES ASSUME LoadInit \/ SenderInit PROVE ScriptsInv
  OBVIOUS
<1>1. LoadType
  BY InitLoadType
<1>2. /\ step \in {"broadcast", "lanes"} /\ acknowledged = {}
      /\ burst = [a \in LoadAccounts |-> 1] /\ request = [a \in LoadAccounts |-> "sent"]
      /\ mempool = <<>> /\ proposal = None /\ blocks = <<NoBlock>> /\ NoBlock = <<>>
      /\ results = <<[succeeded |-> 0, failed |-> 0]>> /\ ~proposal.reaped
      /\ stray = {} /\ refused = {} /\ abandoned = {}
  BY DEF LoadInit, SenderInit, RestInit, None, NoBlock
<1>3. /\ settled = FALSE /\ probed = {} /\ unread = FALSE
      /\ latest = 0 /\ scanned = 0 /\ confirmed = 0 /\ failed = 0
  BY DEF LoadInit, SenderInit, RestInit
<1>4. Len(blocks) = 1 /\ Len(results) = 1 /\ blocks[1] = <<>> /\ DOMAIN blocks = {1} /\ DOMAIN results = {1}
      /\ Len(blocks[1]) = 0 /\ DOMAIN blocks[1] = {} /\ DOMAIN mempool = {}
      /\ results[1].succeeded + results[1].failed = 0
  BY <1>2
<1>5. InNode = {}
  BY <1>2, <1>4 DEF InNode, Included, ToSet
<1>6. Pipeline
  BY <1>2, <1>4 DEF Pipeline
<1>7. Once
  BY <1>4 DEF Once
<1>8. Lanes
  <2>1. \A a \in LoadAccounts : Sequence(a) = 0
    BY <1>5, NodeHolds, FS_EmptySet
  <2> QED BY <1>5, <2>1 DEF Lanes, Lane
<1>9. Placed
  <2>1. \A t \in Txs : ~IsSent(t)
    BY <1>2 DEF IsSent, Txs
  <2> QED BY <1>2, <1>5, <2>1 DEF Placed
<1>10. RefusedOnlyAfterLoss /\ Acknowledged
  BY <1>2, <1>5 DEF RefusedOnlyAfterLoss, Acknowledged, Over
<1>11. Settlement
  BY <1>2, <1>3 DEF Settlement, Watched
<1>12. Scan
  BY <1>2, <1>3, <1>4, NothingYet DEF Scan
<1> QED BY <1>1, <1>6, <1>7, <1>8, <1>9, <1>10, <1>11, <1>12 DEF ScriptsInv

LEMMA StepScripts == ScriptsInv /\ [LoadNext \/ SenderNext]_loadVars => ScriptsInv'
  BY StepLoadType, StepPipeline, StepOnce, StepLanes, StepPlaced, StepAcknowledged,
     StepSettlement, StepScan DEF ScriptsInv, ScriptsNext

LEMMA AlwaysScripts == ScriptsSpec => []ScriptsInv
  BY InitScripts, StepScripts, PTL DEF ScriptsSpec

\* With one account per transaction of a burst, and bursts that wait for each
\* other's answers, the node turns down a transaction only when a request of
\* its lane was lost before it: the sequence numbers never collide.
THEOREM RefusalsFollowLosses == ScriptsSpec => []RefusedOnlyAfterLoss
  BY AlwaysScripts, PTL DEF ScriptsInv

\* What the load sender counts as dispatched is in the node or on its way to it,
\* or it or one before it in its lane was cut off by a connection that failed.
THEOREM TheCountIsOffByTheCutOff == ScriptsSpec => []CountedUnlessCutOff
<1>1. ScriptsInv => CountedUnlessCutOff
  BY DEF ScriptsInv, LoadType, Placed, CutOff, CountedUnlessCutOff, InNode
<1> QED BY <1>1, AlwaysScripts, PTL

\* Once the settlement loop has looked at three heights or more and says that
\* all is included, every transaction that was counted as broadcast is in a
\* block up to the last height it looked at.
THEOREM SettlementIsBelievable == ScriptsSpec => []SettledMeansIncluded
<1>1. ScriptsInv => SettledMeansIncluded
  BY SettledIncludes DEF ScriptsInv
<1> QED BY <1>1, AlwaysScripts, PTL

\* The numbers that are reported then leave out nothing that was counted as
\* broadcast, and contain nothing but that and what was given up.
THEOREM ReportsAreComplete == ScriptsSpec => []ReportIsComplete
<1>1. ScriptsInv => ReportIsComplete
  BY ReportComplete DEF ScriptsInv
<1> QED BY <1>1, AlwaysScripts, PTL

================================================================================
