------------------------------ MODULE LoadSender ------------------------------
(***************************************************************************)
(* The load sender of hippod-send-tx.sh against the node of LoadTest.      *)
(*                                                                         *)
(* Each wallet has a lane of presigned transactions, numbered from the     *)
(* sequence number that the chain had for it.  A worker per lane sends     *)
(* them one by one with broadcast_tx_async over a connection of its own,   *)
(* and goes on over a new connection when the old one fails.  The lanes do *)
(* not wait for each other, and the answer says nothing of CheckTx.        *)
(***************************************************************************)
EXTENDS LoadTest

SenderInit ==
    /\ step = "lanes"
    /\ burst = [a \in LoadAccounts |-> 1] /\ request = [a \in LoadAccounts |-> "sent"]
    /\ acknowledged = {}
    /\ RestInit

\* The worker counts the transaction and turns to the next of its lane.
Dispatched(a) ==
    /\ acknowledged' = acknowledged \cup {Current(a)}
    /\ IF burst[a] < SustainedBlocks
       THEN /\ burst' = [burst EXCEPT ![a] = @ + 1]
            /\ request' = [request EXCEPT ![a] = "sent"]
       ELSE request' = [request EXCEPT ![a] = "done"] /\ UNCHANGED burst

\* An asynchronous broadcast is answered with code 0 whatever becomes of the
\* transaction, before CheckTx or after it; an error counts as code 0 too.
AsyncAnswer(a) ==
    /\ step = "lanes" /\ request[a] # "done"
    /\ stray' = LeftBehind(a)
    /\ Dispatched(a)
    /\ UNCHANGED <<step, settle, scan, chain, refused, abandoned, ghost>>

\* The connection fails, before or after the node has got the transaction: "count
\* it as a timeout success".
Reconnect(a) ==
    /\ step = "lanes" /\ request[a] # "done" /\ Fault
    /\ abandoned' = abandoned \cup {Current(a)}
    /\ stray' = LeftBehind(a)
    /\ Dispatched(a)
    /\ UNCHANGED <<step, settle, scan, chain, refused, probed, unread>>

SenderNext == \E a \in LoadAccounts : AsyncAnswer(a) \/ Reconnect(a)

\* Either script, against the same node.
ScriptsSpec == (LoadInit \/ SenderInit) /\ [][LoadNext \/ SenderNext]_loadVars

\* A transaction that was counted as dispatched is in the node or on its way to
\* it, unless it or one before it in its lane was cut off; then the rest of the
\* lane may be refused, and the count does not tell.
CountedUnlessCutOff ==
    \A t \in acknowledged :
        \/ t \in Included \cup ToSet(mempool) \cup stray
        \/ \E u \in abandoned : u.account = t.account /\ u.burst <= t.burst

================================================================================
