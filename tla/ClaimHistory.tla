----------------------------- MODULE ClaimHistory -----------------------------
(***************************************************************************)
(* The contract with a history variable: lastDeep is the latest height at  *)
(* which the vault was at depth k, or had not been deposited into yet.     *)
(* The contract never reads it; it says what the starvation tracker is for.*)
(***************************************************************************)
EXTENDS Interface

VARIABLE lastDeep

HistoryInit == Init /\ lastDeep = InitHeight

HistoryNext ==
    /\ Next
    /\ lastDeep' = IF ~Starved \/ vaultCount = 0 THEN height ELSE lastDeep

HistorySpec == HistoryInit /\ [][HistoryNext]_<<vars, lastDeep>>

\* With the fairness of the contract alone, which knows nothing of the history.
FairHistorySpec == HistorySpec /\ Fairness

\* A request made below depth k comes when the vault has been below k, without
\* interruption, for at least FallbackTimeout blocks.
BypassNeedsStarvation ==
    [][\A b \in DOMAIN pending' \ DOMAIN pending :
          Starved => height - lastDeep >= FallbackTimeout]_<<vars, lastDeep>>

\* And it opens when it is due, and to everybody: a holder without a request is
\* admitted whenever the vault is at depth k, and when it has been below k without
\* interruption for FallbackTimeout blocks, whatever deposits and claims there
\* were in the meantime.
HoldersAdmitted ==
    \A b \in Senders :
        /\ OracleAddress # None
        /\ b \notin DOMAIN pending /\ balance[b] >= OneToken
        /\ Starved => Elapsed(lastDeep, FallbackTimeout)
        => RequestReply(b) = Ok

================================================================================
