------------------------------ MODULE Documented ------------------------------
(***************************************************************************)
(* What comments of the repository say of the contract and its code does   *)
(* not do.  Each is checked by a run that exhibits a violation.            *)
(***************************************************************************)
EXTENDS RareBullet

\* state.rs:9: "Minimum active vault entries required before a buyer may claim
\* (k-anonymity)."  A claim is selected from at least k entries, unless the
\* fallback has elapsed when it is made.
KAnonymousClaim ==
    [][\A b \in DOMAIN pending :
          claimed'[b] # claimed[b] => ~Starved \/ Elapsed(StarvedSince, FallbackTimeout)]_vars

\* state.rs:90: the fallback bypasses the k-anonymity check only when
\* current_height > starvation_start_height + fallback_timeout_blocks.
FallbackStrictlyAfter ==
    [][\A b \in DOMAIN pending' \ DOMAIN pending :
          Starved => height > StarvedSince + FallbackTimeout]_vars

\* contract.rs:507: "reject duplicate commitments".  No two payloads of the vault
\* were deposited under the same commitment.
DistinctCommitments ==
    \A i, j \in DOMAIN vault : vault[i].proof.point = vault[j].proof.point => i = j

\* msg.rs:25: without an oracle "only the legacy atomic BurnAndClaim path is
\* active".  A holder of a token of a vault of depth k can claim a payload.
LegacyPathActive ==
    OracleAddress = None /\ ~Starved /\ (\E a \in Senders : balance[a] >= OneToken) =>
        ENABLED (Next /\ claimed' # claimed)

================================================================================
