--------------------------- MODULE RareBulletClaims ---------------------------
(***************************************************************************)
(* The contract implements Claims: the items are payload ids, the vouchers *)
(* cw20 tokens.                                                            *)
(***************************************************************************)
EXTENDS RareBullet

CONSTANT PayloadIds

Desk == INSTANCE Claims WITH
    Buyers <- Accounts,
    Items <- PayloadIds,
    Voucher <- OneToken,
    unclaimed <- Range(activeMap),
    awarded <- [a \in Accounts |-> Range(claimed[a])],
    waiting <- DOMAIN pending,
    circulating <- totalSupply

\* Every deposit, request, fulfilment and refund of the contract is the step of
\* the same meaning of Claims, and its other transactions are no step of it.
ImplementsClaims == Desk!ClaimsSpec

================================================================================
