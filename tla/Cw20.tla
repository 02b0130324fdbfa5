--------------------------------- MODULE Cw20 ---------------------------------
(***************************************************************************)
(* The cw20-base token the contract is built on (version 1.1.2, not part   *)
(* of the repository), as operators on its three tables: the balances, the *)
(* total supply and the allowances.  Each Can... operator is the condition *)
(* under which the library call returns Ok; a call that returns an error   *)
(* reverts the transaction and changes nothing.                            *)
(***************************************************************************)
EXTENDS Integers

\* An allowance that never expires: a height no block reaches.
CONSTANT Never

Allowance == [amount: Nat, expires: Nat]

\* The default of an allowance that was never granted, or was removed.
NoAllowance == [amount |-> 0, expires |-> Never]

Expired(expires, now) == expires # Never /\ now >= expires

CanDebit(bal, a, n) == bal[a] >= n

Credit(bal, a, n) == [bal EXCEPT ![a] = @ + n]

Debit(bal, a, n) == [bal EXCEPT ![a] = @ - n]

\* The sender is debited before the recipient is read, so a transfer to
\* oneself leaves the balance as it was.
Move(bal, from, to, n) == Credit(Debit(bal, from, n), to, n)

\* Burning also takes the amount out of the total supply, with checked_sub.
CanBurn(bal, supply, a, n) == CanDebit(bal, a, n) /\ supply >= n

\* increase_allowance with an optional new expiry.
CanIncrease(owner, spender, newExpiry, now) ==
    /\ spender # owner
    /\ \A e \in newExpiry : ~Expired(e, now)

WithExpiry(allow, newExpiry) ==
    IF newExpiry = {} THEN allow
                      ELSE [allow EXCEPT !.expires = CHOOSE e \in newExpiry : TRUE]

Increased(allow, n, newExpiry) ==
    [WithExpiry(allow, newExpiry) EXCEPT !.amount = @ + n]

\* decrease_allowance removes an allowance that would reach zero.
CanDecrease(owner, spender, allow, n, newExpiry, now) ==
    /\ spender # owner
    /\ n < allow.amount => \A e \in newExpiry : ~Expired(e, now)

Decreased(allow, n, newExpiry) ==
    IF n < allow.amount THEN [WithExpiry(allow, newExpiry) EXCEPT !.amount = @ - n]
                        ELSE NoAllowance

\* deduct_allowance of transfer_from and send_from.
CanSpend(allow, n, now) == ~Expired(allow.expires, now) /\ allow.amount >= n

Spent(allow, n) == [allow EXCEPT !.amount = @ - n]

================================================================================
