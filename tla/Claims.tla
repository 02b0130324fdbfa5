-------------------------------- MODULE Claims --------------------------------
(***************************************************************************)
(* What the exchange promises, without its index, clocks and checks.       *)
(*                                                                         *)
(* Items are registered for a voucher each.  A buyer trades a voucher for a*)
(* place in the queue of the waiting and leaves it with an item nobody else*)
(* gets, or with the voucher.                                              *)
(***************************************************************************)
EXTENDS Integers, FiniteSets

CONSTANTS Buyers, Items, Voucher

VARIABLES
    unclaimed,    \* items that can still be awarded
    awarded,      \* the items each buyer was awarded
    waiting,      \* buyers who have traded in a voucher
    circulating   \* the amount of vouchers in circulation

claimVars == <<unclaimed, awarded, waiting, circulating>>

ClaimsInit ==
    /\ unclaimed = {} /\ waiting = {} /\ circulating = 0
    /\ awarded = [b \in Buyers |-> {}]

Taken == unclaimed \cup UNION {awarded[b] : b \in Buyers}

Register(item) ==
    /\ item \notin Taken
    /\ unclaimed' = unclaimed \cup {item}
    /\ circulating' = circulating + Voucher
    /\ UNCHANGED <<awarded, waiting>>

Redeem(b) ==
    /\ b \notin waiting /\ circulating >= Voucher
    /\ waiting' = waiting \cup {b}
    /\ circulating' = circulating - Voucher
    /\ UNCHANGED <<unclaimed, awarded>>

Award(b, item) ==
    /\ b \in waiting /\ item \in unclaimed
    /\ unclaimed' = unclaimed \ {item}
    /\ awarded' = [awarded EXCEPT ![b] = @ \cup {item}]
    /\ waiting' = waiting \ {b}
    /\ UNCHANGED circulating

Refund(b) ==
    /\ b \in waiting
    /\ waiting' = waiting \ {b}
    /\ circulating' = circulating + Voucher
    /\ UNCHANGED <<unclaimed, awarded>>

ClaimsNext ==
    \/ \E item \in Items : Register(item)
    \/ \E b \in Buyers : Redeem(b) \/ Refund(b) \/ \E item \in Items : Award(b, item)

ClaimsSpec == ClaimsInit /\ [][ClaimsNext]_claimVars

================================================================================
