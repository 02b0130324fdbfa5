------------------------------ MODULE Bulletproof ------------------------------
(***************************************************************************)
(* The proof that a Deposit carries, and what verify_bulletproof accepts.  *)
(*                                                                         *)
(* A commitment is a Ristretto point C that hides a scalar v, its opening. *)
(* Points are left abstract: Opening gives the scalar a point commits to   *)
(* (a Pedersen commitment binds its author to one) and the homomorphic     *)
(* shifts of the code are done on the openings, in the scalar field.       *)
(*                                                                         *)
(* The bulletproofs crate is external.  It is modelled by what the         *)
(* contract relies on: an aggregated proof verifies exactly when it was    *)
(* made for these commitments under this transcript and each of them opens *)
(* to a value below 2^num_bits.                                            *)
(***************************************************************************)
EXTENDS Integers

CONSTANTS
    Points,             \* the points a deposit may commit to
    Opening,            \* Opening[c]: the scalar the point c commits to
    CommitmentStrings,  \* the strings sent as commitment_hex
    Decode,             \* Decode[s]: the point the string s decodes to
    Malformed,          \* any string the contract cannot decode
    GroupOrder,         \* the order of the scalar field
    Window              \* 2^num_bits

(***************************************************************************)
(* The contract fixes the bucket [90, 100) and the width of its generator  *)
(* pool.  The width and the group order are parameters because 2^32 and    *)
(* 2^252 are out of TLC's arithmetic; all that matters of them is that the *)
(* group leaves room for two windows.                                      *)
(***************************************************************************)
NumBits == 32
BucketFloor == 90
BucketCeiling == 100

Scalars == 0 .. GroupOrder - 1

ASSUME WindowAssumption ==
    /\ GroupOrder \in Nat /\ Window \in Nat
    /\ BucketCeiling <= Window
    /\ 2 * Window <= GroupOrder

ASSUME CommitmentAssumption ==
    /\ Malformed \notin Points
    /\ Opening \in [Points -> Scalars]
    /\ Decode \in [CommitmentStrings -> Points \cup {Malformed}]

(***************************************************************************)
(* The transcript binds a proof to the contract, the nullifier and the     *)
(* sender; the aggregated commitments bind it to the point.                *)
(***************************************************************************)
Proof(contracts, nullifiers, senders) ==
    [contract: contracts, nullifier: nullifiers, sender: senders, point: Points]

\* x - y in the scalar field.
ScalarSub(x, y) == IF x >= y THEN x - y ELSE x - y + GroupOrder

\* C1 = C - floor * G
LowerShift(v, floor) == ScalarSub(v, floor)

\* A faulty variant of UpperShift: the ceiling itself is let in.
UpperShiftInclusive(v, ceiling) == ScalarSub(ceiling, v)

\* C2 = (ceiling - 1) * G - C
UpperShift(v, ceiling) == ScalarSub(ceiling - 1, v)

\* A faulty variant of RangesHold: the upper bound is never proved.
LowerRangeHolds(v, floor, ceiling) == LowerShift(v, floor) < Window

\* Both aggregated ranges hold: each shifted commitment opens below 2^num_bits.
RangesHold(v, floor, ceiling) ==
    /\ LowerShift(v, floor) < Window
    /\ UpperShift(v, ceiling) < Window

VerifyBulletproof(proof, point, contract, nullifier, sender) ==
    /\ proof.contract = contract
    /\ proof.nullifier = nullifier
    /\ proof.sender = sender
    /\ proof.point = point
    /\ RangesHold(Opening[point], BucketFloor, BucketCeiling)

--------------------------------------------------------------------------------

\* What the deposit is meant to establish: floor <= v < ceiling.
InBucket(v, floor, ceiling) == floor <= v /\ v < ceiling

================================================================================
