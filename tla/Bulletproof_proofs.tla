-------------------------- MODULE Bulletproof_proofs --------------------------
(***************************************************************************)
(* The two shifted ranges of verify_bulletproof pin the committed value to *)
(* the bucket, whatever the group order and the window.                    *)
(***************************************************************************)
EXTENDS Bulletproof, TLAPS

\* A difference of scalars is a scalar: it neither goes negative nor reaches the
\* group order.
LEMMA ScalarSubType ==
    ASSUME NEW x \in Scalars, NEW y \in Scalars
    PROVE  ScalarSub(x, y) \in Scalars
  BY WindowAssumption DEF ScalarSub, Scalars

\* For every non-empty bucket that is no wider than the window, both aggregated
\* range proofs of verify_bulletproof (contract.rs:77-84) can hold of a
\* committed scalar exactly when it lies in the bucket; no scalar satisfies them
\* by wrapping around the group order.
THEOREM RangesCharacteriseBucket ==
    ASSUME NEW v \in Scalars, NEW floor \in Nat, NEW ceiling \in Nat,
           floor < ceiling, ceiling <= Window
    PROVE  RangesHold(v, floor, ceiling) <=> InBucket(v, floor, ceiling)
<1> USE WindowAssumption DEF Scalars
<1>1. CASE v < floor
  \* The lower shift wraps to a scalar above GroupOrder - floor.
  <2>1. LowerShift(v, floor) = v - floor + GroupOrder
    BY <1>1 DEF LowerShift, ScalarSub
  <2>2. ~ LowerShift(v, floor) < Window
    BY <2>1
  <2> QED BY <1>1, <2>2 DEF RangesHold, InBucket
<1>2. CASE floor <= v /\ v < ceiling
  <2>1. LowerShift(v, floor) = v - floor /\ UpperShift(v, ceiling) = ceiling - 1 - v
    BY <1>2 DEF LowerShift, UpperShift, ScalarSub
  <2> QED BY <1>2, <2>1 DEF RangesHold, InBucket
<1>3. CASE ceiling <= v
  \* The upper shift wraps; it is small only for values the lower range refuses.
  <2>1. LowerShift(v, floor) = v - floor /\ UpperShift(v, ceiling) = ceiling - 1 - v + GroupOrder
    BY <1>3 DEF LowerShift, UpperShift, ScalarSub
  <2>2. LowerShift(v, floor) < Window => ~ UpperShift(v, ceiling) < Window
    BY <2>1
  <2> QED BY <1>3, <2>2 DEF RangesHold, InBucket
<1> QED BY <1>1, <1>2, <1>3

\* In particular a deposit that verify_bulletproof accepts commits to a value of
\* the bucket the contract is compiled for, [90, 100).
THEOREM VerifiedIsInBucket ==
    ASSUME NEW point \in Points, NEW contract, NEW nullifier, NEW sender, NEW proof
    PROVE  VerifyBulletproof(proof, point, contract, nullifier, sender)
               => InBucket(Opening[point], BucketFloor, BucketCeiling)
<1>1. Opening[point] \in Scalars
  BY CommitmentAssumption
<1>2. /\ BucketFloor \in Nat /\ BucketCeiling \in Nat
      /\ BucketFloor < BucketCeiling /\ BucketCeiling <= Window
  BY WindowAssumption DEF BucketFloor, BucketCeiling
<1>3. RangesHold(Opening[point], BucketFloor, BucketCeiling)
          <=> InBucket(Opening[point], BucketFloor, BucketCeiling)
  BY <1>1, <1>2, RangesCharacteriseBucket
<1> QED BY <1>3 DEF VerifyBulletproof

================================================================================
