------------------------------ MODULE MCRareBullet ------------------------------
(***************************************************************************)
(* Constants for model-checking RareBullet.                                *)
(***************************************************************************)
EXTENDS RareBullet, TLC

CONSTANTS alice, bob, relayer, amm, self

\* The ends of the bucket and a value between, then its two outer neighbours.
MCOpening == <<BucketFloor, BucketCeiling - 1, 95, BucketFloor - 1, BucketCeiling>>
MCPoints == DOMAIN MCOpening

\* One string per point and one that does not decode.
MCDecode == [c \in MCPoints \cup {0} |-> IF c = 0 THEN Malformed ELSE c]
MCCommitmentStrings == DOMAIN MCDecode

\* The message with which s deposits datum n as string c, its proof made by s.
Msg(s, n, c) ==
    [payload_nullifier |-> n, commitment_hex |-> c, oracle_signature |-> 0, num_bits |-> 32,
     proof |-> [contract |-> self, nullifier |-> n, sender |-> s, point |-> MCDecode[c]]]

\* Three good deposits; alice's first datum again under bob's commitment, a
\* fresh datum under a commitment in use.
GoodMsgs ==
    {Msg(alice, 1, 1), Msg(alice, 2, 2), Msg(bob, 3, 3), Msg(bob, 1, 3), Msg(bob, 4, 1)}

\* What AcceptsDeposit refuses, one defect per message: a value outside the
\* bucket, on either side, what does not decode, the wrong width, and a proof
\* made for another contract, datum or commitment.
DefectiveMsgs ==
    LET good == Msg(alice, 1, 1)
    IN  {Msg(alice, 5, 4), Msg(alice, 6, 5), Msg(alice, 5, 0)}
        \cup {[good EXCEPT !.payload_nullifier = Malformed], [good EXCEPT !.payload_nullifier = 5],
              [good EXCEPT !.oracle_signature = Malformed], [good EXCEPT !.proof = Malformed],
              [good EXCEPT !.num_bits = 64], [good EXCEPT !.commitment_hex = 3],
              [good EXCEPT !.proof.contract = amm]}

ExchangeMsgs == GoodMsgs \cup DefectiveMsgs

TokenMsgs == {Msg(relayer, 1, 1), Msg(amm, 2, 2)}

================================================================================
