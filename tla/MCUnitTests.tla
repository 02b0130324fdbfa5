------------------------------ MODULE MCUnitTests ------------------------------
\* UnitTests with the setup of the tests.  Their proofs are of the value 95; the
\* seller could also make one of any other scalar.
EXTENDS UnitTests

TestAccounts ==
    {"seller", "seller0", "seller1", "seller2", "seller3", "seller4", "seller5",
     "buyer", "attacker", "oracle_relayer", "contract"}
TestPoints == 1 .. GroupOrder + 6
TestOpening == [p \in TestPoints |-> IF p <= 6 THEN 95 ELSE p - 7]
TestDecode == [p \in TestPoints |-> p]
TestDeposits == {generate_proof("seller", n) : n \in TestPoints}
================================================================================
