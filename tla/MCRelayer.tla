------------------------------- MODULE MCRelayer -------------------------------
\* Relayer with the constants of MCRareBullet.
EXTENDS MCRareBullet, Relayer

\* A deposit, and so a token, for each of two buyers; one buyer with two tokens.
BuyersMsgs == {Msg(alice, 1, 1), Msg(bob, 2, 2)}
BuyerMsgs == {Msg(alice, 1, 1), Msg(alice, 2, 2)}
================================================================================
