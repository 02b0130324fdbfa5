------------------------------ MODULE MCExchange ------------------------------
\* The contract with its history, its answers and its refinement mapping, under
\* the constants of MCRareBullet.
EXTENDS MCRareBullet, ClaimHistory, RareBulletClaims
================================================================================
