----------------------------- MODULE MCDocumented -----------------------------
\* Documented with the constants of MCRareBullet.
EXTENDS MCRareBullet, Documented

\* Each point has two strings, s and s + 10: the upper-case and the lower-case
\* spelling of the same 32 bytes.
TwoSpellings == [c \in MCPoints \cup {p + 10 : p \in MCPoints} |-> IF c > 10 THEN c - 10 ELSE c]
SpelledStrings == DOMAIN TwoSpellings

\* The same point under both spellings, for two data of alice.
RespelledMsgs ==
    {Msg(alice, 1, 1), [Msg(alice, 2, 1) EXCEPT !.commitment_hex = 11]}
================================================================================
