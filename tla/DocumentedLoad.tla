---------------------------- MODULE DocumentedLoad ----------------------------
(***************************************************************************)
(* What setup_singlenode_bench.sh says of its load test and does not hold. *)
(***************************************************************************)
EXTENDS LoadTest

\* "All transactions included (2 consecutive empty blocks at height $CUR_H)"
\* (setup_singlenode_bench.sh:977): whenever that is printed, every transaction
\* counted as broadcast is in a block up to that height.  But the second block
\* looked at may have been reaped before the last burst.
AllTransactionsIncluded ==
    settled => acknowledged \subseteq UNION {ToSet(blocks[h]) : h \in 1 .. curH}

================================================================================
