------------------------------ MODULE MCLoadTest ------------------------------
\* Both load scripts for TLC: the accounts are interchangeable model values.
EXTENDS LoadSender, TLC

Interchangeable == Permutations(LoadAccounts)
================================================================================
