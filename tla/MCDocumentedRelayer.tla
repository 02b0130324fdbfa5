-------------------------- MODULE MCDocumentedRelayer --------------------------
\* DocumentedRelayer with the constants of MCRelayer.
EXTENDS MCRelayer, DocumentedRelayer
================================================================================
