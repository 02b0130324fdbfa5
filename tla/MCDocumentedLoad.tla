--------------------------- MODULE MCDocumentedLoad ---------------------------
\* DocumentedLoad with the constants of MCLoadTest.
EXTENDS MCLoadTest, DocumentedLoad
================================================================================
