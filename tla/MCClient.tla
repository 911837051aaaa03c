------------------------------ MODULE MCClient ------------------------------
\* Client has no constants: one connection, one stream, one buffer.
EXTENDS Client
=============================================================================
