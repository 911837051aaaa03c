------------------------------ MODULE MCServer ------------------------------
\* Server with two connections, each of which may carry two streams in turn.
EXTENDS Server
=============================================================================
