------------------------------ MODULE MCMemory -------------------------------
EXTENDS Memory

MCContents == [a \in Addr |-> 0]
=============================================================================
