---------------------------- MODULE MCEventQueue ----------------------------
EXTENDS EventQueue, TLC
CONSTANTS f1, f2, t1, o1
\* Standard input, and a socket opened after the queue was made, as in the echo
\* server of the tests: one below the pipe, one above it.
Numbers == [e \in FdEvents |-> CASE e = f1 -> 0 [] e = f2 -> 5]
=============================================================================
