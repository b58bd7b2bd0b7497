--------------------------- MODULE MCMprpcChannel ---------------------------
(* TLC instances of MprpcChannel.                                          *)
EXTENDS MprpcChannel, TLC

CONSTANTS c1, c2, ch1, ch2, a1, a2   \* model values

\* Every thread has a stub of its own (test/benchmark/rpc_benchmark.cc:76).
OwnChannel == [c \in Callers |-> IF c = c1 THEN ch1 ELSE ch2]

\* All threads share one stub.
OneChannel == [c \in Callers |-> ch1]

\* Sound in the runs that check no liveness.
AddressSymmetry == Permutations(Address)
=============================================================================
