------------------------------- MODULE MCHub -------------------------------
(* Small instances of the hub for TLC. *)
EXTENDS Hub, TLC

\* Every connection makes so many requests, or one of them one more.
Once   == [c \in Clients |-> 1]
Twice  == [c \in Clients |-> 2]
Thrice == [c \in Clients |-> 3]
Uneven == LET d == CHOOSE c \in Clients : TRUE IN [Once EXCEPT ![d] = 2]

\* Uneven and NextId choose, so that only the runs that give every client the
\* same number of requests use this, and messages are not permuted.
Symmetry == Permutations(Clients)

=============================================================================
