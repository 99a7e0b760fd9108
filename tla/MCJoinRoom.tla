------------------------------ MODULE MCJoinRoom ------------------------------
(* Model checking of JoinRoom: the symmetry of the connections, and readers   *)
(* that are slow.                                                             *)
EXTENDS JoinRoom, TLC

CONSTANTS c1, c2, c3

ClientSymmetry == Permutations(Clients)

\* Bound: a write pump takes at most one message out of its channel, and its peer then
\* reads no more, as any peer may.
SlowReaders == \A c \in Clients : drained[c] <= 1

SlowSpec == Init /\ [][Next /\ SlowReaders']_vars
===============================================================================
