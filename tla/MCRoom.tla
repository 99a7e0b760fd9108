-------------------------------- MODULE MCRoom --------------------------------
(* Model checking of Room: the symmetry of the connections, which the module  *)
(* never tells apart, and the room before anything stops it.                  *)
EXTENDS Room, TLC

CONSTANTS c1, c2, c3

ClientSymmetry == Permutations(Clients)

\* Bound: once a message is stored, at most two connections are in the room at a
\* time; a room with more of them has typing events only.
FewWithHistory == stored # {} => Cardinality(clients) <= 2

\* Room before the server is told to stop: a step leaves shut at "no".
UpSpec == Init /\ [][Next /\ shut' = "no" /\ FewWithHistory']_vars
===============================================================================
