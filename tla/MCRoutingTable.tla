--------------------------- MODULE MCRoutingTable ---------------------------
\* Instances of RoutingTable for TLC.
EXTENDS RoutingTable, TLC

CONSTANTS u1, u2, p1, p2, s1, s2

\* Either goroutine may carry any peer's record.
SharedFrom == [u \in Upserters |-> Peers]

\* Each peer's records are carried by one goroutine.
SplitFrom == [u \in Upserters |-> IF u = u1 THEN {p1} ELSE {p2}]

\* With SharedFrom, goroutines and peers are interchangeable.
Symmetry == Permutations({u1, u2}) \cup Permutations({p1, p2})
=============================================================================
