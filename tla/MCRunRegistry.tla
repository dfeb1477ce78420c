--------------------------- MODULE MCRunRegistry ----------------------------
(* RunRegistry on a few connections, all for one run ID.                   *)
EXTENDS RunRegistryProps, TLC

CONSTANTS c1, c2, c3, c4, r1, s1, s2, k1, k2, m1, m2

OneRun == [c \in Conns |-> r1]

\* Every connection uses the same stream ID, as a client does that reconnects
\* without drawing a new one: createStream and removeStream then meet entries of
\* other connections.
SameStream == [c \in Conns |-> s1]

\* A stream ID for each connection, which is what the comment in Handler expects.
OwnStreams == c1 :> s1 @@ c2 :> s2

Symmetry == Permutations(Muxes) \cup Permutations(KnownIDs)
=============================================================================
