----------------------------- MODULE MCSessions -----------------------------
(* Sessions with a list of two, and commands whose changes overlap.        *)
EXTENDS SessionsProps, TLC

CONSTANTS s1, s2, s3, h1, h2, x, y, v1, v2

\* Nothing, a variable, and a variable followed by one that is too large.
SomeRequests == {<<>>, <<<<x, v1>>>>, <<<<x, v1>>, <<y, Large>>>>}

\* A program changes two variables, deletes one, or makes one of two too large.
SomeEffects == {x :> v2 @@ y :> v1, x :> None, x :> v2 @@ y :> Large}

Symmetry == Permutations(IDs) \cup Permutations(Handlers)
=============================================================================
