-------------------------------- MODULE MCPeople -------------------------------
EXTENDS People, TLC

CONSTANTS e1, u1, k1, r1, r2, name, email, birth, v1, v2, blank

\* A body that empties one field and leaves another alone, and one that sets all
\* of them.
MCBodies == {(name :> v1) @@ (email :> blank) @@ (birth :> Null),
             (name :> v2) @@ (email :> v2) @@ (birth :> v2)}

Symmetric == Permutations(Requests)
=============================================================================
