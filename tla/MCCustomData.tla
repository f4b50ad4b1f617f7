----------------------------- MODULE MCCustomData -----------------------------
EXTENDS CustomData, TLC

CONSTANTS c1, c2, c3, e1, e2, plate, color, v1, v2

Symmetric == Permutations(Clients) \cup Permutations(Entities)
               \cup Permutations(Fields) \cup Permutations(Values)
=============================================================================
