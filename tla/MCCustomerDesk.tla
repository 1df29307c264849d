--------------------------- MODULE MCCustomerDesk ---------------------------
EXTENDS CustomerDesk, TLC

CONSTANTS p1, p2, k1, k2, b1, b2, s1, s2, v1, v2

MCSymmetry == Permutations({p1, p2}) \cup Permutations({k1, k2}) \cup Permutations({b1, b2})
              \cup Permutations({s1, s2}) \cup Permutations({v1, v2})
=============================================================================
