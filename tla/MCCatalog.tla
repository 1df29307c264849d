------------------------------ MODULE MCCatalog ------------------------------
(* Catalog on a small instance. *)
EXTENDS Catalog, TLC
CONSTANTS k1, k2, k3, j1, j2, r1, r2

MCSymmetry == Permutations({k1, k2}) \union Permutations({j1, j2}) \union Permutations({r1, r2})
=============================================================================
