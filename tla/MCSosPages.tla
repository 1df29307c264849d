------------------------------ MODULE MCSosPages ------------------------------
(* SosPages on a small instance. *)
EXTENDS SosPages, TLC
CONSTANTS o1, o2, w, a1

MCSymmetry == Permutations({o1, o2})
=============================================================================
