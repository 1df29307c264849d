----------------------------- MODULE MCAtelier -----------------------------
EXTENDS Atelier, TLC

Alike == Permutations(Seamstresses)
=============================================================================
