------------------------------ MODULE MCRoster ------------------------------
EXTENDS Roster, TLC

Alike == Permutations(Staff)
=============================================================================
