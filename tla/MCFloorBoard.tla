---------------------------- MODULE MCFloorBoard ----------------------------
EXTENDS FloorBoard, TLC

Alike == Permutations(Tickets) \union Permutations(Rooms)
            \union Permutations(Elevated) \union Permutations(Assignments)
=============================================================================
