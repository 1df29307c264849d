------------------------- MODULE MCDepositBooking -------------------------
EXTENDS DepositBooking, TLC
CONSTANTS r1, r2, c1, c2, s1, s2

MCWho1 == (r1 :> c1)
MCWhoEach == (r1 :> c1) @@ (r2 :> c2)
MCWhoSame == (r1 :> c1) @@ (r2 :> c1)
MCOneSlot == (s1 :> 1)
MCUneven == (s1 :> 2) @@ (s2 :> 1)
MCPairs == (s1 :> 2) @@ (s2 :> 2)

\* Under MCWhoSame and MCPairs neither requests nor slots can be told apart.
MCSymmetry == Permutations({r1, r2}) \cup Permutations({s1, s2})
=============================================================================
