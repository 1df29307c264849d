----------------------------- MODULE MCWaitlist -----------------------------
EXTENDS Waitlist, TLC
CONSTANTS a, b

\* Pairs 1 and 2 are two types on day 1, or one type on a day each.
MCSameDay == [p \in Pairs |-> 1]
MCDayEach == [p \in Pairs |-> p]
MCSlotSameDay == [s \in Slots |-> 1]
MCSlotDayEach == [s \in Slots |-> s]

\* Customers are told apart by nothing but their phone.
MCSymmetry == Permutations(Phones)
=============================================================================
