----------------------------- MODULE SeatLedger -----------------------------
(***************************************************************************)
(* What the boutique promises about its grid, whatever the deposit flow    *)
(* does behind it: the live appointments, seen as (customer, slot, seat)   *)
(* triples.  A seat is given to one appointment, a customer has one        *)
(* appointment per instant, and one step gives out at most one seat: it    *)
(* may at the same time free the seat the same customer moves away from,   *)
(* or hand an appointment, seat and all, to another customer; and any      *)
(* number of appointments may be released at once.                         *)
(***************************************************************************)
EXTENDS Integers

CONSTANTS Customers, Slots

VARIABLE held   \* the live appointments

Appointment == [customer : Customers, slot : Slots, seat : Nat \ {0}]

\* x can be added to the appointments in H.
Fits(x, H) ==
    /\ x \in Appointment
    /\ \A y \in H : y.slot = x.slot => y.seat # x.seat /\ y.customer # x.customer

Init == held = {}

Claim == \E x \in held' : Fits(x, held) /\ held' = held \cup {x}

Move == \E y \in held, x \in held' :
            /\ x.customer = y.customer \/ (x.slot = y.slot /\ x.seat = y.seat)
            /\ Fits(x, held \ {y})
            /\ held' = (held \ {y}) \cup {x}

Release == held' \subseteq held

Next == Claim \/ Move \/ Release

Spec == Init /\ [][Next]_held
=============================================================================
