---------------------------- MODULE MCBackOffice ----------------------------
EXTENDS BackOffice, TLC

CONSTANTS p1, p2, p3, p4  \* the texts of the terms

Rule(day, open, close, capacity) ==
    [day |-> day, open |-> open, close |-> close, capacity |-> capacity]

\* A date with long hours, a week whose windows touch out of phase, and one whose
\* windows overlap.
MCWeeks == {
    {Rule(1, 0, 6, 2)},
    {Rule(1, 1, 5, 1), Rule(1, 5, 8, 2), Rule(0, 0, 7, 1)},
    {Rule(0, 0, 5, 1), Rule(0, 4, 6, 1)} }

\* Closed all day, special hours across the change of the clocks, half a pair.
MCSpecialHours == {
    [open |-> NoTime, close |-> NoTime], [open |-> 3, close |-> 5], [open |-> NoTime, close |-> 3] }

MCWeekday == [d \in Dates |-> d]

Says(hours, percent) == [refundable_until_hours_before |-> hours, forfeit_percent |-> percent]

\* The last is out of range.
MCPolicy == p1 :> Says(0, 100) @@ p2 :> Says(2, 33) @@ p3 :> Says(1, 50) @@ p4 :> Says(9, 50)

Sends(deposits, brides, whole) ==
    [toggles |-> "deposits_enabled" :> deposits @@ "brides_only" :> brides, whole |-> whole]

\* One toggle, the other, both the other way, a block with and without a toggle,
\* and everything at once.
MCPatches == {
    Sends("on", "absent", {}), Sends("absent", "on", {}), Sends("off", "off", {}),
    Sends("absent", "absent", {"profile"}), Sends("absent", "absent", {"atelier"}),
    Sends("on", "absent", {"scheduling"}), Sends("off", "on", Whole) }

Form(name, required, amount) ==
    [name |-> name, deposit_required |-> required, deposit_amount_agorot |-> amount]

\* A type with and without its deposit, an amount that is kept for later, another
\* name, and a deposit without an amount.
MCForms == {
    Form("fitting", TRUE, 1), Form("fitting", FALSE, 1), Form("fitting", FALSE, NoAmount),
    Form("measuring", FALSE, NoAmount), Form("fitting", TRUE, NoAmount) }

\* The offices share no row, so one set of model values serves in several: three for
\* operators and credential sets, two for invites, submissions, brides and requests.
Alike == Permutations(Operators) \union Permutations(Invites) \union Permutations(Callers)
=============================================================================
