---------------------------- MODULE WaitlistProofs ----------------------------
(***************************************************************************)
(* Proofs about the waitlist, for any number of entries, customers, queues *)
(* and slots.  Whatever the number of workers, texts and offers match and  *)
(* nobody is on the list of a queue twice; with the one worker that is     *)
(* deployed, a queue has one offer at a time, an instant is not offered to *)
(* more customers than it has seats, and turns are kept.                   *)
(***************************************************************************)
EXTENDS Waitlist, FiniteSetTheorems, WellFoundedInduction, TLAPS

----------------------------------------------------------------------------
(* Numbers. *)

\* A set of numbers that is not empty has a least one.
LEMMA LeastIs ==
    ASSUME NEW S \in SUBSET Nat, S # {}
    PROVE  Least(S) \in S /\ \A y \in S : Least(S) =< y
<1>1. \E x \in S : \A y \in S : x =< y
  <2> DEFINE T == {0 .. n : n \in S}
  <2>1. IsWellFoundedOn(StrictSubsetOrdering(Nat), FiniteSubsetsOf(Nat))
    BY FS_StrictSubsetOrderingWellFounded
  <2>2. T \subseteq FiniteSubsetsOf(Nat) /\ T # {}
    <3>1. \A n \in S : 0 .. n \subseteq Nat /\ IsFiniteSet(0 .. n)
      BY FS_Interval
    <3> QED
      BY <3>1 DEF FiniteSubsetsOf
  <2> HIDE DEF T
  <2>3. PICK X \in T : \A Y \in T : ~ (<<Y, X>> \in StrictSubsetOrdering(Nat))
    BY <2>1, <2>2, WFMin
  <2>4. PICK x \in S : X = 0 .. x
    BY <2>3 DEF T
  <2>5. ASSUME NEW y \in S, y < x PROVE FALSE
    <3>1. 0 .. y \in T
      BY DEF T
    <3>2. 0 .. y \subseteq 0 .. x /\ x \in 0 .. x /\ x \notin 0 .. y
      BY <2>5
    <3>3. 0 .. y \subseteq Nat /\ 0 .. x \subseteq Nat
      OBVIOUS
    <3>4. <<0 .. y, 0 .. x>> \in StrictSubsetOrdering(Nat)
      BY <3>2, <3>3 DEF StrictSubsetOrdering
    <3> QED
      BY <2>3, <2>4, <3>1, <3>4
  <2> QED
    BY <2>5
<1> QED
  BY <1>1 DEF Least

\* A finite one has a greatest, which few of it are above.
LEMMA GreatestExists ==
    ASSUME NEW S \in SUBSET Nat, S # {}, IsFiniteSet(S)
    PROVE  \E p \in S : \A q \in S : q =< p
<1> DEFINE above(p) == {q \in S : q > p}
           T == {above(p) : p \in S}
<1>1. IsWellFoundedOn(StrictSubsetOrdering(Nat), FiniteSubsetsOf(Nat))
  BY FS_StrictSubsetOrderingWellFounded
<1>2. T \subseteq FiniteSubsetsOf(Nat) /\ T # {}
  <2>1. \A p \in S : above(p) \in SUBSET S
    OBVIOUS
  <2>2. \A X \in SUBSET S : IsFiniteSet(X)
    BY FS_Subset
  <2> QED
    BY <2>1, <2>2 DEF FiniteSubsetsOf
<1> HIDE DEF T
<1>3. PICK X \in T : \A Y \in T : ~ (<<Y, X>> \in StrictSubsetOrdering(Nat))
  BY <1>1, <1>2, WFMin
<1>4. PICK p \in S : X = above(p)
  BY <1>3 DEF T
<1>5. ASSUME NEW q \in S, q > p PROVE FALSE
  <2>1. above(q) \in T
    BY DEF T
  <2>2. above(q) \subseteq above(p) /\ q \in above(p) /\ q \notin above(q)
    <3>1. p \in Nat /\ q \in Nat /\ \A x \in S : x \in Nat
      BY <1>4
    <3>2. (\A x \in S : x > q => x > p) /\ ~ (q > q)
      BY <1>5, <3>1
    <3> QED
      BY <1>5, <3>2
  <2>3. above(q) \in SUBSET Nat /\ above(p) \in SUBSET Nat
    OBVIOUS
  <2> HIDE DEF above
  <2>4. <<above(q), above(p)>> \in StrictSubsetOrdering(Nat)
    BY <2>2, <2>3 DEF StrictSubsetOrdering
  <2> QED
    BY <1>3, <1>4, <2>1, <2>4
<1>6. \A q \in S : q =< p
  BY <1>4, <1>5
<1> QED
  BY <1>4, <1>6

USE ConstantsAssumption DEF ConstantsAssumption

----------------------------------------------------------------------------
(* The inductive invariant for any number of workers. *)

\* A row that a transaction has written and not committed: its entry is still on
\* the list as it was, and the row says of it what the job may say.
RowFits(pc, row, e) ==
    /\ Active(e)
    /\ row.pair = entry[e].pair /\ row.phone = entry[e].phone
    /\ row.status \in {"waiting", "offered", "expired"}
    /\ row.status = "offered" => row.slot \in Slots
    /\ row.msg = "pending" => row.status = "offered"
    /\ pc = "drain" =>
          /\ entry[e].msg = "pending" /\ row.status = entry[e].status /\ row.slot = entry[e].slot
          /\ row.msg \in {"pending", "sent", "failed"} \/ e \in due
    /\ pc # "drain" => (row.status = "offered" => row.msg = "pending")

\* A transaction between two of its statements.
Fits(k) ==
    /\ k.pc \in {"idle", "cascade", "close"} => k.rows = NoRows
    /\ \A e \in Ids : k.rows[e] # NoRow => RowFits(k.pc, k.rows[e], e)
    /\ k.pc = "drain" => \A e \in k.late : k.rows[e] # NoRow => e \in due
    /\ k.pc = "offer" => k.pairs # {} /\ k.cand \in Ids
    /\ \A s \in Slots : k.grid[s] =< Capacity

TicksFit == \A w \in Workers : Fits(tick[w])

\* No row is written by two.
LocksOK == \A w, u \in Workers : w # u => \A e \in Ids : ~ (e \in Written(w) /\ e \in Written(u))

\* Ids are handed out in order, and the columns of an entry are filled.
EntriesOK ==
    \A e \in Ids :
       /\ entry[e].status = "absent" => \A x \in Ids : e < x => entry[x].status = "absent"
       /\ entry[e].status # "absent" => entry[e].pair \in Pairs /\ entry[e].phone \in Phones
       /\ entry[e].status = "offered" => entry[e].slot \in Slots

TapsOK == \A t \in Taps : tap[t] # NoTap => tap[t].entry \in Ids /\ tap[t].slot \in Slots

BookedOK == \A s \in Slots : IsFiniteSet(booked[s]) /\ Cardinality(booked[s]) =< Capacity

IInv == /\ TypeOK /\ EntriesOK /\ TapsOK /\ BookedOK /\ LocksOK /\ TicksFit
        /\ TextsFollowOffers /\ OneEntryPerPhone

----------------------------------------------------------------------------
(* Rows. *)

\* A row that has ended, gone back or lost its text.
LEMMA CancelledText ==
    ASSUME NEW row \in Row
    PROVE  LET new == cancel_pending_for_entry(row) IN
           /\ new \in Row /\ new.msg # "pending"
           /\ new.status = row.status /\ new.pair = row.pair /\ new.phone = row.phone /\ new.slot = row.slot
           /\ row.msg # "pending" => new.msg = row.msg
           /\ row.msg = "pending" => new.msg = "cancelled"
BY DEF cancel_pending_for_entry, Row, ScheduledMessageStatus

\* _expire's two ways to close an offer: the text that was queued goes with it.
LEMMA ClosedRow ==
    ASSUME NEW row \in Row, NEW status \in {"waiting", "expired"}
    PROVE  LET new == close_offer(row, status) IN
           /\ new \in Row /\ new.msg # "pending"
           /\ new.status = status /\ new.pair = row.pair /\ new.phone = row.phone
           /\ row.msg # "pending" => new.msg = row.msg
           /\ row.msg = "pending" => new.msg = "cancelled"
<1> DEFINE ended == IF status = "waiting" THEN [row EXCEPT !.status = status, !.slot = NONE]
                                          ELSE [row EXCEPT !.status = status]
<1>1. /\ ended \in Row /\ ended.status = status /\ ended.pair = row.pair /\ ended.phone = row.phone
      /\ ended.msg = row.msg
  BY DEF Row, WaitlistEntryStatus
<1>2. close_offer(row, status) = cancel_pending_for_entry(ended)
  BY DEF close_offer
<1> HIDE DEF ended
<1> QED
  BY <1>1, <1>2, CancelledText

\* A claim, a decline and the owner's cancel end an entry and take its queued text along.
LEMMA EndedRow ==
    ASSUME NEW row \in Row, NEW status \in {"claimed", "cancelled"}
    PROVE  LET new == cancel_pending_for_entry([row EXCEPT !.status = status]) IN
           /\ new \in Row /\ new.msg # "pending"
           /\ new.status = status /\ new.pair = row.pair /\ new.phone = row.phone
           /\ row.msg = "sent" => new.msg = "sent"
<1> DEFINE ended == [row EXCEPT !.status = status]
<1>1. /\ ended \in Row /\ ended.status = status /\ ended.pair = row.pair /\ ended.phone = row.phone
      /\ ended.msg = row.msg
  BY DEF Row, WaitlistEntryStatus
<1> HIDE DEF ended
<1>2. ended = [row EXCEPT !.status = status]
  BY DEF ended
<1> QED
  BY <1>1, <1>2, CancelledText

\* The UPDATE of an offer and its queued text.
LEMMA OfferedRow ==
    ASSUME NEW row \in Row, NEW s \in Slots
    PROVE  LET new == insert_text([row EXCEPT !.status = "offered", !.slot = s]) IN
           /\ new \in Row /\ new.msg = "pending" /\ new.status = "offered" /\ new.slot = s
           /\ new.pair = row.pair /\ new.phone = row.phone
BY DEF insert_text, Row, WaitlistEntryStatus, ScheduledMessageStatus

\* A text that the provider refused is counted.
LEMMA FailedRow ==
    ASSUME NEW row \in Row
    PROVE  LET new == mark_failed(row) IN
           /\ new \in Row /\ new.msg = "failed" /\ new.fails = row.fails + 1
           /\ new.status = row.status /\ new.slot = row.slot
           /\ new.pair = row.pair /\ new.phone = row.phone
<1>1. PICK n \in Nat : n = row.fails + 1
  BY DEF Row
<1>2. mark_failed(row) = [row EXCEPT !.msg = "failed", !.fails = n]
  BY <1>1 DEF mark_failed
<1>3. [row EXCEPT !.msg = "failed", !.fails = n] \in Row
  BY DEF Row, ScheduledMessageStatus
<1> QED
  BY <1>1, <1>2, <1>3 DEF Row

\* A new row of the list.
LEMMA JoinedRow ==
    ASSUME NEW ph \in Phones, NEW p \in Pairs
    PROVE  LET new == [NoRow EXCEPT !.status = "waiting", !.pair = p, !.phone = ph] IN
           /\ new \in Row /\ new.msg = "none" /\ new.status = "waiting" /\ new.pair = p /\ new.phone = ph
BY DEF NoRow, Row, WaitlistEntryStatus, ScheduledMessageStatus

\* What a transaction reads is a table.
LEMMA SeenRows ==
    ASSUME TypeOK, NEW w \in Workers
    PROVE  /\ Seen(w) \in [Ids -> Row]
           /\ \A e \in Ids : Seen(w)[e] = IF tick[w].rows[e] # NoRow THEN tick[w].rows[e] ELSE entry[e]
BY DEF TypeOK, Tick, Seen, Written

----------------------------------------------------------------------------
(* The kinds of step. *)

\* A statement of a job that is not its commit.
LEMMA WriteStep ==
    ASSUME IInv, NEW w \in Workers, NEW k \in Tick, tick' = [tick EXCEPT ![w] = k], Fits(k),
           UNCHANGED <<entry, due, booked, open, today, tap>>,
           inbox' \subseteq Ids, events' \in 0 .. MaxEvents,
           \A u \in Workers \ {w}, e \in Ids : tick[u].rows[e] # NoRow => k.rows[e] = NoRow
    PROVE  IInv'
<1> USE DEF IInv
<1>1. tick'[w] = k /\ \A u \in Workers \ {w} : tick'[u] = tick[u]
  BY DEF TypeOK
<1>2. TypeOK'
  BY DEF TypeOK
<1>3. \A j : Fits(j)' <=> Fits(j)
  BY DEF Fits, RowFits, Active
<1>4. TicksFit'
  BY <1>1, <1>3 DEF TicksFit
<1>5. LocksOK'
  BY <1>1 DEF LocksOK, Written
<1>6. EntriesOK' /\ TapsOK' /\ BookedOK' /\ TextsFollowOffers' /\ OneEntryPerPhone'
  BY DEF EntriesOK, TapsOK, BookedOK, TextsFollowOffers, NoDeadText, OfferIsTexted, OneEntryPerPhone, Active
<1> QED
  BY <1>2, <1>4, <1>5, <1>6

\* What time, bookings and the first read of a claim do: the list stays.
LEMMA OutsideStep ==
    ASSUME IInv, UNCHANGED <<entry, tick>>, due \subseteq due', due' \subseteq Ids, inbox' \subseteq Ids,
           booked' \in [Slots -> SUBSET Phones], BookedOK', open' \subseteq Slots, today' \in Nat,
           events' \in 0 .. MaxEvents,
           tap' \in [Taps -> [entry : Ids \cup {0}, slot : Slots \cup {NONE}, intime : BOOLEAN]], TapsOK'
    PROVE  IInv'
<1> USE DEF IInv
<1>1. TypeOK'
  BY DEF TypeOK
<1>2. \A k : Fits(k) => Fits(k)'
  BY DEF Fits, RowFits, Active
<1>3. TicksFit' /\ LocksOK'
  BY <1>2 DEF TicksFit, LocksOK, Written
<1>4. EntriesOK' /\ TextsFollowOffers' /\ OneEntryPerPhone'
  BY DEF EntriesOK, TextsFollowOffers, NoDeadText, OfferIsTexted, OneEntryPerPhone, Active
<1> QED
  BY <1>1, <1>3, <1>4

\* A customer or the owner writes one entry, which no job holds: it joins or ends.
LEMMA EntryStep ==
    ASSUME IInv, NEW e \in Ids, NEW row \in Row, entry' = [entry EXCEPT ![e] = row],
           \A w \in Workers : tick[w].rows[e] = NoRow,
           row.status \in {"waiting", "claimed", "cancelled"}, row.msg # "pending",
           row.pair \in Pairs, row.phone \in Phones,
           \A x \in Ids : x < e => entry[x].status # "absent",
           row.status = "waiting" =>
              \A x \in Ids : Active(x) => ~ (entry[x].phone = row.phone /\ entry[x].pair = row.pair),
           due' \subseteq due, due \subseteq due' \union {e}, inbox' \subseteq inbox,
           booked' \in [Slots -> SUBSET Phones], BookedOK',
           tap' \in [Taps -> [entry : Ids \cup {0}, slot : Slots \cup {NONE}, intime : BOOLEAN]], TapsOK',
           UNCHANGED <<open, today, tick, events>>
    PROVE  IInv'
<1> USE DEF IInv
<1>1. entry'[e] = row /\ \A x \in Ids \ {e} : entry'[x] = entry[x]
  BY DEF TypeOK
<1>2. TypeOK'
  BY DEF TypeOK
<1>3. EntriesOK'
  BY <1>1 DEF EntriesOK, Ids
<1>4. LocksOK'
  BY DEF LocksOK, Written
<1>5. TicksFit'
  <2> SUFFICES ASSUME NEW w \in Workers PROVE Fits(tick[w])'
    BY DEF TicksFit
  <2>1. Fits(tick[w])
    BY DEF TicksFit
  <2>2. ASSUME NEW x \in Ids, tick[w].rows[x] # NoRow
        PROVE  RowFits(tick[w].pc, tick[w].rows[x], x)'
    <3>1. x # e /\ entry'[x] = entry[x] /\ (x \in due' <=> x \in due)
      BY <1>1, <2>2
    <3>2. RowFits(tick[w].pc, tick[w].rows[x], x)
      BY <2>1, <2>2 DEF Fits
    <3> QED
      BY <3>1, <3>2 DEF RowFits, Active
  <2> QED
    BY <2>1, <2>2 DEF Fits
<1>6. TextsFollowOffers'
  BY <1>1 DEF TextsFollowOffers, NoDeadText, OfferIsTexted
<1>7. OneEntryPerPhone'
  BY <1>1 DEF OneEntryPerPhone, Active
<1> QED
  BY <1>2, <1>3, <1>4, <1>5, <1>6, <1>7

\* The commit of a job.
LEMMA CommitStep ==
    ASSUME IInv, NEW w \in Workers, entry' = Seen(w),
           NEW k \in Tick, tick' = [tick EXCEPT ![w] = k], k.rows = NoRows, k.pc # "offer",
           \A s \in Slots : k.grid[s] =< Capacity,
           due' \subseteq Ids, inbox' \subseteq Ids,
           \A e \in Ids : tick[w].rows[e] = NoRow => (e \in due' <=> e \in due),
           \A e \in Ids : tick[w].rows[e] # NoRow /\ tick[w].rows[e].status = "offered" /\ e \notin due'
                             => tick[w].rows[e].msg \in {"pending", "sent", "failed"},
           tap' \in [Taps -> [entry : Ids \cup {0}, slot : Slots \cup {NONE}, intime : BOOLEAN]], TapsOK',
           UNCHANGED <<booked, open, today, events>>
    PROVE  IInv'
<1> USE DEF IInv
<1>1. tick'[w] = k /\ \A u \in Workers \ {w} : tick'[u] = tick[u]
  BY DEF TypeOK
<1>2. \A e \in Ids : entry'[e] = IF tick[w].rows[e] # NoRow THEN tick[w].rows[e] ELSE entry[e]
  BY SeenRows
<1>3. \A e \in Ids : tick[w].rows[e] # NoRow => RowFits(tick[w].pc, tick[w].rows[e], e)
  BY DEF TicksFit, Fits
<1>4. TypeOK'
  <2>1. entry' \in [Ids -> Row]
    BY SeenRows
  <2> QED
    BY <2>1 DEF TypeOK
<1>5. EntriesOK'
  <2>1. \A e \in Ids : entry'[e].status = "absent" <=> entry[e].status = "absent"
    BY <1>2, <1>3 DEF RowFits, Active
  <2> QED
    BY <1>2, <1>3, <2>1 DEF EntriesOK, RowFits, Active
<1>6. \A e \in Ids : NoRows[e] = NoRow
  BY DEF NoRows
<1>7. LocksOK'
  BY <1>1, <1>6 DEF LocksOK, Written
<1>8. TicksFit'
  <2> SUFFICES ASSUME NEW u \in Workers PROVE Fits(tick[u])'
    BY DEF TicksFit
  <2>1. CASE u = w
    BY <1>1, <1>6, <2>1 DEF Fits, Tick
  <2>2. CASE u # w
    <3>1. Fits(tick[u]) /\ tick'[u] = tick[u]
      BY <1>1, <2>2 DEF TicksFit
    <3>2. ASSUME NEW x \in Ids, tick[u].rows[x] # NoRow
          PROVE  RowFits(tick[u].pc, tick[u].rows[x], x)'
      <4>1. tick[w].rows[x] = NoRow
        BY <2>2, <3>2 DEF LocksOK, Written
      <4>2. entry'[x] = entry[x] /\ (x \in due' <=> x \in due)
        BY <1>2, <4>1
      <4>3. RowFits(tick[u].pc, tick[u].rows[x], x)
        BY <3>1, <3>2 DEF Fits
      <4> QED
        BY <3>1, <4>2, <4>3 DEF RowFits, Active
    <3>3. ASSUME NEW x \in tick[u].late, tick[u].rows[x] # NoRow, x \in due PROVE x \in due'
      <4>1. x \in Ids
        BY DEF TypeOK, Tick
      <4>2. tick[w].rows[x] = NoRow
        BY <2>2, <3>3, <4>1 DEF LocksOK, Written
      <4> QED
        BY <3>3, <4>1, <4>2
    <3> QED
      BY <3>1, <3>2, <3>3 DEF Fits
  <2> QED
    BY <2>1, <2>2
<1>9. TextsFollowOffers'
  <2>1. NoDeadText'
    BY <1>2, <1>3 DEF TextsFollowOffers, NoDeadText, RowFits
  <2>2. OfferIsTexted'
    BY <1>2 DEF TextsFollowOffers, OfferIsTexted
  <2> QED
    BY <2>1, <2>2 DEF TextsFollowOffers
<1>10. OneEntryPerPhone'
  <2>1. \A e \in Ids : /\ entry'[e].phone = entry[e].phone /\ entry'[e].pair = entry[e].pair
                       /\ Active(e)' => Active(e)
    BY <1>2, <1>3 DEF RowFits, Active
  <2> QED
    BY <2>1 DEF OneEntryPerPhone
<1>11. BookedOK'
  BY DEF BookedOK
<1> QED
  BY <1>4, <1>5, <1>7, <1>8, <1>9, <1>10, <1>11

----------------------------------------------------------------------------
(* Customers, the owner and time. *)

\* Whom no job holds.
LEMMA Unlocked ==
    ASSUME NEW e \in Ids, ~ Locked(e, NONE)
    PROVE  \A w \in Workers : tick[w].rows[e] = NoRow
BY DEF Locked, Written

\* A new entry takes the least id that no row has.
LEMMA JoinKeeps ==
    ASSUME IInv, NEW ph \in Phones, NEW p \in Pairs, Join(ph, p)
    PROVE  IInv'
<1> DEFINE fresh == {e \in Ids : entry[e].status = "absent"}
           row == [NoRow EXCEPT !.status = "waiting", !.pair = p, !.phone = ph]
<1>1. PICK e : e = Least(fresh)
  OBVIOUS
<1>2. e \in Ids /\ entry[e].status = "absent" /\ \A x \in Ids : x < e => entry[x].status # "absent"
  <2>1. fresh \in SUBSET Nat /\ fresh # {}
    BY DEF Join, Ids
  <2>2. e \in fresh /\ \A y \in fresh : e =< y
    BY <1>1, <2>1, LeastIs
  <2>3. \A x \in Ids : x \in Nat /\ e \in Nat
    BY <2>2 DEF Ids
  <2> QED
    BY <2>2, <2>3
<1>3. /\ row \in Row /\ row.msg = "none" /\ row.status = "waiting" /\ row.pair = p /\ row.phone = ph
      /\ entry' = [entry EXCEPT ![e] = row]
  <2>1. entry' = [entry EXCEPT ![e] = row]
    BY <1>1 DEF Join
  <2>2. /\ row \in Row /\ row.msg = "none" /\ row.status = "waiting" /\ row.pair = p /\ row.phone = ph
    BY JoinedRow
  <2> QED
    BY <2>1, <2>2
<1>4. UNCHANGED <<due, inbox, booked, open, today, tap, tick, events>>
  BY DEF Join
<1>5. \A x \in Ids : Active(x) => ~ (entry[x].phone = ph /\ entry[x].pair = p)
  BY DEF Join, Joinable
<1>6. \A w \in Workers : tick[w].rows[e] = NoRow
  BY <1>2 DEF IInv, TicksFit, Fits, RowFits, Active
<1> HIDE DEF row
<1>7. BookedOK' /\ TapsOK'
  BY <1>4 DEF IInv, BookedOK, TapsOK
<1> QED
  BY <1>2, <1>3, <1>4, <1>5, <1>6, <1>7, EntryStep DEF IInv, TypeOK

\* The owner's cancel and the customer's decline.
LEMMA CancelKeeps ==
    ASSUME IInv, NEW e \in Ids, cancel(e)
    PROVE  IInv'
<1> DEFINE row == cancel_pending_for_entry([entry[e] EXCEPT !.status = "cancelled"])
<1>1. entry[e] \in Row /\ entry[e].status # "absent" /\ entry[e].pair \in Pairs /\ entry[e].phone \in Phones
  BY DEF cancel, Active, IInv, TypeOK, EntriesOK
<1>2. /\ row \in Row /\ row.msg # "pending" /\ row.status = "cancelled"
      /\ row.pair = entry[e].pair /\ row.phone = entry[e].phone
  BY <1>1, EndedRow
<1>3. /\ entry' = [entry EXCEPT ![e] = row] /\ due' = due \ {e} /\ inbox' = inbox \ {e}
      /\ UNCHANGED <<booked, open, today, tap, tick, events>> /\ ~ Locked(e, NONE)
  BY DEF cancel
<1> HIDE DEF row
<1>4. \A x \in Ids : x < e => entry[x].status # "absent"
  BY <1>1 DEF IInv, EntriesOK
<1>5. BookedOK' /\ TapsOK'
  BY <1>3 DEF IInv, BookedOK, TapsOK
<1> QED
  BY <1>1, <1>2, <1>3, <1>4, <1>5, Unlocked, EntryStep DEF IInv, TypeOK

\* A booking takes a seat, where one is free.
LEMMA SeatTaken ==
    ASSUME IInv, NEW s \in Slots, NEW ph \in Phones, Cardinality(booked[s]) < Capacity,
           booked' = [booked EXCEPT ![s] = booked[s] \cup {ph}]
    PROVE  booked' \in [Slots -> SUBSET Phones] /\ BookedOK'
<1>1. booked \in [Slots -> SUBSET Phones] /\ IsFiniteSet(booked[s])
  BY DEF IInv, TypeOK, BookedOK
<1>2. IsFiniteSet(booked[s] \cup {ph}) /\ Cardinality(booked[s] \cup {ph}) =< Capacity
  <2>1. /\ IsFiniteSet(booked[s] \cup {ph})
        /\ Cardinality(booked[s] \cup {ph}) = IF ph \in booked[s] THEN Cardinality(booked[s])
                                              ELSE Cardinality(booked[s]) + 1
    BY <1>1, FS_AddElement
  <2>2. Cardinality(booked[s]) \in Nat
    BY <1>1, FS_CardinalityType
  <2> QED
    BY <2>1, <2>2
<1> QED
  BY <1>1, <1>2 DEF IInv, BookedOK

\* A cancellation, a move or the sweep frees a seat.
LEMMA SeatFreed ==
    ASSUME IInv, NEW s \in Slots, NEW ph, booked' = [booked EXCEPT ![s] = booked[s] \ {ph}]
    PROVE  booked' \in [Slots -> SUBSET Phones] /\ BookedOK'
<1>1. booked \in [Slots -> SUBSET Phones] /\ IsFiniteSet(booked[s]) /\ Cardinality(booked[s]) =< Capacity
  BY DEF IInv, TypeOK, BookedOK
<1>2. IsFiniteSet(booked[s] \ {ph}) /\ Cardinality(booked[s] \ {ph}) =< Capacity
  <2>1. booked[s] \ {ph} \in SUBSET booked[s]
    OBVIOUS
  <2>2. IsFiniteSet(booked[s] \ {ph}) /\ Cardinality(booked[s] \ {ph}) =< Cardinality(booked[s])
    BY <1>1, <2>1, FS_Subset
  <2>3. Cardinality(booked[s]) \in Nat /\ Cardinality(booked[s] \ {ph}) \in Nat
    BY <1>1, <2>2, FS_CardinalityType
  <2> QED
    BY <1>1, <2>2, <2>3
<1> QED
  BY <1>1, <1>2 DEF IInv, BookedOK

\* A claim: the entry ends and the seat is taken.
LEMMA ClaimKeeps ==
    ASSUME IInv, NEW t \in Taps, claim(t)
    PROVE  IInv'
<1>1. PICK e, s, ph : e = tap[t].entry /\ s = tap[t].slot /\ ph = entry[e].phone
  OBVIOUS
<1>2. e \in Ids /\ s \in Slots
  BY <1>1 DEF claim, IInv, TapsOK
<1> DEFINE row == cancel_pending_for_entry([entry[e] EXCEPT !.status = "claimed"])
<1>3. /\ entry[e] \in Row /\ entry[e].status = "offered" /\ entry[e].pair \in Pairs /\ ph \in Phones
  BY <1>1, <1>2 DEF claim, ClaimGuard, IInv, TypeOK, EntriesOK
<1>4. /\ row \in Row /\ row.msg # "pending" /\ row.status = "claimed"
      /\ row.pair = entry[e].pair /\ row.phone = ph
  BY <1>1, <1>3, EndedRow
<1>5. /\ entry' = [entry EXCEPT ![e] = row] /\ due' = due \ {e} /\ inbox' = inbox \ {e}
      /\ booked' = [booked EXCEPT ![s] = booked[s] \cup {ph}] /\ Cardinality(booked[s]) < Capacity
      /\ tap' = [tap EXCEPT ![t] = NoTap]
      /\ UNCHANGED <<open, today, tick, events>> /\ ~ Locked(e, NONE)
  BY <1>1 DEF claim, SeatGuard
<1> HIDE DEF row
<1>6. \A x \in Ids : x < e => entry[x].status # "absent"
  BY <1>2, <1>3 DEF IInv, EntriesOK
<1>7. booked' \in [Slots -> SUBSET Phones] /\ BookedOK'
  BY <1>2, <1>3, <1>5, SeatTaken
<1>8. /\ tap' \in [Taps -> [entry : Ids \cup {0}, slot : Slots \cup {NONE}, intime : BOOLEAN]]
      /\ TapsOK'
  <2>1. NoTap \in [entry : Ids \cup {0}, slot : Slots \cup {NONE}, intime : BOOLEAN]
    BY DEF NoTap
  <2> QED
    BY <1>5, <2>1 DEF IInv, TypeOK, TapsOK
<1> QED
  BY <1>2, <1>3, <1>4, <1>5, <1>6, <1>7, <1>8, Unlocked, EntryStep

\* The rest of what customers do, of the boutique and of time.
LEMMA OutsideKeeps ==
    ASSUME IInv,
           \/ \E t \in Taps : claim_refused(t) \/ \E e \in Ids : claim_resolve(t, e)
           \/ \E ph \in Phones, s \in Slots : DirectBook(ph, s) \/ FreeSeat(ph, s)
           \/ Time
           \/ UNCHANGED vars
    PROVE  IInv'
<1> USE DEF IInv
<1>0. booked' = booked => BookedOK'
  BY DEF BookedOK
<1>1. ASSUME NEW t \in Taps, NEW k \in [entry : Ids \cup {0}, slot : Slots \cup {NONE}, intime : BOOLEAN],
             tap' = [tap EXCEPT ![t] = k], k # NoTap => k.entry \in Ids /\ k.slot \in Slots
      PROVE  /\ tap' \in [Taps -> [entry : Ids \cup {0}, slot : Slots \cup {NONE}, intime : BOOLEAN]]
             /\ TapsOK'
  BY <1>1 DEF TypeOK, TapsOK
<1>2. ASSUME NEW t \in Taps, claim_refused(t) PROVE IInv'
  <2>1. NoTap \in [entry : Ids \cup {0}, slot : Slots \cup {NONE}, intime : BOOLEAN]
    BY DEF NoTap
  <2>2. tap' = [tap EXCEPT ![t] = NoTap] /\ UNCHANGED <<entry, due, inbox, booked, open, today, tick, events>>
    BY <1>2 DEF claim_refused
  <2> QED
    BY <1>0, <1>1, <2>1, <2>2, OutsideStep DEF TypeOK
<1>3. ASSUME NEW t \in Taps, NEW e \in Ids, claim_resolve(t, e) PROVE IInv'
  <2> DEFINE k == [entry |-> e, slot |-> entry[e].slot, intime |-> e \notin due]
  <2>1. entry[e].slot \in Slots
    BY <1>3 DEF claim_resolve, EntriesOK
  <2>2. PICK b \in BOOLEAN : b = (e \notin due)
    OBVIOUS
  <2>3. k.entry = e /\ k.slot = entry[e].slot /\ k \in [entry : Ids \cup {0}, slot : Slots \cup {NONE}, intime : BOOLEAN]
    BY <2>1, <2>2
  <2>4. tap' = [tap EXCEPT ![t] = k] /\ UNCHANGED <<entry, due, inbox, booked, open, today, tick, events>>
    BY <1>3 DEF claim_resolve
  <2> HIDE DEF k
  <2>5. /\ tap' \in [Taps -> [entry : Ids \cup {0}, slot : Slots \cup {NONE}, intime : BOOLEAN]]
        /\ TapsOK'
    BY <1>1, <2>1, <2>3, <2>4
  <2> QED
    BY <1>0, <2>4, <2>5, OutsideStep DEF TypeOK
<1>4. tap' = tap => TapsOK'
  BY DEF TapsOK
<1>5. ASSUME NEW ph \in Phones, NEW s \in Slots, DirectBook(ph, s) \/ FreeSeat(ph, s) PROVE IInv'
  <2>1. booked' \in [Slots -> SUBSET Phones] /\ BookedOK'
    BY <1>5, SeatTaken, SeatFreed DEF DirectBook, FreeSeat
  <2>2. events' \in 0 .. MaxEvents /\ UNCHANGED <<entry, due, inbox, open, today, tap, tick>>
    BY <1>5 DEF DirectBook, FreeSeat, Event, TypeOK
  <2> QED
    BY <1>4, <2>1, <2>2, OutsideStep DEF TypeOK
<1>6. ASSUME Time PROVE IInv'
  <2> SUFFICES /\ UNCHANGED <<entry, inbox, booked, tap, tick>> /\ due \subseteq due' /\ due' \subseteq Ids
               /\ open' \subseteq Slots /\ today' \in Nat /\ events' \in 0 .. MaxEvents
    BY <1>0, <1>4, OutsideStep DEF TypeOK
  <2>1. CASE \E e \in Ids : OfferRunsOut(e)
    BY <2>1 DEF OfferRunsOut, TypeOK
  <2>2. CASE \E s \in Slots : SlotCloses(s)
    BY <2>2 DEF SlotCloses, Event, TypeOK
  <2>3. CASE DayEnds
    BY <2>3 DEF DayEnds, TypeOK
  <2> QED
    BY <1>6, <2>1, <2>2, <2>3 DEF Time
<1>7. CASE UNCHANGED vars
  BY <1>0, <1>4, <1>7, OutsideStep DEF vars, TypeOK
<1> QED
  BY <1>2, <1>3, <1>5, <1>6, <1>7

----------------------------------------------------------------------------
(* The worker. *)

\* A transaction at its beginning.
LEMMA RestTick ==
    ASSUME NEW pc \in {"idle", "drain", "cascade", "close", "gate", "walk", "offer"}, NEW c \in Pairs \cup {0}
    PROVE  /\ Rest(pc, c) \in Tick /\ Rest(pc, c).pc = pc /\ Rest(pc, c).rows = NoRows
           /\ Rest(pc, c).late = {} /\ Rest(pc, c).pairs = {} /\ Rest(pc, c).grid = NoGrid
           /\ Rest(pc, c).cursor = c
<1>1. NoRow \in Row
  BY DEF NoRow, Row, WaitlistEntryStatus, ScheduledMessageStatus
<1>2. NoRows \in [Ids -> Row] /\ NoGrid \in [Slots -> Nat]
  BY <1>1 DEF NoRows, NoGrid
<1> QED
  BY <1>2 DEF Rest, Tick

\* Nothing is written in it.
LEMMA Unwritten ==
    /\ \A e \in Ids : NoRows[e] = NoRow
    /\ \A s \in Slots : NoGrid[s] = 0 /\ NoGrid[s] =< Capacity
BY DEF NoRows, NoGrid

\* A job fails, or its process.
LEMMA FailsKeeps ==
    ASSUME IInv, NEW w \in Workers, NEW killed \in BOOLEAN, job_fails(w, killed)
    PROVE  IInv'
<1>1. PICK k : k = Rest("idle", IF killed THEN 0 ELSE tick[w].cursor)
  OBVIOUS
<1>2. (IF killed THEN 0 ELSE tick[w].cursor) \in Pairs \cup {0}
  BY DEF IInv, TypeOK, Tick
<1>3. k \in Tick /\ k.pc = "idle" /\ k.rows = NoRows /\ k.grid = NoGrid
  <2>1. PICK c \in Pairs \cup {0} : k = Rest("idle", c)
    BY <1>1, <1>2
  <2>2. "idle" \in {"idle", "drain", "cascade", "close", "gate", "walk", "offer"}
    OBVIOUS
  <2> QED
    BY <2>1, <2>2, RestTick
<1>4. tick' = [tick EXCEPT ![w] = k]
  BY <1>1 DEF job_fails
<1>5. UNCHANGED <<entry, due, inbox, booked, open, today, tap>> /\ events' \in 0 .. MaxEvents
  BY DEF job_fails, Event, IInv, TypeOK
<1>6. Fits(k)
  BY <1>3, Unwritten DEF Fits
<1> QED
  BY <1>3, <1>4, <1>5, <1>6, Unwritten, WriteStep DEF IInv, TypeOK

\* The drain locks the texts that are due: each is about a live offer.
LEMMA DrainClaimKeeps ==
    ASSUME IInv, NEW w \in Workers, drain_claim(w)
    PROVE  IInv'
<1> DEFINE mine == claim_due(w)
           rows == [e \in Ids |-> IF e \in mine THEN entry[e] ELSE NoRow]
           k == [Rest("drain", tick[w].cursor) EXCEPT !.late = due \cap mine, !.rows = rows]
<1>1. tick' = [tick EXCEPT ![w] = k] /\ UNCHANGED <<entry, due, inbox, booked, open, today, tap, events>>
  BY DEF drain_claim
<1>2. \A e \in Ids : e \in mine <=> entry[e].msg = "pending" /\ ~ Locked(e, w)
  BY DEF claim_due
<1>3. tick[w].cursor \in Pairs \cup {0} /\ entry \in [Ids -> Row] /\ due \subseteq Ids
  BY DEF IInv, TypeOK, Tick
<1> HIDE DEF mine
<1>4. rows \in [Ids -> Row] /\ \A e \in Ids : rows[e] = IF e \in mine THEN entry[e] ELSE NoRow
  <2>1. NoRow \in Row
    BY DEF NoRow, Row, WaitlistEntryStatus, ScheduledMessageStatus
  <2> QED
    BY <1>3, <2>1
<1> HIDE DEF rows
<1>5. k \in Tick /\ k.pc = "drain" /\ k.rows = rows /\ k.late = due \cap mine /\ k.grid = NoGrid
  <2>1. due \cap mine \in SUBSET Ids
    BY <1>3
  <2>2. PICK r : r = Rest("drain", tick[w].cursor)
    OBVIOUS
  <2>3. "drain" \in {"idle", "drain", "cascade", "close", "gate", "walk", "offer"}
    OBVIOUS
  <2>4. r \in Tick /\ r.pc = "drain" /\ r.grid = NoGrid
    <3>1. PICK c \in Pairs \cup {0} : r = Rest("drain", c)
      BY <1>3, <2>2
    <3> HIDE DEF k
    <3> QED
      BY <2>3, <3>1, RestTick
  <2>5. k = [r EXCEPT !.late = due \cap mine, !.rows = rows]
    BY <2>2
  <2> HIDE DEF k
  <2> QED
    BY <1>4, <2>1, <2>4, <2>5 DEF Tick
<1> HIDE DEF k
<1>6. ASSUME NEW e \in Ids, rows[e] # NoRow PROVE RowFits("drain", rows[e], e)
  <2>1. rows[e] = entry[e] /\ entry[e].msg = "pending"
    BY <1>2, <1>4, <1>6
  <2>2. entry[e].status = "offered" /\ entry[e].slot \in Slots
    BY <2>1 DEF IInv, TextsFollowOffers, NoDeadText, EntriesOK
  <2> QED
    BY <2>1, <2>2 DEF RowFits, Active
<1>7. Fits(k)
  BY <1>5, <1>6, Unwritten DEF Fits
<1>8. \A u \in Workers \ {w}, e \in Ids : tick[u].rows[e] # NoRow => k.rows[e] = NoRow
  BY <1>2, <1>4, <1>5 DEF Locked, Written
<1> QED
  BY <1>1, <1>5, <1>7, <1>8, WriteStep DEF IInv, TypeOK

\* A statement that writes one row, new or written before.
LEMMA OneRowStep ==
    ASSUME IInv, NEW w \in Workers, NEW e \in Ids, NEW row \in Row, NEW k \in Tick,
           tick' = [tick EXCEPT ![w] = k], k.rows = [tick[w].rows EXCEPT ![e] = row],
           tick[w].pc \notin {"idle", "cascade", "close"},
           k.pc \in {"drain", "walk"}, (k.pc = "drain") <=> (tick[w].pc = "drain"),
           k.late = tick[w].late, \A s \in Slots : k.grid[s] =< Capacity,
           RowFits(k.pc, row, e), k.pc = "drain" => tick[w].rows[e] # NoRow,
           ~ Locked(e, w),
           UNCHANGED <<entry, due, booked, open, today, tap, events>>, inbox' \subseteq Ids
    PROVE  IInv'
<1>1. Fits(tick[w]) /\ tick[w].rows \in [Ids -> Row]
  BY DEF IInv, TicksFit, TypeOK, Tick
<1>2. k.rows[e] = row /\ \A x \in Ids \ {e} : k.rows[x] = tick[w].rows[x]
  BY <1>1
<1>3. \A x \in Ids : k.rows[x] # NoRow => RowFits(k.pc, k.rows[x], x)
  <2>1. \A x \in Ids : \A r : RowFits(tick[w].pc, r, x) => RowFits(k.pc, r, x)
    BY DEF RowFits
  <2> QED
    BY <1>1, <1>2, <2>1 DEF Fits
<1>4. k.pc = "drain" => \A x \in k.late : k.rows[x] # NoRow => x \in due
  <2>1. \A x \in k.late : x \in Ids
    BY DEF Tick
  <2> QED
    BY <1>1, <1>2, <2>1 DEF Fits
<1>5. Fits(k)
  BY <1>3, <1>4 DEF Fits
<1>6. \A u \in Workers \ {w}, x \in Ids : tick[u].rows[x] # NoRow => k.rows[x] = NoRow
  <2> SUFFICES ASSUME NEW u \in Workers \ {w}, NEW x \in Ids, tick[u].rows[x] # NoRow
               PROVE  k.rows[x] = NoRow
    OBVIOUS
  <2>1. x # e
    BY DEF Locked, Written
  <2>2. tick[w].rows[x] = NoRow
    BY DEF IInv, LocksOK, Written
  <2> QED
    BY <1>2, <2>1, <2>2
<1> QED
  BY <1>5, <1>6, WriteStep DEF IInv, TypeOK

\* A row that a job has written is locked by nobody else.
LEMMA OwnLock ==
    ASSUME IInv, NEW w \in Workers, NEW e \in Ids, tick[w].rows[e] # NoRow
    PROVE  ~ Locked(e, w)
BY DEF IInv, LocksOK, Locked, Written

\* The three ends of a queued text.
LEMMA DrainKeeps ==
    ASSUME IInv, NEW w \in Workers, NEW e \in Ids,
           drain_dead(w, e) \/ drain_sent(w, e) \/ drain_failed(w, e)
    PROVE  IInv'
<1> DEFINE old == tick[w].rows[e]
<1>1. tick[w] \in Tick /\ tick[w].pc = "drain" /\ old.msg = "pending" /\ old \in Row
  BY DEF drain_dead, drain_sent, drain_failed, Queued, IInv, TypeOK, Tick
<1>2. old # NoRow
  BY <1>1 DEF NoRow
<1>3. RowFits("drain", old, e) /\ old.status = "offered"
  BY <1>1, <1>2 DEF IInv, TicksFit, Fits, RowFits, TextsFollowOffers, NoDeadText
<1>4. drain_dead(w, e) => e \in due
  BY <1>1, <1>2, <1>3 DEF drain_dead, StillOffered, IInv, TicksFit, Fits
<1>5. PICK row \in Row :
         /\ tick' = [tick EXCEPT ![w] = [tick[w] EXCEPT !.rows = [tick[w].rows EXCEPT ![e] = row]]]
         /\ row.status = old.status /\ row.pair = old.pair /\ row.phone = old.phone /\ row.slot = old.slot
         /\ row.msg \in {"sent", "failed"} \/ (row.msg = "cancelled" /\ e \in due)
  <2>1. CASE drain_dead(w, e)
    <3> DEFINE row == [old EXCEPT !.msg = "cancelled"]
    <3>1. tick' = [tick EXCEPT ![w] = [tick[w] EXCEPT !.rows = [tick[w].rows EXCEPT ![e] = row]]]
      BY <2>1 DEF drain_dead
    <3>2. /\ row \in Row /\ row.status = old.status /\ row.pair = old.pair /\ row.phone = old.phone
          /\ row.slot = old.slot /\ row.msg = "cancelled"
      BY <1>1 DEF Row, ScheduledMessageStatus
    <3> QED
      BY <1>4, <2>1, <3>1, <3>2
  <2>2. CASE drain_sent(w, e)
    <3> DEFINE row == [old EXCEPT !.msg = "sent"]
    <3>1. tick' = [tick EXCEPT ![w] = [tick[w] EXCEPT !.rows = [tick[w].rows EXCEPT ![e] = row]]]
      BY <2>2 DEF drain_sent
    <3>2. /\ row \in Row /\ row.status = old.status /\ row.pair = old.pair /\ row.phone = old.phone
          /\ row.slot = old.slot /\ row.msg = "sent"
      BY <1>1 DEF Row, ScheduledMessageStatus
    <3> QED
      BY <3>1, <3>2
  <2>3. CASE drain_failed(w, e)
    <3> DEFINE row == mark_failed(old)
    <3>1. tick' = [tick EXCEPT ![w] = [tick[w] EXCEPT !.rows = [tick[w].rows EXCEPT ![e] = row]]]
      BY <2>3 DEF drain_failed
    <3>2. /\ row \in Row /\ row.status = old.status /\ row.pair = old.pair /\ row.phone = old.phone
          /\ row.slot = old.slot /\ row.msg = "failed"
      BY <1>1, FailedRow
    <3> QED
      BY <3>1, <3>2
  <2> QED
    BY <2>1, <2>2, <2>3
<1> DEFINE k == [tick[w] EXCEPT !.rows = [tick[w].rows EXCEPT ![e] = row]]
<1>6. /\ k \in Tick /\ k.rows = [tick[w].rows EXCEPT ![e] = row] /\ k.pc = "drain" /\ k.late = tick[w].late
      /\ k.grid = tick[w].grid
  BY <1>1 DEF Tick
<1>7. tick' = [tick EXCEPT ![w] = k]
  BY <1>5
<1> HIDE DEF k, old
<1>8. RowFits("drain", row, e)
  BY <1>3, <1>5 DEF RowFits
<1>9. UNCHANGED <<entry, due, booked, open, today, tap, events>> /\ inbox' \subseteq Ids
  BY DEF drain_dead, drain_sent, drain_failed, IInv, TypeOK
<1>10. \A s \in Slots : tick[w].grid[s] =< Capacity
  BY DEF IInv, TicksFit, Fits
<1>11. ~ Locked(e, w)
  BY <1>2, OwnLock DEF old
<1>12. tick[w].pc = "drain" /\ tick[w].rows[e] # NoRow
  BY <1>1, <1>2 DEF old
<1>13. \A s \in Slots : k.grid[s] =< Capacity
  BY <1>6, <1>10
<1>14. RowFits(k.pc, row, e)
  BY <1>6, <1>8
<1>15. /\ tick[w].pc \notin {"idle", "cascade", "close"} /\ k.pc \in {"drain", "walk"}
       /\ (k.pc = "drain" <=> tick[w].pc = "drain") /\ (k.pc = "drain" => tick[w].rows[e] # NoRow)
  BY <1>6, <1>12
<1>16. k \in Tick /\ k.rows = [tick[w].rows EXCEPT ![e] = row] /\ k.late = tick[w].late
  BY <1>6
<1> QED
  BY <1>7, <1>9, <1>11, <1>13, <1>14, <1>15, <1>16, OneRowStep

\* A statement that writes no row of the list.
LEMMA NoRowStep ==
    ASSUME IInv, NEW w \in Workers, NEW k \in Tick, tick' = [tick EXCEPT ![w] = k],
           k.rows = tick[w].rows, tick[w].pc \in {"gate", "walk", "offer"}, k.pc \in {"walk", "offer"},
           k.pc = "offer" => k.pairs # {} /\ k.cand \in Ids,
           \A s \in Slots : k.grid[s] =< Capacity,
           UNCHANGED <<entry, due, inbox, booked, open, today, tap, events>>
    PROVE  IInv'
<1>1. Fits(tick[w])
  BY DEF IInv, TicksFit
<1>2. \A x \in Ids : \A r : RowFits(tick[w].pc, r, x) => RowFits(k.pc, r, x)
  BY DEF RowFits
<1>3. Fits(k)
  BY <1>1, <1>2 DEF Fits
<1>4. \A u \in Workers \ {w}, e \in Ids : tick[u].rows[e] # NoRow => k.rows[e] = NoRow
  BY DEF IInv, LocksOK, Written
<1> QED
  BY <1>3, <1>4, WriteStep DEF IInv, TypeOK

\* _expire reads.
LEMMA ExpireReadKeeps ==
    ASSUME IInv, NEW w \in Workers, expire_read(w)
    PROVE  IInv'
<1>1. PICK pc \in {"gate", "close"} : pc = IF due_offers = {} THEN "gate" ELSE "close"
  OBVIOUS
<1>2. PICK c \in Pairs \cup {0} : c = tick[w].cursor
  BY DEF IInv, TypeOK, Tick
<1>3. PICK X \in SUBSET Ids : X = {e \in due_offers : UsedUp(e)}
  BY DEF due_offers, IInv, TypeOK
<1>4. PICK B \in SUBSET Ids : B = {e \in due_offers : ~ UsedUp(e)}
  BY DEF due_offers, IInv, TypeOK
<1>5. PICK r : r = Rest(pc, c)
  OBVIOUS
<1>6. r \in Tick /\ r.pc = pc /\ r.rows = NoRows /\ r.grid = NoGrid
  <2>1. pc \in {"idle", "drain", "cascade", "close", "gate", "walk", "offer"}
    OBVIOUS
  <2> QED
    BY <1>5, <2>1, RestTick
<1> DEFINE k == [r EXCEPT !.open = open, !.expire = X, !.back = B]
<1>7. tick' = [tick EXCEPT ![w] = k] /\ UNCHANGED <<entry, due, inbox, booked, open, today, tap, events>>
  BY <1>1, <1>2, <1>3, <1>4, <1>5 DEF expire_read
<1>8. k \in Tick /\ k.pc = pc /\ k.rows = NoRows /\ k.grid = NoGrid
  BY <1>6 DEF Tick, IInv, TypeOK
<1> HIDE DEF k
<1>9. Fits(k)
  BY <1>8, Unwritten DEF Fits
<1> QED
  BY <1>7, <1>8, <1>9, Unwritten, WriteStep DEF IInv, TypeOK

\* ... and closes the offers that ran out.
LEMMA ExpireCloseKeeps ==
    ASSUME IInv, NEW w \in Workers, expire_close(w)
    PROVE  IInv'
<1>1. PICK X, B : X = StillOpen(tick[w].expire) /\ B = StillOpen(tick[w].back)
  OBVIOUS
<1>2. tick[w] \in Tick /\ entry \in [Ids -> Row] /\ Fits(tick[w])
  BY DEF IInv, TypeOK, TicksFit
<1>3. /\ \A e \in X \cup B : e \in Ids /\ entry[e].status = "offered" /\ ~ Locked(e, w)
  BY <1>1, <1>2 DEF expire_close, StillOpen, Tick
<1> DEFINE R == [e \in Ids |-> IF e \in X THEN close_offer(entry[e], "expired")
                               ELSE IF e \in B THEN close_offer(entry[e], "waiting")
                               ELSE NoRow]
           k == [tick[w] EXCEPT !.pc = "gate", !.expire = {}, !.back = {}, !.rows = R]
<1>4. tick' = [tick EXCEPT ![w] = k] /\ UNCHANGED <<entry, due, inbox, booked, open, today, tap, events>>
  BY <1>1 DEF expire_close
<1>5. \A e \in Ids : /\ R[e] \in Row
                     /\ R[e] # NoRow => /\ e \in X \cup B /\ R[e].msg # "pending"
                                        /\ R[e].status \in {"waiting", "expired"}
                                        /\ R[e].pair = entry[e].pair /\ R[e].phone = entry[e].phone
  <2> SUFFICES ASSUME NEW e \in Ids
               PROVE  /\ R[e] \in Row
                      /\ R[e] # NoRow => /\ e \in X \cup B /\ R[e].msg # "pending"
                                         /\ R[e].status \in {"waiting", "expired"}
                                         /\ R[e].pair = entry[e].pair /\ R[e].phone = entry[e].phone
    OBVIOUS
  <2>1. CASE e \in X
    <3>1. R[e] = close_offer(entry[e], "expired")
      BY <2>1
    <3> HIDE DEF R
    <3> QED
      BY <1>2, <2>1, <3>1, ClosedRow
  <2>2. CASE e \notin X /\ e \in B
    <3>1. R[e] = close_offer(entry[e], "waiting")
      BY <2>2
    <3> HIDE DEF R
    <3> QED
      BY <1>2, <2>2, <3>1, ClosedRow
  <2>3. CASE e \notin X /\ e \notin B
    <3>1. R[e] = NoRow
      BY <2>3
    <3>2. NoRow \in Row
      BY DEF NoRow, Row, WaitlistEntryStatus, ScheduledMessageStatus
    <3> QED
      BY <3>1, <3>2
  <2> QED
    BY <2>1, <2>2, <2>3
<1>6. R \in [Ids -> Row]
  BY <1>5
<1> HIDE DEF R
<1>7. k \in Tick /\ k.pc = "gate" /\ k.rows = R /\ k.grid = tick[w].grid
  BY <1>2, <1>6 DEF Tick
<1> HIDE DEF k
<1>8. \A e \in Ids : R[e] # NoRow => RowFits("gate", R[e], e)
  BY <1>3, <1>5 DEF RowFits, Active
<1>9. Fits(k)
  BY <1>2, <1>7, <1>8 DEF Fits
<1>10. \A u \in Workers \ {w}, e \in Ids : tick[u].rows[e] # NoRow => k.rows[e] = NoRow
  BY <1>3, <1>5, <1>7 DEF Locked, Written
<1> QED
  BY <1>4, <1>7, <1>9, <1>10, WriteStep DEF IInv, TypeOK

\* A page of pairs is finite, and the cursor goes to a pair of it or back.
LEMMA PageCursor ==
    ASSUME IInv, NEW w \in Workers
    PROVE  /\ waiting_pairs(w) \in SUBSET Pairs
           /\ NextCursor(waiting_pairs(w)) \in Pairs \cup {0}
<1>1. PICK page : page = waiting_pairs(w)
  OBVIOUS
<1>2. page \subseteq Pairs /\ \A p \in page : \E e \in Ids : Seen(w)[e].pair = p
  BY <1>1 DEF waiting_pairs, Candidates
<1>3. IsFiniteSet(page)
  <2> DEFINE f == [e \in Ids |-> Seen(w)[e].pair]
             all == {f[e] : e \in Ids}
  <2>1. IsFiniteSet(Ids)
    BY FS_Interval DEF Ids
  <2>2. IsFiniteSet(all)
    <3>1. f \in Surjection(Ids, all)
      BY DEF Surjection
    <3> QED
      BY <2>1, <3>1, FS_Surjection
  <2>3. page \in SUBSET all
    BY <1>2
  <2> QED
    BY <2>2, <2>3, FS_Subset
<1>4. CASE Cardinality(page) < BatchSize
  BY <1>1, <1>2, <1>4 DEF NextCursor
<1>5. CASE ~ (Cardinality(page) < BatchSize)
  <2>1. page # {}
    BY <1>5, FS_EmptySet
  <2>2. \E p \in page : \A q \in page : q =< p
    BY <1>2, <1>3, <2>1, GreatestExists
  <2>3. NextCursor(page) \in page
    BY <1>5, <2>2 DEF NextCursor
  <2> QED
    BY <1>1, <1>2, <2>3
<1> QED
  BY <1>4, <1>5

\* The page is read and the cursor moves.
LEMMA IssueKeeps ==
    ASSUME IInv, NEW w \in Workers, issue(w)
    PROVE  IInv'
<1>1. PICK page \in SUBSET Pairs, c \in Pairs \cup {0} : page = waiting_pairs(w) /\ c = NextCursor(waiting_pairs(w))
  BY PageCursor
<1> DEFINE k == [tick[w] EXCEPT !.pc = "walk", !.pairs = page, !.cursor = c]
<1>2. tick' = [tick EXCEPT ![w] = k] /\ UNCHANGED <<entry, due, inbox, booked, open, today, tap, events>>
  BY <1>1 DEF issue
<1>3. tick[w] \in Tick /\ Fits(tick[w]) /\ tick[w].pc = "gate"
  BY DEF issue, IInv, TypeOK, TicksFit
<1>4. k \in Tick /\ k.pc = "walk" /\ k.rows = tick[w].rows /\ k.grid = tick[w].grid
  BY <1>3 DEF Tick
<1> HIDE DEF k
<1>5. \A s \in Slots : k.grid[s] =< Capacity
  BY <1>3, <1>4 DEF Fits
<1> QED
  BY <1>2, <1>3, <1>4, <1>5, NoRowStep

\* The grid that is read.
LEMMA GridIs ==
    ASSUME IInv, NEW d
    PROVE  day_slots(d) \in [Slots -> Nat] /\ \A s \in Slots : day_slots(d)[s] =< Capacity
<1>1. \A s \in Slots : Capacity - Cardinality(booked[s]) \in Nat /\ Capacity - Cardinality(booked[s]) =< Capacity
  <2>1. \A s \in Slots : Cardinality(booked[s]) \in Nat /\ Cardinality(booked[s]) =< Capacity
    BY FS_CardinalityType DEF IInv, BookedOK
  <2> QED
    BY <2>1
<1> QED
  BY <1>1 DEF day_slots

\* _offer_one reads the oldest entry and the grid.
LEMMA OfferReadKeeps ==
    ASSUME IInv, NEW w \in Workers, offer_read(w)
    PROVE  IInv'
<1>1. PICK p : p = Least(tick[w].pairs)
  OBVIOUS
<1>2. /\ tick[w].pc = "walk" /\ tick[w].pairs # {} /\ tick[w] \in Tick /\ Fits(tick[w])
      /\ UNCHANGED <<entry, due, inbox, booked, open, today, tap, events>>
  BY DEF offer_read, IInv, TypeOK, TicksFit
<1>3. CASE \E e \in oldest_waiting(w, p) :
             tick' = [tick EXCEPT ![w].pc = "offer", ![w].cand = e, ![w].grid = day_slots(PairDay[p])]
  <2>1. PICK e \in Ids : tick' = [tick EXCEPT ![w].pc = "offer", ![w].cand = e,
                                              ![w].grid = day_slots(PairDay[p])]
    BY <1>3 DEF oldest_waiting
  <2>2. PICK grid \in [Slots -> Nat] : grid = day_slots(PairDay[p]) /\ \A s \in Slots : grid[s] =< Capacity
    BY GridIs
  <2> DEFINE k == [tick[w] EXCEPT !.pc = "offer", !.cand = e, !.grid = grid]
  <2>3. tick' = [tick EXCEPT ![w] = k]
    BY <2>1, <2>2
  <2>4. /\ k \in Tick /\ k.pc = "offer" /\ k.rows = tick[w].rows /\ k.grid = grid /\ k.cand = e
        /\ k.pairs = tick[w].pairs
    BY <1>2 DEF Tick
  <2> HIDE DEF k
  <2> QED
    BY <1>2, <2>2, <2>3, <2>4, NoRowStep
<1>4. CASE tick' = [tick EXCEPT ![w].pairs = @ \ {p}]
  <2> DEFINE k == [tick[w] EXCEPT !.pairs = tick[w].pairs \ {p}]
  <2>1. tick' = [tick EXCEPT ![w] = k]
    BY <1>4
  <2>2. k \in Tick /\ k.pc = "walk" /\ k.rows = tick[w].rows /\ k.grid = tick[w].grid
    BY <1>2 DEF Tick
  <2> HIDE DEF k
  <2>3. \A s \in Slots : k.grid[s] =< Capacity
    BY <1>2, <2>2 DEF Fits
  <2> QED
    BY <1>2, <2>1, <2>2, <2>3, NoRowStep
<1> QED
  BY <1>1, <1>3, <1>4 DEF offer_read

\* One entry is offered a slot, or none is.
LEMMA OfferKeeps ==
    ASSUME IInv, NEW w \in Workers, offer(w)
    PROVE  IInv'
<1>1. PICK e, P : e = tick[w].cand /\ P = tick[w].pairs \ {Least(tick[w].pairs)}
  OBVIOUS
<1>2. /\ tick[w].pc = "offer" /\ tick[w] \in Tick /\ Fits(tick[w]) /\ e \in Ids
      /\ UNCHANGED <<entry, due, inbox, booked, open, today, tap, events>>
  BY <1>1 DEF offer, IInv, TypeOK, TicksFit, Fits
<1> DEFINE done == [tick[w] EXCEPT !.pc = "walk", !.pairs = P, !.cand = 0, !.grid = NoGrid]
<1>3. /\ done \in Tick /\ done.pc = "walk" /\ done.rows = tick[w].rows /\ done.late = tick[w].late
      /\ done.grid = NoGrid
  <2>1. NoGrid \in [Slots -> Nat]
    BY DEF NoGrid
  <2>2. P \in SUBSET Pairs
    BY <1>1, <1>2 DEF Tick
  <2> QED
    BY <1>2, <2>1, <2>2 DEF Tick
<1>4. CASE tick' = [tick EXCEPT ![w] = done]
  <2> HIDE DEF done
  <2>1. \A s \in Slots : done.grid[s] =< Capacity
    BY <1>3, Unwritten
  <2> QED
    BY <1>2, <1>3, <1>4, <2>1, NoRowStep
<1>5. CASE \E s \in SlotToOffer(w) :
             /\ ~ Locked(e, w) /\ OfferGuard(w, e)
             /\ tick' = [tick EXCEPT ![w] = [done EXCEPT !.rows[e] =
                            insert_text([Seen(w)[e] EXCEPT !.status = "offered", !.slot = s])]]
  <2>1. PICK s \in SlotToOffer(w) :
             /\ ~ Locked(e, w) /\ OfferGuard(w, e)
             /\ tick' = [tick EXCEPT ![w] = [done EXCEPT !.rows[e] =
                            insert_text([Seen(w)[e] EXCEPT !.status = "offered", !.slot = s])]]
    BY <1>5
  <2>2. s \in Slots
    BY <1>2 DEF SlotToOffer, Tick
  <2>3. PICK old \in Row : old = Seen(w)[e]
    BY <1>2, SeenRows DEF IInv
  <2>4. /\ Active(e) /\ old.pair = entry[e].pair /\ old.phone = entry[e].phone
    <3>1. CASE tick[w].rows[e] # NoRow
      <4>1. RowFits("offer", tick[w].rows[e], e)
        BY <1>2, <3>1 DEF Fits
      <4>2. old = tick[w].rows[e]
        BY <1>2, <2>3, <3>1, SeenRows DEF IInv
      <4> QED
        BY <4>1, <4>2 DEF RowFits
    <3>2. CASE tick[w].rows[e] = NoRow
      <4>1. old = entry[e]
        BY <1>2, <2>3, <3>2, SeenRows DEF IInv
      <4>2. entry[e].status = "waiting"
        BY <2>1, <2>3, <4>1 DEF OfferGuard
      <4> QED
        BY <4>1, <4>2 DEF Active
    <3> QED
      BY <3>1, <3>2
  <2>5. PICK row \in Row : /\ row = insert_text([old EXCEPT !.status = "offered", !.slot = s])
                           /\ row.msg = "pending" /\ row.status = "offered" /\ row.slot = s
                           /\ row.pair = old.pair /\ row.phone = old.phone
    <3> DEFINE new == insert_text([old EXCEPT !.status = "offered", !.slot = s])
    <3>1. /\ new \in Row /\ new.msg = "pending" /\ new.status = "offered" /\ new.slot = s
          /\ new.pair = old.pair /\ new.phone = old.phone
      BY <2>2, OfferedRow
    <3>2. new = insert_text([old EXCEPT !.status = "offered", !.slot = s])
      OBVIOUS
    <3> HIDE DEF new
    <3> QED
      BY <3>1, <3>2
  <2>6. tick' = [tick EXCEPT ![w] = [done EXCEPT !.rows[e] = row]]
    BY <2>1, <2>3, <2>5
  <2> HIDE DEF done
  <2> DEFINE k == [done EXCEPT !.rows[e] = row]
  <2>7. /\ k \in Tick /\ k.pc = "walk" /\ k.rows = [tick[w].rows EXCEPT ![e] = row] /\ k.late = tick[w].late
        /\ k.grid = NoGrid
    BY <1>2, <1>3 DEF Tick
  <2>8. tick' = [tick EXCEPT ![w] = k]
    BY <2>6
  <2> HIDE DEF k
  <2>9. RowFits(k.pc, row, e)
    BY <2>2, <2>4, <2>5, <2>7 DEF RowFits
  <2>10. \A s1 \in Slots : k.grid[s1] =< Capacity
    BY <2>7, Unwritten
  <2>11. /\ tick[w].pc \notin {"idle", "cascade", "close"} /\ k.pc \in {"drain", "walk"}
         /\ (k.pc = "drain" <=> tick[w].pc = "drain") /\ (k.pc = "drain" => tick[w].rows[e] # NoRow)
    BY <1>2, <2>7
  <2>12. ~ Locked(e, w) /\ inbox' \subseteq Ids
    BY <1>2, <2>1 DEF IInv, TypeOK
  <2> QED
    BY <1>2, <2>7, <2>8, <2>9, <2>10, <2>11, <2>12, OneRowStep
<1> QED
  BY <1>1, <1>4, <1>5 DEF offer

\* The drain commits.
LEMMA DrainCommitKeeps ==
    ASSUME IInv, NEW w \in Workers, drain_commit(w)
    PROVE  IInv'
<1>1. PICK k, c : k = Rest("cascade", c) /\ c = tick[w].cursor
  OBVIOUS
<1>2. k \in Tick /\ k.pc = "cascade" /\ k.rows = NoRows /\ k.grid = NoGrid
  <2>1. c \in Pairs \cup {0} /\ "cascade" \in {"idle", "drain", "cascade", "close", "gate", "walk", "offer"}
    BY <1>1 DEF IInv, TypeOK, Tick
  <2> QED
    BY <1>1, <2>1, RestTick
<1>3. /\ entry' = Seen(w) /\ tick' = [tick EXCEPT ![w] = k] /\ UNCHANGED <<due, inbox, booked, open, today, tap, events>>
      /\ tick[w].pc = "drain"
  BY <1>1 DEF drain_commit
<1>4. \A e \in Ids : tick[w].rows[e] # NoRow /\ tick[w].rows[e].status = "offered" /\ e \notin due'
                             => tick[w].rows[e].msg \in {"pending", "sent", "failed"}
  BY <1>3 DEF IInv, TicksFit, Fits, RowFits
<1>5. TapsOK'
  BY <1>3 DEF IInv, TapsOK
<1>6. \A s \in Slots : k.grid[s] =< Capacity
  BY <1>2, Unwritten
<1>7. k.pc # "offer"
  BY <1>2
<1>8. /\ due' \subseteq Ids /\ inbox' \subseteq Ids
      /\ tap' \in [Taps -> [entry : Ids \cup {0}, slot : Slots \cup {NONE}, intime : BOOLEAN]]
  BY <1>3 DEF IInv, TypeOK
<1> QED
  BY <1>2, <1>3, <1>4, <1>5, <1>6, <1>7, <1>8, CommitStep

\* The cascade commits.
LEMMA CascadeCommitKeeps ==
    ASSUME IInv, NEW w \in Workers, commit(w)
    PROVE  IInv'
<1> DEFINE W == Written(w)
           fresh == {e \in W : tick[w].rows[e].status = "offered"}
<1>1. PICK k, c : k = Rest("idle", c) /\ c = tick[w].cursor
  OBVIOUS
<1>2. k \in Tick /\ k.pc = "idle" /\ k.rows = NoRows /\ k.grid = NoGrid
  <2>1. c \in Pairs \cup {0} /\ "idle" \in {"idle", "drain", "cascade", "close", "gate", "walk", "offer"}
    BY <1>1 DEF IInv, TypeOK, Tick
  <2> QED
    BY <1>1, <2>1, RestTick
<1>3. /\ entry' = Seen(w) /\ tick' = [tick EXCEPT ![w] = k] /\ UNCHANGED <<booked, open, today, events>>
      /\ due' = (due \ W) \cup {e \in fresh : tick[w].rows[e].slot \notin open}
      /\ inbox' = inbox \ W
      /\ tap' = [t \in Taps |-> IF tap[t].entry \in fresh THEN [tap[t] EXCEPT !.intime = TRUE] ELSE tap[t]]
      /\ tick[w].pc # "drain"
  BY <1>1 DEF commit
<1>4. W \subseteq Ids /\ \A e \in Ids : e \in W <=> tick[w].rows[e] # NoRow
  BY DEF Written
<1>5. \A e \in Ids : tick[w].rows[e] # NoRow /\ tick[w].rows[e].status = "offered"
                             => tick[w].rows[e].msg \in {"pending", "sent", "failed"}
  BY <1>3 DEF IInv, TicksFit, Fits, RowFits
<1> HIDE DEF W
<1>6. /\ due' \subseteq Ids /\ inbox' \subseteq Ids
      /\ \A e \in Ids : tick[w].rows[e] = NoRow => (e \in due' <=> e \in due)
  BY <1>3, <1>4 DEF IInv, TypeOK
<1>7. \A t \in Taps : /\ tap[t] \in [entry : Ids \cup {0}, slot : Slots \cup {NONE}, intime : BOOLEAN]
                      /\ tap[t] # NoTap => tap[t].entry \in Ids /\ tap[t].slot \in Slots
                      /\ tap[t] = NoTap => tap[t].entry = 0
  BY DEF IInv, TypeOK, TapsOK, NoTap
<1>8. 0 \notin fresh
  BY <1>4 DEF Ids
<1> HIDE DEF fresh
<1>9. \A t \in Taps :
         /\ tap'[t] \in [entry : Ids \cup {0}, slot : Slots \cup {NONE}, intime : BOOLEAN]
         /\ tap'[t] # NoTap => tap'[t].entry \in Ids /\ tap'[t].slot \in Slots
  BY <1>3, <1>7, <1>8
<1>10. tap' \in [Taps -> [entry : Ids \cup {0}, slot : Slots \cup {NONE}, intime : BOOLEAN]] /\ TapsOK'
  BY <1>3, <1>9 DEF TapsOK
<1>11. \A s \in Slots : k.grid[s] =< Capacity
  BY <1>2, Unwritten
<1>12. k.pc # "offer"
  BY <1>2
<1> QED
  BY <1>2, <1>3, <1>5, <1>6, <1>10, <1>11, <1>12, CommitStep

\* At the beginning.
LEMMA InitHolds == Init => IInv
<1> SUFFICES ASSUME Init PROVE IInv
  OBVIOUS
<1>1. NoRow \in Row /\ \A e \in Ids : NoRows[e] = NoRow
  BY Unwritten DEF NoRow, Row, WaitlistEntryStatus, ScheduledMessageStatus
<1>2. NoRows \in [Ids -> Row]
  BY <1>1 DEF NoRows
<1>3. PICK k : k = Rest("idle", 0)
  OBVIOUS
<1>4. k \in Tick /\ k.pc = "idle" /\ k.rows = NoRows /\ k.grid = NoGrid /\ k.late = {}
  <2>1. 0 \in Pairs \cup {0} /\ "idle" \in {"idle", "drain", "cascade", "close", "gate", "walk", "offer"}
    OBVIOUS
  <2> QED
    BY <1>3, <2>1, RestTick
<1>5. tick = [w \in Workers |-> k]
  BY <1>3 DEF Init
<1>6. today \in Nat
  <2>1. Days \in SUBSET Nat /\ Days # {}
    BY DEF Days
  <2> QED
    BY <2>1, LeastIs DEF Init
<1>7. NoTap \in [entry : Ids \cup {0}, slot : Slots \cup {NONE}, intime : BOOLEAN]
  BY DEF NoTap
<1>8. TypeOK
  BY <1>2, <1>4, <1>5, <1>6, <1>7 DEF Init, TypeOK
<1>9. \A e \in Ids : entry[e].status = "absent" /\ entry[e].msg = "none"
  BY <1>1 DEF Init, NoRow
<1>10. EntriesOK /\ TextsFollowOffers /\ OneEntryPerPhone
  BY <1>9 DEF EntriesOK, TextsFollowOffers, NoDeadText, OfferIsTexted, OneEntryPerPhone, Active
<1>11. TapsOK
  BY DEF Init, TapsOK
<1>12. BookedOK
  BY FS_EmptySet DEF Init, BookedOK
<1>13. LocksOK
  BY <1>1, <1>4, <1>5 DEF LocksOK, Written
<1>14. TicksFit
  BY <1>4, <1>5, Unwritten DEF TicksFit, Fits
<1> QED
  BY <1>8, <1>10, <1>11, <1>12, <1>13, <1>14 DEF IInv

\* Every step.
LEMMA NextKeeps ==
    ASSUME IInv, [Next]_vars
    PROVE  IInv'
<1>1. CASE Customer
  BY <1>1, JoinKeeps, CancelKeeps, ClaimKeeps, OutsideKeeps DEF Customer, decline
<1>2. CASE Boutique
  BY <1>2, CancelKeeps, OutsideKeeps DEF Boutique, cancel_entry
<1>3. CASE Time
  BY <1>3, OutsideKeeps
<1>4. CASE \E w \in Workers : Worker(w)
  BY <1>4, DrainClaimKeeps, DrainKeeps, DrainCommitKeeps, ExpireReadKeeps, ExpireCloseKeeps, IssueKeeps,
     OfferReadKeeps, OfferKeeps, CascadeCommitKeeps DEF Worker, Polls
<1>5. CASE \E w \in Workers, killed \in BOOLEAN : job_fails(w, killed)
  BY <1>5, FailsKeeps
<1>6. CASE UNCHANGED vars
  BY <1>6, OutsideKeeps
<1> QED
  BY <1>1, <1>2, <1>3, <1>4, <1>5, <1>6 DEF Next

\* The invariant holds of every run, whatever the number of workers.
THEOREM InvariantHolds == Spec => []IInv
<1>1. IInv /\ [Next]_vars => IInv'
  BY NextKeeps
<1> QED
  BY InitHolds, <1>1, PTL DEF Spec

\* Texts and offers match.
THEOREM TextsFollow == Spec => []TextsFollowOffers
<1>1. IInv => TextsFollowOffers
  BY DEF IInv
<1> QED
  BY <1>1, InvariantHolds, PTL


----------------------------------------------------------------------------
(* The inductive invariant for one worker.  What its transaction reads is then *)
(* what it commits: no other worker writes in between, and what customers and  *)
(* the owner write meanwhile only takes entries off the list or adds one at    *)
(* its end.                                                                    *)

OneWorker == \A w, u \in Workers : w = u

\* In table T a queue has one live offer and an instant no more than it has seats.
OfferedAt(T, s) == {e \in Ids : T[e].status = "offered" /\ T[e].slot = s}

Orderly(T) ==
    /\ \A e, x \in Ids : T[e].status = "offered" /\ T[x].status = "offered" /\ T[e].pair = T[x].pair => e = x
    /\ \A s \in Slots : Cardinality(OfferedAt(T, s)) =< Capacity

\* Nobody waits who was told of an offer that ran out.
NoSecondTurn == \A e \in Ids : entry[e].status \in {"absent", "waiting"} => entry[e].msg # "sent"

\* What _expire read still holds of the offers it is about to close.
ReadsHold(k) ==
    k.pc = "close" =>
       \A e \in Ids : entry[e].status = "offered" => (e \in k.expire => UsedUp(e)) /\ (e \in k.back => ~ UsedUp(e))

Cascades(k) == k.pc \in {"gate", "walk", "offer"}

\* Whom the cascade expires had her turn, and whom it sends back or offers had not.
TurnsFair(k) ==
    Cascades(k) =>
       \A e \in Ids : k.rows[e] # NoRow =>
          /\ k.rows[e].status = "expired" => /\ entry[e].status = "offered" /\ UsedUp(e)
                                             /\ entry[e].msg = "sent" => k.rows[e].msg = "sent"
          /\ k.rows[e].status # "expired" => entry[e].msg # "sent"
          /\ k.rows[e].status = "waiting" => k.rows[e].msg # "sent"

\* In table T nobody of e's queue waits who came before e.
NoOlder(T, e) == \A x \in Ids : x < e /\ T[x].pair = T[e].pair => T[x].status # "waiting"

\* The pairs of the page have no offer yet, and who is offered is next in her queue.
PageFair(k, T) ==
    /\ k.pc \in {"walk", "offer"} => \A e \in Ids : T[e].status = "offered" => T[e].pair \notin k.pairs
    /\ k.pc = "offer" => /\ T[k.cand].status # "absent" /\ T[k.cand].pair = Least(k.pairs)
                         /\ NoOlder(T, k.cand)
    /\ Cascades(k) => \A e \in Ids : k.rows[e] # NoRow /\ k.rows[e].status = "offered"
                                        => k.pc # "gate" /\ NoOlder(T, e)

JobFair(w) == Orderly(Seen(w)) /\ ReadsHold(tick[w]) /\ TurnsFair(tick[w]) /\ PageFair(tick[w], Seen(w))

SInv == Orderly(entry) /\ NoSecondTurn /\ \A w \in Workers : JobFair(w)


----------------------------------------------------------------------------
(* Tables. *)

\* What a transaction reads, before and after a step.
LEMMA SeenIs ==
    ASSUME NEW w, NEW e \in Ids
    PROVE  /\ Seen(w)[e] = IF tick[w].rows[e] # NoRow THEN tick[w].rows[e] ELSE entry[e]
           /\ Seen(w)'[e] = IF tick'[w].rows[e] # NoRow THEN tick'[w].rows[e] ELSE entry'[e]
BY DEF Seen, Written

\* There are finitely many entries.
LEMMA IdsFinite == IsFiniteSet(Ids) /\ \A S \in SUBSET Ids : IsFiniteSet(S) /\ Cardinality(S) \in Nat
<1>1. IsFiniteSet(Ids)
  BY FS_Interval DEF Ids
<1>2. \A S \in SUBSET Ids : IsFiniteSet(S)
  BY <1>1, FS_Subset
<1> QED
  BY <1>1, <1>2, FS_CardinalityType

\* Fewer offers are as orderly.
LEMMA FewerOffers ==
    ASSUME NEW T, NEW U, Orderly(T),
           \A e \in Ids : U[e].status = "offered" =>
              T[e].status = "offered" /\ T[e].slot = U[e].slot /\ T[e].pair = U[e].pair
    PROVE  Orderly(U)
<1>1. ASSUME NEW s \in Slots PROVE Cardinality(OfferedAt(U, s)) =< Capacity
  <2>1. PICK A, B : A = OfferedAt(U, s) /\ B = OfferedAt(T, s)
    OBVIOUS
  <2>2. A \in SUBSET B /\ B \in SUBSET Ids /\ A \in SUBSET Ids
    BY <2>1 DEF OfferedAt
  <2>3. IsFiniteSet(B) /\ Cardinality(A) \in Nat /\ Cardinality(B) \in Nat
    BY <2>2, IdsFinite
  <2>4. Cardinality(A) =< Cardinality(B)
    BY <2>2, <2>3, FS_Subset
  <2>5. Cardinality(B) =< Capacity
    BY <2>1 DEF Orderly
  <2> QED
    BY <2>1, <2>3, <2>4, <2>5
<1>2. \A e, x \in Ids : U[e].status = "offered" /\ U[x].status = "offered" /\ U[e].pair = U[x].pair => e = x
  BY DEF Orderly
<1> QED
  BY <1>1, <1>2 DEF Orderly

\* One more is, for a queue that has none and where a seat is not spoken for.
LEMMA OneOfferMore ==
    ASSUME NEW T, NEW U, Orderly(T), NEW c \in Ids, NEW at \in Slots,
           \A e \in Ids \ {c} : U[e] = T[e],
           U[c].status = "offered", U[c].slot = at,
           T[c].status # "offered",
           \A e \in Ids : T[e].status = "offered" => T[e].pair # U[c].pair,
           Cardinality(OfferedAt(T, at)) < Capacity
    PROVE  Orderly(U)
<1>1. ASSUME NEW s \in Slots PROVE Cardinality(OfferedAt(U, s)) =< Capacity
  <2>1. PICK A, B : A = OfferedAt(U, s) /\ B = OfferedAt(T, s)
    OBVIOUS
  <2>2. B \in SUBSET Ids /\ c \notin B /\ A = IF s = at THEN B \cup {c} ELSE B
    BY <2>1 DEF OfferedAt
  <2>3. IsFiniteSet(B) /\ Cardinality(B) \in Nat /\ Cardinality(B) =< Capacity
    BY <2>1, <2>2, IdsFinite DEF Orderly
  <2>4. Cardinality(B \cup {c}) = Cardinality(B) + 1
    BY <2>2, <2>3, FS_AddElement
  <2> QED
    BY <2>1, <2>2, <2>3, <2>4
<1>2. \A e, x \in Ids : U[e].status = "offered" /\ U[x].status = "offered" /\ U[e].pair = U[x].pair => e = x
  BY DEF Orderly
<1> QED
  BY <1>1, <1>2 DEF Orderly

----------------------------------------------------------------------------
(* Customers and the owner. *)

Turns == TurnUsedOnce /\ OldestFirst /\ EndIsFinal

\* An entry is added at the end of the list, or leaves it.
Rewritten(e, row) ==
    /\ entry' = [entry EXCEPT ![e] = row] /\ tick' = tick
    /\ \A w \in Workers : tick[w].rows[e] = NoRow
    /\ row.status \in {"waiting", "claimed", "cancelled"}
    /\ row.status = "waiting" => /\ entry[e].status = "absent" /\ row.msg # "sent"
                                 /\ \A x \in Ids : e < x => entry[x].status = "absent"
    /\ row.status # "waiting" => /\ Active(e) /\ row.pair = entry[e].pair
                                 /\ entry[e].msg = "sent" => row.msg = "sent"

\* join adds at the end,
LEMMA JoinRewrites ==
    ASSUME IInv, NEW ph \in Phones, NEW p \in Pairs, Join(ph, p)
    PROVE  \E e \in Ids, row \in Row : Rewritten(e, row)
<1> DEFINE fresh == {e \in Ids : entry[e].status = "absent"}
           row == [NoRow EXCEPT !.status = "waiting", !.pair = p, !.phone = ph]
<1>1. PICK e : e = Least(fresh)
  OBVIOUS
<1>2. e \in Ids /\ entry[e].status = "absent"
  <2>1. fresh \in SUBSET Nat /\ fresh # {}
    BY DEF Join, Ids
  <2> QED
    BY <1>1, <2>1, LeastIs
<1>3. entry' = [entry EXCEPT ![e] = row] /\ tick' = tick
  BY <1>1 DEF Join
<1>4. row \in Row /\ row.msg = "none" /\ row.status = "waiting"
  BY JoinedRow
<1>5. \A x \in Ids : e < x => entry[x].status = "absent"
  BY <1>2 DEF IInv, EntriesOK
<1>6. \A w \in Workers : tick[w].rows[e] = NoRow
  BY <1>2 DEF IInv, TicksFit, Fits, RowFits, Active
<1> HIDE DEF row
<1>7. Rewritten(e, row)
  BY <1>2, <1>3, <1>4, <1>5, <1>6 DEF Rewritten
<1> QED
  BY <1>2, <1>4, <1>7

\* ... the owner's cancel and the customer's decline take one entry off,
LEMMA CancelRewrites ==
    ASSUME IInv, NEW e \in Ids, cancel(e)
    PROVE  \E row \in Row : Rewritten(e, row)
<1> DEFINE row == cancel_pending_for_entry([entry[e] EXCEPT !.status = "cancelled"])
<1>1. entry[e] \in Row /\ Active(e)
  BY DEF cancel, IInv, TypeOK
<1>2. /\ row \in Row /\ row.status = "cancelled" /\ row.pair = entry[e].pair
      /\ entry[e].msg = "sent" => row.msg = "sent"
  BY <1>1, EndedRow
<1>3. entry' = [entry EXCEPT ![e] = row] /\ tick' = tick /\ ~ Locked(e, NONE)
  BY DEF cancel
<1> HIDE DEF row
<1>4. Rewritten(e, row)
  BY <1>1, <1>2, <1>3, Unlocked DEF Rewritten
<1> QED
  BY <1>2, <1>4

\* ... and so does a claim.
LEMMA ClaimRewrites ==
    ASSUME IInv, NEW t \in Taps, claim(t)
    PROVE  \E e \in Ids, row \in Row : Rewritten(e, row)
<1>1. PICK e \in Ids : e = tap[t].entry
  BY DEF claim, IInv, TapsOK
<1> DEFINE row == cancel_pending_for_entry([entry[e] EXCEPT !.status = "claimed"])
<1>2. entry[e] \in Row /\ Active(e)
  BY <1>1 DEF claim, ClaimGuard, Active, IInv, TypeOK
<1>3. /\ row \in Row /\ row.status = "claimed" /\ row.pair = entry[e].pair
      /\ entry[e].msg = "sent" => row.msg = "sent"
  BY <1>2, EndedRow
<1>4. entry' = [entry EXCEPT ![e] = row] /\ tick' = tick /\ ~ Locked(e, NONE)
  BY <1>1 DEF claim
<1> HIDE DEF row
<1>5. Rewritten(e, row)
  BY <1>2, <1>3, <1>4, Unlocked DEF Rewritten
<1> QED
  BY <1>3, <1>5

\* A cascade in progress stays fair.
LEMMA RewriteFair ==
    ASSUME IInv, SInv, NEW e \in Ids, NEW row \in Row, Rewritten(e, row)
    PROVE  SInv'
<1>1. entry'[e] = row /\ (\A x \in Ids \ {e} : entry'[x] = entry[x]) /\ tick' = tick
  BY DEF Rewritten, IInv, TypeOK
<1>2. Orderly(entry')
  <2>1. Orderly(entry)
    BY DEF SInv
  <2>2. \A x \in Ids : entry'[x].status = "offered" => entry'[x] = entry[x]
    BY <1>1 DEF Rewritten
  <2> QED
    BY <2>1, <2>2, FewerOffers
<1>3. NoSecondTurn'
  BY <1>1 DEF SInv, NoSecondTurn, Rewritten
<1>4. ASSUME NEW w \in Workers PROVE JobFair(w)'
  <2>1. PICK T, U, k : T = Seen(w) /\ U = Seen(w)' /\ k = tick[w]
    OBVIOUS
  <2>2. Orderly(T) /\ ReadsHold(k) /\ TurnsFair(k) /\ PageFair(k, T)
    BY <2>1 DEF SInv, JobFair
  <2>3. k.rows[e] = NoRow /\ T[e] = entry[e] /\ U[e] = row
    BY <1>1, <2>1, SeenIs DEF Rewritten
  <2>4. \A x \in Ids \ {e} : U[x] = T[x]
    BY <1>1, <2>1, SeenIs
  <2>5. Orderly(U)
    BY <2>2, <2>3, <2>4, FewerOffers DEF Rewritten
  <2>6. ReadsHold(k)'
    BY <1>1, <2>2 DEF ReadsHold, UsedUp, Rewritten
  <2>7. TurnsFair(k)'
    BY <1>1, <2>2, <2>3 DEF TurnsFair, UsedUp, Cascades
  <2>8. ASSUME NEW c \in Ids, T[c].status # "absent", NoOlder(T, c) PROVE NoOlder(U, c)
    <3> SUFFICES ASSUME NEW x \in Ids, x < c, U[x].pair = U[c].pair PROVE U[x].status # "waiting"
      BY DEF NoOlder
    <3>1. CASE x = e
      <4>1. row.status # "waiting"
        <5>1. ASSUME row.status = "waiting" PROVE FALSE
          <6>1. entry[c].status = "absent"
            BY <3>1, <5>1 DEF Rewritten
          <6>2. T[c] = entry[c]
            BY <2>1, <6>1, SeenIs DEF IInv, TicksFit, Fits, RowFits, Active
          <6> QED
            BY <2>8, <6>1, <6>2
        <5> QED
          BY <5>1
      <4> QED
        BY <2>3, <3>1, <4>1
    <3>2. CASE x # e /\ c # e
      BY <2>4, <2>8, <3>2 DEF NoOlder
    <3>3. CASE x # e /\ c = e
      <4>1. U[c].pair = T[c].pair
        BY <2>3, <2>8, <3>3 DEF Rewritten
      <4> QED
        BY <2>4, <2>8, <3>3, <4>1 DEF NoOlder
    <3> QED
      BY <3>1, <3>2, <3>3
  <2>9. PageFair(k, U)
    <3>1. k.pc \in {"walk", "offer"} => \A x \in Ids : U[x].status = "offered" => U[x].pair \notin k.pairs
      BY <2>2, <2>3, <2>4 DEF PageFair, Rewritten
    <3>2. k.pc = "offer" => k.cand \in Ids
      BY <2>1 DEF IInv, TicksFit, Fits
    <3>3. k.pc = "offer" => /\ U[k.cand].status # "absent" /\ U[k.cand].pair = Least(k.pairs)
                            /\ NoOlder(U, k.cand)
      <4>1. k.pc = "offer" => /\ T[k.cand].status # "absent" /\ T[k.cand].pair = Least(k.pairs)
                              /\ NoOlder(T, k.cand)
        BY <2>2 DEF PageFair
      <4>2. T[e].status # "absent" => U[e].status # "absent" /\ U[e].pair = T[e].pair
        BY <2>3 DEF Rewritten
      <4> QED
        BY <2>4, <2>8, <3>2, <4>1, <4>2
    <3>4. Cascades(k) => \A x \in Ids : k.rows[x] # NoRow /\ k.rows[x].status = "offered"
                                           => k.pc # "gate" /\ NoOlder(U, x)
      <4>1. \A x \in Ids : k.rows[x] # NoRow => T[x] = k.rows[x]
        BY <2>1, SeenIs
      <4> QED
        BY <2>2, <2>8, <4>1 DEF PageFair
    <3> QED
      BY <3>1, <3>3, <3>4 DEF PageFair
  <2>10. tick'[w] = k /\ (Seen(w))' = U
    BY <1>1, <2>1
  <2> QED
    BY <2>5, <2>6, <2>7, <2>9, <2>10 DEF JobFair
<1> QED
  BY <1>2, <1>3, <1>4 DEF SInv

\* ... and no turn is broken.
LEMMA RewriteTurns ==
    ASSUME IInv, NoSecondTurn, NEW e \in Ids, NEW row \in Row, Rewritten(e, row)
    PROVE  Turns
<1>1. entry'[e] = row /\ \A x \in Ids \ {e} : entry'[x] = entry[x]
  BY DEF Rewritten, IInv, TypeOK
<1>2. TurnUsedOnce
  BY <1>1 DEF TurnUsedOnce, NoSecondTurn, Rewritten
<1>3. OldestFirst
  BY <1>1 DEF OldestFirst, Rewritten
<1>4. EndIsFinal
  BY <1>1 DEF EndIsFinal, Rewritten, Active
<1> QED
  BY <1>2, <1>3, <1>4 DEF Turns


----------------------------------------------------------------------------
(* The one worker. *)

\* A statement of its job.
LEMMA FairStep ==
    ASSUME OneWorker, SInv, NEW w \in Workers, entry' = entry, JobFair(w)'
    PROVE  SInv'
<1>1. Orderly(entry') /\ NoSecondTurn'
  BY DEF SInv, NoSecondTurn
<1>2. \A u \in Workers : u = w
  BY DEF OneWorker
<1> QED
  BY <1>1, <1>2 DEF SInv

\* A transaction that has written nothing.
LEMMA NothingWritten ==
    ASSUME Orderly(entry)', NEW w \in Workers, tick'[w].rows = NoRows, tick'[w].pc \notin {"walk", "offer"},
           ReadsHold(tick[w])'
    PROVE  JobFair(w)'
<1>1. PICK U, T, k : U = Seen(w)' /\ T = entry' /\ k = tick'[w]
  OBVIOUS
<1>2. \A e \in Ids : k.rows[e] = NoRow /\ U[e] = T[e]
  BY <1>1, SeenIs, Unwritten
<1>3. Orderly(U)
  BY <1>1, <1>2, FewerOffers
<1>4. TurnsFair(k)'
  BY <1>2 DEF TurnsFair
<1>5. PageFair(k, U)
  BY <1>1, <1>2 DEF PageFair
<1> QED
  BY <1>1, <1>3, <1>4, <1>5 DEF JobFair

\* A drain, whatever it has sent: the list is as it was.
LEMMA DrainFair ==
    ASSUME IInv', Orderly(entry)', NEW w \in Workers, tick'[w].pc = "drain"
    PROVE  JobFair(w)'
<1>1. PICK U, T, k : U = Seen(w)' /\ T = entry' /\ k = tick'[w]
  OBVIOUS
<1>2. \A e \in Ids : U[e].status = T[e].status /\ U[e].slot = T[e].slot /\ U[e].pair = T[e].pair
  BY <1>1, SeenIs DEF IInv, TicksFit, Fits, RowFits
<1>3. Orderly(U)
  BY <1>1, <1>2, FewerOffers
<1>4. ReadsHold(k)' /\ TurnsFair(k)' /\ PageFair(k, U)
  BY <1>1 DEF ReadsHold, TurnsFair, PageFair, Cascades
<1> QED
  BY <1>1, <1>3, <1>4 DEF JobFair

\* Its first and its last statements.
LEMMA DrainIsFair ==
    ASSUME IInv, IInv', SInv, NEW w \in Workers,
           \/ drain_claim(w)
           \/ \E e \in Ids : drain_dead(w, e) \/ drain_sent(w, e) \/ drain_failed(w, e)
    PROVE  JobFair(w)'
<1>1. Orderly(entry)'
  BY DEF SInv, drain_claim, drain_dead, drain_sent, drain_failed
<1>2. tick'[w].pc = "drain"
  <2>1. CASE drain_claim(w)
    BY <2>1 DEF drain_claim, Rest, IInv, TypeOK
  <2>2. ASSUME NEW e \in Ids, drain_dead(w, e) \/ drain_sent(w, e) \/ drain_failed(w, e)
        PROVE  tick'[w].pc = "drain"
    <3>1. tick \in [Workers -> Tick] /\ tick[w].pc = "drain"
      BY <2>2 DEF drain_dead, drain_sent, drain_failed, Queued, IInv, TypeOK
    <3>2. CASE drain_dead(w, e)
      BY <3>1, <3>2 DEF drain_dead, Tick
    <3>3. CASE drain_sent(w, e)
      BY <3>1, <3>3 DEF drain_sent, Tick
    <3>4. CASE drain_failed(w, e)
      BY <3>1, <3>4 DEF drain_failed, Tick
    <3> QED
      BY <2>2, <3>2, <3>3, <3>4
  <2> QED
    BY <2>1, <2>2
<1> QED
  BY <1>1, <1>2, DrainFair

\* A job that fails has written nothing.
LEMMA FailsIsFair ==
    ASSUME IInv, SInv, NEW w \in Workers, NEW killed \in BOOLEAN, job_fails(w, killed)
    PROVE  JobFair(w)'
<1>1. Orderly(entry)'
  BY DEF SInv, job_fails
<1>2. tick'[w].pc = "idle" /\ tick'[w].rows = NoRows
  BY DEF job_fails, Rest, IInv, TypeOK
<1>3. ReadsHold(tick[w])'
  BY <1>2 DEF ReadsHold
<1> QED
  BY <1>1, <1>2, <1>3, NothingWritten

\* _expire reads which texts were sent, ...
LEMMA ExpireReadIsFair ==
    ASSUME IInv, SInv, NEW w \in Workers, expire_read(w)
    PROVE  JobFair(w)'
<1>1. Orderly(entry)' /\ entry' = entry
  BY DEF SInv, expire_read
<1>2. /\ tick'[w].pc \in {"gate", "close"} /\ tick'[w].rows = NoRows
      /\ tick'[w].expire = {e \in due_offers : UsedUp(e)}
      /\ tick'[w].back = {e \in due_offers : ~ UsedUp(e)}
  BY DEF expire_read, Rest, IInv, TypeOK
<1>3. ReadsHold(tick[w])'
  BY <1>1, <1>2 DEF ReadsHold, UsedUp
<1> QED
  BY <1>1, <1>2, <1>3, NothingWritten

\* ... and while it closes the offers no drain can send another of them.
LEMMA ExpireCloseIsFair ==
    ASSUME IInv, SInv, NEW w \in Workers, expire_close(w)
    PROVE  JobFair(w)'
<1>1. PICK X, B : X = StillOpen(tick[w].expire) /\ B = StillOpen(tick[w].back)
  OBVIOUS
<1>2. tick[w] \in Tick /\ entry \in [Ids -> Row] /\ tick[w].pc = "close" /\ entry' = entry
  BY DEF expire_close, IInv, TypeOK
<1>3. /\ \A e \in X \cup B : e \in Ids /\ entry[e].status = "offered"
      /\ \A e \in X : UsedUp(e)
      /\ \A e \in B : ~ UsedUp(e)
  BY <1>1, <1>2 DEF StillOpen, Tick, SInv, JobFair, ReadsHold
<1>4. /\ tick'[w].pc = "gate"
      /\ tick'[w].rows = [e \in Ids |-> IF e \in X THEN close_offer(entry[e], "expired")
                                        ELSE IF e \in B THEN close_offer(entry[e], "waiting")
                                        ELSE NoRow]
  BY <1>1, <1>2 DEF expire_close, Tick, IInv, TypeOK
<1>5. PICK U, T, k : U = Seen(w)' /\ T = entry' /\ k = tick'[w]
  OBVIOUS
<1>6. \A e \in Ids : k.rows[e] = NoRow
                     \/ /\ e \in X /\ k.rows[e].status = "expired"
                        /\ entry[e].msg = "sent" => k.rows[e].msg = "sent"
                     \/ /\ e \in B /\ k.rows[e].status = "waiting"
                        /\ entry[e].msg # "sent" => k.rows[e].msg # "sent"
  <2> SUFFICES ASSUME NEW e \in Ids
               PROVE  \/ k.rows[e] = NoRow
                      \/ /\ e \in X /\ k.rows[e].status = "expired"
                         /\ entry[e].msg = "sent" => k.rows[e].msg = "sent"
                      \/ /\ e \in B /\ k.rows[e].status = "waiting"
                         /\ entry[e].msg # "sent" => k.rows[e].msg # "sent"
    OBVIOUS
  <2>1. PICK old \in Row : old = entry[e]
    BY <1>2
  <2>2. PICK row : row = k.rows[e]
    OBVIOUS
  <2>3. row = IF e \in X THEN close_offer(old, "expired")
              ELSE IF e \in B THEN close_offer(old, "waiting") ELSE NoRow
    BY <1>4, <1>5, <2>1, <2>2
  <2>4. CASE e \in X
    BY <2>1, <2>2, <2>3, <2>4, ClosedRow
  <2>5. CASE e \notin X /\ e \in B
    BY <2>1, <2>2, <2>3, <2>5, ClosedRow
  <2> QED
    BY <2>2, <2>3, <2>4, <2>5
<1>7. Orderly(U)
  <2>1. Orderly(T)
    BY <1>2, <1>5 DEF SInv
  <2>2. \A e \in Ids : U[e].status = "offered" => U[e] = T[e]
    BY <1>5, <1>6, SeenIs
  <2> QED
    BY <2>1, <2>2, FewerOffers
<1>8. TurnsFair(k)'
  BY <1>2, <1>3, <1>6 DEF TurnsFair, UsedUp
<1>9. PageFair(k, U) /\ ReadsHold(k)'
  BY <1>4, <1>5, <1>6 DEF PageFair, ReadsHold
<1> QED
  BY <1>5, <1>7, <1>8, <1>9 DEF JobFair

\* A statement that writes no row reads what the ones before it read.
LEMMA SameRows ==
    ASSUME SInv, NEW w \in Workers, entry' = entry, tick'[w].rows = tick[w].rows,
           tick'[w].pc \in {"walk", "offer"}, Cascades(tick[w]),
           PageFair(tick[w], Seen(w))'
    PROVE  JobFair(w)'
<1>1. PICK U, T, k, j : U = Seen(w)' /\ T = Seen(w) /\ k = tick'[w] /\ j = tick[w]
  OBVIOUS
<1>2. \A e \in Ids : U[e] = T[e]
  BY <1>1, SeenIs
<1>3. Orderly(T) /\ TurnsFair(j)
  BY <1>1 DEF SInv, JobFair
<1>4. Orderly(U)
  BY <1>2, <1>3, FewerOffers
<1>5. TurnsFair(k)'
  BY <1>1, <1>3 DEF TurnsFair, UsedUp, Cascades
<1>6. ReadsHold(k)'
  BY <1>1 DEF ReadsHold
<1> QED
  BY <1>1, <1>4, <1>5, <1>6 DEF JobFair

\* The page holds queues with nobody offered.
LEMMA IssueIsFair ==
    ASSUME IInv, SInv, NEW w \in Workers, issue(w)
    PROVE  JobFair(w)'
<1>1. PICK U, T, k, j : U = Seen(w)' /\ T = Seen(w) /\ k = tick'[w] /\ j = tick[w]
  OBVIOUS
<1>2. /\ j.pc = "gate" /\ k.pc = "walk" /\ k.rows = j.rows /\ k.pairs = waiting_pairs(w) /\ entry' = entry
  BY <1>1 DEF issue, IInv, TypeOK, Tick
<1>3. \A e \in Ids : U[e] = T[e]
  BY <1>1, <1>2, SeenIs
<1>4. PageFair(j, T)
  BY <1>1 DEF SInv, JobFair
<1>5. \A e \in Ids : T[e].status = "offered" => T[e].pair \notin k.pairs
  BY <1>1, <1>2 DEF waiting_pairs, Candidates
<1>6. PageFair(k, U)
  BY <1>2, <1>3, <1>4, <1>5 DEF PageFair, Cascades
<1> QED
  BY <1>1, <1>2, <1>6, SameRows DEF Cascades

\* The oldest entry that waits has nobody waiting before her.
LEMMA OfferReadIsFair ==
    ASSUME IInv, SInv, NEW w \in Workers, offer_read(w)
    PROVE  JobFair(w)'
<1>1. PICK U, T, k, j, p : /\ U = Seen(w)' /\ T = Seen(w) /\ k = tick'[w] /\ j = tick[w]
                           /\ p = Least(tick[w].pairs)
  OBVIOUS
<1>2. /\ j.pc = "walk" /\ k.rows = j.rows /\ entry' = entry
      /\ \/ \E e \in oldest_waiting(w, p) : k.pc = "offer" /\ k.cand = e /\ k.pairs = j.pairs
         \/ k.pc = "walk" /\ k.pairs \subseteq j.pairs
  <2>1. j.pc = "walk" /\ entry' = entry /\ tick \in [Workers -> Tick]
    BY <1>1 DEF offer_read, IInv, TypeOK
  <2>2. CASE \E e \in oldest_waiting(w, p) :
               tick' = [tick EXCEPT ![w].pc = "offer", ![w].cand = e, ![w].grid = day_slots(PairDay[p])]
    <3>1. PICK e \in oldest_waiting(w, p) :
             tick' = [tick EXCEPT ![w].pc = "offer", ![w].cand = e, ![w].grid = day_slots(PairDay[p])]
      BY <2>2
    <3>2. PICK g : g = day_slots(PairDay[p])
      OBVIOUS
    <3>3. tick' = [tick EXCEPT ![w].pc = "offer", ![w].cand = e, ![w].grid = g]
      BY <3>1, <3>2
    <3>4. k.rows = j.rows /\ k.pc = "offer" /\ k.cand = e /\ k.pairs = j.pairs
      BY <1>1, <2>1, <3>3 DEF Tick
    <3> QED
      BY <2>1, <3>4
  <2>3. CASE tick' = [tick EXCEPT ![w].pairs = @ \ {p}]
    BY <1>1, <2>1, <2>3 DEF Tick
  <2> QED
    BY <1>1, <2>2, <2>3 DEF offer_read
<1>3. \A e \in Ids : U[e] = T[e]
  BY <1>1, <1>2, SeenIs
<1>4. PageFair(j, T)
  BY <1>1 DEF SInv, JobFair
<1>5. ASSUME NEW c \in Ids, NoOlder(T, c) PROVE NoOlder(U, c)
  BY <1>3, <1>5 DEF NoOlder
<1>6. ASSUME NEW e \in oldest_waiting(w, p), k.pc = "offer", k.cand = e, k.pairs = j.pairs
      PROVE  e \in Ids /\ U[e].status # "absent" /\ U[e].pair = Least(k.pairs) /\ NoOlder(U, e)
  <2>1. /\ e \in Ids /\ T[e].pair = p /\ T[e].status = "waiting"
        /\ \A x \in Ids : T[x].pair = p /\ T[x].status = "waiting" => e =< x
    BY <1>1 DEF oldest_waiting
  <2>2. NoOlder(T, e)
    BY <2>1 DEF NoOlder, Ids
  <2> QED
    BY <1>1, <1>3, <1>5, <1>6, <2>1, <2>2
<1>7. PageFair(k, U)
  BY <1>2, <1>3, <1>4, <1>5, <1>6 DEF PageFair, Cascades
<1>8. k.pc \in {"walk", "offer"}
  BY <1>2
<1> QED
  BY <1>1, <1>2, <1>7, <1>8, SameRows DEF Cascades


\* Whom the cascade offers a slot is next in her queue, and her queue has no offer.
LEMMA OfferIsFair ==
    ASSUME IInv, SInv, NEW w \in Workers, offer(w)
    PROVE  JobFair(w)'
<1>1. PICK U, T, k, j, e, p : /\ U = Seen(w)' /\ T = Seen(w) /\ k = tick'[w] /\ j = tick[w]
                              /\ e = tick[w].cand /\ p = Least(tick[w].pairs)
  OBVIOUS
<1>2. /\ j \in Tick /\ tick \in [Workers -> Tick] /\ j.pc = "offer" /\ entry' = entry /\ e \in Ids
      /\ p \in j.pairs /\ \A s \in Slots : j.grid[s] =< Capacity
  <2>1. j \in Tick /\ tick \in [Workers -> Tick] /\ j.pc = "offer" /\ entry' = entry /\ Fits(j)
    BY <1>1 DEF offer, IInv, TypeOK, TicksFit
  <2>2. e \in Ids /\ (\A s \in Slots : j.grid[s] =< Capacity) /\ j.pairs # {} /\ j.pairs \in SUBSET Nat
    BY <1>1, <2>1 DEF Fits, Tick
  <2> QED
    BY <1>1, <2>1, <2>2, LeastIs
<1>3. Orderly(T) /\ TurnsFair(j) /\ PageFair(j, T)
  BY <1>1 DEF SInv, JobFair
<1>4. /\ \A x \in Ids : T[x].status = "offered" => T[x].pair \notin j.pairs
      /\ T[e].pair = p /\ NoOlder(T, e)
      /\ \A x \in Ids : j.rows[x] # NoRow /\ j.rows[x].status = "offered" => NoOlder(T, x)
  BY <1>1, <1>2, <1>3 DEF PageFair, Cascades
<1> DEFINE done == [j EXCEPT !.pc = "walk", !.pairs = j.pairs \ {p}, !.cand = 0, !.grid = NoGrid]
<1>5. CASE k = done
  <2>1. k.pc = "walk" /\ k.rows = j.rows /\ k.pairs \subseteq j.pairs
    BY <1>2, <1>5 DEF Tick
  <2>2. \A x \in Ids : U[x] = T[x]
    BY <1>1, <1>2, <2>1, SeenIs
  <2>3. PageFair(k, U)
    BY <1>4, <2>1, <2>2 DEF PageFair, NoOlder
  <2> QED
    BY <1>1, <1>2, <2>1, <2>3, SameRows DEF Cascades
<1>6. CASE \E s \in SlotToOffer(w) :
             /\ OfferGuard(w, e)
             /\ k = [done EXCEPT !.rows[e] =
                        insert_text([Seen(w)[e] EXCEPT !.status = "offered", !.slot = s])]
  <2>1. PICK s \in Slots : /\ s \in SlotToOffer(w) /\ OfferGuard(w, e)
                           /\ k = [done EXCEPT !.rows[e] =
                                     insert_text([Seen(w)[e] EXCEPT !.status = "offered", !.slot = s])]
    BY <1>1, <1>2, <1>6 DEF SlotToOffer, Tick
  <2>2. T[e] \in Row /\ T[e].status = "waiting"
    BY <1>1, <1>2, <2>1, SeenRows DEF OfferGuard, IInv
  <2>3. PICK row : row = insert_text([T[e] EXCEPT !.status = "offered", !.slot = s])
    OBVIOUS
  <2>4. row.status = "offered" /\ row.slot = s /\ row.pair = p /\ row.msg = "pending"
    <3>1. PICK old \in Row : old = T[e] /\ old.pair = p
      BY <1>4, <2>2
    <3>2. row = [old EXCEPT !.status = "offered", !.slot = s, !.msg = "pending"]
      BY <2>3, <3>1 DEF insert_text
    <3> QED
      BY <3>1, <3>2 DEF Row
  <2>5. /\ k.pc = "walk" /\ k.pairs = j.pairs \ {p}
        /\ k.rows[e] = row /\ \A x \in Ids \ {e} : k.rows[x] = j.rows[x]
    BY <1>1, <1>2, <2>1, <2>3 DEF Tick
  <2>6. row # NoRow
    BY <2>4 DEF NoRow
  <2>7. U[e] = row /\ \A x \in Ids \ {e} : U[x] = T[x]
    BY <1>1, <1>2, <2>5, <2>6, SeenIs
  <2>8. Cardinality(OfferedAt(T, s)) < Capacity
    <3>1. OfferedAt(T, s) = {x \in Ids : Seen(w)[x].status = "offered" /\ Seen(w)[x].slot = s}
      BY <1>1 DEF OfferedAt
    <3>2. j.grid[s] > Cardinality(OfferedAt(T, s))
      BY <1>1, <2>1, <3>1 DEF SlotToOffer, offered_instants
    <3>3. OfferedAt(T, s) \in SUBSET Ids
      BY DEF OfferedAt
    <3>4. Cardinality(OfferedAt(T, s)) \in Nat /\ j.grid[s] \in Nat /\ j.grid[s] =< Capacity
      BY <1>2, <3>3, IdsFinite DEF Tick
    <3> QED
      BY <3>2, <3>4
  <2>9. Orderly(U)
    <3>1. T[e].status # "offered"
      BY <2>2
    <3>2. \A x \in Ids : T[x].status = "offered" => T[x].pair # U[e].pair
      BY <1>2, <1>4, <2>4, <2>7
    <3>3. U[e].status = "offered" /\ U[e].slot = s
      BY <2>4, <2>7
    <3>4. e \in Ids /\ s \in Slots /\ Orderly(T) /\ \A x \in Ids \ {e} : U[x] = T[x]
      BY <1>2, <1>3, <2>1, <2>7
    <3> QED
      BY <2>8, <3>1, <3>2, <3>3, <3>4, OneOfferMore
  <2>10. TurnsFair(k)'
    <3>1. TurnsFair(j) /\ NoSecondTurn /\ Cascades(j)
      BY <1>2, <1>3 DEF SInv, Cascades
    <3>2. entry[e].msg # "sent"
      <4>1. CASE j.rows[e] # NoRow
        BY <1>1, <1>2, <2>2, <3>1, <4>1, SeenIs DEF TurnsFair
      <4>2. CASE j.rows[e] = NoRow
        BY <1>1, <1>2, <2>2, <3>1, <4>2, SeenIs DEF NoSecondTurn
      <4> QED
        BY <4>1, <4>2
    <3> QED
      BY <1>2, <2>4, <2>5, <3>1, <3>2 DEF TurnsFair, UsedUp
  <2>11. PageFair(k, U)
    <3>1. \A c \in Ids : NoOlder(T, c) => NoOlder(U, c)
      BY <1>2, <1>4, <2>4, <2>7 DEF NoOlder
    <3>2. \A x \in Ids : U[x].status = "offered" => U[x].pair \notin k.pairs
      BY <1>4, <2>4, <2>5, <2>7
    <3> QED
      BY <1>4, <2>5, <3>1, <3>2 DEF PageFair
  <2>12. ReadsHold(k)'
    BY <2>5 DEF ReadsHold
  <2> QED
    BY <1>1, <2>9, <2>10, <2>11, <2>12 DEF JobFair
<1> QED
  <2>1. tick' = [tick EXCEPT ![w] = done]
        \/ \E s \in SlotToOffer(w) :
             /\ OfferGuard(w, e)
             /\ tick' = [tick EXCEPT ![w] = [done EXCEPT !.rows[e] =
                            insert_text([Seen(w)[e] EXCEPT !.status = "offered", !.slot = s])]]
    BY <1>1 DEF offer
  <2> HIDE DEF done
  <2> QED
    BY <1>1, <1>2, <1>5, <1>6, <2>1


\* Of what is committed, the drain changed no status and the cascade what is fair.
LEMMA CommitFair ==
    ASSUME IInv, SInv, NEW w \in Workers, drain_commit(w) \/ commit(w)
    PROVE  JobFair(w)' /\ Orderly(entry)' /\ NoSecondTurn' /\ Turns
<1>1. PICK T, j : T = Seen(w) /\ j = tick[w]
  OBVIOUS
<1>2. /\ entry' = T /\ tick'[w].rows = NoRows /\ tick'[w].pc \in {"cascade", "idle"}
      /\ j.pc = "drain" \/ Cascades(j)
  BY <1>1 DEF drain_commit, commit, Rest, Cascades, IInv, TypeOK
<1>3. Orderly(T) /\ TurnsFair(j) /\ PageFair(j, T) /\ NoSecondTurn
  BY <1>1 DEF SInv, JobFair
<1>4. \A e \in Ids : T[e] = IF j.rows[e] # NoRow THEN j.rows[e] ELSE entry[e]
  BY <1>1, SeenIs
<1>5. \A e \in Ids : j.rows[e] # NoRow => RowFits(j.pc, j.rows[e], e)
  BY <1>1 DEF IInv, TicksFit, Fits
<1>6. \A e \in Ids : j.rows[e] # NoRow /\ j.pc = "drain" =>
         entry[e].msg = "pending" /\ entry[e].status = "offered" /\ T[e].status = "offered"
  BY <1>4, <1>5 DEF RowFits, IInv, TextsFollowOffers, NoDeadText
<1>7. Orderly(entry)'
  BY <1>2, <1>3
<1>8. NoSecondTurn'
  <2> SUFFICES ASSUME NEW e \in Ids, T[e].status \in {"absent", "waiting"} PROVE T[e].msg # "sent"
    BY <1>2 DEF NoSecondTurn
  <2>1. CASE j.rows[e] = NoRow
    BY <1>3, <1>4, <2>1 DEF NoSecondTurn
  <2>2. CASE j.rows[e] # NoRow
    BY <1>2, <1>3, <1>4, <1>5, <1>6, <2>2 DEF RowFits, TurnsFair
  <2> QED
    BY <2>1, <2>2
<1>9. JobFair(w)'
  <2>1. ReadsHold(tick[w])'
    BY <1>2 DEF ReadsHold
  <2> QED
    BY <1>2, <1>7, <2>1, NothingWritten
<1>10. TurnUsedOnce
  <2> SUFFICES ASSUME NEW e \in Ids
               PROVE  /\ entry[e].status = "offered" /\ T[e].status = "expired" => UsedUp(e)
                      /\ entry[e].msg = "sent" => T[e].msg = "sent" /\ T[e].status # "waiting"
    BY <1>2 DEF TurnUsedOnce, UsedUp
  <2>1. CASE j.rows[e] = NoRow
    BY <1>3, <1>4, <2>1 DEF NoSecondTurn
  <2>2. CASE j.rows[e] # NoRow
    BY <1>2, <1>3, <1>4, <1>6, <2>2 DEF TurnsFair
  <2> QED
    BY <2>1, <2>2
<1>11. OldestFirst
  <2> SUFFICES ASSUME NEW e \in Ids, entry[e].status # "offered", T[e].status = "offered",
                      NEW x \in Ids, x < e, T[x].pair = entry[e].pair
               PROVE  T[x].status # "waiting"
    BY <1>2 DEF OldestFirst
  <2>1. j.rows[e] # NoRow /\ j.rows[e].status = "offered"
    BY <1>4
  <2>2. NoOlder(T, e)
    BY <1>2, <1>3, <1>6, <2>1 DEF PageFair
  <2>3. T[e].pair = entry[e].pair
    BY <1>4, <1>5, <2>1 DEF RowFits
  <2> QED
    BY <2>2, <2>3 DEF NoOlder
<1>12. EndIsFinal
  BY <1>2, <1>4, <1>5 DEF EndIsFinal, RowFits, Active
<1> QED
  BY <1>7, <1>8, <1>9, <1>10, <1>11, <1>12 DEF Turns

\* At the beginning nobody is on the list.
LEMMA InitFair == Init => SInv
<1> SUFFICES ASSUME Init PROVE SInv
  OBVIOUS
<1>1. \A e \in Ids : entry[e].status = "absent" /\ entry[e].msg = "none" /\ entry[e] = NoRow
  BY Unwritten DEF Init, NoRow
<1>2. Orderly(entry)
  <2>1. \A s \in Slots : OfferedAt(entry, s) = {}
    BY <1>1 DEF OfferedAt
  <2>2. \A s \in Slots : Cardinality(OfferedAt(entry, s)) =< Capacity
    BY <2>1, FS_EmptySet
  <2> QED
    BY <1>1, <2>2 DEF Orderly
<1>3. NoSecondTurn
  BY <1>1 DEF NoSecondTurn
<1>4. ASSUME NEW w \in Workers PROVE JobFair(w)
  <2>1. tick[w].rows = NoRows /\ tick[w].pc = "idle"
    BY DEF Init, Rest
  <2>2. PICK T, k : T = Seen(w) /\ k = tick[w]
    OBVIOUS
  <2>3. \A e \in Ids : T[e] = entry[e]
    BY <2>1, <2>2, SeenIs, Unwritten
  <2>4. Orderly(T)
    BY <1>2, <2>3, FewerOffers
  <2>5. ReadsHold(k) /\ TurnsFair(k) /\ PageFair(k, T)
    BY <2>1, <2>2 DEF ReadsHold, TurnsFair, PageFair, Cascades
  <2> QED
    BY <2>2, <2>4, <2>5 DEF JobFair
<1> QED
  BY <1>2, <1>3, <1>4 DEF SInv

\* Every step of the system with one worker.
LEMMA NextFair ==
    ASSUME OneWorker, IInv, SInv, [Next]_vars
    PROVE  SInv' /\ [Turns]_entry
<1>1. IInv'
  BY NextKeeps
<1>2. ASSUME UNCHANGED <<entry, tick>> PROVE SInv'
  <2>1. Orderly(entry)' /\ NoSecondTurn'
    BY <1>2 DEF SInv, Orderly, OfferedAt, NoSecondTurn
  <2>2. ASSUME NEW w \in Workers PROVE JobFair(w)'
    <3>1. PICK T, U, k : T = Seen(w) /\ U = Seen(w)' /\ k = tick[w]
      OBVIOUS
    <3>2. U = T /\ tick'[w] = k
      BY <1>2, <3>1 DEF Seen, Written
    <3>3. Orderly(T) /\ ReadsHold(k) /\ TurnsFair(k) /\ PageFair(k, T)
      BY <3>1 DEF SInv, JobFair
    <3>4. ReadsHold(k)'
      BY <1>2, <3>3 DEF ReadsHold, UsedUp
    <3>5. TurnsFair(k)'
      BY <1>2, <3>3 DEF TurnsFair, UsedUp, Cascades
    <3>6. Orderly(U) /\ PageFair(k, U)
      BY <3>2, <3>3
    <3> QED
      BY <3>1, <3>2, <3>4, <3>5, <3>6 DEF JobFair
  <2> QED
    BY <2>1, <2>2 DEF SInv
<1>3. ASSUME NEW e \in Ids, NEW row \in Row, Rewritten(e, row) PROVE SInv' /\ [Turns]_entry
  <2>1. NoSecondTurn
    BY DEF SInv
  <2> QED
    BY <1>3, <2>1, RewriteFair, RewriteTurns
<1>4. CASE Customer
  <2>1. CASE \E t \in Taps : claim_refused(t) \/ \E e \in Ids : claim_resolve(t, e)
    BY <1>2, <2>1 DEF claim_refused, claim_resolve
  <2> QED
    BY <1>3, <1>4, <2>1, JoinRewrites, CancelRewrites, ClaimRewrites DEF Customer, decline
<1>5. CASE Boutique
  <2>1. CASE \E ph \in Phones, s \in Slots : DirectBook(ph, s) \/ FreeSeat(ph, s)
    BY <1>2, <2>1 DEF DirectBook, FreeSeat
  <2> QED
    BY <1>3, <1>5, <2>1, CancelRewrites DEF Boutique, cancel_entry
<1>6. CASE Time
  BY <1>2, <1>6 DEF Time, OfferRunsOut, SlotCloses, DayEnds
<1>7. ASSUME NEW w \in Workers, drain_commit(w) \/ commit(w) PROVE SInv' /\ [Turns]_entry
  <2>1. JobFair(w)' /\ Orderly(entry)' /\ NoSecondTurn' /\ Turns
    BY <1>7, CommitFair
  <2>2. \A u \in Workers : u = w
    BY DEF OneWorker
  <2> QED
    BY <2>1, <2>2 DEF SInv
<1>8. ASSUME NEW w \in Workers, Worker(w), ~ (drain_commit(w) \/ commit(w)) PROVE SInv' /\ entry' = entry
  <2>1. entry' = entry
    BY <1>8 DEF Worker, Polls, drain_claim, drain_dead, drain_sent, drain_failed, expire_read, expire_close,
       issue, offer_read, offer
  <2>2. JobFair(w)'
    BY <1>1, <1>8, DrainIsFair, ExpireReadIsFair, ExpireCloseIsFair, IssueIsFair, OfferReadIsFair, OfferIsFair
       DEF Worker, Polls
  <2> QED
    BY <2>1, <2>2, FairStep
<1>9. ASSUME NEW w \in Workers, NEW killed \in BOOLEAN, job_fails(w, killed) PROVE SInv' /\ entry' = entry
  <2>1. entry' = entry
    BY <1>9 DEF job_fails
  <2> QED
    BY <1>9, <2>1, FailsIsFair, FairStep
<1>10. CASE UNCHANGED vars
  BY <1>2, <1>10 DEF vars
<1> QED
  BY <1>4, <1>5, <1>6, <1>7, <1>8, <1>9, <1>10 DEF Next


\* The invariant for one worker holds of every run.
THEOREM FairnessHolds ==
    ASSUME OneWorker
    PROVE  Spec => [](IInv /\ SInv)
<1>1. Init => IInv /\ SInv
  BY InitHolds, InitFair
<1>2. IInv /\ SInv /\ [Next]_vars => (IInv /\ SInv)'
  BY NextKeeps, NextFair
<1> QED
  BY <1>1, <1>2, PTL DEF Spec

\* A queue has one live offer and a customer one entry in it.
THEOREM OnePlace ==
    ASSUME OneWorker
    PROVE  Spec => []OnePlaceEach
<1>1. IInv /\ SInv => OnePlaceEach
  <2> SUFFICES ASSUME IInv, SInv, NEW p \in Pairs PROVE Cardinality(Offers(p)) =< 1
    BY DEF OnePlaceEach, OneOfferPerPair, IInv
  <2>1. CASE Offers(p) = {}
    BY <2>1, FS_EmptySet
  <2>2. CASE Offers(p) # {}
    <3>1. PICK e \in Ids : e \in Offers(p)
      BY <2>2 DEF Offers
    <3>2. Offers(p) = {e}
      <4>1. \A x \in Ids : entry[x].status = "offered" /\ entry[x].pair = p => x = e
        BY <3>1 DEF Offers, SInv, Orderly
      <4> QED
        BY <3>1, <4>1 DEF Offers
    <3>3. Cardinality({e}) = 1
      BY FS_Singleton
    <3> QED
      BY <3>2, <3>3
  <2> QED
    BY <2>1, <2>2
<1> QED
  BY <1>1, FairnessHolds, PTL

\* An instant is not offered to more customers than it has seats.
THEOREM OffersFit ==
    ASSUME OneWorker
    PROVE  Spec => []OffersFitTheGrid
<1>1. SInv => OffersFitTheGrid
  BY DEF SInv, Orderly, OfferedAt, OffersFitTheGrid
<1> QED
  BY <1>1, FairnessHolds, PTL

\* No turn is ended untold, no older entry passed over, no ended one brought back.
THEOREM TurnsKept ==
    ASSUME OneWorker
    PROVE  Spec => TurnsAreKept
<1>1. IInv /\ SInv /\ [Next]_vars => [TurnUsedOnce /\ OldestFirst /\ EndIsFinal]_entry
  BY NextFair DEF Turns
<1> QED
  BY <1>1, FairnessHolds, PTL DEF Spec, TurnsAreKept

=============================================================================
