---------------------------- MODULE FloorProofs ----------------------------
(***************************************************************************)
(* Proofs about the floor: the walk-in queue and the fitting rooms, and    *)
(* after them the staff accounts and the SOS pages, a specification of its *)
(* own.                                                                    *)
(*                                                                         *)
(* For any number of tickets, rooms, staff and assignments: rooms, staff   *)
(* and bell fit together, nobody is stranded or served twice, the board,   *)
(* the customer's page and take_next agree on the line, and a place in it  *)
(* gets worse only by a skip of one's own ticket.                          *)
(*                                                                         *)
(* For any number of accounts, pages, sessions and requests in flight: an  *)
(* owner remains, a page's log tells its story, and a page goes quiet only *)
(* when somebody is coming.                                                *)
(***************************************************************************)
EXTENDS FloorBoard, SosPages, FiniteSetTheorems, SequenceTheorems, TLAPS

USE QueueAssumption, FloorAssumption DEF QueueAssumption, FloorAssumption

----------------------------------------------------------------------------
(* The inductive invariant. *)

\* Of a line s: nobody stands in it twice, who stands in it, and where.
Distinct(s) == \A i, j \in DOMAIN s : s[i] = s[j] => i = j
In(s) == {t \in Tickets : \E i \in DOMAIN s : s[i] = t}
Key(s, t) == CHOOSE i \in DOMAIN s : s[i] = t

\* The line holds every waiting ticket once, and no other; one that reached the
\* limit of skips waits no longer.
LineOK ==
    /\ Distinct(line)
    /\ \A t \in Tickets : Waiting(t) <=> t \in In(line)
    /\ \A t \in Tickets : Waiting(t) => ticket[t].skips < SKIP_LIMIT

\* An open dispatch holds its ticket, which still waits, and its room, which
\* nobody can delete; an open release names a row.
OpenOK ==
    /\ \A p \in Staff : tx[p].verb = "dispatch" =>
          /\ tx[p].room \in Rooms /\ tx[p].staff \in Staff /\ tx[p].ticket \in Tickets
          /\ room[tx[p].room] # "none"
          /\ Waiting(tx[p].ticket) /\ tx[p].ticket \in held
    /\ \A p, q \in Staff : tx[p].verb = "dispatch" /\ tx[q].verb = "dispatch" /\ p # q
                              => tx[p].ticket # tx[q].ticket
    /\ \A p \in Staff : tx[p].verb = "release" => tx[p].asg \in Assignments

\* An active assignment is of a room that stands, and of one staffer; the ticket
\* of an assignment was taken out of the line, is in service for as long as the
\* assignment is active, and a ticket in service has its assignment.
RowsOK ==
    /\ \A a \in active : asg[a].room \in Rooms /\ asg[a].staff \in Staff /\ room[asg[a].room] # "none"
    /\ \A a \in Assignments :
          /\ asg[a].status = "none" => asg[a].ticket = None
          /\ asg[a].ticket # None =>
                ticket[asg[a].ticket].status = IF a \in active THEN "in_service" ELSE "done"
    /\ \A t \in Tickets : ticket[t].status = "in_service" => \E a \in active : asg[a].ticket = t

IInv == TypeOK /\ LineOK /\ OpenOK /\ RowsOK /\ OneRoomEach /\ ServedOnce /\ BellTellsTheTruth

----------------------------------------------------------------------------
(* Lines. *)

\* The place of each.
LEMMA KeyIs ==
    ASSUME NEW s \in Seq(Tickets), Distinct(s)
    PROVE  /\ \A i \in 1 .. Len(s) : Key(s, s[i]) = i
           /\ \A t \in In(s) : Key(s, t) \in 1 .. Len(s) /\ s[Key(s, t)] = t
<1>1. DOMAIN s = 1 .. Len(s)
  OBVIOUS
<1>2. \A i \in 1 .. Len(s) : Key(s, s[i]) = i
  BY <1>1 DEF Key, Distinct
<1> QED
  BY <1>1, <1>2 DEF In

\* Somebody leaves: the others keep their order.
LEMMA RemovedLine ==
    ASSUME NEW s \in Seq(Tickets), Distinct(s), NEW t \in In(s), NEW r, r = RemoveAt(s, Key(s, t))
    PROVE  /\ r \in Seq(Tickets) /\ Distinct(r) /\ In(r) = In(s) \ {t}
           /\ \A x, y \in In(r) : Key(r, x) < Key(r, y) <=> Key(s, x) < Key(s, y)
<1> DEFINE k == Key(s, t)
           n == Len(s)
<1>1. k \in 1 .. n /\ s[k] = t /\ n \in Nat
  BY KeyIs
<1> HIDE DEF k
<1>2. /\ SubSeq(s, 1, k - 1) \in Seq(Tickets) /\ Len(SubSeq(s, 1, k - 1)) = k - 1
      /\ \A i \in 1 .. k - 1 : SubSeq(s, 1, k - 1)[i] = s[i]
  <2>1. \A i \in 1 .. k - 1 : s[i] \in Tickets
    BY <1>1
  <2>2. 1 \in Int /\ k - 1 \in Int
    BY <1>1
  <2>3. /\ SubSeq(s, 1, k - 1) \in Seq(Tickets)
        /\ Len(SubSeq(s, 1, k - 1)) = IF 1 <= k - 1 THEN (k - 1) - 1 + 1 ELSE 0
        /\ \A i \in 1 .. (k - 1) - 1 + 1 : SubSeq(s, 1, k - 1)[i] = s[1 + i - 1]
    BY <2>1, <2>2, SubSeqProperties
  <2> QED
    BY <1>1, <2>3
<1>3. /\ SubSeq(s, k + 1, n) \in Seq(Tickets) /\ Len(SubSeq(s, k + 1, n)) = n - k
      /\ \A i \in 1 .. n - k : SubSeq(s, k + 1, n)[i] = s[k + i]
  <2>1. \A i \in k + 1 .. n : s[i] \in Tickets
    BY <1>1
  <2>2. k + 1 \in Int /\ n \in Int
    BY <1>1
  <2>3. /\ SubSeq(s, k + 1, n) \in Seq(Tickets)
        /\ Len(SubSeq(s, k + 1, n)) = IF k + 1 <= n THEN n - (k + 1) + 1 ELSE 0
        /\ \A i \in 1 .. n - (k + 1) + 1 : SubSeq(s, k + 1, n)[i] = s[k + 1 + i - 1]
    BY <2>1, <2>2, SubSeqProperties
  <2> QED
    BY <1>1, <2>3
<1>4. r = SubSeq(s, 1, k - 1) \o SubSeq(s, k + 1, n)
  BY DEF RemoveAt, k
<1>5. /\ r \in Seq(Tickets) /\ Len(r) = n - 1
      /\ \A i \in 1 .. n - 1 : r[i] = IF i < k THEN s[i] ELSE s[i + 1]
  <2>1. /\ r \in Seq(Tickets) /\ Len(r) = (k - 1) + (n - k)
        /\ \A i \in 1 .. (k - 1) + (n - k) : r[i] = IF i <= k - 1 THEN SubSeq(s, 1, k - 1)[i]
                                                    ELSE SubSeq(s, k + 1, n)[i - (k - 1)]
    BY <1>2, <1>3, <1>4, ConcatProperties, SMTT(30)
  <2>2. (k - 1) + (n - k) = n - 1
    BY <1>1
  <2>3. ASSUME NEW i \in 1 .. n - 1 PROVE r[i] = IF i < k THEN s[i] ELSE s[i + 1]
    <3>1. CASE i < k
      BY <1>1, <1>2, <2>1, <2>2, <3>1
    <3>2. CASE ~ (i < k)
      <4>1. i - (k - 1) \in 1 .. n - k /\ k + (i - (k - 1)) = i + 1
        BY <1>1, <3>2
      <4>2. r[i] = SubSeq(s, k + 1, n)[i - (k - 1)]
        BY <1>1, <2>1, <2>2, <3>2
      <4> QED
        BY <1>3, <3>2, <4>1, <4>2
    <3> QED
      BY <3>1, <3>2
  <2> QED
    BY <2>1, <2>2, <2>3
<1>6. \A i, j \in 1 .. n : s[i] = s[j] => i = j
  BY DEF Distinct
<1>7. Distinct(r)
  <2>1. DOMAIN r = 1 .. n - 1
    BY <1>5
  <2> QED
    BY <1>1, <1>5, <1>6, <2>1, SMTT(30) DEF Distinct
<1>8. \A i \in 1 .. n : i # k => r[IF i < k THEN i ELSE i - 1] = s[i]
  BY <1>1, <1>5
<1>9. In(r) = In(s) \ {t}
  <2>1. ASSUME NEW x \in In(r) PROVE x \in In(s) \ {t}
    <3>1. PICK i \in 1 .. n - 1 : r[i] = x
      BY <1>5 DEF In
    <3>2. CASE i < k
      <4>1. i \in 1 .. n /\ i # k /\ s[i] = x
        BY <1>1, <1>5, <3>1, <3>2
      <4> QED
        BY <1>1, <1>6, <4>1 DEF In
    <3>3. CASE ~ (i < k)
      <4>1. i + 1 \in 1 .. n /\ i + 1 # k /\ s[i + 1] = x
        BY <1>1, <1>5, <3>1, <3>3
      <4> QED
        BY <1>1, <1>6, <4>1 DEF In
    <3> QED
      BY <3>2, <3>3
  <2>2. ASSUME NEW x \in In(s) \ {t} PROVE x \in In(r)
    <3>1. PICK i \in 1 .. n : s[i] = x /\ i # k
      BY <1>1 DEF In
    <3>2. PICK j \in 1 .. n - 1 : r[j] = x
      BY <1>1, <1>8, <3>1
    <3> QED
      BY <1>5, <3>2 DEF In
  <2> QED
    BY <2>1, <2>2
<1>10. \A x \in In(r) : /\ Key(s, x) \in 1 .. n /\ Key(s, x) # k
                        /\ Key(r, x) = IF Key(s, x) < k THEN Key(s, x) ELSE Key(s, x) - 1
  <2> TAKE x \in In(r)
  <2>1. Key(s, x) \in 1 .. n /\ s[Key(s, x)] = x /\ Key(s, x) # k
    BY <1>1, <1>9, KeyIs
  <2>2. PICK j \in 1 .. n - 1 : j = IF Key(s, x) < k THEN Key(s, x) ELSE Key(s, x) - 1
    BY <1>1, <2>1
  <2>3. r[j] = x
    BY <1>8, <2>1, <2>2
  <2>4. Key(r, x) = j
    BY <1>5, <1>7, <2>3, KeyIs
  <2> QED
    BY <2>1, <2>2, <2>4
<1>11. \A x, y \in In(r) : Key(r, x) < Key(r, y) <=> Key(s, x) < Key(s, y)
  BY <1>1, <1>10
<1> QED
  BY <1>5, <1>7, <1>9, <1>11

\* Somebody joins at the end: the others keep their order.
LEMMA AppendedLine ==
    ASSUME NEW s \in Seq(Tickets), Distinct(s), NEW t \in Tickets \ In(s), NEW r, r = Append(s, t)
    PROVE  /\ r \in Seq(Tickets) /\ Distinct(r) /\ In(r) = In(s) \union {t}
           /\ \A x, y \in In(s) : Key(r, x) < Key(r, y) <=> Key(s, x) < Key(s, y)
           /\ \A y \in In(s) : ~ (Key(r, t) < Key(r, y))
<1>1. /\ r \in Seq(Tickets) /\ Len(r) = Len(s) + 1 /\ r[Len(s) + 1] = t /\ Len(s) \in Nat
      /\ \A i \in 1 .. Len(s) : r[i] = s[i]
  BY AppendProperties
<1>2. \A i \in 1 .. Len(s) : s[i] # t
  BY DEF In
<1>3. Distinct(r)
  BY <1>1, <1>2 DEF Distinct
<1>4. In(r) = In(s) \union {t}
  BY <1>1 DEF In
<1>5. \A i \in 1 .. Len(r) : Key(r, r[i]) = i
  BY <1>1, <1>3, KeyIs
<1>6. \A x \in In(s) : Key(r, x) = Key(s, x) /\ Key(s, x) \in 1 .. Len(s)
  <2> TAKE x \in In(s)
  <2>1. Key(s, x) \in 1 .. Len(s) /\ s[Key(s, x)] = x
    BY KeyIs
  <2>2. r[Key(s, x)] = x
    BY <1>1, <2>1
  <2>3. Key(s, x) \in 1 .. Len(r)
    BY <1>1, <2>1
  <2> QED
    BY <1>5, <2>1, <2>2, <2>3
<1>7. Key(r, t) = Len(s) + 1
  <2>1. Len(s) + 1 \in 1 .. Len(r)
    BY <1>1
  <2> QED
    BY <1>1, <1>5, <2>1
<1> QED
  BY <1>1, <1>3, <1>4, <1>6, <1>7

----------------------------------------------------------------------------
(* What a step does to the tickets and the line. *)

\* Of one ticket: it joins the line, is skipped and stands at its end again, leaves
\* it, or stays where it is.
Joins(t) ==
    /\ ticket[t].status = "none" /\ ticket'[t].status = "waiting" /\ ticket'[t].skips = 0
    /\ line' = Append(line, t)

Counts(t) ==
    /\ Waiting(t) /\ ticket'[t].status = "waiting"
    /\ ticket'[t].skips = ticket[t].skips + 1 /\ ticket'[t].skips < SKIP_LIMIT
    /\ line' = Append(Without(t), t)

Leaves(t) ==
    /\ Waiting(t) /\ ticket'[t].status \in {"in_service", "removed"}
    /\ ticket'[t].skips = SKIP_LIMIT => \E p \in Elevated : seen[p][t] = SKIP_LIMIT - 1
    /\ line' = Without(t)

Stays(t) ==
    /\ \/ ticket'[t].status = ticket[t].status
       \/ ticket[t].status = "in_service" /\ ticket'[t].status = "done"
    /\ ticket'[t].skips = ticket[t].skips /\ ticket'[t].today = ticket[t].today
    /\ line' = line

OneTicket(t) ==
    /\ ticket' \in [Tickets -> QueueTicket]
    /\ \A u \in Tickets \ {t} : ticket'[u] = ticket[u]
    /\ Joins(t) \/ Counts(t) \/ Leaves(t) \/ Stays(t)

\* The day ends for all of them.
NightFalls ==
    /\ ticket' \in [Tickets -> QueueTicket]
    /\ \A t \in Tickets : /\ ticket'[t].status = ticket[t].status
                          /\ ticket'[t].skips = ticket[t].skips /\ ~ ticket'[t].today
                          /\ Waiting(t) => ticket[t].today
    /\ line' = line

TicketStep == UNCHANGED <<ticket, line>> \/ NightFalls \/ \E t \in Tickets : OneTicket(t)

\* The rows that the UPDATEs and the INSERT write.
LEMMA LeftRow ==
    ASSUME NEW row \in QueueTicket, NEW status \in {"in_service", "removed"}
    PROVE  /\ Left(row, status) \in QueueTicket /\ Left(row, status).status = status
           /\ Left(row, status).skips = IF row.skips = SKIP_LIMIT THEN SKIP_LIMIT ELSE 0
<1>1. PICK k \in 0 .. SKIP_LIMIT : k = IF row.skips = SKIP_LIMIT THEN row.skips ELSE 0
  BY DEF QueueTicket, SKIP_LIMIT
<1>2. Left(row, status) = [row EXCEPT !.status = status, !.today = FALSE, !.called = FALSE, !.skips = k]
  BY <1>1 DEF Left
<1> QED
  BY <1>1, <1>2 DEF QueueTicket, QueueTicketStatus

\* The row that a skip writes: counted, or removed by the second.
LEMMA SkippedRow ==
    ASSUME NEW row \in QueueTicket, row.status = "waiting", row.skips < SKIP_LIMIT
    PROVE  /\ Skipped(row) \in QueueTicket
           /\ \/ /\ Skipped(row).status = "waiting" /\ Skipped(row).skips = row.skips + 1
                 /\ Skipped(row).skips < SKIP_LIMIT
              \/ /\ Skipped(row).status = "removed" /\ row.skips = SKIP_LIMIT - 1
<1> DEFINE counted == [row EXCEPT !.called = FALSE, !.skips = row.skips + 1]
<1>1. row.skips \in 0 .. 1 /\ row.skips + 1 \in 0 .. SKIP_LIMIT
  BY DEF QueueTicket, SKIP_LIMIT
<1>2. counted \in QueueTicket /\ counted.status = "waiting" /\ counted.skips = row.skips + 1
  BY <1>1 DEF QueueTicket
<1>3. Skipped(row) = IF counted.skips >= SKIP_LIMIT THEN Left(counted, "removed") ELSE counted
  BY DEF Skipped
<1> HIDE DEF counted
<1> QED
  BY <1>1, <1>2, <1>3, LeftRow DEF SKIP_LIMIT

\* The row that a check-in writes.
LEMMA InsertedRow ==
    LET row == [NoRow EXCEPT !.status = "waiting", !.today = TRUE]
    IN row \in QueueTicket /\ row.status = "waiting" /\ row.skips = 0
<1>1. 0 \in 0 .. SKIP_LIMIT
  BY DEF SKIP_LIMIT
<1> QED
  BY <1>1 DEF NoRow, QueueTicket, QueueTicketStatus

\* The rows that a call and the end of a visit write.
LEMMA TouchedRow ==
    ASSUME NEW row \in QueueTicket
    PROVE  /\ LET called == [row EXCEPT !.called = TRUE]
              IN called \in QueueTicket /\ called.status = row.status /\ called.skips = row.skips
                 /\ called.today = row.today
           /\ LET done == [row EXCEPT !.status = "done"]
              IN done \in QueueTicket /\ done.status = "done" /\ done.skips = row.skips
                 /\ done.today = row.today
BY DEF QueueTicket, QueueTicketStatus

\* The row once its day is over.
LEMMA OldRow ==
    \A row \in QueueTicket :
        LET old == [row EXCEPT !.today = FALSE]
        IN old \in QueueTicket /\ old.status = row.status /\ old.skips = row.skips /\ ~ old.today
BY DEF QueueTicket

\* The queue's own verbs.
LEMMA QueueTicketStep ==
    ASSUME IInv, QueueNext
    PROVE  TicketStep
<1> USE DEF IInv, TypeOK, QueueTypeOK, LineOK
<1>1. ASSUME NEW t \in Tickets, check_in(t) PROVE TicketStep
  <2> DEFINE row == [NoRow EXCEPT !.status = "waiting", !.today = TRUE]
  <2>1. ticket' = [ticket EXCEPT ![t] = row] /\ line' = Append(line, t) /\ ticket[t].status = "none"
    BY <1>1 DEF check_in, insert
  <2>2. row \in QueueTicket /\ row.status = "waiting" /\ row.skips = 0
    BY InsertedRow
  <2> HIDE DEF row
  <2> QED
    BY <2>1, <2>2 DEF TicketStep, OneTicket, Joins
<1>2. ASSUME NEW p \in Staff, NEW t \in Tickets, call(p, t) PROVE TicketStep
  <2> DEFINE row == [ticket[t] EXCEPT !.called = TRUE]
  <2>1. ticket' = [ticket EXCEPT ![t] = row] /\ line' = line
    BY <1>2 DEF call
  <2>2. row \in QueueTicket /\ row.status = ticket[t].status /\ row.skips = ticket[t].skips /\ row.today = ticket[t].today
    BY TouchedRow
  <2> HIDE DEF row
  <2> QED
    BY <2>1, <2>2 DEF TicketStep, OneTicket, Stays
<1>3. ASSUME NEW p \in Staff, NEW t \in Tickets, skip(p, t) PROVE TicketStep
  <2>1. ticket' = [ticket EXCEPT ![t] = Skipped(ticket[t])] /\ Waiting(t) /\ SkipMatches(p, t) /\ p \in Elevated
    BY <1>3 DEF skip, claim_by_id
  <2>2. line' = IF ticket'[t].status = "waiting" THEN Append(Without(t), t) ELSE Without(t)
    BY <1>3 DEF skip
  <2>3. ticket[t] \in QueueTicket /\ ticket[t].status = "waiting" /\ ticket[t].skips < SKIP_LIMIT
    BY <2>1 DEF Waiting
  <2>4. OneTicket(t)
    <3>1. Skipped(ticket[t]) \in QueueTicket
      BY <2>3, SkippedRow
    <3>2. ticket' \in [Tickets -> QueueTicket] /\ ticket'[t] = Skipped(ticket[t]) /\ \A u \in Tickets \ {t} : ticket'[u] = ticket[u]
      BY <2>1, <3>1
    <3>3. Counts(t) \/ Leaves(t)
      BY <2>1, <2>2, <2>3, <3>2, SkippedRow DEF Counts, Leaves, SkipMatches
    <3> QED
      BY <3>2, <3>3 DEF OneTicket
  <2> QED
    BY <2>4 DEF TicketStep
<1>4. ASSUME NEW p \in Staff, NEW t \in Tickets, remove(p, t) PROVE TicketStep
  <2>1. ticket' = [ticket EXCEPT ![t] = Left(ticket[t], "removed")] /\ Waiting(t) /\ line' = Without(t)
    BY <1>4 DEF remove, claim_by_id
  <2>2. Left(ticket[t], "removed") \in QueueTicket /\ Left(ticket[t], "removed").status = "removed"
        /\ Left(ticket[t], "removed").skips = 0
    BY <2>1, LeftRow DEF SKIP_LIMIT
  <2> QED
    BY <2>1, <2>2 DEF TicketStep, OneTicket, Leaves, SKIP_LIMIT
<1>5. CASE Midnight
  <2>1. ticket' = [t \in Tickets |-> [ticket[t] EXCEPT !.today = FALSE]] /\ line' = line
        /\ \A t \in Tickets : Waiting(t) => ticket[t].today
    BY <1>5 DEF Midnight
  <2>2. \A t \in Tickets : ticket'[t] \in QueueTicket /\ ticket'[t].status = ticket[t].status
                           /\ ticket'[t].skips = ticket[t].skips /\ ~ ticket'[t].today
    <3> TAKE t \in Tickets
    <3>1. ticket'[t] = [ticket[t] EXCEPT !.today = FALSE] /\ ticket[t] \in QueueTicket
      BY <2>1
    <3> QED
      BY <3>1, OldRow
  <2>3. ticket' \in [Tickets -> QueueTicket]
    BY <2>1, <2>2
  <2> QED
    BY <2>1, <2>2, <2>3 DEF TicketStep, NightFalls
<1>6. ASSUME NEW p \in Staff, poll(p) PROVE TicketStep
  BY <1>6 DEF poll, TicketStep
<1> QED
  BY <1>1, <1>2, <1>3, <1>4, <1>5, <1>6 DEF QueueNext

\* The floor's verbs.
LEMMA DispatchedTicketStep ==
    ASSUME IInv, NEW p \in Staff, dispatched(p)
    PROVE  /\ OneTicket(tx[p].ticket) /\ Waiting(tx[p].ticket)
           /\ ticket'[tx[p].ticket].status = "in_service"
<1> USE DEF IInv, TypeOK, QueueTypeOK, LineOK
<1> DEFINE t == tx[p].ticket
<1>1. ticket' = [ticket EXCEPT ![t] = Left(ticket[t], "in_service")] /\ line' = Without(t)
  BY DEF dispatched
<1>2. t \in Tickets /\ Waiting(t)
  BY DEF dispatched, OpenOK
<1>3. Left(ticket[t], "in_service") \in QueueTicket /\ Left(ticket[t], "in_service").status = "in_service"
      /\ Left(ticket[t], "in_service").skips = 0
  BY <1>2, LeftRow DEF SKIP_LIMIT
<1> HIDE DEF t
<1>4. OneTicket(t) /\ ticket'[t].status = "in_service"
  BY <1>1, <1>2, <1>3 DEF OneTicket, Leaves, SKIP_LIMIT
<1> QED
  BY <1>2, <1>4 DEF t

\* A release ends the service of its ticket, if it ends the assignment.
LEMMA ReleasedTicketStep ==
    ASSUME IInv, NEW p \in Staff, release(p)
    PROVE  /\ line' = line
           /\ \/ ticket' = ticket /\ (tx[p].asg \notin active \/ asg[tx[p].asg].ticket = None)
              \/ /\ tx[p].asg \in active /\ asg[tx[p].asg].ticket \in Tickets
                 /\ OneTicket(asg[tx[p].asg].ticket)
                 /\ ticket[asg[tx[p].asg].ticket].status = "in_service"
                 /\ ticket'[asg[tx[p].asg].ticket].status = "done"
<1> USE DEF IInv, TypeOK, QueueTypeOK
<1>1. PICK a, t : a = tx[p].asg /\ t = asg[a].ticket
  OBVIOUS
<1>2. a \in Assignments /\ line' = line
  BY <1>1 DEF release, OpenOK
<1>3. CASE a \in active /\ t # None
  <2>1. t \in Tickets /\ ticket[t].status = "in_service"
    BY <1>1, <1>2, <1>3 DEF RowsOK, FittingRoomAssignment
  <2>2. ticket' = [ticket EXCEPT ![t] = [ticket[t] EXCEPT !.status = "done"]]
    BY <1>1, <1>3, <2>1 DEF release, close
  <2> DEFINE done == [ticket[t] EXCEPT !.status = "done"]
  <2>3. done \in QueueTicket /\ done.status = "done" /\ done.skips = ticket[t].skips /\ done.today = ticket[t].today
    BY <2>1, TouchedRow
  <2>4. ticket' = [ticket EXCEPT ![t] = done]
    BY <2>2
  <2> HIDE DEF done
  <2>5. OneTicket(t) /\ ticket'[t].status = "done"
    BY <1>2, <2>1, <2>3, <2>4 DEF OneTicket, Stays
  <2> QED
    BY <1>1, <1>2, <1>3, <2>1, <2>5
<1>4. CASE ~ (a \in active /\ t # None)
  <2>1. ticket' = ticket
    BY <1>1, <1>4 DEF release, close
  <2> QED
    BY <1>1, <1>2, <1>4, <2>1
<1> QED
  BY <1>3, <1>4

\* Every step is one of these.
LEMMA NextTicketStep ==
    ASSUME IInv, [Next]_vars
    PROVE  TicketStep
<1>1. CASE QueueNext
  BY <1>1, QueueTicketStep
<1>2. ASSUME NEW p \in Staff, dispatched(p) PROVE TicketStep
  <2>1. tx[p].ticket \in Tickets
    BY <1>2 DEF dispatched, IInv, OpenOK
  <2> QED
    BY <1>2, <2>1, DispatchedTicketStep DEF TicketStep
<1>3. ASSUME NEW p \in Staff, release(p) PROVE TicketStep
  BY <1>3, ReleasedTicketStep DEF TicketStep
<1>4. ASSUME NEW r \in Rooms, (\E s \in Staff : claim(r, s)) \/ create_room(r) \/ update_room(r) \/ delete_room(r)
      PROVE  TicketStep
  BY <1>4 DEF claim, create_room, update_room, delete_room, queueVars, TicketStep
<1>5. ASSUME NEW p \in Staff, NEW r \in Rooms, NEW s \in Staff,
             take_next(p, r, s) \/ \E t \in Tickets : assign(p, r, s, t)
      PROVE  TicketStep
  BY <1>5 DEF take_next, assign, dispatch, TicketStep
<1>6. ASSUME NEW p \in Staff, dispatch_refused(p) \/ mark_read(p) PROVE TicketStep
  BY <1>6 DEF dispatch_refused, RolledBack, mark_read, queueVars, TicketStep
<1>7. ASSUME NEW p \in Staff, NEW a \in Assignments, (\E s \in Staff : handover(p, a, s)) \/ release_read(p, a)
      PROVE  TicketStep
  BY <1>7 DEF handover, release_read, queueVars, TicketStep
<1>8. CASE UNCHANGED vars
  BY <1>8 DEF vars, queueVars, TicketStep
<1> QED
  BY <1>1, <1>2, <1>3, <1>4, <1>5, <1>6, <1>7, <1>8 DEF Next

----------------------------------------------------------------------------
(* What that means for the line. *)

\* The places of those who wait on, before and after: their order is kept, and only
\* one who was skipped or has just come stands behind.
LEMMA LineStep ==
    ASSUME IInv, NEW t \in Tickets, OneTicket(t)
    PROVE  /\ LineOK' /\ line' \in Seq(Tickets)
           /\ \A x, y \in In(line) : x # t /\ y # t => (Key(line', x) < Key(line', y) <=> Key(line, x) < Key(line, y))
           /\ Joins(t) \/ Counts(t) => \A y \in In(line) : y # t => ~ (Key(line', t) < Key(line', y))
           /\ Stays(t) => line' = line
<1> USE DEF IInv, TypeOK, QueueTypeOK, LineOK
<1>1. Without(t) = RemoveAt(line, Key(line, t))
  BY DEF Without, SortKey, Key
<1>2. \A u \in Tickets : u # t => ticket'[u] = ticket[u]
  BY DEF OneTicket
<1>3. CASE Joins(t)
  <2>1. t \notin In(line) /\ line' = Append(line, t)
    BY <1>3 DEF Joins, Waiting
  <2>2. /\ line' \in Seq(Tickets) /\ Distinct(line') /\ In(line') = In(line) \union {t}
        /\ \A x, y \in In(line) : Key(line', x) < Key(line', y) <=> Key(line, x) < Key(line, y)
        /\ \A y \in In(line) : ~ (Key(line', t) < Key(line', y))
    BY <2>1, AppendedLine
  <2>3. LineOK'
    BY <1>2, <1>3, <2>2, SMTT(30) DEF Joins, Waiting, SKIP_LIMIT
  <2>4. ~ Stays(t)
    BY <1>3 DEF Joins, Stays
  <2> QED
    BY <2>2, <2>3, <2>4
<1>4. CASE Leaves(t)
  <2>1. t \in In(line) /\ line' = RemoveAt(line, Key(line, t))
    BY <1>1, <1>4 DEF Leaves
  <2>2. /\ line' \in Seq(Tickets) /\ Distinct(line') /\ In(line') = In(line) \ {t}
        /\ \A x, y \in In(line') : Key(line', x) < Key(line', y) <=> Key(line, x) < Key(line, y)
    BY <2>1, RemovedLine
  <2>3. LineOK'
    BY <1>2, <1>4, <2>2 DEF Leaves, Waiting
  <2>4. ~ Joins(t) /\ ~ Counts(t) /\ ~ Stays(t)
    BY <1>4 DEF Leaves, Joins, Counts, Stays, Waiting
  <2> QED
    BY <2>2, <2>3, <2>4
<1>5. CASE Counts(t)
  <2>1. PICK s : s = RemoveAt(line, Key(line, t))
    OBVIOUS
  <2>2. t \in In(line) /\ line' = Append(s, t)
    BY <1>1, <1>5, <2>1 DEF Counts
  <2>3. /\ s \in Seq(Tickets) /\ Distinct(s) /\ In(s) = In(line) \ {t}
        /\ \A x, y \in In(s) : Key(s, x) < Key(s, y) <=> Key(line, x) < Key(line, y)
    BY <2>1, <2>2, RemovedLine
  <2>4. /\ line' \in Seq(Tickets) /\ Distinct(line') /\ In(line') = In(s) \union {t}
        /\ \A x, y \in In(s) : Key(line', x) < Key(line', y) <=> Key(s, x) < Key(s, y)
        /\ \A y \in In(s) : ~ (Key(line', t) < Key(line', y))
    <3>1. t \in Tickets \ In(s)
      BY <2>3
    <3> HIDE DEF IInv, LineOK
    <3> QED
      BY <2>2, <2>3, <3>1, AppendedLine
  <2>5. LineOK'
    BY <1>2, <1>5, <2>2, <2>3, <2>4 DEF Counts, Waiting
  <2>6. ~ Stays(t)
    BY <1>5, SMTT(30) DEF Counts, Stays, QueueTicket, SKIP_LIMIT
  <2> QED
    BY <2>3, <2>4, <2>5, <2>6
<1>6. CASE Stays(t)
  <2>1. line' = line /\ ~ Joins(t) /\ ~ Counts(t)
    BY <1>6 DEF Stays, Joins, Counts, QueueTicket, SKIP_LIMIT
  <2>2. LineOK'
    BY <1>2, <1>6, <2>1 DEF Stays, Waiting
  <2> QED
    BY <1>6, <2>1, <2>2
<1> QED
  BY <1>3, <1>4, <1>5, <1>6 DEF OneTicket

\* Every step leaves a line that holds every waiting ticket once.
LEMMA NextLine ==
    ASSUME IInv, [Next]_vars
    PROVE  LineOK' /\ ticket' \in [Tickets -> QueueTicket] /\ line' \in Seq(Tickets)
<1>1. TicketStep
  BY NextTicketStep
<1>2. CASE UNCHANGED <<ticket, line>>
  BY <1>2 DEF IInv, LineOK, Waiting, TypeOK, QueueTypeOK
<1>3. CASE NightFalls
  BY <1>3 DEF NightFalls, IInv, LineOK, Waiting, TypeOK, QueueTypeOK
<1>4. CASE \E t \in Tickets : OneTicket(t)
  BY <1>4, LineStep DEF OneTicket
<1> QED
  BY <1>1, <1>2, <1>3, <1>4 DEF TicketStep

\* A place in the line is a number of tickets before one's own.
LEMMA PositionIs ==
    ASSUME IInv, NEW t \in Tickets
    PROVE  position(t) = 1 + Cardinality({u \in Tickets : /\ Waiting(u)
                                                          /\ ticket[u].today = ticket[t].today
                                                          /\ Key(line, u) < Key(line, t)})
BY DEF position, SortKey, Key

\* Fewer tickets before her, no worse a place.
LEMMA FewerBefore ==
    ASSUME NEW S \in SUBSET Tickets, NEW T \in SUBSET S
    PROVE  1 + Cardinality(T) <= 1 + Cardinality(S)
<1>1. IsFiniteSet(S)
  BY FS_Subset
<1>2. Cardinality(T) \in Nat /\ Cardinality(S) \in Nat /\ Cardinality(T) <= Cardinality(S)
  BY <1>1, FS_Subset, FS_CardinalityType
<1> QED
  BY <1>2

\* No step of the line is unfair: nobody comes to stand before a ticket that waits.
LEMMA FairStep ==
    ASSUME IInv, IInv', TicketStep
    PROVE  PositionOnlyImproves /\ RemovedKnowingly
<1>1. RemovedKnowingly
  <2> SUFFICES ASSUME NEW t \in Tickets, ticket[t].skips < SKIP_LIMIT, ticket'[t].skips = SKIP_LIMIT
               PROVE  \E p \in Elevated : seen[p][t] = SKIP_LIMIT - 1
    BY DEF RemovedKnowingly
  <2>1. ticket[t].skips # ticket'[t].skips
    BY DEF SKIP_LIMIT
  <2>2. OneTicket(t)
    BY <2>1 DEF TicketStep, NightFalls, OneTicket
  <2> QED
    BY <2>1, <2>2 DEF OneTicket, Joins, Counts, Leaves, Stays, SKIP_LIMIT
<1>2. PositionOnlyImproves
  <2> SUFFICES ASSUME NEW t \in Tickets, Waiting(t), Waiting(t)',
                      ticket'[t].today = ticket[t].today, ticket'[t].skips = ticket[t].skips
               PROVE  position(t)' <= position(t)
    BY DEF PositionOnlyImproves
  <2> DEFINE before == {u \in Tickets : /\ Waiting(u) /\ ticket[u].today = ticket[t].today
                                        /\ Key(line, u) < Key(line, t)}
             after == {u \in Tickets : /\ Waiting(u)' /\ ticket'[u].today = ticket'[t].today
                                       /\ Key(line', u) < Key(line', t)}
  <2>1. position(t) = 1 + Cardinality(before)
    BY PositionIs
  <2>2. position(t)' = 1 + Cardinality(after)
    BY DEF position, SortKey, Key
  <2>3. after \subseteq before
    <3> SUFFICES ASSUME NEW u \in Tickets, Waiting(u)', ticket'[u].today = ticket'[t].today,
                        Key(line', u) < Key(line', t)
                 PROVE  Waiting(u) /\ ticket[u].today = ticket[t].today /\ Key(line, u) < Key(line, t)
      OBVIOUS
    <3>1. CASE UNCHANGED <<ticket, line>>
      BY <3>1 DEF Waiting
    <3>2. ~ NightFalls
      BY DEF NightFalls
    <3>3. ASSUME NEW x \in Tickets, OneTicket(x)
          PROVE  Waiting(u) /\ ticket[u].today = ticket[t].today /\ Key(line, u) < Key(line, t)
      <4>0. t \in In(line)
        BY DEF IInv, LineOK
      <4>1. CASE x # t /\ x # u
        <5>1. ticket'[t] = ticket[t] /\ ticket'[u] = ticket[u]
          BY <3>3, <4>1 DEF OneTicket
        <5>2. Waiting(u) /\ u \in In(line)
          BY <5>1 DEF Waiting, IInv, LineOK
        <5> QED
          BY <3>3, <4>0, <4>1, <5>1, <5>2, LineStep
      <4>2. CASE x = t
        <5>1. Stays(t)
          BY <3>3, <4>2 DEF OneTicket, Joins, Counts, Leaves, Waiting, IInv, TypeOK, QueueTypeOK, QueueTicket, SKIP_LIMIT
        <5>2. line' = line
          BY <5>1 DEF Stays
        <5>3. u # t
          <6>1. Key(line, t) \in Nat
            BY <4>0, KeyIs DEF IInv, LineOK, TypeOK, QueueTypeOK
          <6> QED
            BY <5>2, <6>1
        <5>4. ticket'[u] = ticket[u]
          BY <3>3, <4>2, <5>3 DEF OneTicket
        <5> QED
          BY <5>2, <5>4 DEF Waiting
      <4>3. CASE x = u /\ x # t
        <5>1. ~ Joins(u) /\ ~ Counts(u)
          BY <3>3, <4>0, <4>3, LineStep
        <5>2. Stays(u)
          BY <3>3, <4>3, <5>1 DEF OneTicket, Leaves, Waiting
        <5>3. ticket'[t] = ticket[t]
          BY <3>3, <4>3 DEF OneTicket
        <5> QED
          BY <5>2, <5>3 DEF Stays, Waiting
      <4> QED
        BY <4>1, <4>2, <4>3
    <3> QED
      BY <3>1, <3>2, <3>3 DEF TicketStep
  <2> HIDE DEF before, after
  <2>4. before \in SUBSET Tickets
    BY DEF before
  <2> QED
    BY <2>1, <2>2, <2>3, <2>4, FewerBefore
<1> QED
  BY <1>1, <1>2

----------------------------------------------------------------------------
(* Init, and the queue's verbs. *)

\* It holds at the start: an empty line, no rooms.
LEMMA InitIInv == Init => IInv
<1> SUFFICES ASSUME Init PROVE IInv
  OBVIOUS
<1> USE DEF Init, QueueInit
<1>1. QueueTypeOK
  <2>1. NoRow \in QueueTicket
    <3>1. 0 \in 0 .. SKIP_LIMIT
      BY DEF SKIP_LIMIT
    <3> QED
      BY <3>1 DEF NoRow, QueueTicket
  <2>2. <<>> \in Seq(Tickets) /\ 0 \in 0 .. SKIP_LIMIT
    BY DEF SKIP_LIMIT
  <2> QED
    BY <2>1, <2>2 DEF QueueTypeOK
<1>2. TypeOK
  BY <1>1 DEF TypeOK, FittingRoom, FittingRoomAssignment, NoAssignment, Idle
<1>3. LineOK
  BY DEF LineOK, Distinct, In, Waiting, NoRow
<1>4. OpenOK
  BY DEF OpenOK, Idle
<1>5. active = {}
  BY DEF active, NoAssignment
<1>6. RowsOK
  BY <1>5 DEF RowsOK, NoAssignment, NoRow
<1>7. OneRoomEach /\ ServedOnce /\ BellTellsTheTruth
  BY <1>5 DEF OneRoomEach, ServedOnce, BellTellsTheTruth, NoAssignment
<1> QED
  BY <1>2, <1>3, <1>4, <1>6, <1>7 DEF IInv

\* What a panel renders is a count.
LEMMA SeenType ==
    ASSUME QueueTypeOK, NEW rows \in [Tickets -> QueueTicket], NEW p, waiting_for_panel(p, rows)
    PROVE  seen' \in [Elevated -> [Tickets -> 0 .. SKIP_LIMIT]]
<1> DEFINE show(q, t) == CASE rows[t].status # "waiting"  -> 0
                           [] q = p /\ rows[t].today      -> rows[t].skips
                           [] OTHER                       -> seen[q][t]
<1>1. ASSUME NEW q \in Elevated, NEW t \in Tickets
      PROVE  (IF rows[t].status # "waiting" THEN 0
              ELSE IF q = p /\ rows[t].today THEN rows[t].skips ELSE seen[q][t]) \in 0 .. SKIP_LIMIT
  BY DEF QueueTypeOK, QueueTicket, SKIP_LIMIT
<1>2. ASSUME NEW q \in Elevated, NEW t \in Tickets PROVE show(q, t) \in 0 .. SKIP_LIMIT
  <2>1. CASE rows[t].status # "waiting"
    <3>1. 0 \in 0 .. SKIP_LIMIT
      BY DEF SKIP_LIMIT
    <3>2. ~ (q = p /\ rows[t].today) => show(q, t) = 0
      BY <2>1
    <3>3. q = p /\ rows[t].today => show(q, t) \in {0, rows[t].skips}
      BY <2>1
    <3>4. rows[t].skips \in 0 .. SKIP_LIMIT
      BY DEF QueueTicket
    <3> QED
      BY <3>1, <3>2, <3>3, <3>4
  <2>2. CASE rows[t].status = "waiting" /\ q = p /\ rows[t].today
    <3>1. show(q, t) = rows[t].skips
      BY <2>2
    <3> QED
      BY <3>1 DEF QueueTicket
  <2>3. CASE rows[t].status = "waiting" /\ ~ (q = p /\ rows[t].today)
    <3>1. show(q, t) = seen[q][t]
      BY <2>3
    <3> QED
      BY <3>1 DEF QueueTypeOK
  <2> QED
    BY <2>1, <2>2, <2>3
<1>3. seen' = [q \in Elevated |-> [t \in Tickets |-> show(q, t)]]
  BY DEF waiting_for_panel
<1> HIDE DEF show
<1> QED
  BY <1>2, <1>3

\* The queue's verbs leave the held tickets waiting and the served ones alone.
LEMMA QueueKeeps ==
    ASSUME IInv, QueueNext
    PROVE  /\ held' = held /\ seen' \in [Elevated -> [Tickets -> 0 .. SKIP_LIMIT]]
           /\ \A t \in Tickets :
                 /\ Waiting(t) /\ t \in held => Waiting(t)'
                 /\ ticket[t].status \in {"in_service", "done"} => ticket'[t].status = ticket[t].status
                 /\ ticket'[t].status = "in_service" => ticket[t].status = "in_service"
<1>1. TypeOK /\ QueueTypeOK /\ LineOK
  BY DEF IInv, TypeOK
<1>2. ticket' \in [Tickets -> QueueTicket]
  BY NextLine, QueueTicketStep, <1>1 DEF TicketStep, NightFalls, OneTicket, QueueTypeOK
<1>3. held' = held
  BY DEF QueueNext, check_in, poll, call, skip, remove, Midnight
<1>4. seen' \in [Elevated -> [Tickets -> 0 .. SKIP_LIMIT]]
  <2>1. ASSUME NEW p \in Staff, NEW t \in Tickets, call(p, t) \/ skip(p, t) \/ remove(p, t)
        PROVE  waiting_for_panel(p, ticket')
    BY <2>1 DEF call, skip, remove
  <2>2. ASSUME NEW p \in Staff, poll(p) PROVE waiting_for_panel(p, ticket) /\ ticket \in [Tickets -> QueueTicket]
    BY <1>1, <2>2 DEF poll, QueueTypeOK
  <2>3. \/ seen' = seen
        \/ \E p \in Staff : waiting_for_panel(p, ticket')
        \/ \E p \in Staff : waiting_for_panel(p, ticket)
    BY <2>1, <2>2 DEF QueueNext, check_in, Midnight
  <2> QED
    BY <1>1, <1>2, <2>3, SeenType DEF QueueTypeOK
<1>5. ASSUME NEW t \in Tickets
      PROVE  /\ Waiting(t) /\ t \in held => Waiting(t)'
             /\ ticket[t].status \in {"in_service", "done"} => ticket'[t].status = ticket[t].status
             /\ ticket'[t].status = "in_service" => ticket[t].status = "in_service"
  <2> USE DEF QueueTypeOK, Waiting
  <2>1. ASSUME NEW u \in Tickets, check_in(u) PROVE ticket'[t].status = ticket[t].status
                                                    \/ (ticket[t].status = "none" /\ ticket'[t].status = "waiting")
    <3> DEFINE row == [NoRow EXCEPT !.status = "waiting", !.today = TRUE]
    <3>1. ticket' = [ticket EXCEPT ![u] = row] /\ ticket[u].status = "none" /\ row.status = "waiting"
      BY <2>1, InsertedRow DEF check_in, insert
    <3> HIDE DEF row
    <3> QED
      BY <1>1, <3>1
  <2>2. ASSUME NEW p \in Staff, NEW u \in Tickets, call(p, u) PROVE ticket'[t].status = ticket[t].status
    <3> DEFINE row == [ticket[u] EXCEPT !.called = TRUE]
    <3>1. ticket' = [ticket EXCEPT ![u] = row] /\ row.status = ticket[u].status
      BY <1>1, <2>2, TouchedRow DEF call
    <3> HIDE DEF row
    <3> QED
      BY <1>1, <3>1
  <2>3. ASSUME NEW p \in Staff, NEW u \in Tickets, skip(p, u) \/ remove(p, u)
        PROVE  \/ ticket'[t] = ticket[t]
               \/ Waiting(t) /\ t \notin held /\ ticket'[t].status \in {"waiting", "removed"}
    <3>1. CASE skip(p, u)
      <4>1. ticket' = [ticket EXCEPT ![u] = Skipped(ticket[u])] /\ Waiting(u) /\ u \notin held
        BY <3>1 DEF skip, claim_by_id
      <4>2. Skipped(ticket[u]).status \in {"waiting", "removed"}
        BY <1>1, <4>1, SkippedRow DEF LineOK
      <4> QED
        BY <1>1, <4>1, <4>2
    <3>2. CASE remove(p, u)
      <4>1. ticket' = [ticket EXCEPT ![u] = Left(ticket[u], "removed")] /\ Waiting(u) /\ u \notin held
        BY <3>2 DEF remove, claim_by_id
      <4>2. Left(ticket[u], "removed").status = "removed"
        BY <1>1, LeftRow
      <4> QED
        BY <1>1, <4>1, <4>2
    <3> QED
      BY <2>3, <3>1, <3>2
  <2>4. ASSUME Midnight PROVE ticket'[t].status = ticket[t].status
    <3>1. ticket'[t] = [ticket[t] EXCEPT !.today = FALSE]
      BY <2>4 DEF Midnight
    <3> QED
      BY <1>1, <3>1, OldRow
  <2>5. ASSUME NEW p \in Staff, poll(p) PROVE ticket'[t] = ticket[t]
    BY <2>5 DEF poll
  <2> QED
    BY <2>1, <2>2, <2>3, <2>4, <2>5 DEF QueueNext
<1> QED
  BY <1>3, <1>4, <1>5

----------------------------------------------------------------------------
(* The verbs of the floor. *)

\* The rows that an assignment's statements write.
LEMMA AssignmentRows ==
    /\ \A r \in Rooms, s \in Staff, t \in Tickets \union {None} :
          LET row == [status |-> "active", room |-> r, staff |-> s, ticket |-> t]
          IN row \in FittingRoomAssignment
    /\ \A row \in FittingRoomAssignment :
          /\ \A s \in Staff : LET new == [row EXCEPT !.staff = s]
                              IN /\ new \in FittingRoomAssignment /\ new.status = row.status
                                 /\ new.room = row.room /\ new.staff = s /\ new.ticket = row.ticket
          /\ Released(row) \in FittingRoomAssignment /\ Released(row).status = "released"
          /\ Released(row).ticket = row.ticket
BY DEF FittingRoomAssignment, Released

\* A queue verb leaves rooms, rows and transactions as they were.
LEMMA QueueStepKeeps ==
    ASSUME IInv, QueueNext, UNCHANGED floorVars
    PROVE  IInv'
<1> USE DEF floorVars
<1>1. LineOK' /\ ticket' \in [Tickets -> QueueTicket] /\ line' \in Seq(Tickets)
  BY NextLine DEF Next
<1>2. TypeOK'
  BY <1>1, QueueKeeps DEF IInv, TypeOK, QueueTypeOK
<1>3. active' = active
  BY DEF active
<1>4. OpenOK'
  BY QueueKeeps DEF IInv, OpenOK
<1>5. RowsOK'
  <2>1. \A a \in Assignments : asg[a].ticket \in Tickets \union {None}
    BY DEF IInv, TypeOK, FittingRoomAssignment
  <2> QED
    BY <1>3, <2>1, QueueKeeps DEF IInv, RowsOK
<1>6. OneRoomEach' /\ ServedOnce' /\ BellTellsTheTruth'
  BY <1>3 DEF IInv, OneRoomEach, ServedOnce, BellTellsTheTruth
<1> QED
  BY <1>1, <1>2, <1>4, <1>5, <1>6 DEF IInv

\* A claim adds a row for a free room and a free staffer.
LEMMA ClaimKeeps ==
    ASSUME IInv, NEW r \in Rooms, NEW s \in Staff, claim(r, s)
    PROVE  IInv'
<1> USE DEF IInv, claim
<1>1. PICK a \in Fresh : asg' = [asg EXCEPT ![a] = [status |-> "active", room |-> r, staff |-> s, ticket |-> None]]
  OBVIOUS
<1> DEFINE row == [status |-> "active", room |-> r, staff |-> s, ticket |-> None]
<1>2. /\ row \in FittingRoomAssignment /\ row.status = "active" /\ row.room = r /\ row.staff = s
      /\ row.ticket = None /\ asg' = [asg EXCEPT ![a] = row]
  BY <1>1, AssignmentRows
<1> HIDE DEF row
<1>3. a \in Assignments /\ asg[a].status = "none"
  BY DEF Fresh
<1>4. /\ asg'[a] = row /\ \A b \in Assignments \ {a} : asg'[b] = asg[b]
      /\ asg' \in [Assignments -> FittingRoomAssignment]
  BY <1>2, <1>3 DEF TypeOK
<1>5. active' = active \union {a} /\ a \notin active
  BY <1>2, <1>3, <1>4 DEF active
<1>6. UNCHANGED <<queueVars, room, tx, bell>> /\ room[r] = "active" /\ ~ violated_index(r, s)
  OBVIOUS
<1> HIDE DEF claim
<1>7. TypeOK' /\ LineOK' /\ OpenOK'
  BY <1>4, <1>6 DEF TypeOK, QueueTypeOK, queueVars, LineOK, Waiting, OpenOK
<1>8. RowsOK'
  BY <1>2, <1>3, <1>4, <1>5, <1>6 DEF RowsOK, queueVars, active
<1>9. OneRoomEach'
  BY <1>2, <1>4, <1>5, <1>6 DEF OneRoomEach, violated_index, occupant_of_room, room_of_staff, active
<1>10. ServedOnce' /\ BellTellsTheTruth'
  BY <1>2, <1>3, <1>4, <1>5, <1>6 DEF ServedOnce, RowsOK, BellTellsTheTruth
<1> QED
  BY <1>7, <1>8, <1>9, <1>10

\* A dispatch locks a room that stands, and a waiting ticket that no other holds.
LEMMA DispatchKeeps ==
    ASSUME IInv, NEW p \in Staff, NEW r \in Rooms, NEW s \in Staff, NEW t \in Tickets \ held,
           Waiting(t), dispatch(p, r, s, t)
    PROVE  IInv'
<1> USE DEF IInv, dispatch
<1> DEFINE open == [Idle EXCEPT !.verb = "dispatch", !.room = r, !.staff = s, !.ticket = t]
<1>1. /\ open.verb = "dispatch" /\ open.room = r /\ open.staff = s /\ open.ticket = t
      /\ open \in [verb : {"none", "dispatch", "release"}, room : Rooms \union {None},
                   staff : Staff \union {None}, ticket : Tickets \union {None},
                   asg : Assignments \union {None}]
  BY DEF Idle
<1>2. tx' = [tx EXCEPT ![p] = open]
  OBVIOUS
<1> HIDE DEF open
<1>3. tx'[p] = open /\ \A q \in Staff \ {p} : tx'[q] = tx[q]
  BY <1>2 DEF TypeOK
<1>4. held' = held \union {t} /\ UNCHANGED <<ticket, line, seen, room, asg, bell>> /\ room[r] = "active"
  OBVIOUS
<1> HIDE DEF dispatch
<1>5. TypeOK'
  BY <1>1, <1>2, <1>4 DEF TypeOK, QueueTypeOK
<1>6. LineOK' /\ RowsOK' /\ OneRoomEach' /\ ServedOnce' /\ BellTellsTheTruth'
  BY <1>4 DEF LineOK, Waiting, RowsOK, OneRoomEach, ServedOnce, BellTellsTheTruth, active
<1>7. OpenOK'
  BY <1>1, <1>3, <1>4 DEF OpenOK, Waiting
<1> QED
  BY <1>5, <1>6, <1>7

\* The commit of a dispatch: the ticket, which waited, is in service with the new row.
LEMMA DispatchedKeeps ==
    ASSUME IInv, NEW p \in Staff, dispatched(p)
    PROVE  IInv'
<1> USE DEF IInv
<1>1. PICK r, s, t : /\ r = tx[p].room /\ s = tx[p].staff /\ t = tx[p].ticket
  OBVIOUS
<1>2. PICK a \in Fresh :
         /\ asg' = [asg EXCEPT ![a] = [status |-> "active", room |-> r, staff |-> s, ticket |-> t]]
         /\ ring(p, s, a)
  BY <1>1 DEF dispatched
<1>3. /\ tx[p].verb = "dispatch" /\ ~ violated_index(r, s)
      /\ ticket' = [ticket EXCEPT ![t] = Left(ticket[t], "in_service")]
      /\ held' = held \ {t} /\ tx' = [tx EXCEPT ![p] = Idle] /\ UNCHANGED room
      /\ waiting_for_panel(p, ticket')
  BY <1>1 DEF dispatched
<1>4. r \in Rooms /\ s \in Staff /\ t \in Tickets /\ room[r] # "none" /\ Waiting(t)
  BY <1>1, <1>3 DEF OpenOK
<1> DEFINE row == [status |-> "active", room |-> r, staff |-> s, ticket |-> t]
<1>5. /\ row \in FittingRoomAssignment /\ row.status = "active" /\ row.room = r /\ row.staff = s
      /\ row.ticket = t /\ asg' = [asg EXCEPT ![a] = row]
  BY <1>2, <1>4, AssignmentRows
<1> HIDE DEF row
<1>6. a \in Assignments /\ asg[a].status = "none"
  BY DEF Fresh
<1>7. /\ asg'[a] = row /\ \A b \in Assignments \ {a} : asg'[b] = asg[b]
      /\ asg' \in [Assignments -> FittingRoomAssignment]
  BY <1>5, <1>6 DEF TypeOK
<1>8. active' = active \union {a} /\ a \notin active
  BY <1>5, <1>6, <1>7 DEF active
<1>9. ticket'[t].status = "in_service" /\ \A u \in Tickets \ {t} : ticket'[u] = ticket[u]
  <2>1. Left(ticket[t], "in_service").status = "in_service"
    BY <1>4, LeftRow DEF TypeOK, QueueTypeOK
  <2> QED
    BY <1>3, <1>4, <2>1 DEF TypeOK, QueueTypeOK
<1>10. LineOK' /\ ticket' \in [Tickets -> QueueTicket] /\ line' \in Seq(Tickets)
  <2>1. Next
    BY DEF Next
  <2> QED
    BY <2>1, NextLine
<1>11. TypeOK'
  <2>1. seen' \in [Elevated -> [Tickets -> 0 .. SKIP_LIMIT]]
    BY <1>3, <1>10, SeenType DEF TypeOK
  <2>2. tx' \in [Staff -> [verb : {"none", "dispatch", "release"},
                           room : Rooms \union {None}, staff : Staff \union {None},
                           ticket : Tickets \union {None}, asg : Assignments \union {None}]]
    BY <1>3 DEF TypeOK, Idle
  <2>3. bell' \in [Staff -> SUBSET Assignments]
    BY <1>2, <1>6 DEF TypeOK, ring
  <2> QED
    BY <1>3, <1>7, <1>10, <2>1, <2>2, <2>3 DEF TypeOK, QueueTypeOK
<1>12. OpenOK'
  <2>1. tx'[p] = Idle /\ \A q \in Staff \ {p} : tx'[q] = tx[q]
    BY <1>3 DEF TypeOK
  <2>2. ASSUME NEW q \in Staff, tx'[q].verb = "dispatch" PROVE q # p /\ tx[q].ticket # t /\ tx'[q] = tx[q]
    BY <1>1, <1>3, <2>1, <2>2 DEF OpenOK, Idle
  <2>3. \A q \in Staff : tx'[q].verb = "release" => tx'[q].asg \in Assignments
    BY <2>1 DEF OpenOK, Idle
  <2> QED
    BY <1>3, <1>9, <2>2, <2>3 DEF OpenOK, Waiting
<1>13. \A b \in Assignments : asg[b].ticket # t
  BY <1>4 DEF RowsOK, Waiting
<1>14. \A b \in Assignments : asg[b].ticket \in Tickets \union {None}
  BY DEF TypeOK, FittingRoomAssignment
<1>15. RowsOK'
  <2>1. \A b \in active' : asg'[b].room \in Rooms /\ asg'[b].staff \in Staff /\ room'[asg'[b].room] # "none"
    BY <1>3, <1>4, <1>5, <1>7, <1>8 DEF RowsOK, active
  <2>2. ASSUME NEW b \in Assignments
        PROVE  /\ asg'[b].status = "none" => asg'[b].ticket = None
               /\ asg'[b].ticket # None =>
                     ticket'[asg'[b].ticket].status = IF b \in active' THEN "in_service" ELSE "done"
    BY <1>5, <1>6, <1>7, <1>8, <1>9, <1>13, <1>14 DEF RowsOK
  <2>3. ASSUME NEW u \in Tickets, ticket'[u].status = "in_service" PROVE \E b \in active' : asg'[b].ticket = u
    BY <1>5, <1>7, <1>8, <1>9, <2>3 DEF RowsOK, active
  <2> QED
    BY <2>1, <2>2, <2>3 DEF RowsOK
<1>16. OneRoomEach'
  BY <1>3, <1>5, <1>7, <1>8 DEF OneRoomEach, violated_index, occupant_of_room, room_of_staff, active
<1>17. ServedOnce'
  BY <1>5, <1>7, <1>13 DEF ServedOnce
<1>18. BellTellsTheTruth'
  BY <1>2, <1>8 DEF TypeOK, BellTellsTheTruth, ring
<1> QED
  BY <1>10, <1>11, <1>12, <1>15, <1>16, <1>17, <1>18

\* A refused dispatch lets go of its ticket and its room, and of nothing else.
LEMMA RefusedKeeps ==
    ASSUME IInv, NEW p \in Staff, dispatch_refused(p)
    PROVE  IInv'
<1> USE DEF IInv
<1>1. /\ tx[p].verb = "dispatch" /\ held' = held \ {tx[p].ticket} /\ tx' = [tx EXCEPT ![p] = Idle]
      /\ UNCHANGED <<ticket, line, seen, room, asg, bell>>
  BY DEF dispatch_refused, RolledBack
<1>2. TypeOK'
  BY <1>1 DEF TypeOK, QueueTypeOK, Idle
<1>3. LineOK' /\ RowsOK' /\ OneRoomEach' /\ ServedOnce' /\ BellTellsTheTruth'
  BY <1>1 DEF LineOK, Waiting, RowsOK, OneRoomEach, ServedOnce, BellTellsTheTruth, active
<1>4. OpenOK'
  <2>1. tx'[p] = Idle /\ \A q \in Staff \ {p} : tx'[q] = tx[q]
    BY <1>1 DEF TypeOK
  <2> QED
    BY <1>1, <2>1 DEF OpenOK, Waiting, Idle
<1> QED
  BY <1>2, <1>3, <1>4

\* A handover changes whose it is, to one who holds no other.
LEMMA HandoverKeeps ==
    ASSUME IInv, NEW p \in Staff, NEW a \in Assignments, NEW s \in Staff, handover(p, a, s)
    PROVE  IInv'
<1> USE DEF IInv
<1> DEFINE row == [asg[a] EXCEPT !.staff = s]
<1>1. /\ a \in active /\ room_of_staff(s) \subseteq {a} /\ asg' = [asg EXCEPT ![a] = row]
      /\ ring(p, s, a) /\ UNCHANGED <<queueVars, room, tx>>
  BY DEF handover, HandedOver
<1>2. /\ row \in FittingRoomAssignment /\ row.status = asg[a].status /\ row.room = asg[a].room
      /\ row.staff = s /\ row.ticket = asg[a].ticket
  BY AssignmentRows DEF TypeOK
<1> HIDE DEF row
<1>3. /\ asg'[a] = row /\ \A b \in Assignments \ {a} : asg'[b] = asg[b]
      /\ asg' \in [Assignments -> FittingRoomAssignment]
  BY <1>1, <1>2 DEF TypeOK
<1>4. active' = active
  BY <1>2, <1>3 DEF active
<1>5. TypeOK'
  <2>1. bell' \in [Staff -> SUBSET Assignments]
    BY <1>1 DEF TypeOK, ring
  <2> QED
    BY <1>1, <1>3, <2>1 DEF TypeOK, QueueTypeOK, queueVars
<1>6. LineOK' /\ OpenOK'
  BY <1>1 DEF LineOK, Waiting, OpenOK, queueVars
<1>7. RowsOK'
  <2>1. \A b \in Assignments : /\ asg'[b].status = asg[b].status /\ asg'[b].room = asg[b].room
                               /\ asg'[b].ticket = asg[b].ticket
    BY <1>2, <1>3
  <2>2. \A b \in active : asg'[b].staff \in Staff
    BY <1>2, <1>3 DEF RowsOK, active
  <2> QED
    BY <1>1, <1>4, <2>1, <2>2 DEF RowsOK, queueVars, active
<1>8. OneRoomEach'
  BY <1>1, <1>2, <1>3, <1>4 DEF OneRoomEach, room_of_staff, active
<1>9. ServedOnce' /\ BellTellsTheTruth'
  BY <1>1, <1>2, <1>3, <1>4 DEF TypeOK, ServedOnce, BellTellsTheTruth, ring
<1> QED
  BY <1>5, <1>6, <1>7, <1>8, <1>9

\* The read of a release opens a transaction that names a row.
LEMMA ReleaseReadKeeps ==
    ASSUME IInv, NEW p \in Staff, NEW a \in Assignments, release_read(p, a)
    PROVE  IInv'
<1> USE DEF IInv
<1> DEFINE open == [Idle EXCEPT !.verb = "release", !.asg = a]
<1>1. /\ open.verb = "release" /\ open.asg = a
      /\ open \in [verb : {"none", "dispatch", "release"}, room : Rooms \union {None},
                   staff : Staff \union {None}, ticket : Tickets \union {None},
                   asg : Assignments \union {None}]
  BY DEF Idle
<1>2. tx' = [tx EXCEPT ![p] = open] /\ UNCHANGED <<queueVars, room, asg, bell>>
  BY DEF release_read
<1> HIDE DEF open
<1>3. TypeOK'
  BY <1>1, <1>2 DEF TypeOK, QueueTypeOK, queueVars
<1>4. LineOK' /\ RowsOK' /\ OneRoomEach' /\ ServedOnce' /\ BellTellsTheTruth'
  BY <1>2 DEF LineOK, Waiting, RowsOK, OneRoomEach, ServedOnce, BellTellsTheTruth, active, queueVars
<1>5. OpenOK'
  <2>1. tx'[p] = open /\ \A q \in Staff \ {p} : tx'[q] = tx[q]
    BY <1>2 DEF TypeOK
  <2> QED
    BY <1>1, <1>2, <2>1 DEF OpenOK, Waiting, queueVars
<1> QED
  BY <1>3, <1>4, <1>5

\* A release ends the row and its ticket together, or writes nothing.
LEMMA ReleaseKeeps ==
    ASSUME IInv, NEW p \in Staff, release(p)
    PROVE  IInv'
<1> USE DEF IInv
<1>1. PICK a : a = tx[p].asg
  OBVIOUS
<1>2. /\ tx[p].verb = "release" /\ tx' = [tx EXCEPT ![p] = Idle]
      /\ asg' = IF a \in active THEN [asg EXCEPT ![a] = Released(asg[a])] ELSE asg
      /\ ticket' = IF a \in active THEN close(asg[a].ticket) ELSE ticket
      /\ bell' = [q \in Staff |-> bell[q] \ {a}]
      /\ UNCHANGED <<line, held, seen, room>>
  BY <1>1 DEF release
<1>3. a \in Assignments
  BY <1>1, <1>2 DEF OpenOK
<1>4. LineOK' /\ ticket' \in [Tickets -> QueueTicket] /\ line' \in Seq(Tickets)
  <2>1. Next
    BY DEF Next
  <2> QED
    BY <2>1, NextLine
<1>5. /\ a \notin active => asg' = asg
      /\ \A b \in Assignments \ {a} : asg'[b] = asg[b]
      /\ a \in active => asg'[a].status = "released" /\ asg'[a].ticket = asg[a].ticket
      /\ asg' \in [Assignments -> FittingRoomAssignment]
  <2>1. /\ Released(asg[a]) \in FittingRoomAssignment /\ Released(asg[a]).status = "released"
        /\ Released(asg[a]).ticket = asg[a].ticket
    BY <1>3, AssignmentRows DEF TypeOK
  <2> QED
    BY <1>2, <1>3, <2>1 DEF TypeOK
<1>6. active' = active \ {a}
  BY <1>3, <1>5 DEF active
<1>7. \A b \in Assignments : asg'[b].ticket = asg[b].ticket /\ asg[b].ticket \in Tickets \union {None}
  BY <1>5 DEF TypeOK, FittingRoomAssignment
<1>8. /\ \A t \in Tickets : a \in active /\ t = asg[a].ticket => ticket'[t].status = "done"
      /\ \A t \in Tickets : ~ (a \in active /\ t = asg[a].ticket) => ticket'[t] = ticket[t]
  <2>1. CASE a \notin active
    BY <1>2, <2>1
  <2>2. CASE a \in active /\ asg[a].ticket = None
    BY <1>2, <2>2 DEF close
  <2>3. CASE a \in active /\ asg[a].ticket # None
    <3>1. PICK t \in Tickets : t = asg[a].ticket
      BY <1>3, <1>7, <2>3
    <3> DEFINE row == [ticket[t] EXCEPT !.status = "done"]
    <3>2. ticket[t].status = "in_service"
      BY <1>3, <2>3, <3>1 DEF RowsOK
    <3>3. ticket' = [ticket EXCEPT ![t] = row] /\ row.status = "done"
      BY <1>2, <2>3, <3>1, <3>2, TouchedRow DEF close, TypeOK, QueueTypeOK
    <3> HIDE DEF row
    <3>4. ticket'[t].status = "done" /\ \A u \in Tickets \ {t} : ticket'[u] = ticket[u]
      BY <3>3 DEF TypeOK, QueueTypeOK
    <3> QED
      BY <2>3, <3>1, <3>4
  <2> QED
    BY <2>1, <2>2, <2>3
<1>9. TypeOK'
  <2>1. bell' \in [Staff -> SUBSET Assignments]
    BY <1>2 DEF TypeOK
  <2>2. tx' \in [Staff -> [verb : {"none", "dispatch", "release"},
                           room : Rooms \union {None}, staff : Staff \union {None},
                           ticket : Tickets \union {None}, asg : Assignments \union {None}]]
    BY <1>2 DEF TypeOK, Idle
  <2> QED
    BY <1>2, <1>4, <1>5, <2>1, <2>2 DEF TypeOK, QueueTypeOK
<1>10. OpenOK'
  <2>1. tx'[p] = Idle /\ \A q \in Staff \ {p} : tx'[q] = tx[q]
    BY <1>2 DEF TypeOK
  <2>2. \A t \in Tickets : Waiting(t) => Waiting(t)'
    BY <1>3, <1>8 DEF RowsOK, Waiting
  <2> QED
    BY <1>2, <2>1, <2>2 DEF OpenOK, Idle
<1>11. RowsOK'
  <2>1. \A b \in active' : asg'[b].room \in Rooms /\ asg'[b].staff \in Staff /\ room'[asg'[b].room] # "none"
    BY <1>2, <1>5, <1>6 DEF RowsOK, active
  <2>2. ASSUME NEW b \in Assignments
        PROVE  /\ asg'[b].status = "none" => asg'[b].ticket = None
               /\ asg'[b].ticket # None =>
                     ticket'[asg'[b].ticket].status = IF b \in active' THEN "in_service" ELSE "done"
    <3>1. CASE b = a
      BY <1>3, <1>5, <1>6, <1>7, <1>8, <3>1 DEF RowsOK
    <3>2. CASE b # a
      <4>1. asg'[b] = asg[b] /\ (b \in active' <=> b \in active)
        BY <1>5, <1>6, <3>2
      <4>2. asg[b].ticket # None => ticket'[asg[b].ticket] = ticket[asg[b].ticket]
        BY <1>3, <1>7, <1>8, <3>2 DEF ServedOnce
      <4> QED
        BY <4>1, <4>2 DEF RowsOK
    <3> QED
      BY <3>1, <3>2
  <2>3. ASSUME NEW t \in Tickets, ticket'[t].status = "in_service" PROVE \E b \in active' : asg'[b].ticket = t
    <3>1. ~ (a \in active /\ t = asg[a].ticket) /\ ticket[t].status = "in_service"
      BY <1>8, <2>3
    <3>2. PICK b \in active : asg[b].ticket = t
      BY <3>1 DEF RowsOK
    <3> QED
      BY <1>6, <1>7, <3>1, <3>2 DEF active
  <2> QED
    BY <2>1, <2>2, <2>3 DEF RowsOK
<1>12. OneRoomEach' /\ ServedOnce' /\ BellTellsTheTruth'
  BY <1>2, <1>5, <1>6, <1>7 DEF OneRoomEach, ServedOnce, BellTellsTheTruth, active
<1> QED
  BY <1>4, <1>9, <1>10, <1>11, <1>12

\* The registry: a room under an open dispatch or an occupant is not deleted.
LEMMA RegistryKeeps ==
    ASSUME IInv, NEW r \in Rooms, create_room(r) \/ update_room(r) \/ delete_room(r)
    PROVE  IInv'
<1> USE DEF IInv
<1>1. PICK st \in FittingRoom : room' = [room EXCEPT ![r] = st]
                                /\ (st = "none" => Unlocked(r) /\ occupant_of_room(r) = {})
  <2>1. CASE create_room(r)
    BY <2>1 DEF create_room, rooms_insert, FittingRoom
  <2>2. CASE update_room(r)
    BY <2>2 DEF update_room, rooms_update, FittingRoom
  <2>3. CASE delete_room(r)
    BY <2>3 DEF delete_room, rooms_soft_delete, by_id_for_update, has_active_for_room, FittingRoom
  <2> QED
    BY <2>1, <2>2, <2>3
<1>2. UNCHANGED <<queueVars, asg, tx, bell>>
  BY DEF create_room, update_room, delete_room
<1>3. TypeOK'
  BY <1>1, <1>2 DEF TypeOK, QueueTypeOK, queueVars
<1>4. active' = active
  BY <1>2 DEF active
<1>5. OpenOK'
  BY <1>1, <1>2 DEF OpenOK, Unlocked, Waiting, queueVars, TypeOK
<1>6. RowsOK'
  <2>1. \A a \in active : room'[asg[a].room] # "none"
    BY <1>1 DEF RowsOK, occupant_of_room, TypeOK
  <2> QED
    BY <1>2, <1>4, <2>1 DEF RowsOK, queueVars
<1>7. LineOK' /\ OneRoomEach' /\ ServedOnce' /\ BellTellsTheTruth'
  BY <1>2, <1>4 DEF LineOK, Waiting, OneRoomEach, ServedOnce, BellTellsTheTruth, queueVars
<1> QED
  BY <1>3, <1>5, <1>6, <1>7

\* Reading the bell, and stuttering.
LEMMA ReadingKeeps ==
    ASSUME IInv, UNCHANGED vars \/ \E p \in Staff : mark_read(p)
    PROVE  IInv'
<1> USE DEF IInv
<1>1. UNCHANGED <<queueVars, room, asg, tx>> /\ bell' \in [Staff -> SUBSET Assignments]
      /\ \A q \in Staff : bell'[q] \subseteq bell[q]
  BY DEF vars, floorVars, mark_read, TypeOK
<1>2. TypeOK'
  BY <1>1 DEF TypeOK, QueueTypeOK, queueVars
<1>3. LineOK' /\ OpenOK' /\ RowsOK' /\ OneRoomEach' /\ ServedOnce' /\ BellTellsTheTruth'
  BY <1>1 DEF LineOK, OpenOK, Waiting, RowsOK, OneRoomEach, ServedOnce, BellTellsTheTruth, active, queueVars
<1> QED
  BY <1>2, <1>3

----------------------------------------------------------------------------
(* The theorems. *)

\* Every step of the queue and of the floor keeps the invariant.
LEMMA Inductive == IInv /\ [Next]_vars => IInv'
<1> SUFFICES ASSUME IInv, [Next]_vars PROVE IInv'
  OBVIOUS
<1>1. CASE QueueNext /\ UNCHANGED floorVars
  BY <1>1, QueueStepKeeps
<1>2. ASSUME NEW r \in Rooms, NEW s \in Staff, claim(r, s) PROVE IInv'
  BY <1>2, ClaimKeeps
<1>3. ASSUME NEW r \in Rooms, create_room(r) \/ update_room(r) \/ delete_room(r) PROVE IInv'
  BY <1>3, RegistryKeeps
<1>4. ASSUME NEW p \in Staff, NEW r \in Rooms, NEW s \in Staff,
             take_next(p, r, s) \/ \E t \in Tickets : assign(p, r, s, t)
      PROVE  IInv'
  <2>1. PICK t \in Tickets \ held : Waiting(t) /\ dispatch(p, r, s, t)
    BY <1>4 DEF take_next, assign, claim_next, live_waiting, claim_by_id
  <2> QED
    BY <2>1, DispatchKeeps
<1>5. ASSUME NEW p \in Staff, dispatched(p) \/ dispatch_refused(p) PROVE IInv'
  BY <1>5, DispatchedKeeps, RefusedKeeps
<1>6. ASSUME NEW p \in Staff, NEW a \in Assignments, (\E s \in Staff : handover(p, a, s)) \/ release_read(p, a)
      PROVE  IInv'
  BY <1>6, HandoverKeeps, ReleaseReadKeeps
<1>7. ASSUME NEW p \in Staff, release(p) PROVE IInv'
  BY <1>7, ReleaseKeeps
<1>8. CASE UNCHANGED vars \/ \E p \in Staff : mark_read(p)
  BY <1>8, ReadingKeeps
<1> QED
  BY <1>1, <1>2, <1>3, <1>4, <1>5, <1>6, <1>7, <1>8 DEF Next

\* The line, the open transactions, the rooms and the rows fit together in every
\* reachable state of queue and floor (queue_tickets.py, floor/service.py).
THEOREM InvariantHolds == Spec => []IInv
<1> QED
  BY InitIInv, Inductive, PTL DEF Spec

\* Every active assignment is a row of the occupancy query, and the only one of
\* its staffer.
LEMMA OccupiedStands == IInv => OccupiedRoomStands
<1> SUFFICES ASSUME IInv, NEW a \in active
             PROVE  /\ card_status(asg[a].staff) = "occupied"
                    /\ floor(asg[a].staff) = {[room |-> asg[a].room, asg |-> a]}
  BY DEF OccupiedRoomStands
<1>1. room[asg[a].room] \in {"active", "inactive"}
  BY DEF IInv, RowsOK, TypeOK, FittingRoom
<1>2. \A b \in active : asg[b].staff = asg[a].staff => b = a
  BY DEF IInv, OneRoomEach
<1>3. \A row : row \in occupancy_rows <=>
                  \E b \in active : room[asg[b].room] \in {"active", "inactive"}
                                    /\ row = [room |-> asg[b].room, asg |-> b]
  BY DEF occupancy_rows
<1>4. \A row : row \in floor(asg[a].staff) <=> row \in occupancy_rows /\ asg[row.asg].staff = asg[a].staff
  BY <1>3 DEF floor
<1>5. \A row : row \in floor(asg[a].staff) <=> row = [room |-> asg[a].room, asg |-> a]
  BY <1>1, <1>2, <1>3, <1>4
<1>6. floor(asg[a].staff) = {[room |-> asg[a].room, asg |-> a]}
  BY <1>5
<1> QED
  BY <1>6 DEF card_status

\* A ticket in service is in the one active row that took it.
LEMMA NobodyIsStranded == IInv => NobodyStranded
<1> SUFFICES ASSUME IInv, NEW t \in Tickets
             PROVE  LET in == {a \in active : asg[a].ticket = t} IN
                    IF ticket[t].status = "in_service" THEN Cardinality(in) = 1 ELSE in = {}
  BY DEF NobodyStranded
<1> DEFINE in == {a \in active : asg[a].ticket = t}
<1>1. CASE ticket[t].status = "in_service"
  <2>1. PICK a \in active : asg[a].ticket = t
    BY <1>1 DEF IInv, RowsOK
  <2>2. in = {a}
    BY <2>1 DEF IInv, ServedOnce, active
  <2>3. Cardinality(in) = 1
    BY <2>2, FS_Singleton
  <2> QED
    BY <1>1, <2>3
<1>2. CASE ticket[t].status # "in_service"
  <2>1. in = {}
    BY <1>2 DEF IInv, RowsOK, active
  <2> QED
    BY <1>2, <2>1
<1> QED
  BY <1>1, <1>2

\* Rooms, staff, tickets and bell fit together at every moment, whoever claims,
\* dispatches, hands over, releases and deletes at once: one occupant per room and
\* one room per staffer, no room deleted under its occupant, nobody in service
\* without a room to be released from, no ticket served by two visits (its row and
\* the assignment's commit together or not at all), no bell for a fitting that is not.
THEOREM RoomsSound == Spec => []RoomsAreSound
<1>1. IInv => RoomsAreSound
  BY OccupiedStands, NobodyIsStranded DEF IInv, RoomsAreSound
<1> QED
  BY <1>1, InvariantHolds, PTL

\* No step pushes a waiting customer back unless it skips her own ticket, or removes
\* her on a count of skips that no manager's panel had shown.
THEOREM LineFair == Spec => LineIsFair
<1>1. IInv /\ IInv' /\ [Next]_vars => [PositionOnlyImproves /\ RemovedKnowingly]_<<ticket, line>>
  BY NextTicketStep, FairStep
<1> QED
  BY <1>1, InvariantHolds, PTL DEF Spec, LineIsFair

----------------------------------------------------------------------------
(* Rows in the order of a key. *)

\* How many of S come no later than t.
Rank(S, k, t) == Cardinality({u \in S : k[u] <= k[t]})

Before(S, k, t) == {u \in S : k[u] < k[t]}

\* s lists rows of S in the order of their keys: each has its place.
InOrder(S, k, s) ==
    /\ s \in [1 .. Cardinality(S) -> S]
    /\ \A i, j \in 1 .. Cardinality(S) : i < j => k[s[i]] < k[s[j]]

InPlace(S, k, s) ==
    /\ \A t \in S : \E i \in 1 .. Cardinality(S) : s[i] = t
    /\ \A i \in 1 .. Cardinality(S) : Cardinality(Before(S, k, s[i])) = i - 1

\* A later key, a higher rank.
LEMMA RankGrows ==
    ASSUME NEW S, IsFiniteSet(S), NEW k \in [S -> Nat], NEW t \in S, NEW u \in S
    PROVE  /\ Rank(S, k, t) \in 1 .. Cardinality(S)
           /\ k[t] < k[u] => Rank(S, k, t) < Rank(S, k, u)
           /\ k[t] <= k[u] => Rank(S, k, t) <= Rank(S, k, u)
<1> DEFINE T == {v \in S : k[v] <= k[t]}
           U == {v \in S : k[v] <= k[u]}
<1>1. /\ T \in SUBSET S /\ U \in SUBSET S /\ t \in T /\ u \in U
      /\ k[t] <= k[u] => T \in SUBSET U
      /\ k[t] < k[u] => u \notin T
  OBVIOUS
<1>2. Rank(S, k, t) = Cardinality(T) /\ Rank(S, k, u) = Cardinality(U)
  BY DEF Rank
<1> HIDE DEF T, U
<1>3. /\ IsFiniteSet(T) /\ Cardinality(T) <= Cardinality(S) /\ Cardinality(T) \in Nat
      /\ IsFiniteSet(U) /\ Cardinality(U) \in Nat /\ Cardinality(S) \in Nat
  BY <1>1, FS_Subset, FS_CardinalityType
<1>4. Cardinality(T) # 0
  BY <1>1, <1>3, FS_EmptySet
<1>5. k[t] <= k[u] => Cardinality(T) <= Cardinality(U)
  BY <1>1, <1>3, FS_Subset
<1>6. k[t] < k[u] => Cardinality(T) # Cardinality(U)
  <2>1. T \in SUBSET U /\ Cardinality(T) = Cardinality(U) => T = U
    BY <1>3, FS_Subset
  <2>2. k[t] < k[u] => k[t] <= k[u]
    OBVIOUS
  <2> QED
    BY <1>1, <2>1, <2>2
<1>7. k[t] < k[u] => k[t] <= k[u]
  OBVIOUS
<1> QED
  BY <1>2, <1>3, <1>4, <1>5, <1>6, <1>7

\* Rows whose keys differ can be put in the order of their keys.
LEMMA OrderExists ==
    ASSUME NEW S, IsFiniteSet(S), NEW k \in [S -> Nat], \A t, u \in S : k[t] = k[u] => t = u
    PROVE  \E s : InOrder(S, k, s)
<1> DEFINE n == Cardinality(S)
           rank == [t \in S |-> Rank(S, k, t)]
           s == [i \in 1 .. n |-> CHOOSE t \in S : rank[t] = i]
<1>1. n \in Nat
  BY FS_CardinalityType
<1>2. \A t \in S : rank[t] \in 1 .. n
  BY RankGrows
<1>3. \A t, u \in S : /\ k[t] < k[u] => rank[t] < rank[u]
                      /\ k[t] <= k[u] => rank[t] <= rank[u]
  BY RankGrows
<1>4. rank \in [S -> 1 .. n]
  BY <1>2
<1> HIDE DEF rank, n
<1>5. rank \in Injection(S, 1 .. n)
  <2>1. \A t, u \in S : rank[t] = rank[u] => t = u
    <3> SUFFICES ASSUME NEW t \in S, NEW u \in S, rank[t] = rank[u] PROVE t = u
      OBVIOUS
    <3>1. k[t] \in Nat /\ k[u] \in Nat /\ rank[t] \in Int
      BY <1>2
    <3>2. ~ (k[t] < k[u]) /\ ~ (k[u] < k[t])
      BY <1>2, <1>3, <3>1
    <3> QED
      BY <3>1, <3>2
  <2> QED
    BY <1>4, <2>1 DEF Injection, IsInjective
<1>6. rank \in Surjection(S, 1 .. n)
  <2>1. IsFiniteSet(1 .. n) /\ Cardinality(1 .. n) = n
    BY <1>1, FS_Interval
  <2> QED
    BY <1>5, <2>1, FS_Injection DEF n
<1>7. \A i \in 1 .. n : \E t \in S : rank[t] = i
  BY <1>6 DEF Surjection
<1>8. \A i \in 1 .. n : s[i] \in S /\ rank[s[i]] = i
  BY <1>7
<1> HIDE DEF s
<1>9. s \in [1 .. n -> S]
  BY <1>8 DEF s
<1>10. \A i, j \in 1 .. n : i < j => k[s[i]] < k[s[j]]
  <2> SUFFICES ASSUME NEW i \in 1 .. n, NEW j \in 1 .. n, i < j PROVE k[s[i]] < k[s[j]]
    OBVIOUS
  <2>1. s[i] \in S /\ s[j] \in S /\ rank[s[i]] = i /\ rank[s[j]] = j
    BY <1>8
  <2>2. k[s[i]] \in Nat /\ k[s[j]] \in Nat
    BY <2>1
  <2>3. ~ (k[s[j]] <= k[s[i]])
    BY <1>1, <1>3, <2>1
  <2> QED
    BY <2>2, <2>3
<1> QED
  BY <1>9, <1>10 DEF n, InOrder

\* So put, they are all there, and a row's place is one more than the rows before it.
LEMMA PlaceInOrder ==
    ASSUME NEW S, IsFiniteSet(S), NEW k \in [S -> Nat], NEW s, InOrder(S, k, s)
    PROVE  InPlace(S, k, s)
<1> DEFINE n == Cardinality(S)
<1>1. n \in Nat
  BY FS_CardinalityType
<1> HIDE DEF n
<1>2. s \in [1 .. n -> S] /\ \A i, j \in 1 .. n : i < j => k[s[i]] < k[s[j]]
  BY DEF n, InOrder
<1>3. \A i, j \in 1 .. n : s[i] = s[j] => i = j
  <2> SUFFICES ASSUME NEW i \in 1 .. n, NEW j \in 1 .. n, i # j PROVE s[i] # s[j]
    OBVIOUS
  <2>1. k[s[i]] \in Nat /\ k[s[j]] \in Nat
    BY <1>2
  <2>2. i < j \/ j < i
    BY <1>1
  <2> QED
    BY <1>2, <2>1, <2>2
<1>4. s \in Surjection(1 .. n, S)
  <2>1. s \in Injection(1 .. n, S)
    BY <1>2, <1>3 DEF Injection, IsInjective
  <2>2. IsFiniteSet(1 .. n) /\ Cardinality(1 .. n) = n
    BY <1>1, FS_Interval
  <2> QED
    BY <2>1, <2>2, FS_Injection DEF n
<1>5. \A t \in S : \E i \in 1 .. n : s[i] = t
  BY <1>4 DEF Surjection
<1>6. ASSUME NEW i \in 1 .. n PROVE Cardinality(Before(S, k, s[i])) = i - 1
  <2> DEFINE before == {u \in S : k[u] < k[s[i]]}
             f == [j \in 1 .. i - 1 |-> s[j]]
  <2>1. \A j \in 1 .. i - 1 : j \in 1 .. n /\ f[j] = s[j] /\ s[j] \in before
    <3> SUFFICES ASSUME NEW j \in 1 .. i - 1 PROVE j \in 1 .. n /\ s[j] \in before
      OBVIOUS
    <3>1. j \in 1 .. n /\ j < i
      BY <1>1
    <3> QED
      BY <1>2, <3>1
  <2>2. \A u \in before : \E j \in 1 .. i - 1 : s[j] = u
    <3> SUFFICES ASSUME NEW u \in before PROVE \E j \in 1 .. i - 1 : s[j] = u
      OBVIOUS
    <3>1. PICK j \in 1 .. n : s[j] = u
      BY <1>5
    <3>2. k[s[j]] < k[s[i]] /\ k[s[i]] \in Nat /\ k[s[j]] \in Nat
      BY <1>2, <3>1
    <3>3. ~ (i < j) /\ i # j
      BY <1>2, <3>2
    <3> QED
      BY <1>1, <3>1, <3>3
  <2> HIDE DEF before
  <2>3. f \in Bijection(1 .. i - 1, before)
    <3>1. f \in [1 .. i - 1 -> before]
      BY <2>1
    <3>2. f \in Injection(1 .. i - 1, before)
      BY <1>3, <2>1, <3>1 DEF Injection, IsInjective
    <3>3. f \in Surjection(1 .. i - 1, before)
      BY <2>1, <2>2, <3>1 DEF Surjection
    <3> QED
      BY <3>2, <3>3 DEF Bijection
  <2> HIDE DEF f
  <2>4. IsFiniteSet(1 .. i - 1) /\ Cardinality(1 .. i - 1) = i - 1
    <3>1. i - 1 \in Int /\ i - 1 >= 0
      BY <1>1
    <3> DEFINE m == i - 1
    <3> HIDE DEF m
    <3>2. IsFiniteSet(1 .. m) /\ Cardinality(1 .. m) = m
      BY <3>1, FS_Interval DEF m
    <3> QED
      BY <3>2 DEF m
  <2>5. Cardinality(before) = i - 1
    <3>1. ExistsBijection(1 .. i - 1, before)
      BY <2>3 DEF ExistsBijection
    <3> QED
      BY <2>4, <3>1, FS_Bijection
  <2> QED
    BY <2>5 DEF before, Before
<1> QED
  BY <1>5, <1>6 DEF n, InPlace

\* The three readings of the line, in every state of the invariant.
LEMMA BoardReads == IInv => BoardIsTheLine
<1> SUFFICES ASSUME IInv PROVE BoardIsTheLine
  OBVIOUS
<1> DEFINE S == live_waiting
           n == Cardinality(S)
           k == [t \in S |-> SortKey(t)]
<1>1. S \in SUBSET Tickets /\ IsFiniteSet(S)
  <2>1. S \in SUBSET Tickets
    BY DEF live_waiting
  <2> QED
    BY <2>1, FS_Subset
<1>2. n \in Nat
  BY <1>1, FS_CardinalityType
<1>3. /\ \A t \in S : SortKey(t) \in Nat
      /\ \A t, u \in S : SortKey(t) = SortKey(u) => t = u
  <2>1. line \in Seq(Tickets) /\ Distinct(line)
    BY DEF IInv, TypeOK, QueueTypeOK, LineOK
  <2>2. \A t \in S : t \in In(line)
    BY DEF IInv, LineOK, live_waiting
  <2>3. \A t \in S : SortKey(t) \in 1 .. Len(line) /\ line[SortKey(t)] = t
    BY <2>1, <2>2, KeyIs DEF SortKey, Key
  <2>4. Len(line) \in Nat
    BY <2>1
  <2> HIDE DEF S
  <2>5. \A t, u \in S : SortKey(t) = SortKey(u) => t = u
    BY <2>3, Zenon
  <2> QED
    BY <2>3, <2>4, <2>5
<1>4. \A t \in S : \A u \in Tickets :
         Waiting(u) /\ ticket[u].today = ticket[t].today <=> u \in S
  <2>1. \A u \in Tickets : ticket[u].today \in BOOLEAN
    BY DEF IInv, TypeOK, QueueTypeOK, QueueTicket
  <2>2. \A u \in Tickets : u \in S <=> Waiting(u) /\ ticket[u].today = TRUE
    BY <2>1 DEF live_waiting
  <2> HIDE DEF S
  <2> QED
    BY <1>1, <2>2
<1>5. \A t \in S : position(t) = 1 + Cardinality({u \in S : SortKey(u) < SortKey(t)})
  <2> SUFFICES ASSUME NEW t \in S
               PROVE  position(t) = 1 + Cardinality({u \in S : SortKey(u) < SortKey(t)})
    OBVIOUS
  <2>1. {u \in Tickets : /\ Waiting(u)
                         /\ ticket[u].today = ticket[t].today
                         /\ SortKey(u) < SortKey(t)} = {u \in S : SortKey(u) < SortKey(t)}
    <3> HIDE DEF S
    <3> QED
      BY <1>1, <1>4
  <2> QED
    BY <2>1 DEF position
<1>6. board = CHOOSE s \in [1 .. n -> S] :
                 \A i, j \in DOMAIN s : i < j => SortKey(s[i]) < SortKey(s[j])
  BY DEF board, order_by
<1> HIDE DEF S, n
<1>7. k \in [S -> Nat] /\ \A t, u \in S : k[t] = k[u] => t = u
  BY <1>3
<1>8. \E s \in [1 .. n -> S] : \A i, j \in DOMAIN s : i < j => SortKey(s[i]) < SortKey(s[j])
  <2>1. PICK s : InOrder(S, k, s)
    <3> HIDE DEF k
    <3> QED
      BY <1>1, <1>7, OrderExists
  <2>2. s \in [1 .. n -> S] /\ \A i, j \in 1 .. n : i < j => SortKey(s[i]) < SortKey(s[j])
    BY <2>1 DEF InOrder, n
  <2> QED
    BY <2>2
<1>9. board \in [1 .. n -> S] /\ \A i, j \in 1 .. n : i < j => SortKey(board[i]) < SortKey(board[j])
  <2>1. /\ board \in [1 .. n -> S]
        /\ \A i, j \in DOMAIN board : i < j => SortKey(board[i]) < SortKey(board[j])
    BY <1>6, <1>8, Zenon
  <2> QED
    BY <2>1
<1>10. /\ \A t \in S : \E i \in 1 .. n : board[i] = t
       /\ \A i \in 1 .. n : Cardinality({u \in S : SortKey(u) < SortKey(board[i])}) = i - 1
  <2>1. \A i, j \in 1 .. n : i < j => k[board[i]] < k[board[j]]
    BY <1>9
  <2>2. \A i \in 1 .. n : Before(S, k, board[i]) = {u \in S : SortKey(u) < SortKey(board[i])}
    BY <1>9 DEF Before
  <2> HIDE DEF k
  <2>3. /\ \A t \in S : \E i \in 1 .. n : board[i] = t
        /\ \A i \in 1 .. n : Cardinality(Before(S, k, board[i])) = i - 1
    <3>1. InOrder(S, k, board)
      BY <1>9, <2>1 DEF n, InOrder
    <3>2. InPlace(S, k, board)
      BY <1>1, <1>7, <3>1, PlaceInOrder
    <3> QED
      BY <3>2 DEF n, InPlace
  <2> QED
    BY <2>2, <2>3
<1>11. \A i \in 1 .. n : board[i] \in S /\ position(board[i]) = i
  <2> SUFFICES ASSUME NEW i \in 1 .. n PROVE board[i] \in S /\ position(board[i]) = i
    OBVIOUS
  <2>1. board[i] \in S
    BY <1>9
  <2>2. position(board[i]) = 1 + (i - 1)
    BY <1>5, <1>10, <2>1
  <2> QED
    BY <1>2, <2>1, <2>2
<1>12. queue_board = {ticket_view(t) : t \in live_waiting}
  <2>1. queue_board = {[ticket |-> board[i], position |-> i, called |-> ticket[board[i]].called] : i \in 1 .. n}
    BY <1>9 DEF queue_board
  <2>2. \A i \in 1 .. n : [ticket |-> board[i], position |-> i, called |-> ticket[board[i]].called]
                             = ticket_view(board[i])
    BY <1>11 DEF ticket_view
  <2>3. queue_board = {ticket_view(board[i]) : i \in 1 .. n}
    BY <2>1, <2>2
  <2>4. queue_board = {ticket_view(t) : t \in S}
    BY <1>10, <1>11, <2>3
  <2> QED
    BY <2>4 DEF S
<1>13. ASSUME held = {}, board # <<>> PROVE claim_next = {board[1]}
  <2>1. n # 0
    BY <1>9, <1>13
  <2>2. 1 \in 1 .. n /\ board[1] \in S
    BY <1>2, <1>11, <2>1
  <2>3. \A u \in S : u # board[1] => SortKey(board[1]) < SortKey(u)
    <3> SUFFICES ASSUME NEW u \in S, u # board[1] PROVE SortKey(board[1]) < SortKey(u)
      OBVIOUS
    <3>1. PICK i \in 1 .. n : board[i] = u
      BY <1>10
    <3>2. 1 < i
      BY <1>2, <3>1
    <3> QED
      BY <1>9, <2>2, <3>1, <3>2
  <2>4. claim_next = {t \in S : \A u \in S : SortKey(t) <= SortKey(u)}
    BY <1>13 DEF claim_next, S
  <2>5. board[1] \in claim_next
    BY <1>3, <2>2, <2>3, <2>4
  <2>6. \A t \in claim_next : t = board[1]
    BY <1>3, <2>2, <2>3, <2>4
  <2> QED
    BY <2>5, <2>6
<1> QED
  BY <1>12, <1>13 DEF BoardIsTheLine

\* The hall's board numbers everybody as her own page does, and take_next takes the
\* first it shows: queue/service board and position, take_next.
THEOREM BoardOfTheLine == Spec => []BoardIsTheLine
BY InvariantHolds, BoardReads, PTL

----------------------------------------------------------------------------
(* Staff accounts and SOS pages.                                            *)

HIDE DEF QueueAssumption, FloorAssumption
USE AccessAssumption, SosAssumption DEF AccessAssumption, SosAssumption

----------------------------------------------------------------------------
(* The inductive invariant of the pages. *)

\* What a request in flight has in its hands.  The one that accepts a page did not
\* raise it, however long ago it looked.
RequestsOK ==
    \A p \in Accounts :
        /\ req[p].step \in {"admitted", "decided"} =>
              /\ req[p].verb \in AdminVerbs /\ req[p].arg \in Accounts
              /\ req[p].verb = "role" => req[p].role \in Roles
        /\ req[p].step = "read" =>
              /\ req[p].verb \in SosVerbs /\ req[p].arg \in Alerts
              /\ alert[req[p].arg].status # "none"
              /\ req[p].verb = "accept" => alert[req[p].arg].raised_by # p

\* The request takes an owner away.
Demotes(r) == r.verb = "deactivate" \/ (r.verb = "role" /\ r.role # "owner")

\* One request at a time is past the lock, and while it is there, what it decided
\* on stays true: somebody else is an owner too.
LockOK ==
    /\ \A p, q \in Accounts : req[p].step = "decided" /\ req[q].step = "decided" => p = q
    /\ \E o \in Accounts : staff[o] = "owner"
    /\ \A p \in Accounts : req[p].step = "decided" /\ Demotes(req[p]) =>
          \E o \in Accounts : o # req[p].arg /\ staff[o] = "owner"

\* The story of a page, read off its row.
Story(row) ==
    CASE row.status = "none"      -> <<>>
      [] row.status = "open"      -> <<"raised">>
      [] row.status = "accepted"  -> <<"raised", "accepted">>
      [] row.status = "cancelled" -> <<"raised", "cancelled">>
      [] row.status = "resolved" /\ row.accepted_by = Null -> <<"raised", "resolved">>
      [] row.status = "resolved" /\ row.accepted_by # Null -> <<"raised", "accepted", "resolved">>

\* The log is the story, and a page has an acceptor once it was accepted.
PagesOK ==
    \A a \in Alerts :
        /\ trail[a] = Story(alert[a])
        /\ alert[a].status = "accepted" => alert[a].accepted_by # Null
        /\ alert[a].status \in {"none", "open", "cancelled"} => alert[a].accepted_by = Null

TrailType == trail \in [Alerts -> Seq({"raised", "accepted", "resolved", "cancelled"})]

SosInv == SosTypeOK /\ TrailType /\ RequestsOK /\ LockOK /\ PagesOK

----------------------------------------------------------------------------
(* SosInit, and what a step does to the types. *)

\* It holds at the start: one owner or more, no pages.
LEMMA InitSosInv == SosInit => SosInv
<1> SUFFICES ASSUME SosInit PROVE SosInv
  OBVIOUS
<1> USE DEF SosInit, AccessInit, NoRequest, NoAlert
<1>1. SosTypeOK
  BY DEF SosTypeOK, AccessTypeOK, SosAlert, SosStatus, AdminVerbs
<1>2. TrailType
  BY DEF TrailType
<1>3. RequestsOK /\ LockOK
  BY DEF RequestsOK, LockOK
<1>4. PagesOK
  BY DEF PagesOK, Story
<1> QED
  BY <1>1, <1>2, <1>3, <1>4 DEF SosInv

\* The row that an accept writes.
LEMMA RowAccepted ==
    ASSUME NEW row \in SosAlert, NEW p \in Accounts
    PROVE  /\ Accepted(row, p) \in SosAlert
           /\ Accepted(row, p).status = "accepted" /\ Accepted(row, p).accepted_by = p
           /\ Accepted(row, p).raised_by = row.raised_by
BY DEF Accepted, SosAlert, SosStatus

\* The row that a resolve or a cancel writes.
LEMMA RowEnded ==
    ASSUME NEW row \in SosAlert, NEW status \in {"resolved", "cancelled"}
    PROVE  /\ Ended(row, status) \in SosAlert
           /\ Ended(row, status).status = status /\ Ended(row, status).raised_by = Null
           /\ Ended(row, status).accepted_by = row.accepted_by
BY DEF Ended, SosAlert, SosStatus

\* The row that a raise inserts.
Raised(p, t) == [NoAlert EXCEPT !.status = "open", !.raised_by = p, !.target = t]

\* The row that a raise writes.
LEMMA RowInserted ==
    ASSUME NEW p \in Accounts, NEW t \in Accounts \union {Null}
    PROVE  /\ Raised(p, t) \in SosAlert
           /\ Raised(p, t).status = "open" /\ Raised(p, t).raised_by = p
           /\ Raised(p, t).accepted_by = Null
BY DEF Raised, NoAlert, SosAlert, SosStatus

\* The staff's own operations keep the types of their rows.
LEMMA AccessTypes ==
    ASSUME SosInv, AccessNext, UNCHANGED sosVars
    PROVE  SosTypeOK' /\ TrailType'
<1> USE DEF SosInv, SosTypeOK, AccessTypeOK, TrailType, sosVars, accessVars, AdminVerbs
<1>1. ASSUME NEW s \in Accounts, NEW role \in Roles, create(s, role) PROVE SosTypeOK' /\ TrailType'
  BY <1>1 DEF create, staff_insert
<1>2. ASSUME NEW p \in Accounts, login(p) \/ logout(p) PROVE SosTypeOK' /\ TrailType'
  <2>1. CASE login(p)
    BY <2>1 DEF login, sessions_insert
  <2>2. CASE logout(p)
    BY <2>2 DEF logout, revoke_by_token_hash, active_by_token_hash
  <2> QED
    BY <1>2, <2>1, <2>2
<1>3. ASSUME NEW p \in Accounts, reset_owner_password(p) PROVE SosTypeOK' /\ TrailType'
  BY <1>3 DEF reset_owner_password, revoke_for_staff_user
<1>4. ASSUME NEW p \in Accounts, decide(p) PROVE SosTypeOK' /\ TrailType'
  <2>1. CASE req' = [req EXCEPT ![p].step = "decided"]
    <3> DEFINE Request == [verb : {"none"} \union AdminVerbs \union SosVerbs,
                           step : {"none", "admitted", "decided", "read"},
                           arg  : Accounts \union Alerts \union {Null},
                           role : Roles \union {"none"}]
    <3>1. UNCHANGED <<accessVars, sosVars>>
      BY <1>4 DEF decide
    <3>2. req' \in [Accounts -> Request]
      <4>1. \A r \in Request : [r EXCEPT !.step = "decided"] \in Request
        OBVIOUS
      <4> HIDE DEF Request
      <4>2. req \in [Accounts -> Request]
        BY DEF Request
      <4> QED
        BY <2>1, <4>1, <4>2
    <3> QED
      BY <3>1, <3>2
  <2>2. CASE req' = [req EXCEPT ![p] = NoRequest]
    BY <1>4, <2>2 DEF decide, NoRequest
  <2> QED
    BY <1>4, <2>1, <2>2 DEF decide
<1>5. ASSUME NEW p \in Accounts, update_role(p) PROVE SosTypeOK' /\ TrailType'
  BY <1>5 DEF update_role, Write, NoRequest, RequestsOK
<1>6. ASSUME NEW p \in Accounts, update_password(p) PROVE SosTypeOK' /\ TrailType'
  BY <1>6 DEF update_password, Write, NoRequest, RequestsOK, revoke_for_staff_user
<1>7. ASSUME NEW p \in Accounts, deactivate(p) PROVE SosTypeOK' /\ TrailType'
  BY <1>7 DEF deactivate, Write, NoRequest, RequestsOK, staff_soft_delete
<1>8. ASSUME NEW p \in Accounts, NEW s \in Accounts, NEW verb \in AdminVerbs,
             NEW role \in Roles \union {"none"}, admit(p, verb, s, role)
      PROVE  SosTypeOK' /\ TrailType'
  BY <1>8 DEF admit
<1> QED
  BY <1>1, <1>2, <1>3, <1>4, <1>5, <1>6, <1>7, <1>8 DEF AccessNext

\* So do the verbs on pages.
LEMMA PageTypes ==
    ASSUME SosInv, NEW p \in Accounts, NEW a \in Alerts
    PROVE  /\ \A s \in Accounts \union {Null} : raise_sos(p, s) => SosTypeOK' /\ TrailType'
           /\ \A verb \in SosVerbs : read_sos(p, verb, a) => SosTypeOK' /\ TrailType'
           /\ accept_sos(p) \/ resolve_sos(p) \/ cancel_sos(p) => SosTypeOK' /\ TrailType'
           /\ Waits(a) => SosTypeOK' /\ TrailType'
<1> USE DEF SosInv, SosTypeOK, AccessTypeOK, TrailType, sosVars, accessVars, SosVerbs
<1>1. ASSUME NEW s \in Accounts \union {Null}, raise_sos(p, s) PROVE SosTypeOK' /\ TrailType'
  <2> DEFINE t == IF s \in Accounts /\ by_id(s) /\ has_live_session(s) THEN s ELSE Null
  <2>1. t \in Accounts \union {Null}
    OBVIOUS
  <2>2. PICK x \in Alerts : /\ alert' = [alert EXCEPT ![x] = Raised(p, t)]
                            /\ trail' = [trail EXCEPT ![x] = <<"raised">>]
    BY <1>1 DEF raise_sos, alerts_insert, Raised
  <2> HIDE DEF t
  <2> QED
    BY <1>1, <2>1, <2>2, RowInserted, SMTT(30) DEF raise_sos
<1>2. ASSUME NEW verb \in SosVerbs, read_sos(p, verb, a) PROVE SosTypeOK' /\ TrailType'
  BY <1>2 DEF read_sos
<1>3. ASSUME NEW verb \in SosVerbs, Update(p, verb) PROVE SosTypeOK' /\ TrailType'
  <2> DEFINE x == req[p].arg
  <2>1. x \in Alerts /\ req' = [req EXCEPT ![p] = NoRequest] /\ UNCHANGED accessVars
    BY <1>3 DEF Update, RequestsOK
  <2>2. CASE alert[x].status \in allowed(verb)
    <3>1. alert' = [alert EXCEPT ![x] = IF verb = "accept" THEN Accepted(@, p) ELSE Ended(@, Done(verb))]
      BY <1>3, <2>2 DEF Update
    <3>2. alert' \in [Alerts -> SosAlert]
      <4>1. CASE verb = "accept"
        BY <2>1, <3>1, <4>1, RowAccepted
      <4>2. CASE verb # "accept"
        <5>1. Done(verb) \in {"resolved", "cancelled"}
          BY <4>2 DEF Done
        <5> QED
          BY <2>1, <3>1, <4>2, <5>1, RowEnded
      <4> QED
        BY <4>1, <4>2
    <3>3. late' = [late EXCEPT ![x] = FALSE] /\ trail' = [trail EXCEPT ![x] = Append(@, Done(verb))]
      BY <1>3, <2>2 DEF Update, audit
    <3> QED
      BY <2>1, <3>2, <3>3 DEF NoRequest, Done
  <2>3. CASE alert[x].status \notin allowed(verb)
    <3>1. alert' = alert /\ late' = late /\ trail' = [trail EXCEPT ![x] = trail[x]]
      BY <1>3, <2>3 DEF Update, audit
    <3> QED
      BY <2>1, <3>1 DEF NoRequest
  <2> QED
    BY <2>2, <2>3
<1>4. ASSUME Waits(a) PROVE SosTypeOK' /\ TrailType'
  BY <1>4 DEF Waits
<1> QED
  BY <1>1, <1>2, <1>3, <1>4 DEF accept_sos, resolve_sos, cancel_sos

\* Every step keeps the types.
LEMMA NextTypes ==
    ASSUME SosInv, [SosNext]_pageVars
    PROVE  SosTypeOK' /\ TrailType'
<1>1. CASE AccessNext /\ UNCHANGED sosVars
  BY <1>1, AccessTypes
<1>2. ASSUME NEW p \in Accounts,
             \/ \E s \in Accounts \union {Null} : raise_sos(p, s)
             \/ \E a \in Alerts, verb \in SosVerbs : read_sos(p, verb, a)
             \/ accept_sos(p) \/ resolve_sos(p) \/ cancel_sos(p)
      PROVE  SosTypeOK' /\ TrailType'
  <2>1. CASE Alerts = {}
    <3>1. ~ accept_sos(p) /\ ~ resolve_sos(p) /\ ~ cancel_sos(p)
      BY <2>1 DEF accept_sos, resolve_sos, cancel_sos, Update, SosInv, RequestsOK
    <3> QED
      BY <1>2, <2>1, <3>1 DEF raise_sos
  <2>2. CASE Alerts # {}
    BY <1>2, <2>2, PageTypes
  <2> QED
    BY <2>1, <2>2
<1>3. CASE \E a \in Alerts : Waits(a)
  <2> PICK a \in Alerts : Waits(a)
    BY <1>3
  <2> QED
    BY PageTypes, AccessAssumption
<1>4. CASE UNCHANGED pageVars
  BY <1>4 DEF pageVars, accessVars, sosVars, SosInv, SosTypeOK, AccessTypeOK, TrailType
<1> QED
  BY <1>1, <1>2, <1>3, <1>4 DEF SosNext

----------------------------------------------------------------------------
(* What a step does to one page. *)

\* The page stays as it is and only grows older; it is raised; somebody else
\* accepts it; or it ends.
PageStep(a) ==
    \/ alert'[a] = alert[a] /\ trail'[a] = trail[a] /\ (late[a] => late'[a])
    \/ /\ alert[a].status = "none" /\ alert'[a].status = "open"
       /\ alert'[a].accepted_by = Null /\ trail'[a] = <<"raised">>
    \/ /\ alert[a].status = "open" /\ alert'[a].status = "accepted"
       /\ alert'[a].accepted_by \in Accounts \ {alert[a].raised_by}
       /\ alert'[a].raised_by = alert[a].raised_by
       /\ trail'[a] = Append(trail[a], "accepted")
    \/ /\ alert[a].status \in LIVE_STATUSES /\ alert'[a].raised_by = Null
       /\ alert'[a].status = "resolved" \/ (alert'[a].status = "cancelled" /\ alert[a].status = "open")
       /\ alert'[a].accepted_by = alert[a].accepted_by
       /\ trail'[a] = Append(trail[a], alert'[a].status)

\* The guarded UPDATE is what makes the last two steps the only ones a verb can
\* take, whatever was committed since it read the row.
LEMMA UpdateIsPageStep ==
    ASSUME SosInv, NEW p \in Accounts, NEW verb \in SosVerbs, Update(p, verb), NEW a \in Alerts
    PROVE  PageStep(a)
<1> USE DEF SosInv, SosTypeOK, TrailType
<1> DEFINE x == req[p].arg
<1>1. x \in Alerts /\ (verb = "accept" => alert[x].raised_by # p)
  BY DEF Update, RequestsOK
<1>2. CASE alert[x].status \in allowed(verb)
  <2>1. /\ alert' = [alert EXCEPT ![x] = IF verb = "accept" THEN Accepted(@, p) ELSE Ended(@, Done(verb))]
        /\ late' = [late EXCEPT ![x] = FALSE] /\ trail' = [trail EXCEPT ![x] = Append(trail[x], Done(verb))]
    BY <1>2 DEF Update, audit
  <2>2. CASE a # x
    BY <1>1, <2>1, <2>2 DEF PageStep
  <2>3. CASE a = x /\ verb = "accept"
    <3>1. alert'[a] = Accepted(alert[a], p) /\ trail'[a] = Append(trail[a], "accepted")
      BY <1>1, <2>1, <2>3 DEF Done
    <3>2. alert[a].status = "open" /\ alert[a] \in SosAlert
      BY <1>2, <2>3 DEF allowed
    <3> QED
      BY <1>1, <2>3, <3>1, <3>2, RowAccepted DEF PageStep
  <2>4. CASE a = x /\ verb # "accept"
    <3>1. Done(verb) \in {"resolved", "cancelled"} /\ (Done(verb) = "cancelled" <=> verb # "resolve")
      BY <2>4 DEF Done, SosVerbs
    <3>2. alert'[a] = Ended(alert[a], Done(verb)) /\ trail'[a] = Append(trail[a], Done(verb))
      BY <1>1, <2>1, <2>4
    <3>3. alert[a].status \in LIVE_STATUSES /\ alert[a] \in SosAlert /\ (verb # "resolve" => alert[a].status = "open")
      BY <1>2, <2>4 DEF allowed, LIVE_STATUSES
    <3> QED
      BY <3>1, <3>2, <3>3, RowEnded DEF PageStep
  <2> QED
    BY <2>2, <2>3, <2>4
<1>3. CASE alert[x].status \notin allowed(verb)
  BY <1>1, <1>3 DEF Update, audit, PageStep
<1> QED
  BY <1>2, <1>3

\* Every step is one of those for each page.
LEMMA NextIsPageStep ==
    ASSUME SosInv, [SosNext]_pageVars, NEW a \in Alerts
    PROVE  PageStep(a)
<1> USE DEF SosInv, SosTypeOK, TrailType, sosVars
<1>1. CASE AccessNext /\ UNCHANGED sosVars
  BY <1>1 DEF PageStep
<1>2. ASSUME NEW p \in Accounts, NEW s \in Accounts \union {Null}, raise_sos(p, s) PROVE PageStep(a)
  <2> DEFINE t == IF s \in Accounts /\ by_id(s) /\ has_live_session(s) THEN s ELSE Null
  <2>1. t \in Accounts \union {Null}
    OBVIOUS
  <2>2. PICK x \in Alerts : /\ alert[x].status = "none" /\ alert' = [alert EXCEPT ![x] = Raised(p, t)]
                            /\ trail' = [trail EXCEPT ![x] = <<"raised">>]
    BY <1>2 DEF raise_sos, alerts_insert, Raised
  <2>3. late' = late
    BY <1>2 DEF raise_sos
  <2> HIDE DEF t
  <2> QED
    BY <2>1, <2>2, <2>3, RowInserted DEF PageStep
<1>3. ASSUME NEW p \in Accounts, NEW x \in Alerts, NEW verb \in SosVerbs, read_sos(p, verb, x) PROVE PageStep(a)
  BY <1>3 DEF read_sos, PageStep
<1>4. ASSUME NEW p \in Accounts, accept_sos(p) \/ resolve_sos(p) \/ cancel_sos(p) PROVE PageStep(a)
  BY <1>4, UpdateIsPageStep DEF accept_sos, resolve_sos, cancel_sos, SosVerbs
<1>5. ASSUME NEW x \in Alerts, Waits(x) PROVE PageStep(a)
  BY <1>5 DEF Waits, PageStep
<1>6. CASE UNCHANGED pageVars
  BY <1>6 DEF pageVars, PageStep
<1> QED
  BY <1>1, <1>2, <1>3, <1>4, <1>5, <1>6 DEF SosNext

\* One more row of the log, written out.
LEMMA AppendedLog ==
    /\ \A x, y : Append(<<x>>, y) = <<x, y>>
    /\ \A x, y, z : Append(<<x, y>>, z) = <<x, y, z>>
<1>1. ASSUME NEW x, NEW y PROVE Append(<<x>>, y) = <<x, y>>
  <2> DEFINE S == {x, y}
  <2>1. Append(<<x>>, y) \in Seq(S) /\ <<x, y>> \in Seq(S) /\ <<x>> \in Seq(S)
    OBVIOUS
  <2>2. Len(Append(<<x>>, y)) = 2 /\ Len(<<x, y>>) = 2
    BY <2>1
  <2>3. \A i \in 1..2 : Append(<<x>>, y)[i] = <<x, y>>[i]
    BY <2>1
  <2> QED
    BY <2>1, <2>2, <2>3, SeqEqual
<1>2. ASSUME NEW x, NEW y, NEW z PROVE Append(<<x, y>>, z) = <<x, y, z>>
  <2> DEFINE S == {x, y, z}
  <2>1. Append(<<x, y>>, z) \in Seq(S) /\ <<x, y, z>> \in Seq(S) /\ <<x, y>> \in Seq(S)
    OBVIOUS
  <2>2. Len(Append(<<x, y>>, z)) = 3 /\ Len(<<x, y, z>>) = 3
    BY <2>1
  <2>3. \A i \in 1..3 : Append(<<x, y>>, z)[i] = <<x, y, z>>[i]
    BY <2>1
  <2> QED
    BY <2>1, <2>2, <2>3, SeqEqual
<1> QED
  BY <1>1, <1>2

\* The story grows with the row.
LEMMA NextPages ==
    ASSUME SosInv, [SosNext]_pageVars
    PROVE  PagesOK'
<1> SUFFICES ASSUME NEW a \in Alerts
             PROVE  /\ trail'[a] = Story(alert'[a])
                    /\ alert'[a].status = "accepted" => alert'[a].accepted_by # Null
                    /\ alert'[a].status \in {"none", "open", "cancelled"} => alert'[a].accepted_by = Null
  BY DEF PagesOK
<1>1. PageStep(a)
  BY NextIsPageStep
<1>2. trail[a] = Story(alert[a]) /\ alert[a] \in SosAlert
  BY DEF SosInv, PagesOK, SosTypeOK
<1>3. /\ alert[a].status = "accepted" => alert[a].accepted_by # Null
      /\ alert[a].status \in {"none", "open", "cancelled"} => alert[a].accepted_by = Null
  BY DEF SosInv, PagesOK
<1>4. CASE alert'[a] = alert[a] /\ trail'[a] = trail[a]
  BY <1>2, <1>3, <1>4
<1>5. CASE alert[a].status = "none" /\ alert'[a].status = "open" /\ alert'[a].accepted_by = Null /\ trail'[a] = <<"raised">>
  BY <1>5 DEF Story
<1>6. CASE /\ alert[a].status = "open" /\ alert'[a].status = "accepted"
           /\ alert'[a].accepted_by \in Accounts \ {alert[a].raised_by}
           /\ trail'[a] = Append(trail[a], "accepted")
  <2>1. trail[a] = <<"raised">>
    BY <1>2, <1>6 DEF Story
  <2>2. Story(alert'[a]) = <<"raised", "accepted">>
    BY <1>6 DEF Story
  <2>3. Append(<<"raised">>, "accepted") = <<"raised", "accepted">>
    BY AppendedLog
  <2> QED
    BY <1>6, <2>1, <2>2, <2>3
<1>7. CASE /\ alert[a].status \in LIVE_STATUSES
           /\ alert'[a].status = "resolved" \/ (alert'[a].status = "cancelled" /\ alert[a].status = "open")
           /\ alert'[a].accepted_by = alert[a].accepted_by
           /\ trail'[a] = Append(trail[a], alert'[a].status)
  <2>1. CASE alert[a].status = "open"
    <3>1. trail[a] = <<"raised">> /\ alert[a].accepted_by = Null
      BY <1>2, <1>3, <2>1 DEF Story
    <3>2. CASE alert'[a].status = "resolved"
      <4>1. Append(<<"raised">>, "resolved") = <<"raised", "resolved">>
        BY AppendedLog
      <4> QED
        BY <1>7, <3>1, <3>2, <4>1 DEF Story
    <3>3. CASE alert'[a].status = "cancelled"
      <4>1. Append(<<"raised">>, "cancelled") = <<"raised", "cancelled">>
        BY AppendedLog
      <4> QED
        BY <1>7, <3>1, <3>3, <4>1 DEF Story
    <3> QED
      BY <1>7, <3>2, <3>3
  <2>2. CASE alert[a].status = "accepted"
    <3>1. trail[a] = <<"raised", "accepted">> /\ alert[a].accepted_by # Null
      BY <1>2, <1>3, <2>2 DEF Story
    <3>2. Append(<<"raised", "accepted">>, "resolved") = <<"raised", "accepted", "resolved">>
      BY AppendedLog
    <3> QED
      BY <1>7, <2>2, <3>1, <3>2 DEF Story
  <2> QED
    BY <1>7, <2>1, <2>2 DEF LIVE_STATUSES
<1> QED
  BY <1>1, <1>4, <1>5, <1>6, <1>7 DEF PageStep

----------------------------------------------------------------------------
(* What a step does to one request. *)

\* It stays, ends, passes the lock, or begins with what the router checked.
RequestStep(q) ==
    \/ req'[q] = req[q]
    \/ req'[q] = NoRequest
    \/ /\ req[q].step = "admitted" /\ req'[q].step = "decided"
       /\ req'[q].verb = req[q].verb /\ req'[q].arg = req[q].arg /\ req'[q].role = req[q].role
    \/ /\ req'[q].step = "admitted" /\ req'[q].verb \in AdminVerbs /\ req'[q].arg \in Accounts
       /\ req'[q].verb = "role" => req'[q].role \in Roles
    \/ /\ req'[q].step = "read" /\ req'[q].verb \in SosVerbs /\ req'[q].arg \in Alerts
       /\ alert'[req'[q].arg].status # "none"
       /\ req'[q].verb = "accept" => alert'[req'[q].arg].raised_by # q

\* The request that passes the lock is the only one past it.
LEMMA DecidedRequest ==
    ASSUME SosInv, NEW p \in Accounts, decide(p), NEW q \in Accounts
    PROVE  RequestStep(q) /\ (req'[q].step = "decided" => q = p)
<1> USE DEF SosInv, SosTypeOK
<1>1. req[p].step = "admitted" /\ req[q].step # "decided"
  BY DEF decide, STAFF_LOCK
<1>2. CASE req' = [req EXCEPT ![p].step = "decided"]
  <2>1. \A r : r \in [verb : {"none"} \union AdminVerbs \union SosVerbs,
                      step : {"none", "admitted", "decided", "read"},
                      arg  : Accounts \union Alerts \union {Null},
                      role : Roles \union {"none"}] =>
           LET d == [r EXCEPT !.step = "decided"] IN
           d.step = "decided" /\ d.verb = r.verb /\ d.arg = r.arg /\ d.role = r.role
    OBVIOUS
  <2>2. req'[p] = [req[p] EXCEPT !.step = "decided"] /\ (q # p => req'[q] = req[q])
    BY <1>2
  <2> QED
    BY <1>1, <2>1, <2>2 DEF RequestStep
<1>3. CASE req' = [req EXCEPT ![p] = NoRequest]
  BY <1>1, <1>3 DEF RequestStep, NoRequest
<1> QED
  BY <1>2, <1>3 DEF decide

\* Every step is one of those for each request.
LEMMA NextIsRequestStep ==
    ASSUME SosInv, [SosNext]_pageVars, NEW q \in Accounts
    PROVE  RequestStep(q)
<1> USE DEF SosInv, SosTypeOK
<1>1. ASSUME NEW s \in Accounts, NEW role \in Roles, create(s, role) PROVE RequestStep(q)
  BY <1>1 DEF create, RequestStep
<1>2. ASSUME NEW p \in Accounts, login(p) \/ logout(p) \/ reset_owner_password(p) PROVE RequestStep(q)
  BY <1>2 DEF login, logout, reset_owner_password, RequestStep
<1>3. ASSUME NEW p \in Accounts, decide(p) PROVE RequestStep(q)
  BY <1>3, DecidedRequest
<1>4. ASSUME NEW p \in Accounts, update_role(p) \/ update_password(p) \/ deactivate(p) PROVE RequestStep(q)
  BY <1>4 DEF update_role, update_password, deactivate, Write, RequestStep
<1>5. ASSUME NEW p \in Accounts, NEW s \in Accounts, NEW verb \in AdminVerbs, NEW role \in Roles \union {"none"},
             verb = "role" => role \in Roles, admit(p, verb, s, role)
      PROVE  RequestStep(q)
  BY <1>5 DEF admit, RequestStep
<1>6. ASSUME NEW p \in Accounts, NEW s \in Accounts \union {Null}, raise_sos(p, s) PROVE RequestStep(q)
  BY <1>6 DEF raise_sos, RequestStep
<1>7. ASSUME NEW p \in Accounts, NEW a \in Alerts, NEW verb \in SosVerbs, read_sos(p, verb, a) PROVE RequestStep(q)
  <2>1. live(a) /\ (verb = "accept" => may_accept(a, p)) /\ alert' = alert
    BY <1>7 DEF read_sos, permitted, sosVars
  <2> QED
    BY <1>7, <2>1 DEF read_sos, RequestStep, live, LIVE_STATUSES, may_accept
<1>8. ASSUME NEW p \in Accounts, accept_sos(p) \/ resolve_sos(p) \/ cancel_sos(p) PROVE RequestStep(q)
  <2>1. req' = [req EXCEPT ![p] = NoRequest]
    BY <1>8 DEF accept_sos, resolve_sos, cancel_sos, Update
  <2> QED
    BY <2>1 DEF RequestStep
<1>9. ASSUME NEW a \in Alerts, Waits(a) PROVE RequestStep(q)
  BY <1>9 DEF Waits, RequestStep
<1>10. CASE UNCHANGED pageVars
  BY <1>10 DEF pageVars, RequestStep
<1>11. CASE AccessNext
  BY <1>11, <1>1, <1>2, <1>3, <1>4, <1>5 DEF AccessNext, AdminVerbs
<1> QED
  BY <1>11, <1>6, <1>7, <1>8, <1>9, <1>10 DEF SosNext

\* No step takes away what a request in flight has read.
LEMMA NextRequests ==
    ASSUME SosInv, [SosNext]_pageVars
    PROVE  RequestsOK'
<1> SUFFICES ASSUME NEW q \in Accounts
             PROVE  /\ req'[q].step \in {"admitted", "decided"} =>
                         /\ req'[q].verb \in AdminVerbs /\ req'[q].arg \in Accounts
                         /\ req'[q].verb = "role" => req'[q].role \in Roles
                    /\ req'[q].step = "read" =>
                         /\ req'[q].verb \in SosVerbs /\ req'[q].arg \in Alerts
                         /\ alert'[req'[q].arg].status # "none"
                         /\ req'[q].verb = "accept" => alert'[req'[q].arg].raised_by # q
  BY DEF RequestsOK
<1>1. \A a \in Alerts : alert[a].status # "none" => /\ alert'[a].status # "none"
                                                   /\ alert'[a].raised_by \in {alert[a].raised_by, Null}
  <2> TAKE a \in Alerts
  <2>1. PageStep(a)
    BY NextIsPageStep
  <2> QED
    BY <2>1 DEF PageStep
<1>2. RequestStep(q)
  BY NextIsRequestStep
<1>3. CASE req'[q] = req[q]
  BY <1>1, <1>3 DEF SosInv, RequestsOK
<1>4. CASE req'[q] = NoRequest
  BY <1>4 DEF NoRequest
<1>5. CASE /\ req[q].step = "admitted" /\ req'[q].step = "decided"
           /\ req'[q].verb = req[q].verb /\ req'[q].arg = req[q].arg /\ req'[q].role = req[q].role
  BY <1>5 DEF SosInv, RequestsOK
<1> QED
  BY <1>2, <1>3, <1>4, <1>5 DEF RequestStep

----------------------------------------------------------------------------
(* The lock. *)

\* More than one owner counted under the lock means an owner besides any one of
\* them.
LEMMA AnotherOwner ==
    ASSUME NEW o \in Accounts, staff[o] = "owner", ~ (count_live_owners <= 1)
    PROVE  \E other \in Accounts : other # o /\ staff[other] = "owner"
<1> DEFINE Owners == {s \in Accounts : staff[s] = "owner"}
<1>1. IsFiniteSet(Owners) /\ Cardinality(Owners) \in Nat
  <2>1. Owners \subseteq Accounts
    OBVIOUS
  <2> HIDE DEF Owners
  <2> QED
    BY <2>1, FS_Subset, FS_CardinalityType
<1>2. SUFFICES ASSUME \A other \in Accounts : other # o => staff[other] # "owner"
               PROVE  FALSE
  OBVIOUS
<1>3. Owners = {o}
  BY <1>2
<1>4. Cardinality(Owners) = 1
  BY <1>3, FS_Singleton
<1> QED
  BY <1>4 DEF count_live_owners

\* Outside the writes nobody stops being an owner.
LEMMA OwnersKept ==
    ASSUME SosInv, [SosNext]_pageVars, NEW o \in Accounts, staff[o] = "owner",
           \A p \in Accounts : ~ update_role(p) /\ ~ deactivate(p)
    PROVE  staff'[o] = "owner"
<1> USE DEF SosInv, SosTypeOK, AccessTypeOK
<1>1. ASSUME NEW s \in Accounts, NEW role \in Roles, create(s, role) PROVE staff'[o] = "owner"
  BY <1>1 DEF create, staff_insert
<1>2. CASE UNCHANGED staff
  BY <1>2
<1>3. CASE AccessNext
  <2>1. \/ \E s \in Accounts, role \in Roles : create(s, role)
        \/ UNCHANGED staff
    BY <1>3 DEF AccessNext, login, logout, reset_owner_password, decide, accessVars, update_password, admit
  <2> QED
    BY <1>1, <1>2, <2>1
<1>4. ASSUME NEW p \in Accounts,
             \/ \E s \in Accounts \union {Null} : raise_sos(p, s)
             \/ \E a \in Alerts, verb \in SosVerbs : read_sos(p, verb, a)
             \/ accept_sos(p) \/ resolve_sos(p) \/ cancel_sos(p)
      PROVE  UNCHANGED staff
  BY <1>4 DEF raise_sos, read_sos, accept_sos, resolve_sos, cancel_sos, Update, accessVars
<1>5. ASSUME NEW a \in Alerts, Waits(a) PROVE UNCHANGED staff
  BY <1>5 DEF Waits, accessVars
<1>6. CASE UNCHANGED pageVars
  BY <1>6 DEF pageVars, accessVars
<1> QED
  BY <1>2, <1>3, <1>4, <1>5, <1>6 DEF SosNext

\* No step puts two requests past the lock, or takes the owner that one of them
\* counted on.
LEMMA NextLock ==
    ASSUME SosInv, [SosNext]_pageVars
    PROVE  LockOK'
<1>1. /\ \A p, q \in Accounts : req[p].step = "decided" /\ req[q].step = "decided" => p = q
      /\ \E o \in Accounts : staff[o] = "owner"
      /\ \A p \in Accounts : req[p].step = "decided" /\ Demotes(req[p]) =>
            \E o \in Accounts : o # req[p].arg /\ staff[o] = "owner"
  BY DEF SosInv, LockOK
<1>2. SosTypeOK /\ AccessTypeOK /\ RequestsOK
  BY DEF SosInv, SosTypeOK
<1>3. ASSUME NEW p \in Accounts, update_role(p) \/ deactivate(p)
      PROVE  LockOK'
  <2>1. req[p].step = "decided" /\ req' = [req EXCEPT ![p] = NoRequest]
    BY <1>3 DEF update_role, deactivate, Write
  <2>2. \A q \in Accounts : req'[q].step # "decided"
    BY <1>1, <1>2, <2>1 DEF SosTypeOK, NoRequest
  <2>3. \E o \in Accounts : staff'[o] = "owner"
    <3>1. CASE Demotes(req[p])
      <4>1. PICK o \in Accounts : o # req[p].arg /\ staff[o] = "owner"
        BY <1>1, <2>1, <3>1
      <4>2. staff'[o] = "owner"
        BY <1>2, <1>3, <4>1 DEF AccessTypeOK, update_role, deactivate, staff_soft_delete
      <4> QED
        BY <4>2
    <3>2. CASE ~ Demotes(req[p])
      <4>1. update_role(p) /\ req[p].role = "owner" /\ req[p].arg \in Accounts
        BY <1>2, <1>3, <3>2 DEF update_role, deactivate, Write, Demotes, RequestsOK
      <4>2. staff'[req[p].arg] = "owner"
        BY <1>2, <4>1 DEF AccessTypeOK, update_role
      <4> QED
        BY <4>1, <4>2
    <3> QED
      BY <3>1, <3>2
  <2> QED
    BY <2>2, <2>3 DEF LockOK
<1>4. ASSUME \A p \in Accounts : ~ update_role(p) /\ ~ deactivate(p)
      PROVE  LockOK'
  <2>1. \A o \in Accounts : staff[o] = "owner" => staff'[o] = "owner"
    BY <1>4, OwnersKept
  <2>2. \E o \in Accounts : staff'[o] = "owner"
    BY <1>1, <2>1
  <2>3. ASSUME NEW p \in Accounts, decide(p)
        PROVE  LockOK'
    <3>1. \A q \in Accounts : req'[q].step = "decided" => q = p
      BY <2>3, DecidedRequest
    <3>2. ASSUME req'[p].step = "decided", Demotes(req'[p])
          PROVE  \E o \in Accounts : o # req'[p].arg /\ staff'[o] = "owner"
      <4>1. req[p].step = "admitted" /\ req'[p] # NoRequest /\ req'[p] # req[p]
        BY <2>3, <3>2 DEF decide, NoRequest
      <4>2. req'[p].verb = req[p].verb /\ req'[p].arg = req[p].arg /\ req'[p].role = req[p].role
        BY <2>3, <3>2, <4>1, DecidedRequest DEF RequestStep
      <4>3. req[p].arg \in Accounts /\ ~ last_owner(req[p])
        <5>1. req' # [req EXCEPT ![p] = NoRequest]
          BY <1>2, <4>1 DEF SosTypeOK
        <5> QED
          BY <1>2, <2>3, <4>1, <5>1 DEF decide, RequestsOK
      <4>4. \E o \in Accounts : o # req[p].arg /\ staff[o] = "owner"
        <5>1. CASE staff[req[p].arg] = "owner"
          BY <3>2, <4>2, <4>3, <5>1, AnotherOwner DEF last_owner, Demotes
        <5>2. CASE staff[req[p].arg] # "owner"
          BY <1>1, <5>2
        <5> QED
          BY <5>1, <5>2
      <4> QED
        BY <2>1, <4>2, <4>4
    <3> QED
      BY <2>2, <3>1, <3>2 DEF LockOK
  <2>4. ASSUME \A p \in Accounts : ~ decide(p)
        PROVE  LockOK'
    <3>1. ASSUME NEW q \in Accounts, req'[q].step = "decided"
          PROVE  req'[q] = req[q]
      <4>1. ASSUME NEW p \in Accounts, update_password(p) PROVE req'[q] = req[q]
        BY <1>2, <3>1, <4>1 DEF update_password, Write, NoRequest, SosTypeOK
      <4>2. ASSUME NEW p \in Accounts, NEW s \in Accounts, NEW verb \in AdminVerbs,
                   NEW role \in Roles \union {"none"}, admit(p, verb, s, role)
            PROVE  req'[q] = req[q]
        BY <1>2, <3>1, <4>2 DEF admit, SosTypeOK
      <4>3. CASE AccessNext
        BY <1>4, <2>4, <4>1, <4>2, <4>3 DEF AccessNext, AdminVerbs, create, login, logout, reset_owner_password
      <4>4. ASSUME NEW p \in Accounts, NEW a \in Alerts, NEW verb \in SosVerbs, read_sos(p, verb, a)
            PROVE  req'[q] = req[q]
        BY <1>2, <3>1, <4>4 DEF read_sos, SosTypeOK
      <4>5. ASSUME NEW p \in Accounts, accept_sos(p) \/ resolve_sos(p) \/ cancel_sos(p) PROVE req'[q] = req[q]
        BY <1>2, <3>1, <4>5 DEF accept_sos, resolve_sos, cancel_sos, Update, NoRequest, SosTypeOK
      <4>6. CASE UNCHANGED pageVars
        BY <4>6 DEF pageVars
      <4> QED
        BY <4>3, <4>4, <4>5, <4>6 DEF SosNext, raise_sos, Waits
    <3> QED
      BY <1>1, <2>1, <2>2, <3>1 DEF LockOK
  <2> QED
    BY <2>3, <2>4
<1> QED
  BY <1>3, <1>4

\* Every step keeps the invariant.
LEMMA SosInductive == SosInv /\ [SosNext]_pageVars => SosInv'
<1> SUFFICES ASSUME SosInv, [SosNext]_pageVars PROVE SosInv'
  OBVIOUS
<1> QED
  BY NextTypes, NextRequests, NextLock, NextPages DEF SosInv

\* What requests have read stays true, the lock is held by one, and every page's log
\* is its story (auth/staff.py, floor/service.py).
THEOREM SosInvariantHolds == SosSpec => []SosInv
BY InitSosInv, SosInductive, PTL DEF SosSpec

----------------------------------------------------------------------------
(* The properties. *)

\* A boutique always has a live owner, whatever any number of owners do to each
\* other at once.
THEOREM OwnerRemains == SosSpec => []LiveOwnerRemains
<1>1. SosInv => LiveOwnerRemains
  <2> SUFFICES ASSUME SosInv PROVE LiveOwnerRemains
    OBVIOUS
  <2> DEFINE Owners == {s \in Accounts : staff[s] = "owner"}
  <2>1. Owners # {} /\ Owners \subseteq Accounts
    BY DEF SosInv, LockOK
  <2>2. Cardinality(Owners) \in Nat /\ Cardinality(Owners) # 0
    <3> HIDE DEF Owners
    <3> QED
      BY <2>1, FS_Subset, FS_CardinalityType, FS_EmptySet
  <2> QED
    BY <2>2 DEF LiveOwnerRemains, count_live_owners
<1> QED
  BY <1>1, SosInvariantHolds, PTL

\* A page's log tells its story.
LEMMA StoryTold == SosInv => TrailTellsTheStory
<1> SUFFICES ASSUME SosInv, NEW a \in Alerts
             PROVE  /\ Len(trail[a]) <= 3
                    /\ live(a) \/ trail[a] # <<>> =>
                          /\ trail[a][1] = "raised"
                          /\ trail[a][Len(trail[a])] = IF alert[a].status = "open" THEN "raised"
                                                       ELSE alert[a].status
                          /\ (alert[a].accepted_by # Null) <=> \E i \in DOMAIN trail[a] :
                                                                  trail[a][i] = "accepted"
  BY DEF TrailTellsTheStory
<1>1. /\ trail[a] = Story(alert[a])
      /\ alert[a].status = "accepted" => alert[a].accepted_by # Null
      /\ alert[a].status \in {"none", "open", "cancelled"} => alert[a].accepted_by = Null
      /\ alert[a].status \in {"none", "open", "accepted", "resolved", "cancelled"}
  BY DEF SosInv, PagesOK, SosTypeOK, SosAlert, SosStatus
<1>2. CASE alert[a].status = "none"
  BY <1>1, <1>2 DEF Story, live, LIVE_STATUSES
<1>3. CASE alert[a].status = "open"
  BY <1>1, <1>3 DEF Story
<1>4. CASE alert[a].status = "accepted"
  <2>1. trail[a] = <<"raised", "accepted">>
    BY <1>1, <1>4 DEF Story
  <2> QED
    BY <1>1, <1>4, <2>1
<1>5. CASE alert[a].status = "cancelled"
  <2>1. trail[a] = <<"raised", "cancelled">>
    BY <1>1, <1>5 DEF Story
  <2> QED
    BY <1>1, <1>5, <2>1
<1>6. CASE alert[a].status = "resolved" /\ alert[a].accepted_by = Null
  <2>1. trail[a] = <<"raised", "resolved">>
    BY <1>1, <1>6 DEF Story
  <2> QED
    BY <1>1, <1>6, <2>1
<1>7. CASE alert[a].status = "resolved" /\ alert[a].accepted_by # Null
  <2>1. trail[a] = <<"raised", "accepted", "resolved">>
    BY <1>1, <1>7 DEF Story
  <2> QED
    BY <1>1, <1>7, <2>1
<1> QED
  BY <1>1, <1>2, <1>3, <1>4, <1>5, <1>6, <1>7

\* An overdue page rises for everybody who leads the floor, each page only for
\* people who find it in their list and may answer it, and its log says what
\* became of it: also after racing verbs, lost roles and removals.
THEOREM PagesSeen == SosSpec => []PagesAreSeen
<1>1. SosInv => OverduePageRises
  BY DEF SosInv, SosTypeOK, AccessTypeOK, OverduePageRises, rising, by_id, for_me, live, LIVE_STATUSES,
         stalled, escalated, elevated, ELEVATED_ROLES
<1>2. SosInv => RisesForThoseWhoCan
  <2> SUFFICES ASSUME SosInv, NEW a \in Alerts, NEW s \in rising(a)
               PROVE  /\ [alert |-> a, rises |-> TRUE] \in sos(s)
                      /\ alert[a].status = "open" => may_accept(a, s)
    BY DEF RisesForThoseWhoCan
  <2>1. for_me(a, s)
    BY DEF rising
  <2>2. a \in live_for(s) /\ (alert[a].status = "open" => may_accept(a, s))
    BY <2>1 DEF for_me, live_for, live, LIVE_STATUSES, may_accept
  <2>3. for_me(a, s) = TRUE
    BY <2>1 DEF for_me, stalled, escalated, elevated
  <2>4. [alert |-> a, rises |-> TRUE] \in sos(s)
    BY <2>2, <2>3 DEF sos
  <2> QED
    BY <2>2, <2>4
<1>3. SosInv => PagesAreSeen
  BY <1>1, <1>2, StoryTold DEF SosInv, PagesAreSeen
<1> QED
  BY <1>3, SosInvariantHolds, PTL

\* The first accept owns the page, and an alarm goes quiet only because somebody
\* other than the raiser is coming: a property of every step.
THEOREM PagesAnswered == SosSpec => PagesAreAnswered
<1>1. SosInv /\ [SosNext]_pageVars => [QuietMeansHelp /\ FirstAcceptOwns]_<<alert, late, staff>>
  <2> SUFFICES ASSUME SosInv, [SosNext]_pageVars PROVE QuietMeansHelp /\ FirstAcceptOwns
    OBVIOUS
  <2>1. FirstAcceptOwns
    <3> SUFFICES ASSUME NEW a \in Alerts, alert[a].status = "accepted"
                 PROVE  /\ alert'[a].accepted_by = alert[a].accepted_by
                        /\ alert'[a].status \in {"accepted", "resolved"}
      BY DEF FirstAcceptOwns
    <3>1. PageStep(a)
      BY NextIsPageStep
    <3> QED
      BY <3>1 DEF PageStep
  <2>2. QuietMeansHelp
    <3> SUFFICES ASSUME NEW a \in Alerts, rising(a) # {}, rising(a)' = {},
                        alert'[a].status \in LIVE_STATUSES, staff' = staff
                 PROVE  alert'[a].accepted_by \notin {Null, alert[a].raised_by}
      BY DEF QuietMeansHelp
    <3>1. PageStep(a)
      BY NextIsPageStep
    <3>2. PICK s \in Accounts : by_id(s) /\ for_me(a, s)
      BY DEF rising
    <3>3. ~ (alert'[a] = alert[a] /\ (late[a] => late'[a]))
      <4> SUFFICES ASSUME alert'[a] = alert[a], late[a] => late'[a] PROVE s \in rising(a)'
        BY <3>2
      <4> QED
        BY <3>2 DEF rising, by_id, for_me, stalled, escalated, elevated
    <3>4. alert[a].status # "none"
      BY <3>2 DEF for_me
    <3> QED
      BY <3>1, <3>3, <3>4 DEF PageStep, LIVE_STATUSES
  <2> QED
    BY <2>1, <2>2
<1> QED
  BY <1>1, SosInvariantHolds, PTL DEF SosSpec, PagesAreAnswered

============================================================================
