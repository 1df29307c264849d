---------------------------- MODULE AtelierProofs ----------------------------
(***************************************************************************)
(* Proofs about the atelier, for any number of tickets, seamstresses,      *)
(* managers and requests in flight: an answer of 200 is true, the log      *)
(* replays to the row, no work is hidden, and no late write does harm.     *)
(***************************************************************************)
EXTENDS Atelier, FiniteSetTheorems, TLAPS

USE AtelierAssumption DEF AtelierAssumption

----------------------------------------------------------------------------
(* The inductive invariant. *)

Request == [step : {"idle", "loaded", "missed"}, it : Verbs \union {NoVerb}]

Answer == [by : Staff \union {None}, it : Verbs \union {NoVerb}]

\* What a request in flight has in its hands: a verb, and never the undo of the
\* intake, which the load refuses.
RequestsOK ==
    /\ req \in [Staff -> Request]
    /\ told \in Answer
    /\ \A p \in Staff : req[p].step # "idle" =>
          /\ req[p].it \in Verbs
          /\ req[p].it.verb = "undo" => req[p].it.arg # INTAKE

IInv == TypeOK /\ RequestsOK /\ AnswersAreTrue

----------------------------------------------------------------------------
(* Rows. *)

\* What a verb carries.
LEMMA VerbTypes ==
    ASSUME NEW it \in Verbs
    PROVE  /\ it.verb \in {"advance", "undo", "assign", "update", "delete"}
           /\ it.ticket \in Tickets
           /\ it.verb \in {"advance", "undo"} => it.arg \in TicketStage
           /\ it.verb = "assign" => it.arg \in Seamstresses \union {None}
BY DEF Verbs

\* The row that each verb's UPDATE leaves.
LEMMA WrittenRow ==
    ASSUME NEW r \in AlterationTicket, NEW it \in Verbs, NEW d \in BOOLEAN,
           NEW w, w = Written(r, it, d)
    PROVE  /\ w \in AlterationTicket
           /\ w.state = IF it.verb = "delete" THEN "deleted" ELSE r.state
           /\ it.verb = "advance" => w.stamped = r.stamped \union {it.arg}
           /\ it.verb = "undo" => w.stamped = r.stamped \ {it.arg}
           /\ it.verb \in {"assign", "update"} => w.stamped = r.stamped
           /\ it.verb = "delete" => w.stamped = {}
           /\ it.verb = "assign" => w.assigned = it.arg
           /\ it.verb \in {"advance", "undo", "update"} => w.assigned = r.assigned
<1> USE DEF AlterationTicket
<1>1. CASE it.verb = "advance"
  <2>1. PICK recent \in BOOLEAN : w = [r EXCEPT !.stamped = @ \union {it.arg}, !.recent = recent]
    <3>1. w = [r EXCEPT !.stamped = @ \union {it.arg}, !.recent = it.arg = DELIVERED]
      BY <1>1 DEF Written
    <3>2. (it.arg = DELIVERED) \in BOOLEAN
      OBVIOUS
    <3> QED
      BY <3>1, <3>2, Zenon
  <2>2. r.stamped \union {it.arg} \in SUBSET TicketStage
    BY <1>1, VerbTypes
  <2>3. w \in AlterationTicket
    BY <2>1, <2>2
  <2>4. w.state = r.state /\ w.assigned = r.assigned /\ w.stamped = r.stamped \union {it.arg}
    BY <2>1
  <2> QED
    BY <1>1, <2>3, <2>4
<1>2. CASE it.verb = "undo"
  <2>1. w = [r EXCEPT !.stamped = @ \ {it.arg}, !.recent = FALSE]
    BY <1>2 DEF Written
  <2> QED
    BY <1>2, <2>1, VerbTypes
<1>3. CASE it.verb = "assign"
  <2>1. w = [r EXCEPT !.assigned = it.arg]
    BY <1>3 DEF Written
  <2> QED
    BY <1>3, <2>1, VerbTypes
<1>4. CASE it.verb = "update"
  <2>1. w = [r EXCEPT !.due_soon = d]
    BY <1>4 DEF Written
  <2> QED
    BY <1>4, <2>1, VerbTypes
<1>5. CASE it.verb = "delete"
  <2>1. w = [NoTicket EXCEPT !.state = "deleted"]
    BY <1>5 DEF Written
  <2> QED
    BY <1>5, <2>1, VerbTypes DEF NoTicket
<1> QED
  BY <1>1, <1>2, <1>3, <1>4, <1>5, VerbTypes

\* The row that the intake inserts.
Taken(d, s) == [NoTicket EXCEPT !.state = "live", !.stamped = {INTAKE}, !.due_soon = d, !.assigned = s]

\* The row that an intake writes.
LEMMA TakenRow ==
    ASSUME NEW d \in BOOLEAN, NEW s \in Seamstresses \union {None}
    PROVE  /\ Taken(d, s) \in AlterationTicket
           /\ Taken(d, s).state = "live" /\ Taken(d, s).stamped = {INTAKE}
<1>1. {INTAKE} \in SUBSET TicketStage
  BY DEF INTAKE, TicketStage
<1> QED
  BY <1>1 DEF Taken, NoTicket, AlterationTicket

\* A row whose delivery is not recent any more.
Aged(r) == [r EXCEPT !.recent = FALSE]

\* The row once a day has passed.
LEMMA AgedRow ==
    ASSUME NEW r \in AlterationTicket
    PROVE  /\ Aged(r) \in AlterationTicket
           /\ Aged(r).state = r.state /\ Aged(r).stamped = r.stamped /\ Aged(r).assigned = r.assigned
BY DEF Aged, AlterationTicket

\* The stage of a ticket just advanced is the stage asked for: the guard left no
\* stamp at it or to its right.
LEMMA NewStage ==
    ASSUME NEW S \in SUBSET TicketStage, NEW n \in TicketStage,
           S \intersect ({n} \union later_columns(n)) = {}
    PROVE  Max(S \union {n}) = n
<1> DEFINE T == S \union {n}
<1>1. n \in T /\ (\A y \in T : n >= y) /\ T \subseteq Int
  BY DEF later_columns, TicketStage
<1>2. \A x \in T : (\A y \in T : x >= y) => x = n
  BY <1>1
<1> QED
  BY <1>1, <1>2 DEF Max

----------------------------------------------------------------------------
(* Init, and each action. *)

\* It holds at the start: no tickets, no requests.
LEMMA InitIInv == Init => IInv
<1> SUFFICES ASSUME Init PROVE IInv
  OBVIOUS
<1> USE DEF Init, Idle, Silence, NoTicket
<1>1. TypeOK
  BY DEF TypeOK, AlterationTicket, TicketStage
<1>2. RequestsOK
  BY DEF RequestsOK, Request, Answer
<1>3. AnswersAreTrue
  BY DEF AnswersAreTrue, AnswerIsTrue, TrailReplays, NoVerb
<1> QED
  BY <1>1, <1>2, <1>3 DEF IInv

\* After a step that answers nothing there is nothing to be true.
LEMMA SilenceIsTrue == told' = Silence => AnswerIsTrue'
BY DEF Silence, NoVerb, AnswerIsTrue

\* A new ticket.
LEMMA CreateStep ==
    ASSUME IInv, NEW p \in Staff, NEW t \in Tickets, NEW s \in Seamstresses \union {None}, create(p, t, s)
    PROVE  IInv'
<1> USE DEF IInv, TypeOK, RequestsOK, AnswersAreTrue
<1>1. PICK d \in BOOLEAN : row' = [row EXCEPT ![t] = Taken(d, s)]
  BY DEF create, Taken
<1>2. trail' = [trail EXCEPT ![t] = {INTAKE}] /\ told' = Silence /\ UNCHANGED <<person, req>>
  BY DEF create
<1>3. Silence \in Answer
  BY DEF Silence, Answer
<1>4. TypeOK'
  <2>1. {INTAKE} \in SUBSET TicketStage
    BY DEF INTAKE, TicketStage
  <2>2. row' \in [Tickets -> AlterationTicket] /\ trail' \in [Tickets -> SUBSET TicketStage]
    BY <1>1, <1>2, <2>1, TakenRow
  <2>3. \A u \in Tickets : row'[u].state = "live" => INTAKE \in row'[u].stamped
    BY <1>1, TakenRow
  <2> QED
    BY <1>2, <1>3, <2>2, <2>3 DEF Answer
<1>5. TrailReplays'
  BY <1>1, <1>2, TakenRow DEF TrailReplays
<1> QED
  BY <1>2, <1>3, <1>4, <1>5, SilenceIsTrue

\* A verb's first read.
LEMMA LoadStep ==
    ASSUME IInv, NEW p \in Staff, NEW it \in Verbs, load(p, it)
    PROVE  IInv'
<1> USE DEF IInv, TypeOK, RequestsOK, AnswersAreTrue
<1>1. req' = [req EXCEPT ![p] = [step |-> "loaded", it |-> it]] /\ told' = Silence /\ UNCHANGED <<person, row, trail>>
  BY DEF load
<1>2. Silence \in Answer
  BY DEF Silence, Answer
<1>3. it.verb = "undo" => it.arg # INTAKE
  BY DEF load, authorized
<1>4. [step |-> "loaded", it |-> it] \in Request
  BY DEF Request
<1>5. RequestsOK'
  BY <1>1, <1>2, <1>3, <1>4
<1>6. TypeOK'
  BY <1>1, <1>2, <1>5 DEF Request, Answer
<1>7. TrailReplays'
  BY <1>1 DEF TrailReplays
<1> QED
  BY <1>1, <1>5, <1>6, <1>7, SilenceIsTrue

\* The row of the ticket that a matched UPDATE leaves.
LEMMA WroteRow ==
    ASSUME IInv, NEW p \in Staff, wrote(p)
    PROVE  \E d \in BOOLEAN :
              /\ req[p].it \in Verbs /\ Live(req[p].it.ticket)
              /\ row' = [row EXCEPT ![req[p].it.ticket] = Written(row[req[p].it.ticket], req[p].it, d)]
<1>1. req[p].it \in Verbs
  BY DEF IInv, RequestsOK, wrote
<1>2. Live(req[p].it.ticket)
  BY DEF wrote, Matches
<1>3. \E d \in BOOLEAN :
         row' = [row EXCEPT ![req[p].it.ticket] = Written(row[req[p].it.ticket], req[p].it, d)]
  BY DEF wrote
<1> QED
  BY <1>1, <1>2, <1>3

\* The log's entry for the write.
LEMMA WroteTrail ==
    ASSUME IInv, NEW p \in Staff, wrote(p), NEW it, it = req[p].it, it \in Verbs
    PROVE  /\ it.verb = "advance" => trail' = [trail EXCEPT ![it.ticket] = @ \union {it.arg}]
           /\ it.verb = "undo" => trail' = [trail EXCEPT ![it.ticket] = @ \ {it.arg}]
           /\ it.verb = "delete" => trail' = [trail EXCEPT ![it.ticket] = {}]
           /\ it.verb \in {"assign", "update"} => trail' = trail
<1>1. trail' = audit(it, TRUE)
  BY DEF wrote
<1>2. CASE it.verb = "advance"
  BY <1>1, <1>2 DEF audit
<1>3. CASE it.verb = "undo"
  BY <1>1, <1>3 DEF audit
<1>4. CASE it.verb = "delete"
  BY <1>1, <1>4 DEF audit
<1>5. CASE it.verb \in {"assign", "update"}
  BY <1>1, <1>5 DEF audit
<1> QED
  BY <1>2, <1>3, <1>4, <1>5

\* A verb's UPDATE that matched.
LEMMA WroteStep ==
    ASSUME IInv, NEW p \in Staff, wrote(p)
    PROVE  IInv'
<1> USE DEF IInv, TypeOK, RequestsOK, AnswersAreTrue
<1>0. PICK it, t : it = req[p].it /\ t = it.ticket
  OBVIOUS
<1>1. PICK d \in BOOLEAN : it \in Verbs /\ Live(t) /\ row' = [row EXCEPT ![t] = Written(row[t], it, d)]
  BY <1>0, WroteRow
<1>2. PICK w : w = Written(row[t], it, d)
  OBVIOUS
<1>3. t \in Tickets /\ row[t] \in AlterationTicket /\ row' = [row EXCEPT ![t] = w]
  BY <1>0, <1>1, <1>2, VerbTypes
<1>4. /\ w \in AlterationTicket
      /\ w.state = IF it.verb = "delete" THEN "deleted" ELSE row[t].state
      /\ it.verb = "advance" => w.stamped = row[t].stamped \union {it.arg}
      /\ it.verb = "undo" => w.stamped = row[t].stamped \ {it.arg}
      /\ it.verb \in {"assign", "update"} => w.stamped = row[t].stamped
      /\ it.verb = "delete" => w.stamped = {}
      /\ it.verb = "assign" => w.assigned = it.arg
  BY <1>1, <1>2, <1>3, WrittenRow
<1>5. told' = [by |-> p, it |-> it] /\ req' = [req EXCEPT ![p] = Idle] /\ person' = person
  BY <1>0 DEF wrote
<1>6. /\ it.verb = "advance" => trail' = [trail EXCEPT ![t] = @ \union {it.arg}]
      /\ it.verb = "undo" => trail' = [trail EXCEPT ![t] = @ \ {it.arg}]
      /\ it.verb = "delete" => trail' = [trail EXCEPT ![t] = {}]
      /\ it.verb \in {"assign", "update"} => trail' = trail
  BY <1>0, <1>1, WroteTrail
<1>7. /\ it.verb \in {"advance", "undo", "assign", "update", "delete"}
      /\ it.verb \in {"advance", "undo"} => it.arg \in TicketStage
      /\ it.verb = "undo" => it.arg # INTAKE
  BY <1>0, <1>1, VerbTypes DEF wrote
<1>8. Matches(p, it)
  BY <1>0 DEF wrote
<1>9. told' \in Answer /\ Idle \in Request
  BY <1>1, <1>5 DEF Answer, Idle, Request
<1>10. row'[t] = w /\ \A u \in Tickets : u # t => row'[u] = row[u]
  BY <1>3
<1>11. RequestsOK'
  BY <1>5, <1>9 DEF Idle
<1>12. TrailReplays'
  BY <1>3, <1>4, <1>6, <1>7 DEF TrailReplays
<1>13. TypeOK'
  <2>1. row' \in [Tickets -> AlterationTicket]
    BY <1>3, <1>4
  <2>2. trail' \in [Tickets -> SUBSET TicketStage]
    BY <1>3, <1>6, <1>7
  <2>3. w.state = "live" => INTAKE \in w.stamped
    BY <1>1, <1>3, <1>4, <1>7 DEF Live
  <2>4. \A u \in Tickets : row'[u].state = "live" => INTAKE \in row'[u].stamped
    BY <1>3, <2>3
  <2> QED
    BY <1>5, <1>11, <2>1, <2>2, <2>4 DEF Request, Answer
<1>14. AnswerIsTrue'
  <2>1. told'.it = it
    BY <1>5
  <2>2. it.verb # "delete" => Live(t)'
    BY <1>1, <1>4, <1>10 DEF Live
  <2>3. CASE it.verb = "advance"
    <3>1. row[t].stamped \intersect ({it.arg} \union later_columns(it.arg)) = {}
      BY <1>0, <1>8, <2>3 DEF Matches, advance_stage, cleared_through
    <3>2. Max(row'[t].stamped) = it.arg /\ row'[t].stamped # {}
      <4>1. row[t].stamped \in SUBSET TicketStage /\ it.arg \in TicketStage
        BY <1>3, <1>7, <2>3 DEF AlterationTicket
      <4>2. Max(row[t].stamped \union {it.arg}) = it.arg
        BY <3>1, <4>1, NewStage
      <4> QED
        BY <1>4, <1>10, <2>3, <4>2
    <3> QED
      BY <1>0, <2>1, <2>2, <2>3, <3>2 DEF AnswerIsTrue, stage_of
  <2>4. CASE it.verb = "undo"
    <3>1. row[t].stamped \intersect later_columns(it.arg) = {}
      BY <1>0, <1>8, <2>4 DEF Matches, undo_stage
    <3>2. cleared_through(t, it.arg)'
      BY <1>4, <1>10, <2>4, <3>1 DEF cleared_through, later_columns
    <3> QED
      BY <1>0, <2>1, <2>2, <2>4, <3>2 DEF AnswerIsTrue
  <2>5. CASE it.verb = "assign"
    BY <1>0, <1>4, <1>10, <2>1, <2>2, <2>5 DEF AnswerIsTrue
  <2>6. CASE it.verb = "update"
    BY <2>1, <2>6 DEF AnswerIsTrue
  <2>7. CASE it.verb = "delete"
    BY <1>0, <1>4, <1>10, <2>1, <2>7 DEF AnswerIsTrue, Live
  <2> QED
    BY <1>7, <2>3, <2>4, <2>5, <2>6, <2>7
<1> QED
  BY <1>11, <1>12, <1>13, <1>14

\* A verb's UPDATE that matched nothing.
LEMMA MissedStep ==
    ASSUME IInv, NEW p \in Staff, missed(p)
    PROVE  IInv'
<1> USE DEF IInv, TypeOK, RequestsOK, AnswersAreTrue
<1>1. req' = [req EXCEPT ![p].step = "missed"] /\ told' = Silence /\ UNCHANGED <<person, row>>
  BY DEF missed
<1>2. trail' = trail
  BY DEF missed, audit
<1>3. Silence \in Answer
  BY DEF Silence, Answer
<1>4. \A r \in Request : LET m == [r EXCEPT !.step = "missed"]
                         IN m \in Request /\ m.step = "missed" /\ m.it = r.it
  BY DEF Request
<1>5. req'[p] = [req[p] EXCEPT !.step = "missed"] /\ \A q \in Staff : q # p => req'[q] = req[q]
  BY <1>1
<1>6. req[p] \in Request /\ req[p].step = "loaded"
  BY DEF missed
<1>7. req'[p] \in Request /\ req'[p].it = req[p].it
  BY <1>4, <1>5, <1>6
<1>8. RequestsOK'
  BY <1>1, <1>3, <1>5, <1>6, <1>7
<1>9. TypeOK'
  BY <1>1, <1>2, <1>8 DEF Request, Answer
<1>10. TrailReplays'
  BY <1>1, <1>2 DEF TrailReplays
<1> QED
  BY <1>1, <1>8, <1>9, <1>10, SilenceIsTrue

\* The re-read answers from the row that it finds, and so does not depend on what
\* made the UPDATE miss.
LEMMA RereadStep ==
    ASSUME IInv, NEW p \in Staff, reread(p)
    PROVE  IInv'
<1> USE DEF IInv, TypeOK, RequestsOK, AnswersAreTrue
<1>1. req' = [req EXCEPT ![p] = Idle] /\ UNCHANGED <<person, row, trail>>
  BY DEF reread
<1>2. Idle \in Request /\ Idle.step = "idle"
  BY DEF Idle, Request
<1>3. PICK it : it = req[p].it /\ it \in Verbs
  BY DEF reread
<1>4. told' = Silence \/ (told' = [by |-> p, it |-> it] /\ Live(it.ticket) /\ repeat(p, it))
  BY <1>3 DEF reread
<1>5. told' \in Answer
  BY <1>3, <1>4 DEF Silence, Answer
<1>6. RequestsOK'
  BY <1>1, <1>2, <1>5
<1>7. TypeOK'
  BY <1>1, <1>6 DEF Request, Answer
<1>8. TrailReplays'
  BY <1>1 DEF TrailReplays
<1>9. AnswerIsTrue'
  <2>1. CASE told' = Silence
    BY <2>1, SilenceIsTrue
  <2>2. CASE told' = [by |-> p, it |-> it] /\ Live(it.ticket) /\ repeat(p, it)
    <3>1. told'.it = it /\ Live(it.ticket)'
      BY <1>1, <2>2 DEF Live
    <3>2. CASE it.verb = "advance"
      BY <1>1, <2>2, <3>1, <3>2 DEF repeat, AnswerIsTrue, stage_of
    <3>3. CASE it.verb = "undo"
      BY <1>1, <2>2, <3>1, <3>3 DEF repeat, AnswerIsTrue, cleared_through
    <3>4. CASE it.verb = "assign"
      BY <1>1, <2>2, <3>1, <3>4 DEF repeat, AnswerIsTrue
    <3>5. it.verb \notin {"update", "delete"}
      BY <2>2 DEF repeat
    <3> QED
      BY <1>3, <3>2, <3>3, <3>4, <3>5, VerbTypes
  <2> QED
    BY <1>4, <2>1, <2>2
<1> QED
  BY <1>6, <1>7, <1>8, <1>9

\* What else happens to tickets and staff.
LEMMA MeanwhileStep ==
    ASSUME IInv, \/ \E s \in Seamstresses : update_role(s) \/ soft_delete_staff(s)
                 \/ \E t \in Tickets : WindowPasses(t)
    PROVE  IInv'
<1> USE DEF IInv, TypeOK, RequestsOK, AnswersAreTrue
<1>1. told' = Silence /\ UNCHANGED <<req, trail>>
  BY DEF update_role, soft_delete_staff, WindowPasses
<1>2. Silence \in Answer
  BY DEF Silence, Answer
<1>3. RequestsOK'
  BY <1>1, <1>2
<1>4. ASSUME NEW s \in Seamstresses, update_role(s) \/ soft_delete_staff(s)
      PROVE  TypeOK' /\ TrailReplays'
  <2>1. row' = row /\ person' \in [Seamstresses -> {"seamstress", "other", "retired"}]
    BY <1>4 DEF update_role, soft_delete_staff
  <2> QED
    BY <1>1, <1>3, <2>1 DEF TrailReplays, Request, Answer
<1>5. ASSUME NEW t \in Tickets, WindowPasses(t)
      PROVE  TypeOK' /\ TrailReplays'
  <2>1. row' = [row EXCEPT ![t] = Aged(row[t])] /\ person' = person
    BY <1>5 DEF WindowPasses, Aged
  <2>2. row' \in [Tickets -> AlterationTicket]
    BY <2>1, AgedRow
  <2>3. \A u \in Tickets : row'[u].state = row[u].state /\ row'[u].stamped = row[u].stamped
    BY <2>1, AgedRow
  <2> QED
    BY <1>1, <1>3, <2>1, <2>2, <2>3 DEF TrailReplays, Request, Answer
<1> QED
  BY <1>1, <1>3, <1>4, <1>5, SilenceIsTrue

\* Every step keeps the invariant.
LEMMA Inductive == IInv /\ [Next]_vars => IInv'
<1> SUFFICES ASSUME IInv, [Next]_vars PROVE IInv'
  OBVIOUS
<1>1. CASE UNCHANGED vars
  BY <1>1 DEF vars, IInv, TypeOK, RequestsOK, AnswersAreTrue, TrailReplays, AnswerIsTrue,
              Live, stage_of, cleared_through
<1> QED
  BY <1>1, CreateStep, LoadStep, WroteStep, MissedStep, RereadStep, MeanwhileStep DEF Next

\* Types, what requests in flight carry, and that answers and log agree with the row
\* (atelier/service.py).
THEOREM InvariantHolds == Spec => []IInv
BY InitIInv, Inductive, PTL DEF Spec

----------------------------------------------------------------------------
(* The properties. *)

\* When advance, undo, claim or release answers 200, the ticket is as the answer
\* says, and the audit rows replay to the ticket: for any number of requests that
\* come between the three statements of a verb.
THEOREM AnswersTrue == Spec => []AnswersAreTrue
<1>1. IInv => AnswersAreTrue
  BY DEF IInv
<1> QED
  BY <1>1, InvariantHolds, PTL

\* An undelivered ticket is on the board and in exactly one column of the panel,
\* whoever left or changed role since it was assigned.
THEOREM AllWorkShown == Spec => []BoardShowsAllWork
<1>1. ASSUME IInv, NEW t \in Tickets, Undelivered(t)
      PROVE  /\ t \in board
             /\ Cardinality({s \in assignees \union {None} : t \in load_by_assignee(s).assigned}) = 1
  <2> DEFINE Columns == {s \in assignees \union {None} : t \in load_by_assignee(s).assigned}
  <2>1. row[t].assigned \in Seamstresses \union {None}
    BY <1>1 DEF IInv, TypeOK, AlterationTicket
  <2>2. row[t].assigned \in assignees \union {None}
    BY <1>1, <2>1 DEF assignees
  <2>3. \A s : t \in load_by_assignee(s).assigned <=> row[t].assigned = s
    BY <1>1 DEF load_by_assignee
  <2>4. Columns = {row[t].assigned}
    BY <2>2, <2>3
  <2>5. Cardinality(Columns) = 1
    BY <2>4, FS_Singleton
  <2> QED
    BY <1>1, <2>5 DEF board
<1>2. IInv => BoardShowsAllWork
  BY <1>1 DEF IInv, BoardShowsAllWork, NoInvisibleBucket
<1> QED
  BY <1>2, InvariantHolds, PTL

\* No step writes a deleted ticket, and a seamstress's ticket leaves her hands only
\* by her own release or by a manager, however late a colleague's claim commits.
THEOREM LateWritesAreSafe == Spec => WorkIsSafe
<1>1. IInv /\ [Next]_vars => [DeletedIsFinal /\ ClaimNeverSteals]_vars
  <2> SUFFICES ASSUME IInv, Next PROVE DeletedIsFinal /\ ClaimNeverSteals
    OBVIOUS
  <2> USE DEF IInv, TypeOK
  <2>1. CASE UNCHANGED row
    BY <2>1 DEF DeletedIsFinal, ClaimNeverSteals
  <2>2. ASSUME NEW p \in Staff, NEW t \in Tickets, NEW s \in Seamstresses \union {None}, create(p, t, s)
        PROVE  DeletedIsFinal /\ ClaimNeverSteals
    <3>1. row[t].state = "none" /\ \A u \in Tickets : u # t => row'[u] = row[u]
      BY <2>2 DEF create
    <3> QED
      BY <3>1 DEF DeletedIsFinal, ClaimNeverSteals, Live
  <2>3. ASSUME NEW t \in Tickets, WindowPasses(t) PROVE DeletedIsFinal /\ ClaimNeverSteals
    <3>1. Live(t) /\ row' = [row EXCEPT ![t] = Aged(row[t])]
      BY <2>3 DEF WindowPasses, Aged
    <3>2. row'[t].assigned = row[t].assigned /\ \A u \in Tickets : u # t => row'[u] = row[u]
      BY <3>1, AgedRow
    <3> QED
      BY <3>1, <3>2 DEF DeletedIsFinal, ClaimNeverSteals, Live
  <2>4. ASSUME NEW p \in Staff, wrote(p) PROVE DeletedIsFinal /\ ClaimNeverSteals
    <3>1. PICK it, t : it = req[p].it /\ t = it.ticket
      OBVIOUS
    <3>2. PICK d \in BOOLEAN : it \in Verbs /\ Live(t) /\ row' = [row EXCEPT ![t] = Written(row[t], it, d)]
      BY <2>4, <3>1, WroteRow
    <3>3. t \in Tickets /\ row[t] \in AlterationTicket
      BY <3>1, <3>2, VerbTypes
    <3>4. row'[t] = Written(row[t], it, d) /\ \A u \in Tickets : u # t => row'[u] = row[u]
      BY <3>2, <3>3
    <3>5. told'.by = p /\ Matches(p, it)
      BY <2>4, <3>1 DEF wrote
    <3>6. DeletedIsFinal
      BY <3>2, <3>4 DEF DeletedIsFinal, Live
    <3>7. it.verb = "assign" => p \in Managers \/ row[t].assigned \in {None, p}
      BY <3>1, <3>5 DEF Matches, assign_matches
    <3>8. it.verb \in {"advance", "undo", "update"} => row'[t].assigned = row[t].assigned
      BY <3>2, <3>3, <3>4, WrittenRow
    <3>9. it.verb = "delete" => ~ Live(t)'
      BY <3>2, <3>3, <3>4, WrittenRow DEF Live
    <3>10. it.verb \in {"advance", "undo", "assign", "update", "delete"}
      BY <3>2, VerbTypes
    <3>11. ClaimNeverSteals
      BY <3>4, <3>5, <3>7, <3>8, <3>9, <3>10 DEF ClaimNeverSteals
    <3> QED
      BY <3>6, <3>11
  <2> QED
    BY <2>1, <2>2, <2>3, <2>4 DEF Next, load, missed, reread, update_role, soft_delete_staff
<1> QED
  BY <1>1, InvariantHolds, PTL DEF Spec, WorkIsSafe

============================================================================
