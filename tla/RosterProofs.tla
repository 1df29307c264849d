---------------------------- MODULE RosterProofs ----------------------------
(***************************************************************************)
(* Proofs about the roster, for any number of templates, staff, consoles   *)
(* and days: one manager per shift, readers that agree, overrides and      *)
(* marks that stand, and edits that are flagged.                           *)
(***************************************************************************)
EXTENDS Roster, FiniteSetTheorems, TLAPS

USE RosterAssumption DEF RosterAssumption

----------------------------------------------------------------------------
(* The inductive invariant. *)

\* OneShiftManager, without counting.
ManagerUnique ==
    \A t \in Templates : \A s, u \in Staff :
        asg[t][s].live /\ asg[t][s].manager /\ asg[t][u].live /\ asg[t][u].manager => s = u

RequestsOK == req \in [Devices -> Request \union {Idle}]

IInv == TypeOK /\ RequestsOK /\ ManagerUnique

----------------------------------------------------------------------------
(* Requests and rows. *)

\* What a transaction reads makes a request of a request.
LEMMA ReadRequest ==
    ASSUME TypeOK, NEW r \in Request
    PROVE  /\ Read(r) \in Request
           /\ Read(r).old = FALSE /\ Read(r).shift = r.shift /\ Read(r).staff = r.staff
           /\ Read(r).attempt = r.attempt
<1>1. PICK no \in BOOLEAN, week \in BOOLEAN, live \in BOOLEAN :
         Read(r) = [r EXCEPT !.no = no, !.roster = week, !.live = live, !.old = FALSE]
  <2>1. (answer[r.staff][r.shift] = "unavailable") \in BOOLEAN /\ (roster # "none") \in BOOLEAN
    OBVIOUS
  <2>2. asg[r.shift][r.staff].live \in BOOLEAN
    BY DEF TypeOK, Request, RosterAssignment
  <2> QED
    BY <2>1, <2>2, Zenon DEF Read
<1> QED
  BY <1>1 DEF Request

\* So is what a console begins with.
LEMMA BeginRequest ==
    ASSUME TypeOK, NEW s \in Staff, NEW t \in Templates, NEW manager \in BOOLEAN
    PROVE  Begin(s, t, manager) \in Request /\ Begin(s, t, manager).old = FALSE
<1>1. PICK ack \in BOOLEAN : ack = (answer[s][t] = "unavailable")
  OBVIOUS
<1>2. [shift |-> t, staff |-> s, manager |-> manager, attempt |-> 1, ack |-> ack,
       no |-> FALSE, roster |-> FALSE, live |-> FALSE, old |-> FALSE] \in Request
  BY DEF Request
<1>3. Begin(s, t, manager) =
        Read([shift |-> t, staff |-> s, manager |-> manager, attempt |-> 1, ack |-> ack,
              no |-> FALSE, roster |-> FALSE, live |-> FALSE, old |-> FALSE])
  BY <1>1 DEF Begin
<1> QED
  BY <1>2, <1>3, ReadRequest

\* And a repeated one.
LEMMA AgainRequest ==
    ASSUME TypeOK, NEW r \in Request
    PROVE  Read([r EXCEPT !.attempt = 2]) \in Request
<1>1. [r EXCEPT !.attempt = 2] \in Request
  BY DEF Request
<1> QED
  BY <1>1, ReadRequest

\* The row that an assignment leaves: a new one with what the request says, the
\* old one with its flag moved, or the old one.
LEMMA AssignedRow ==
    ASSUME TypeOK, NEW r \in Request, ~ other_conflict(r),
           NEW a, a = asg[r.shift][r.staff], NEW w, w = Assigned(r)
    PROVE  /\ w \in RosterAssignment /\ a \in RosterAssignment
           /\ a.live => w.live /\ w.over = a.over
           /\ w.live /\ w.manager => r.manager \/ (a.live /\ a.manager)
           /\ ~ r.live => w.newer = ~ r.old
           /\ a.newer /\ ~ r.old => w.newer
<1>1. a \in RosterAssignment /\ r.manager \in BOOLEAN /\ r.no \in BOOLEAN /\ r.old \in BOOLEAN /\ r.live \in BOOLEAN
  BY DEF TypeOK, Request
<1>2. CASE ~ r.live
  <2>1. PICK newer \in BOOLEAN : newer = ~ r.old
    OBVIOUS
  <2>2. w = [live |-> TRUE, manager |-> r.manager, over |-> r.no, newer |-> newer]
    BY <1>2, <2>1 DEF Assigned
  <2>3. ~ a.live
    BY <1>2 DEF other_conflict
  <2> QED
    BY <1>1, <1>2, <2>1, <2>2, <2>3 DEF RosterAssignment
<1>3. CASE r.live /\ a.live /\ a.manager # r.manager
  <2>1. PICK newer \in BOOLEAN : newer = (a.newer \/ ~ r.old)
    OBVIOUS
  <2>2. w = [a EXCEPT !.manager = r.manager, !.newer = newer]
    BY <1>1, <1>3, <2>1 DEF Assigned
  <2> QED
    BY <1>1, <1>3, <2>1, <2>2 DEF RosterAssignment
<1>4. CASE r.live /\ ~ (a.live /\ a.manager # r.manager)
  <2>1. w = a
    BY <1>1, <1>4 DEF Assigned
  <2> QED
    BY <1>1, <1>4, <2>1
<1> QED
  BY <1>2, <1>3, <1>4

----------------------------------------------------------------------------
(* Init, and each action. *)

\* It holds at the start: an empty roster.
LEMMA InitIInv == Init => IInv
<1> SUFFICES ASSUME Init PROVE IInv
  OBVIOUS
<1>1. TypeOK
  BY DEF Init, TypeOK, ShiftTemplate, Answer, NoAnswer, RosterAssignment, NoAssignment, Override
<1>2. RequestsOK /\ ManagerUnique
  BY DEF Init, RequestsOK, ManagerUnique, NoAssignment
<1> QED
  BY <1>1, <1>2 DEF IInv

\* The rows other than the request's own are left alone.
LEMMA WrittenRows ==
    ASSUME TypeOK, NEW r \in Request, Write(r)
    PROVE  /\ r.shift \in Templates /\ r.staff \in Staff
           /\ asg'[r.shift][r.staff] = Assigned(r)
           /\ \A t \in Templates, s \in Staff : t # r.shift \/ s # r.staff => asg'[t][s] = asg[t][s]
           /\ asg' \in [Templates -> [Staff -> RosterAssignment]]
<1>1. r.shift \in Templates /\ r.staff \in Staff
  BY DEF Request
<1>2. asg' = [asg EXCEPT ![r.shift][r.staff] = Assigned(r)] /\ ~ other_conflict(r)
  BY DEF Write
<1>3. Assigned(r) \in RosterAssignment
  BY <1>2, AssignedRow
<1>4. asg \in [Templates -> [Staff -> RosterAssignment]]
  BY DEF TypeOK
<1> QED
  BY <1>1, <1>2, <1>3, <1>4

\* An assign's write leaves one manager.
LEMMA WriteKeeps ==
    ASSUME IInv, NEW r \in Request, Write(r), RequestsOK'
    PROVE  IInv'
<1>1. TypeOK /\ RequestsOK /\ ManagerUnique
  BY DEF IInv
<1>2. /\ r.shift \in Templates /\ r.staff \in Staff
      /\ asg'[r.shift][r.staff] = Assigned(r)
      /\ \A t \in Templates, s \in Staff : t # r.shift \/ s # r.staff => asg'[t][s] = asg[t][s]
      /\ asg' \in [Templates -> [Staff -> RosterAssignment]]
  BY <1>1, WrittenRows
<1>3. PICK w : w = Assigned(r)
  OBVIOUS
<1>4. w \in RosterAssignment /\ (w.live /\ w.manager =>
                                   r.manager \/ (asg[r.shift][r.staff].live /\ asg[r.shift][r.staff].manager))
  <2>1. ~ other_conflict(r)
    BY DEF Write
  <2> QED
    BY <1>1, <1>3, <2>1, AssignedRow
<1>5. roster' \in {"draft", "published"}
  BY <1>1 DEF Write, TypeOK
<1>6. TypeOK'
  <2>1. UNCHANGED <<now, closed, template, hired, answer, override>> /\ moved' \in BOOLEAN
    BY <1>1 DEF Write, TypeOK
  <2> QED
    BY <1>1, <1>2, <1>5, <2>1 DEF TypeOK, RequestsOK
<1>7. ManagerUnique'
  <2> SUFFICES ASSUME NEW t \in Templates, NEW s \in Staff, NEW u \in Staff,
                      asg'[t][s].live, asg'[t][s].manager, asg'[t][u].live, asg'[t][u].manager, s # u
               PROVE  FALSE
    BY DEF ManagerUnique
  <2>1. ~ manager_conflict(r)
    BY DEF Write
  <2>2. ASSUME NEW x \in Staff, NEW y \in Staff, t = r.shift, x = r.staff, y # x,
               asg'[t][x].live, asg'[t][x].manager, asg'[t][y].live, asg'[t][y].manager
        PROVE  FALSE
    <3>1. asg'[t][y] = asg[t][y]
      BY <1>2, <2>2
    <3>2. r.manager \/ (asg[t][x].live /\ asg[t][x].manager)
      BY <1>2, <1>3, <1>4, <2>2
    <3>3. CASE r.manager
      BY <2>1, <2>2, <3>1, <3>3 DEF manager_conflict
    <3>4. CASE asg[t][x].live /\ asg[t][x].manager
      BY <1>1, <2>2, <3>1, <3>4 DEF ManagerUnique
    <3> QED
      BY <3>2, <3>3, <3>4
  <2>3. CASE t = r.shift /\ s = r.staff
    BY <2>2, <2>3
  <2>4. CASE t = r.shift /\ u = r.staff
    BY <2>2, <2>4
  <2>5. CASE t # r.shift \/ (s # r.staff /\ u # r.staff)
    <3>1. asg'[t][s] = asg[t][s] /\ asg'[t][u] = asg[t][u]
      BY <1>2, <2>5
    <3> QED
      BY <1>1, <3>1 DEF ManagerUnique
  <2> QED
    BY <2>3, <2>4, <2>5
<1> QED
  BY <1>6, <1>7 DEF IInv

\* The verbs of the builder that do not write an assignment, or write its end.
LEMMA RequestSteps ==
    ASSUME IInv, NEW d \in Devices
    PROVE  /\ \A r \in Request : assign(d, r) => IInv'
           /\ assigned(d) => IInv'
           /\ assign_conflict(d) => IInv'
<1> USE DEF IInv, RequestsOK
<1>1. ASSUME NEW r \in Request, assign(d, r) PROVE IInv'
  <2>1. req' = [req EXCEPT ![d] = r]
    BY <1>1 DEF assign
  <2>2. UNCHANGED <<now, closed, template, hired, answer, roster, asg, override, moved>>
    BY <1>1 DEF assign
  <2>3. RequestsOK'
    BY <2>1
  <2> QED
    BY <2>2, <2>3 DEF TypeOK, ManagerUnique
<1>2. ASSUME assigned(d) PROVE IInv'
  <2>1. req[d] \in Request /\ Write(req[d]) /\ req' = [req EXCEPT ![d] = Idle]
    BY <1>2 DEF assigned
  <2>2. RequestsOK'
    BY <2>1
  <2> QED
    BY <2>1, <2>2, WriteKeeps
<1>3. ASSUME assign_conflict(d) PROVE IInv'
  <2>1. req[d] \in Request
    BY <1>3 DEF assign_conflict
  <2>2. PICK again : again = Read([req[d] EXCEPT !.attempt = 2])
    OBVIOUS
  <2>3. again \in Request
    BY <2>1, <2>2, AgainRequest
  <2>4. req' = [req EXCEPT ![d] = again] \/ req' = [req EXCEPT ![d] = Idle]
    BY <1>3, <2>2 DEF assign_conflict
  <2>5. RequestsOK'
    BY <2>3, <2>4
  <2>6. UNCHANGED <<now, closed, template, hired, answer, roster, asg, override, moved>>
    BY <1>3 DEF assign_conflict
  <2> QED
    BY <2>5, <2>6 DEF TypeOK, ManagerUnique
<1> QED
  BY <1>1, <1>2, <1>3

\* An unassign keeps it.
LEMMA UnassignStep ==
    ASSUME IInv, NEW t \in Templates, NEW s \in Staff, unassign(t, s)
    PROVE  IInv'
<1> USE DEF IInv, RequestsOK
<1> DEFINE gone == [NoAssignment EXCEPT !.newer = TRUE]
<1>1. gone \in RosterAssignment /\ ~ gone.live
  BY DEF NoAssignment, RosterAssignment
<1>2. asg' = [asg EXCEPT ![t][s] = gone]
  BY DEF unassign, asg_soft_delete
<1> HIDE DEF gone
<1>3. asg' \in [Templates -> [Staff -> RosterAssignment]]
  BY <1>1, <1>2 DEF TypeOK
<1>4. \A u \in Templates, x \in Staff : asg'[u][x].live => asg'[u][x] = asg[u][x]
  BY <1>1, <1>2 DEF TypeOK
<1>5. UNCHANGED <<now, closed, template, hired, answer, roster, override, req>> /\ moved' \in BOOLEAN
  BY DEF unassign
<1>6. ManagerUnique'
  BY <1>4 DEF ManagerUnique
<1> QED
  BY <1>3, <1>4, <1>5, <1>6 DEF TypeOK

\* So does a publish.
LEMMA PublishStep ==
    ASSUME IInv, publish
    PROVE  IInv'
<1> USE DEF IInv, RequestsOK
<1>1. \A a \in RosterAssignment :
         LET b == [a EXCEPT !.newer = FALSE]
         IN b \in RosterAssignment /\ b.live = a.live /\ b.manager = a.manager
  BY DEF RosterAssignment
<1>2. \A t \in Templates, s \in Staff : asg'[t][s] = [asg[t][s] EXCEPT !.newer = FALSE]
  BY DEF publish, stamp_published
<1>3. /\ asg' \in [Templates -> [Staff -> RosterAssignment]]
      /\ \A t \in Templates, s \in Staff : asg'[t][s].live = asg[t][s].live /\ asg'[t][s].manager = asg[t][s].manager
  <2>1. \A t \in Templates, s \in Staff : asg[t][s] \in RosterAssignment
    BY DEF TypeOK
  <2>2. asg' = [t \in Templates |-> [s \in Staff |-> asg'[t][s]]]
    BY DEF publish, stamp_published
  <2>3. \A t \in Templates, s \in Staff : asg'[t][s] \in RosterAssignment /\ asg'[t][s].live = asg[t][s].live
                                             /\ asg'[t][s].manager = asg[t][s].manager
    BY <1>1, <1>2, <2>1
  <2> QED
    BY <2>2, <2>3
<1>4. RequestsOK'
  <2>1. \A r \in Request : [r EXCEPT !.old = TRUE] \in Request
    BY DEF Request
  <2>2. req' = [d \in Devices |-> IF req[d] = Idle THEN Idle ELSE [req[d] EXCEPT !.old = TRUE]]
    BY DEF publish, stamp_published
  <2> QED
    BY <2>1, <2>2
<1>5. UNCHANGED <<now, closed, template, hired, answer, override>> /\ moved' \in BOOLEAN /\ roster' = "published"
  BY DEF publish, stamp_published
<1>6. ManagerUnique'
  BY <1>3 DEF ManagerUnique
<1> QED
  BY <1>3, <1>4, <1>5, <1>6 DEF TypeOK

\* Steps that leave the week's roster and its requests alone keep the rest.
LEMMA OtherStep ==
    ASSUME IInv, UNCHANGED <<roster, asg, req, moved>>,
           now' \in Days \union {0} /\ closed' \in BOOLEAN,
           template' \in [Templates -> ShiftTemplate], hired' \subseteq Staff,
           answer' \in [Staff -> [Templates -> Answer]], override' \in [Staff -> Override]
    PROVE  IInv'
BY DEF IInv, TypeOK, RequestsOK, ManagerUnique

\* So does the registry of shifts.
LEMMA TemplateSteps ==
    ASSUME IInv,
           seed_templates \/ \E t \in Templates : create_template(t) \/ update_template(t) \/ delete_template(t)
    PROVE  IInv'
<1> USE DEF IInv, TypeOK
<1>1. 1 \in Days
  OBVIOUS
<1>2. template' \in [Templates -> ShiftTemplate]
  <2>1. ASSUME NEW new, NEW d \in Days, templates_insert(new, d) PROVE template' \in [Templates -> ShiftTemplate]
    <3>1. [state |-> "live", day |-> d] \in ShiftTemplate
      BY DEF ShiftTemplate
    <3> QED
      BY <2>1, <3>1 DEF templates_insert
  <2>2. ASSUME NEW t \in Templates, update_template(t) PROVE template' \in [Templates -> ShiftTemplate]
    <3>1. PICK d \in Days : template' = [template EXCEPT ![t].day = d]
      BY <2>2 DEF update_template, templates_replace
    <3>2. \A x \in ShiftTemplate : [x EXCEPT !.day = d] \in ShiftTemplate
      BY DEF ShiftTemplate
    <3> QED
      BY <3>1, <3>2
  <2>3. ASSUME NEW t \in Templates, delete_template(t) PROVE template' \in [Templates -> ShiftTemplate]
    <3>1. template' = [template EXCEPT ![t].state = "deleted"]
      BY <2>3 DEF delete_template, templates_soft_delete
    <3>2. \A x \in ShiftTemplate : [x EXCEPT !.state = "deleted"] \in ShiftTemplate
      BY DEF ShiftTemplate
    <3> QED
      BY <3>1, <3>2
  <2> QED
    BY <1>1, <2>1, <2>2, <2>3 DEF seed_templates, create_template
<1>3. answer' \in [Staff -> [Templates -> Answer]]
  <2>1. ASSUME NEW t \in Templates, soft_delete_future_by_template(t) PROVE answer' \in [Staff -> [Templates -> Answer]]
    BY <2>1 DEF soft_delete_future_by_template, Answer, NoAnswer
  <2> QED
    BY <2>1 DEF seed_templates, create_template, update_template, delete_template
<1>4. UNCHANGED <<now, closed, hired, roster, asg, override, req, moved>>
  BY DEF seed_templates, create_template, update_template, delete_template
<1> QED
  BY <1>2, <1>3, <1>4, OtherStep

\* So does an answer of a woman on the roster.
LEMMA SubmitStep ==
    ASSUME IInv, NEW s \in Staff, NEW self \in BOOLEAN, submit(s, self)
    PROVE  IInv'
<1> USE DEF IInv, TypeOK
<1>1. PICK requested \in [Templates -> Answer] : Apply(s, requested)
  BY DEF submit
<1>2. \A row \in [Templates -> Answer] : \A changed, cleared :
         soft_delete_pairs(set_state(row, requested, changed), cleared) \in [Templates -> Answer]
  BY DEF soft_delete_pairs, set_state, Answer, NoAnswer
<1>3. \E changed, cleared :
         answer' = [answer EXCEPT ![s] = soft_delete_pairs(set_state(answer[s], requested, changed), cleared)]
  BY <1>1 DEF Apply
<1>4. answer' \in [Staff -> [Templates -> Answer]]
  BY <1>2, <1>3
<1>5. UNCHANGED <<now, closed, template, hired, roster, asg, override, req, moved>>
  BY DEF submit
<1> QED
  BY <1>4, <1>5, OtherStep

\* So do the marks of the day, deactivations and the clock.
LEMMA FloorAndTimeSteps ==
    ASSUME IInv,
           \/ \E s \in Staff : \/ \E value \in BOOLEAN : set_on_shift(s, value)
                               \/ clear_on_shift(s) \/ soft_delete_staff(s)
           \/ Deadline \/ Midnight
    PROVE  IInv'
<1> USE DEF IInv, TypeOK
<1>1. ASSUME NEW s \in Staff, NEW value \in BOOLEAN, set_on_shift(s, value) PROVE IInv'
  BY <1>1, OtherStep DEF set_on_shift, set_on_shift_override, Override
<1>2. ASSUME NEW s \in Staff, clear_on_shift(s) PROVE IInv'
  BY <1>2, OtherStep DEF clear_on_shift, set_on_shift_override, Override
<1>3. ASSUME NEW s \in Staff, soft_delete_staff(s) PROVE IInv'
  BY <1>3, OtherStep DEF soft_delete_staff, Override, Answer, NoAnswer
<1>4. CASE Deadline
  BY <1>4, OtherStep DEF Deadline
<1>5. CASE Midnight
  <2>1. now' \in 1 .. LastDay
    BY <1>5 DEF Midnight
  <2> QED
    BY <1>5, <2>1, OtherStep DEF Midnight, Override
<1> QED
  BY <1>1, <1>2, <1>3, <1>4, <1>5

\* So does an assign that nobody disturbs.
LEMMA AtOnceStep ==
    ASSUME IInv, NEW r \in Request, assign_at_once(r)
    PROVE  IInv'
BY WriteKeeps DEF assign_at_once, IInv, RequestsOK

\* Every step keeps the invariant.
LEMMA Inductive == IInv /\ [Next]_vars => IInv'
<1> SUFFICES ASSUME IInv, [Next]_vars PROVE IInv'
  OBVIOUS
<1>1. CASE UNCHANGED vars
  BY <1>1, OtherStep DEF vars, IInv, TypeOK
<1>2. ASSUME NEW t \in Templates, NEW s \in Staff, NEW manager \in BOOLEAN,
             NEW r, r = Begin(s, t, manager),
             (\E d \in Devices : assign(d, r)) \/ assign_at_once(r)
      PROVE  IInv'
  <2>1. r \in Request
    BY <1>2, BeginRequest DEF IInv
  <2> QED
    BY <1>2, <2>1, RequestSteps, AtOnceStep
<1>3. CASE Next
  BY <1>2, <1>3, TemplateSteps, SubmitStep, RequestSteps, UnassignStep, PublishStep, FloorAndTimeSteps DEF Next
<1> QED
  BY <1>1, <1>3

\* Types, requests in flight, and one manager per shift (roster/service.py).
THEOREM InvariantHolds == Spec => []IInv
BY InitIInv, Inductive, PTL DEF Spec

----------------------------------------------------------------------------
(* The properties. *)

\* Every shift has one manager at most, although any number of consoles set the flag
\* at once, and the four readers of a published week read the same.
THEOREM RosterSound == Spec => []RosterIsSound
<1>1. IInv => OneShiftManager
  <2> SUFFICES ASSUME IInv, NEW t \in Templates
               PROVE  Cardinality({s \in Staff : asg[t][s].live /\ asg[t][s].manager}) <= 1
    BY DEF OneShiftManager
  <2> DEFINE M == {s \in Staff : asg[t][s].live /\ asg[t][s].manager}
  <2>1. \A s, u \in M : s = u
    BY DEF IInv, ManagerUnique
  <2>2. M = {} \/ \E s \in M : M = {s}
    BY <2>1
  <2>3. Cardinality(M) = 0 \/ Cardinality(M) = 1
    <3> HIDE DEF M
    <3> QED
      BY <2>2, FS_EmptySet, FS_Singleton
  <2> QED
    BY <2>3
<1>2. IInv => ReadersAgree
  <2> SUFFICES ASSUME IInv, roster_published, NEW s \in hired
               PROVE  /\ on_shift_at(s)[2] = "roster" => on_shift_at(s)[1]
                            = (\E t \in her_published_shifts(s) : t \in list_live /\ template_covers(t))
                      /\ \A t \in list_live : /\ t \in her_published_shifts(s) <=> s \in published(t)
                                              /\ builder[t] = published(t)
    BY DEF ReadersAgree
  <2>1. s \in Staff /\ roster = "published"
    BY DEF IInv, TypeOK, roster_published
  <2>2. \A t \in list_live : t \in Templates /\ (t \in her_published_shifts(s) <=> s \in published(t))
    BY <2>1 DEF list_live, her_published_shifts, published, shift_response
  <2>3. \A t \in list_live : builder[t] = published(t)
    BY <2>1 DEF builder, published
  <2>4. s \in on_shift_staff_ids <=> \E t \in her_published_shifts(s) : t \in list_live /\ template_covers(t)
    BY <2>1 DEF on_shift_staff_ids, her_published_shifts, list_live
  <2>5. on_shift_at(s)[2] = "roster" => on_shift_at(s) = <<s \in on_shift_staff_ids, "roster">>
    <3>1. CASE override[s] # "none"
      BY <3>1 DEF on_shift_at
    <3>2. CASE override[s] = "none"
      BY <3>2 DEF on_shift_at
    <3> QED
      BY <3>1, <3>2
  <2>6. ASSUME on_shift_at(s)[2] = "roster"
        PROVE  on_shift_at(s)[1] = (\E t \in her_published_shifts(s) : t \in list_live /\ template_covers(t))
    <3> DEFINE Hers == \E t \in her_published_shifts(s) : t \in list_live /\ template_covers(t)
    <3>1. on_shift_at(s)[1] = (s \in on_shift_staff_ids)
      BY <2>5, <2>6
    <3>2. CASE s \in on_shift_staff_ids
      <4>1. Hers = TRUE
        BY <2>4, <3>2
      <4>2. on_shift_at(s)[1] = TRUE
        BY <3>1, <3>2
      <4> QED
        BY <4>1, <4>2
    <3>3. CASE s \notin on_shift_staff_ids
      <4>1. Hers = FALSE
        BY <2>4, <3>3
      <4>2. (s \in on_shift_staff_ids) = FALSE
        BY <3>3
      <4>3. on_shift_at(s)[1] = FALSE
        BY <3>1, <4>2, Zenon
      <4> QED
        BY <4>1, <4>3
    <3> QED
      BY <3>2, <3>3
  <2> QED
    BY <2>2, <2>3, <2>6
<1>3. IInv => RosterIsSound
  BY <1>1, <1>2 DEF IInv, RosterIsSound
<1> QED
  BY <1>3, InvariantHolds, PTL

\* How a step changes the assignments: by one write, by one removal, by the stamp of a
\* publish, or not at all.
LEMMA AssignmentSteps ==
    ASSUME IInv, Next
    PROVE  \/ \E r \in Request : Write(r) /\ (r.old => \E d \in Devices : req[d] = r)
           \/ \E t \in Templates, s \in Staff : unassign(t, s)
           \/ publish
           \/ UNCHANGED <<asg, moved>>
<1>1. ASSUME NEW t \in Templates, NEW s \in Staff, NEW manager \in BOOLEAN,
             NEW r, r = Begin(s, t, manager), assign_at_once(r)
      PROVE  \E x \in Request : Write(x) /\ (x.old => \E d \in Devices : req[d] = x)
  <2>1. r \in Request /\ ~ r.old
    BY <1>1, BeginRequest DEF IInv
  <2> QED
    BY <1>1, <2>1 DEF assign_at_once
<1>2. ASSUME NEW d \in Devices, assigned(d)
      PROVE  \E x \in Request : Write(x) /\ (x.old => \E c \in Devices : req[c] = x)
  BY <1>2 DEF assigned, IInv, RequestsOK
<1>3. ASSUME NEW d \in Devices, NEW r, assign(d, r) \/ assign_conflict(d) PROVE UNCHANGED <<asg, moved>>
  BY <1>3 DEF assign, assign_conflict
<1>4. ASSUME \/ seed_templates
             \/ \E t \in Templates : create_template(t) \/ update_template(t) \/ delete_template(t)
             \/ \E s \in Staff, self \in BOOLEAN : submit(s, self)
             \/ \E s \in Staff : \/ \E value \in BOOLEAN : set_on_shift(s, value)
                                 \/ clear_on_shift(s) \/ soft_delete_staff(s)
             \/ Deadline \/ Midnight
      PROVE  UNCHANGED <<asg, moved>>
  BY <1>4 DEF seed_templates, create_template, update_template, delete_template, submit, set_on_shift,
              clear_on_shift, soft_delete_staff, Deadline, Midnight
<1> QED
  BY <1>1, <1>2, <1>3, <1>4 DEF Next

\* An override that an owner acknowledged is never erased while the assignment lives,
\* and no step on the roster moves the floor's answer for a woman marked today.
THEOREM DecisionsKept == Spec => DecisionsStand
<1>1. IInv /\ [Next]_vars => [OverrideNeverErased /\ MarkOfTheDayStands]_vars
  <2> SUFFICES ASSUME IInv, Next PROVE OverrideNeverErased /\ MarkOfTheDayStands
    OBVIOUS
  <2>1. MarkOfTheDayStands
    <3> SUFFICES ASSUME UNCHANGED <<override, now>>, NEW s \in Staff, override[s] # "none"
                 PROVE  on_shift_at(s)' = on_shift_at(s)
      BY DEF MarkOfTheDayStands
    <3>1. on_shift_at(s) = <<override[s] = "on", "manual_today">>
      BY DEF on_shift_at
    <3>2. on_shift_at(s)' = <<override'[s] = "on", "manual_today">>
      BY DEF on_shift_at
    <3> QED
      BY <3>1, <3>2
  <2>2. ASSUME NEW r \in Request, Write(r) PROVE OverrideNeverErased
    <3>1. TypeOK /\ ~ other_conflict(r)
      BY <2>2 DEF IInv, Write
    <3>2. /\ asg'[r.shift][r.staff] = Assigned(r)
          /\ \A t \in Templates, s \in Staff : t # r.shift \/ s # r.staff => asg'[t][s] = asg[t][s]
      BY <2>2, <3>1, WrittenRows
    <3>3. asg[r.shift][r.staff].live => Assigned(r).over = asg[r.shift][r.staff].over
      BY <3>1, AssignedRow
    <3> QED
      BY <3>2, <3>3 DEF OverrideNeverErased
  <2>3. ASSUME NEW t \in Templates, NEW s \in Staff, unassign(t, s) PROVE OverrideNeverErased
    <3> DEFINE gone == [NoAssignment EXCEPT !.newer = TRUE]
    <3>1. asg' = [asg EXCEPT ![t][s] = gone] /\ ~ gone.live
      BY <2>3 DEF unassign, asg_soft_delete, NoAssignment
    <3> HIDE DEF gone
    <3> QED
      BY <3>1 DEF OverrideNeverErased, IInv, TypeOK
  <2>4. CASE publish
    <3>1. \A t \in Templates, s \in Staff : asg'[t][s] = [asg[t][s] EXCEPT !.newer = FALSE] /\ asg[t][s] \in RosterAssignment
      BY <2>4 DEF publish, stamp_published, IInv, TypeOK
    <3>2. \A a \in RosterAssignment : [a EXCEPT !.newer = FALSE].over = a.over
      BY DEF RosterAssignment
    <3>3. \A t \in Templates, s \in Staff : asg'[t][s].over = asg[t][s].over
      BY <3>1, <3>2
    <3> QED
      BY <2>1, <3>3 DEF OverrideNeverErased
  <2>5. CASE UNCHANGED asg
    BY <2>1, <2>5 DEF OverrideNeverErased
  <2> QED
    BY <2>1, <2>2, <2>3, <2>4, <2>5, AssignmentSteps
<1> QED
  BY <1>1, InvariantHolds, PTL DEF Spec, DecisionsStand

\* Once somebody came or went after the stamp, changed_since says so until the next
\* publish, unless the edit's transaction had begun before the stamp.
THEOREM EditsFlagged == Spec => EditsAreFlagged
<1>1. IInv /\ [Next]_vars => [moved' /\ (moved => changed_since) /\ ~Begun => changed_since']_vars
  <2> SUFFICES ASSUME IInv, Next, moved', moved => changed_since, ~ Begun PROVE changed_since'
    OBVIOUS
  <2>1. ASSUME NEW r \in Request, Write(r), r.old => \E d \in Devices : req[d] = r PROVE changed_since'
    <3>1. TypeOK /\ ~ other_conflict(r)
      BY <2>1 DEF IInv, Write
    <3>2. ~ r.old
      <4>1. r # Idle \/ ~ r.old
        BY DEF Request, Idle
      <4> QED
        BY <2>1, <4>1 DEF Begun
    <3>3. /\ r.shift \in Templates /\ r.staff \in Staff
          /\ asg'[r.shift][r.staff] = Assigned(r)
          /\ \A t \in Templates, s \in Staff : t # r.shift \/ s # r.staff => asg'[t][s] = asg[t][s]
      BY <2>1, <3>1, WrittenRows
    <3>4. ~ r.live => Assigned(r).newer
      BY <3>1, <3>2, AssignedRow
    <3>5. CASE ~ r.live
      BY <3>3, <3>4, <3>5 DEF changed_since
    <3>6. CASE r.live
      <4>1. moved
        BY <2>1, <3>6 DEF Write
      <4>2. PICK t \in Templates, s \in Staff : asg[t][s].newer
        BY <4>1 DEF changed_since
      <4>3. asg'[t][s].newer
        BY <3>1, <3>2, <3>3, <4>2, AssignedRow
      <4> QED
        BY <4>3 DEF changed_since
    <3> QED
      BY <3>5, <3>6
  <2>2. ASSUME NEW t \in Templates, NEW s \in Staff, unassign(t, s) PROVE changed_since'
    <3> DEFINE gone == [NoAssignment EXCEPT !.newer = TRUE]
    <3>1. asg' = [asg EXCEPT ![t][s] = gone] /\ gone.newer
      BY <2>2 DEF unassign, asg_soft_delete, NoAssignment
    <3> HIDE DEF gone
    <3>2. asg'[t][s] = gone
      BY <3>1 DEF IInv, TypeOK
    <3> QED
      BY <3>1, <3>2 DEF changed_since
  <2>3. ~ publish
    BY DEF publish
  <2>4. CASE UNCHANGED <<asg, moved>>
    BY <2>4 DEF changed_since
  <2> QED
    BY <2>1, <2>2, <2>3, <2>4, AssignmentSteps
<1> QED
  BY <1>1, InvariantHolds, PTL DEF Spec, EditsAreFlagged

============================================================================
