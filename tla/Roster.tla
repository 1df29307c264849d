------------------------------- MODULE Roster -------------------------------
(***************************************************************************)
(* Shift templates, availability answers and the roster of one week of one *)
(* boutique (shifts/service.py), and who is on shift on the floor          *)
(* (floor/service.py, shifts/validation.py).                               *)
(*                                                                         *)
(* An assignment reads first and inserts later, and is split there: what   *)
(* it read may be stale when it writes, and a unique index that refuses    *)
(* the INSERT rolls everything back and repeats the transaction once.      *)
(* The other verbs are one step each.                                      *)
(***************************************************************************)
EXTENDS Integers, FiniteSets

CONSTANTS Templates,  \* the shift templates that can ever exist (a bound)
          Staff,      \* the people of the roster
          Devices,    \* consoles whose transactions overlap those of others
          Eligible,   \* staff with shift_manager_eligible
          Days,       \* the days of the week; 0 is any day before it
          AvailabilityState,
          LastDay     \* the day on which time stops (a bound)

ASSUME RosterAssumption ==
    /\ Eligible \subseteq Staff
    /\ Days \subseteq Nat \ {0} /\ LastDay \in Days /\ 1 .. LastDay \subseteq Days
    /\ "unavailable" \in AvailabilityState /\ "none" \notin AvailabilityState

VARIABLES now,       \* the day; 0 stands for any day before the week
          closed,    \* the week's deadline has passed
          template,  \* shift_templates
          hired,     \* staff_users that are not deleted
          answer,    \* staff_availability of the week
          roster,    \* the week's row of rosters
          asg,       \* its roster_assignments
          override,  \* on_shift_on and on_shift_override of each staffer
          req,       \* the open request of each device
          moved      \* history: people came or went since the roster was stamped

vars == <<now, closed, template, hired, answer, roster, asg, override, req, moved>>

ShiftTemplate == [state : {"none", "live", "deleted"}, day : Days \union {0}]

\* The live row's state, whoever recorded it, or none.
Answer == AvailabilityState \union {"none"}
NoAnswer == "none"

\* newer: created_at or updated_at is later than the roster's published_at.
RosterAssignment ==
    [live : BOOLEAN, manager : BOOLEAN, over : BOOLEAN, newer : BOOLEAN]
NoAssignment == [live |-> FALSE, manager |-> FALSE, over |-> FALSE, newer |-> FALSE]

\* A mark whose date is today; one of an earlier day is as none.
Override == {"none", "on", "off"}

\* An assign in flight, with what its transaction has read: whether she said no,
\* the week's row, her row on the shift; old: a publish has stamped since it began.
Request ==
    [shift : Templates, staff : Staff, manager : BOOLEAN, ack : BOOLEAN, attempt : 1 .. 2,
     no : BOOLEAN, roster : BOOLEAN, live : BOOLEAN, old : BOOLEAN]

Idle == [attempt |-> 0]

TypeOK ==
    /\ now \in Days \union {0} /\ closed \in BOOLEAN
    /\ template \in [Templates -> ShiftTemplate]
    /\ hired \subseteq Staff
    /\ answer \in [Staff -> [Templates -> Answer]]
    /\ roster \in {"none", "draft", "published"}
    /\ asg \in [Templates -> [Staff -> RosterAssignment]]
    /\ override \in [Staff -> Override]
    /\ \A d \in Devices : req[d] = Idle \/ req[d] \in Request
    /\ moved \in BOOLEAN
    /\ roster = "none" => \A t \in Templates, s \in Staff : ~asg[t][s].live

Init ==
    /\ now = 0 /\ closed = FALSE
    /\ template = [t \in Templates |-> [state |-> "none", day |-> 0]]
    /\ hired = Staff
    /\ answer = [s \in Staff |-> [t \in Templates |-> NoAnswer]]
    /\ roster = "none"
    /\ asg = [t \in Templates |-> [s \in Staff |-> NoAssignment]]
    /\ override = [s \in Staff |-> "none"]
    /\ req = [d \in Devices |-> Idle]
    /\ moved = FALSE

----------------------------------------------------------------------------
(* Reads. *)

list_live == {t \in Templates : template[t].state = "live"}

is_available_for_week(s) == s \in hired

\* The names on a shift, as builder and published week print them.
shift_response(t) == {s \in hired : asg[t][s].live}

\* The week open to every role: a draft answers as no roster does.
published(t) == IF roster = "published" /\ t \in list_live THEN shift_response(t) ELSE {}

\* Her own page: the shifts that are hers once the week is published.
her_published_shifts(s) ==
    IF roster = "published" THEN {t \in Templates : asg[t][s].live} ELSE {}

\* The elevated week, a draft included: the names on every live shift.
builder == [t \in list_live |-> shift_response(t)]

\* Mutant: an assignment that was removed does not count.
BugLiveRowsOnly == \E t \in Templates, s \in Staff : asg[t][s].live /\ asg[t][s].newer

\* Removed rows count: a removal is an edit.
changed_since == \E t \in Templates, s \in Staff : asg[t][s].newer

template_covers(t) == template[t].day = now

\* Mutant: the join does not test the template's deleted_at.
BugDeletedTemplate ==
    {s \in Staff : \E t \in Templates :
        asg[t][s].live /\ roster = "published" /\ template_covers(t)}

on_shift_staff_ids ==
    {s \in Staff : \E t \in list_live :
        asg[t][s].live /\ roster = "published" /\ template_covers(t)}

roster_published == now > 0 /\ roster = "published"

\* Today's mark, else the published roster, else everybody.
on_shift_at(s) ==
    CASE override[s] # "none" -> <<override[s] = "on", "manual_today">>
      [] override[s] = "none" /\ roster_published -> <<s \in on_shift_staff_ids, "roster">>
      [] OTHER -> <<TRUE, "fallback">>

----------------------------------------------------------------------------
(* The owner's templates. *)

templates_insert(new, d) ==
    template' = [t \in Templates |->
                   IF t \in new THEN [state |-> "live", day |-> d] ELSE template[t]]

templates_replace(t, d) == template' = [template EXCEPT ![t].day = d]

templates_soft_delete(t) == template' = [template EXCEPT ![t].state = "deleted"]

create_template(t) ==
    /\ template[t].state = "none"
    /\ \E d \in Days : templates_insert({t}, d)
    /\ UNCHANGED <<now, closed, hired, answer, roster, asg, override, req, moved>>

\* Offered only while there is none: one template per opening rule.
seed_templates ==
    /\ list_live = {}
    /\ \E new \in SUBSET {t \in Templates : template[t].state = "none"} \ {{}} :
          templates_insert(new, 1)
    /\ UNCHANGED <<now, closed, hired, answer, roster, asg, override, req, moved>>

\* The answers of a week that has not begun.
soft_delete_future_by_template(t) ==
    answer' = IF now > 0 THEN answer
              ELSE [s \in Staff |-> [answer[s] EXCEPT ![t] = NoAnswer]]

is_material_edit(t, d) == template[t].day # d

update_template(t) ==
    /\ t \in list_live
    /\ \E d \in Days :
          /\ is_material_edit(t, d)   \* any other edit changes labels and targets only
          /\ templates_replace(t, d)
    /\ soft_delete_future_by_template(t)
    /\ UNCHANGED <<now, closed, hired, roster, asg, override, req, moved>>

delete_template(t) ==
    /\ t \in list_live
    /\ templates_soft_delete(t)
    /\ soft_delete_future_by_template(t)
    /\ UNCHANGED <<now, closed, hired, roster, asg, override, req, moved>>

----------------------------------------------------------------------------
(* Availability. *)

live_for_week(s) == {t \in Templates : answer[s][t] # NoAnswer}

\* What a whole-week replace has to write: what did not change keeps its row.
plan_week_write(s, requested) ==
    [changed |-> {t \in Templates : requested[t] \notin {NoAnswer, answer[s][t]}},
     cleared |-> {t \in live_for_week(s) : requested[t] = NoAnswer}]

set_state(row, requested, changed) ==
    [t \in Templates |-> IF t \in changed THEN requested[t] ELSE row[t]]

soft_delete_pairs(row, cleared) ==
    [t \in Templates |-> IF t \in cleared THEN NoAnswer ELSE row[t]]

\* The transaction of a submit, for a template that is gone a 404.
Apply(s, requested) ==
    LET plan == plan_week_write(s, requested) IN
    /\ is_available_for_week(s)
    /\ \A t \in Templates : requested[t] # NoAnswer => t \in list_live
    /\ answer' = [answer EXCEPT ![s] =
                     soft_delete_pairs(set_state(@, requested, plan.changed), plan.cleared)]

\* The week can not be written any more: for herself after the deadline, for a
\* manager once it has begun.
locked(self) == now > 0 \/ (self /\ closed)

\* From her own phone, or by a manager for her.
submit(s, self) ==
    /\ ~locked(self)
    /\ \E requested \in [Templates -> Answer] : Apply(s, requested)
    /\ UNCHANGED <<now, closed, template, hired, roster, asg, override, req, moved>>

----------------------------------------------------------------------------
(* The builder. *)

assert_manager_eligible(s, manager) == manager => s \in Eligible

\* What a transaction reads when it begins; for a retry, what it reads anew.
Read(r) == [r EXCEPT !.no = answer[r.staff][r.shift] = "unavailable",
                     !.roster = roster # "none",
                     !.live = asg[r.shift][r.staff].live, !.old = FALSE]

\* She said no, and the request does not acknowledge it.
override_refused(r) == ~r.live /\ r.no /\ ~r.ack

\* The transaction's reads, and the checks on template, staffer and answer.
\* The console acknowledges a no only after it was told of one; without that the
\* request is refused and changes nothing.
Begin(s, t, manager) ==
    Read([shift |-> t, staff |-> s, manager |-> manager, attempt |-> 1,
          ack |-> answer[s][t] = "unavailable",
          no |-> FALSE, roster |-> FALSE, live |-> FALSE, old |-> FALSE])

Admitted(r) ==
    /\ r.shift \in list_live /\ is_available_for_week(r.staff)
    /\ assert_manager_eligible(r.staff, r.manager)
    /\ ~override_refused(r)

assign(d, r) ==
    /\ req[d] = Idle
    /\ Admitted(r)
    /\ req' = [req EXCEPT ![d] = r]
    /\ UNCHANGED <<now, closed, template, hired, answer, roster, asg, override, moved>>

\* idx_roster_assignments_manager_unique: 409, not repeated.
manager_conflict(r) == r.manager /\ \E s \in Staff \ {r.staff} :
                          asg[r.shift][s].live /\ asg[r.shift][s].manager

\* The week's row or the triple was inserted by somebody else meanwhile.
other_conflict(r) == \/ ~r.roster /\ roster # "none"
                     \/ ~r.live /\ asg[r.shift][r.staff].live

\* Mutant: the upsert writes the whole row.
BugUpsertAll(r) == [live |-> TRUE, manager |-> r.manager,
                    over |-> r.no, newer |-> ~r.old]

\* The row after the INSERT, or after an upsert that moves the flag only.
Assigned(r) ==
    LET a == asg[r.shift][r.staff] IN
    CASE ~r.live -> [live |-> TRUE, manager |-> r.manager,
                     over |-> r.no, newer |-> ~r.old]
      [] r.live /\ a.live /\ a.manager # r.manager ->
                    [a EXCEPT !.manager = r.manager, !.newer = @ \/ ~r.old]
      [] OTHER -> a

\* The week's row is created by its first assignment, in the same transaction.
Write(r) ==
    /\ ~manager_conflict(r) /\ ~other_conflict(r)
    /\ roster' = IF roster = "none" THEN "draft" ELSE roster
    /\ asg' = [asg EXCEPT ![r.shift][r.staff] = Assigned(r)]
    /\ moved' = (moved \/ (roster = "published" /\ ~r.live))
    /\ UNCHANGED <<now, closed, template, hired, answer, override>>

assigned(d) ==
    /\ req[d] # Idle
    /\ Write(req[d])
    /\ req' = [req EXCEPT ![d] = Idle]

\* The same by a console that nobody overlaps.
assign_at_once(r) == Admitted(r) /\ Write(r) /\ UNCHANGED req

\* An index refused it: a taken slot is a 409, anything else is tried once more.
assign_conflict(d) ==
    LET r == req[d] again == Read([r EXCEPT !.attempt = 2]) IN
    /\ r # Idle
    /\ manager_conflict(r) \/ other_conflict(r)
    /\ req' = [req EXCEPT ![d] =
                 IF other_conflict(r) /\ r.attempt = 1 /\ Admitted(again)
                 THEN again ELSE Idle]
    /\ UNCHANGED <<now, closed, template, hired, answer, roster, asg, override, moved>>

asg_soft_delete(t, s) ==
    asg' = [asg EXCEPT ![t][s] = [NoAssignment EXCEPT !.newer = TRUE]]

\* Answers 404, and rolls back, once the shift itself is deleted.
unassign(t, s) ==
    /\ asg[t][s].live /\ t \in list_live
    /\ asg_soft_delete(t, s)
    /\ moved' = (roster = "published")
    /\ UNCHANGED <<now, closed, template, hired, answer, roster, override, req>>

\* published_at = now(): no row is newer, and neither will be a row of a
\* transaction that has begun before.
stamp_published ==
    /\ roster' = "published"
    /\ asg' = [t \in Templates |-> [s \in Staff |-> [asg[t][s] EXCEPT !.newer = FALSE]]]
    /\ req' = [d \in Devices |-> IF req[d] = Idle THEN Idle ELSE [req[d] EXCEPT !.old = TRUE]]

\* Stamps a week that has no stamp or was edited since; else writes nothing.
publish ==
    /\ roster # "published" \/ changed_since
    /\ stamp_published
    /\ moved' = FALSE
    /\ UNCHANGED <<now, closed, template, hired, answer, override>>

----------------------------------------------------------------------------
(* The floor's mark of the day, the team page, and time. *)

set_on_shift_override(s, mark) == s \in hired /\ override' = [override EXCEPT ![s] = mark]

\* A mark of a day before the week is gone when the week begins, and left out.
set_on_shift(s, value) ==
    /\ now > 0
    /\ set_on_shift_override(s, IF value THEN "on" ELSE "off")
    /\ UNCHANGED <<now, closed, template, hired, answer, roster, asg, req, moved>>

clear_on_shift(s) ==
    /\ override[s] # "none"
    /\ set_on_shift_override(s, "none")
    /\ UNCHANGED <<now, closed, template, hired, answer, roster, asg, req, moved>>

\* Her answers and her mark are not read any more, and not kept apart.
soft_delete_staff(s) ==
    /\ s \in hired
    /\ hired' = hired \ {s}
    /\ answer' = [answer EXCEPT ![s] = [t \in Templates |-> NoAnswer]]
    /\ override' = [override EXCEPT ![s] = "none"]
    /\ UNCHANGED <<now, closed, template, roster, asg, req, moved>>

Deadline ==
    /\ ~closed
    /\ closed' = TRUE
    /\ UNCHANGED <<now, template, hired, answer, roster, asg, override, req, moved>>

\* Midnight in Jerusalem: the marks are not today's any more.
Midnight ==
    /\ closed /\ now < LastDay
    /\ now' = now + 1
    /\ override' = [s \in Staff |-> "none"]
    /\ UNCHANGED <<closed, template, hired, answer, roster, asg, req, moved>>

Next ==
    \/ seed_templates
    \/ \E t \in Templates : create_template(t) \/ update_template(t) \/ delete_template(t)
    \/ \E s \in Staff, self \in BOOLEAN : submit(s, self)
    \/ \E t \in Templates, s \in Staff :
          \/ \E manager \in BOOLEAN :
                LET r == Begin(s, t, manager)
                IN (\E d \in Devices : assign(d, r)) \/ assign_at_once(r)
          \/ unassign(t, s)
    \/ \E d \in Devices : assigned(d) \/ assign_conflict(d)
    \/ publish
    \/ \E s \in Staff : \/ \E value \in BOOLEAN : set_on_shift(s, value)
                        \/ clear_on_shift(s) \/ soft_delete_staff(s)
    \/ Deadline \/ Midnight

Spec == Init /\ [][Next]_vars

----------------------------------------------------------------------------
(* Properties. *)

\* A shift has one shift manager, although two consoles set the flag at once, on a
\* new row, on an old one, or on a retry (idx_roster_assignments_manager_unique).
OneShiftManager ==
    \A t \in Templates :
        Cardinality({s \in Staff : asg[t][s].live /\ asg[t][s].manager}) <= 1

\* What the owner knowingly did is never erased: as long as an assignment lives, a
\* later assign of the same woman, or its retry, leaves its override stamp alone,
\* whatever she has answered since (set_manager_flag names one column).
OverrideNeverErased ==
    \A t \in Templates, s \in Staff :
       asg[t][s].live /\ asg'[t][s].live => asg'[t][s].over = asg[t][s].over

\* Staff see no edited week that is not flagged as edited: once somebody came or
\* went after the stamp, changed_since says so until the next publish, removals
\* included, unless the edit's transaction had begun before the stamp.
Begun == \E d \in Devices : req[d] # Idle /\ req[d].old
EditsAreFlagged ==
    [][moved' /\ (moved => changed_since) /\ ~Begun => changed_since']_vars

\* The same without that exception, as stamp_published's docstring promises: an
\* assignment written after the publish is later than published_at.
EveryEditIsFlagged == moved => changed_since

\* The four readers of the roster agree: for a live shift of today, her own page,
\* the published week, the builder and the floor's on-shift rule put the same people
\* on it (her_published_shifts, shift_response and the SQL of on_shift_staff_ids).
ReadersAgree ==
    roster_published =>
      \A s \in hired :
          (on_shift_at(s)[2] = "roster" => on_shift_at(s)[1]
             = (\E t \in her_published_shifts(s) : t \in list_live /\ template_covers(t)))
          /\ \A t \in list_live : /\ t \in her_published_shifts(s) <=> s \in published(t)
                                    /\ builder[t] = published(t)

\* Nothing done to the roster, a republish included, moves the floor's answer for
\* a woman that a manager marked on or off today (on_shift_at's first rule).
MarkOfTheDayStands ==
    UNCHANGED <<override, now>> =>
       \A s \in Staff : override[s] # "none" => on_shift_at(s)' = on_shift_at(s)

\* The week is well formed, every shift has one manager at most, and whoever reads
\* it reads the same.
RosterIsSound == TypeOK /\ OneShiftManager /\ ReadersAgree

\* What a manager decided stands until she decides anew: the override she
\* acknowledged, over retries and upserts, and her mark of the day, over publishes.
DecisionsStand == [][OverrideNeverErased /\ MarkOfTheDayStands]_vars

=============================================================================
