------------------------------ MODULE Atelier ------------------------------
(***************************************************************************)
(* The alteration tickets of one boutique (atelier/service.py and          *)
(* db/repositories/alteration_tickets.py), worked by seamstresses on their *)
(* phones and managers on the console.                                     *)
(*                                                                         *)
(* A verb is one READ COMMITTED transaction of three statements that       *)
(* another can come between: the load that authorizes it, one guarded      *)
(* UPDATE, and a re-read.  An UPDATE that matched locks the row until the  *)
(* commit, so from there on the verb is one step; an UPDATE that matched   *)
(* nothing locks nothing, and what the re-read finds decides the answer.   *)
(***************************************************************************)
EXTENDS Integers, FiniteSets, FiniteSetsExt

CONSTANTS Tickets,        \* the rows that can ever be inserted (a bound)
          Seamstresses,   \* the staff who were seamstresses when the day began
          Managers,       \* owners and shift managers
          MaxInFlight,    \* how many requests overlap (a bound)
          None

Staff == Seamstresses \union Managers

ASSUME AtelierAssumption ==
    /\ Seamstresses \intersect Managers = {} /\ None \notin Staff
    /\ MaxInFlight \in Nat

VARIABLES person,  \* staff_users: whether she is live and still a seamstress
          row,     \* alteration_tickets
          req,     \* the open request of each staffer
          told,    \* the last step's answer, when it was a 200
          trail    \* the stages that the ticket's audit rows leave stamped

vars == <<person, row, req, told, trail>>

\* TicketStage, by declaration order: intake, in_progress, qc, ready, delivered.
TicketStage == 0 .. 4
INTAKE == 0
DELIVERED == 4

\* A ticket's five nullable stamps are the set of stages that are stamped.
AlterationTicket ==
    [state    : {"none", "live", "deleted"},
     stamped  : SUBSET TicketStage,
     recent   : BOOLEAN,                  \* delivered within DELIVERED_WINDOW_DAYS
     due_soon : BOOLEAN,                  \* due within LOAD_HORIZON_DAYS
     assigned : Seamstresses \union {None}]

NoTicket == [state |-> "none", stamped |-> {}, recent |-> FALSE,
             due_soon |-> FALSE, assigned |-> None]

Verbs == [verb : {"advance", "undo"}, ticket : Tickets, arg : TicketStage]
         \union [verb : {"assign"}, ticket : Tickets, arg : Seamstresses \union {None}]
         \union [verb : {"update", "delete"}, ticket : Tickets, arg : {None}]

NoVerb == [verb |-> "none", ticket |-> None, arg |-> None]

TypeOK ==
    /\ person \in [Seamstresses -> {"seamstress", "other", "retired"}]
    /\ row \in [Tickets -> AlterationTicket]
    /\ \A p \in Staff : /\ req[p].step \in {"idle", "loaded", "missed"}
                        /\ req[p].it \in Verbs \union {NoVerb}
    /\ told.by \in Staff \union {None} /\ told.it \in Verbs \union {NoVerb}
    /\ trail \in [Tickets -> SUBSET TicketStage]
    /\ \A t \in Tickets : row[t].state = "live" => INTAKE \in row[t].stamped

Idle == [step |-> "idle", it |-> NoVerb]
Silence == [by |-> None, it |-> NoVerb]

Init ==
    /\ person = [s \in Seamstresses |-> "seamstress"]
    /\ row = [t \in Tickets |-> NoTicket]
    /\ req = [p \in Staff |-> Idle]
    /\ told = Silence
    /\ trail = [t \in Tickets |-> {}]

----------------------------------------------------------------------------
(* The derived stage, and the reads of the board. *)

Live(t) == row[t].state = "live"

\* The rightmost stamped column.
stage_of(t) == IF row[t].stamped = {} THEN INTAKE ELSE Max(row[t].stamped)

later_columns(stage) == {s \in TicketStage : s > stage}

cleared_through(t, stage) ==
    row[t].stamped \intersect ({stage} \union later_columns(stage)) = {}

Undelivered(t) == Live(t) /\ DELIVERED \notin row[t].stamped

\* The cards that the board renders.
board == {t \in Tickets : Undelivered(t) \/ (Live(t) /\ row[t].recent)}

\* Mutant: the panel lists the live seamstresses only.
BugFilter == {s \in Seamstresses : person[s] = "seamstress"}

\* The columns of the load panel: a union, not a filter.
assignees ==
    {s \in Seamstresses : \/ person[s] = "seamstress"
                          \/ \E t \in Tickets : Undelivered(t) /\ row[t].assigned = s}

\* The work behind the two sums of a column, or of the unassigned pile.
load_by_assignee(s) ==
    LET mine == {t \in Tickets : Undelivered(t) /\ row[t].assigned = s}
    IN [assigned |-> mine, due_soon |-> {t \in mine : row[t].due_soon}]

----------------------------------------------------------------------------
(* Who may ask for what. *)

\* require_role: a seamstress who lost the role or left is not let in any more.
Admitted(p) == p \in Seamstresses => person[p] = "seamstress"

authorize_work(p, t) == p \in Managers \/ row[t].assigned \in {None, p}

require_seamstress(s) == person[s] = "seamstress"

\* What the load of a request checks, verb by verb.
authorized(p, it) ==
    CASE it.verb \in {"advance", "undo"} -> /\ authorize_work(p, it.ticket)
                                            /\ it.verb = "undo" => it.arg # INTAKE
      [] it.verb = "update" -> p \in Managers \/ row[it.ticket].assigned = p
      [] it.verb = "assign" -> /\ p \in Managers \/ it.arg \in {None, p}
                               /\ it.arg # None => require_seamstress(it.arg)
      [] it.verb = "delete" -> p \in Managers

----------------------------------------------------------------------------
(* The verbs. *)

\* Intake.  Who the customer is, and the gown's name, are data.
create(p, t, s) ==
    /\ Admitted(p) /\ row[t].state = "none"
    /\ s # None => require_seamstress(s)
    /\ \E d \in BOOLEAN :
          row' = [row EXCEPT ![t] = [NoTicket EXCEPT !.state = "live", !.stamped = {INTAKE},
                                                     !.due_soon = d, !.assigned = s]]
    /\ trail' = [trail EXCEPT ![t] = {INTAKE}]
    /\ told' = Silence
    /\ UNCHANGED <<person, req>>

InFlight == {p \in Staff : req[p].step # "idle"}

load(p, it) ==
    /\ req[p].step = "idle" /\ Cardinality(InFlight) < MaxInFlight
    /\ Admitted(p)
    /\ Live(it.ticket) /\ authorized(p, it)
    /\ req' = [req EXCEPT ![p] = [step |-> "loaded", it |-> it]]
    /\ told' = Silence
    /\ UNCHANGED <<person, row, trail>>

advance_stage(t, stage) == cleared_through(t, stage)

undo_stage(t, stage) ==
    stage \in row[t].stamped /\ row[t].stamped \intersect later_columns(stage) = {}

\* Mutant: the load already saw it free, so the UPDATE does not test it again.
BugClaimUnguarded(p, t, s) == s # None \/ row[t].assigned = p

\* assign, release and claim: a manager's is unconditional, hers is guarded by
\* who holds the ticket at the time of the UPDATE.
assign_matches(p, t, s) ==
    p \in Managers \/ row[t].assigned = IF s = None THEN p ELSE None

\* The WHERE clause of the verb's UPDATE.
Matches(p, it) ==
    /\ Live(it.ticket)
    /\ CASE it.verb = "advance" -> advance_stage(it.ticket, it.arg)
         [] it.verb = "undo"    -> undo_stage(it.ticket, it.arg)
         [] it.verb = "assign"  -> assign_matches(p, it.ticket, it.arg)
         [] OTHER               -> TRUE

\* The row the UPDATE leaves; a fresh delivery is recent, and a row that is
\* not delivered any more is neither recent nor old.
Written(r, it, due) ==
    CASE it.verb = "advance" -> [r EXCEPT !.stamped = @ \union {it.arg},
                                          !.recent = it.arg = DELIVERED]
      [] it.verb = "undo"    -> [r EXCEPT !.stamped = @ \ {it.arg}, !.recent = FALSE]
      [] it.verb = "assign"  -> [r EXCEPT !.assigned = it.arg]
      [] it.verb = "update"  -> [r EXCEPT !.due_soon = due]
      [] it.verb = "delete"  -> [NoTicket EXCEPT !.state = "deleted"]

audit(it, wrote) ==
    CASE it.verb = "advance" /\ wrote -> [trail EXCEPT ![it.ticket] = @ \union {it.arg}]
      [] it.verb = "undo" /\ wrote    -> [trail EXCEPT ![it.ticket] = @ \ {it.arg}]
      [] it.verb = "delete" /\ wrote  -> [trail EXCEPT ![it.ticket] = {}]
      [] OTHER                        -> trail

\* The UPDATE matched: the write, its audit row and the answer commit together.
wrote(p) ==
    LET it == req[p].it IN
    /\ req[p].step = "loaded" /\ Matches(p, it)
    /\ \E d \in IF it.verb = "update" THEN BOOLEAN ELSE {FALSE} :
          row' = [row EXCEPT ![it.ticket] = Written(@, it, d)]
    /\ trail' = audit(it, TRUE)
    /\ told' = [by |-> p, it |-> it]
    /\ req' = [req EXCEPT ![p] = Idle]
    /\ UNCHANGED person

\* The UPDATE matched nothing.
missed(p) ==
    /\ req[p].step = "loaded" /\ ~Matches(p, req[p].it)
    /\ req' = [req EXCEPT ![p].step = "missed"]
    /\ trail' = audit(req[p].it, FALSE)
    /\ told' = Silence
    /\ UNCHANGED <<person, row>>

\* Mutant: the two causes of a miss are told apart by one column.
BugColumnDecides(p, it) ==
    CASE it.verb = "advance" -> it.arg \in row[it.ticket].stamped
      [] it.verb = "undo"    -> it.arg \notin row[it.ticket].stamped
      [] it.verb = "assign"  -> row[it.ticket].assigned = it.arg
      [] OTHER               -> FALSE

\* One equality and one else: the caller's own repeat, or a conflict.
repeat(p, it) ==
    CASE it.verb = "advance" -> stage_of(it.ticket) = it.arg
      [] it.verb = "undo"    -> cleared_through(it.ticket, it.arg)
      [] it.verb = "assign"  -> row[it.ticket].assigned = it.arg
      [] OTHER               -> FALSE

\* The re-read after a miss: 200 for a repeat; 404 for a ticket that is gone
\* and 409 for anything else leave no trace.
reread(p) ==
    LET it == req[p].it IN
    /\ req[p].step = "missed"
    /\ told' = IF Live(it.ticket) /\ repeat(p, it) THEN [by |-> p, it |-> it] ELSE Silence
    /\ req' = [req EXCEPT ![p] = Idle]
    /\ UNCHANGED <<person, row, trail>>

----------------------------------------------------------------------------
(* What the team page does to the seamstresses meanwhile, and time. *)

update_role(s) ==
    /\ person[s] \in {"seamstress", "other"}
    /\ person' = [person EXCEPT ![s] = IF @ = "other" THEN "seamstress" ELSE "other"]
    /\ told' = Silence
    /\ UNCHANGED <<row, req, trail>>

soft_delete_staff(s) ==
    /\ person[s] # "retired"
    /\ person' = [person EXCEPT ![s] = "retired"]
    /\ told' = Silence
    /\ UNCHANGED <<row, req, trail>>

\* A delivered ticket's stamp leaves the window of the board.
WindowPasses(t) ==
    /\ Live(t) /\ row[t].recent
    /\ row' = [row EXCEPT ![t].recent = FALSE]
    /\ told' = Silence
    /\ UNCHANGED <<person, req, trail>>

Next ==
    \/ \E p \in Staff :
          \/ \E t \in Tickets, s \in Seamstresses \union {None} : create(p, t, s)
          \/ \E it \in Verbs : load(p, it)
          \/ wrote(p) \/ missed(p) \/ reread(p)
    \/ \E s \in Seamstresses : update_role(s) \/ soft_delete_staff(s)
    \/ \E t \in Tickets : WindowPasses(t)

Spec == Init /\ [][Next]_vars

----------------------------------------------------------------------------
(* Properties. *)

\* A 200 is never a lie: when advance, undo, claim or release answers 200, by its
\* own write or as a repeat of what somebody did first, the ticket is at that
\* stage, cleared through it, or assigned as asked; whatever came between the
\* statements (the discriminators of advance, undo and assign).
AnswerIsTrue ==
    LET it == told.it IN
    CASE it.verb = "advance" -> Live(it.ticket) /\ stage_of(it.ticket) = it.arg
      [] it.verb = "undo"    -> Live(it.ticket) /\ cleared_through(it.ticket, it.arg)
      [] it.verb = "assign"  -> Live(it.ticket) /\ row[it.ticket].assigned = it.arg
      [] it.verb = "delete"  -> ~Live(it.ticket)
      [] OTHER               -> TRUE

\* The audit rows replay to the ticket as it is, so a stage that was tapped twice,
\* lost to a colleague or undone is in the trail exactly once (atelier_ticket_stage_*).
TrailReplays == \A t \in Tickets : trail[t] = row[t].stamped

\* No work is in an invisible bucket: an undelivered ticket is on the board and
\* counted in the unassigned pile or in exactly one column of the panel, although
\* its seamstress may have left or changed role since (the union in assignees).
NoInvisibleBucket ==
    \A t \in Tickets : Undelivered(t) =>
        /\ t \in board
        /\ Cardinality({s \in assignees \union {None} :
                            t \in load_by_assignee(s).assigned}) = 1

\* A deleted ticket is never written again, although edits, claims and taps that
\* loaded it before may still be on their way (deleted_at IS NULL in every UPDATE).
DeletedIsFinal ==
    \A t \in Tickets : row[t].state = "deleted" => row'[t] = row[t]

\* A seamstress's ticket leaves her hands only by her own release or by a manager:
\* a colleague who loaded it while it was free does not take it over.
ClaimNeverSteals ==
    \A t \in Tickets : Live(t) /\ Live(t)' /\ row[t].assigned \notin {None, row'[t].assigned}
       => told'.by \in Managers \union {row[t].assigned}

\* Rows are well formed and none of the work in them is hidden from the board.
BoardShowsAllWork == TypeOK /\ NoInvisibleBucket

\* What the atelier was told and what its log says are both what happened.
AnswersAreTrue == AnswerIsTrue /\ TrailReplays

\* What no late write may do: touch a deleted ticket, or take a colleague's.
WorkIsSafe == [][DeletedIsFinal /\ ClaimNeverSteals]_vars

=============================================================================
