----------------------------- MODULE FloorBoard -----------------------------
(***************************************************************************)
(* The fitting rooms of one boutique under several tablets                 *)
(* (floor/service.py): claiming a room, dispatching a walk-in into it,     *)
(* handing it over, releasing it, and the registry of rooms.               *)
(*                                                                         *)
(* A verb is one READ COMMITTED transaction.  Two of them are split where  *)
(* another transaction can get in between to some effect: a dispatch,      *)
(* between the UPDATE that takes the ticket and the INSERT that may be     *)
(* refused, and a release, between the read that checks whose room it is   *)
(* and the UPDATE.  The row locks a dispatch holds are tx[p].room and held.*)
(***************************************************************************)
EXTENDS WalkInQueue

CONSTANTS Rooms,
          Assignments,  \* the rows that can ever be inserted (a bound)
          None

ASSUME FloorAssumption ==
    None \notin Rooms \union Staff \union Tickets \union Assignments

VARIABLES room,  \* fitting_rooms
          asg,   \* fitting_room_assignments
          tx,    \* the open transaction of each staffer's request
          bell   \* staff_notifications not yet read: the fittings in progress that
                 \* somebody else made her responsible for

floorVars == <<room, asg, tx, bell>>
vars == <<queueVars, floorVars>>

\* Every query leaves deleted rows out, and no assignment that a verb still
\* reads names one: a deleted room is as one that was never there, and its id stands
\* for the next that is created.
FittingRoom == {"none", "active", "inactive"}

FittingRoomAssignment ==
    [status : {"none", "active", "released"},
     room   : Rooms \union {None},
     staff  : Staff \union {None},
     ticket : Tickets \union {None}]   \* queue_ticket_id

Idle == [verb |-> "none", room |-> None, staff |-> None, ticket |-> None, asg |-> None]

NoAssignment == [status |-> "none", room |-> None, staff |-> None, ticket |-> None]

TypeOK ==
    /\ QueueTypeOK
    /\ room \in [Rooms -> FittingRoom]
    /\ asg \in [Assignments -> FittingRoomAssignment]
    /\ tx \in [Staff -> [verb : {"none", "dispatch", "release"},
                         room : Rooms \union {None}, staff : Staff \union {None},
                         ticket : Tickets \union {None},
                         asg : Assignments \union {None}]]
    /\ bell \in [Staff -> SUBSET Assignments]

Init ==
    /\ QueueInit
    /\ room = [r \in Rooms |-> "none"]
    /\ asg = [a \in Assignments |-> NoAssignment]
    /\ tx = [p \in Staff |-> Idle]
    /\ bell = [p \in Staff |-> {}]

----------------------------------------------------------------------------
(* Reads and guards. *)

\* Self, or an owner or shift manager.
authorize(p, s) == p = s \/ p \in Elevated

\* Those who can send the request for her now; which of them does leaves no trace.
Requesters(s) == {p \in Staff : tx[p].verb = "none" /\ authorize(p, s)}

active == {a \in Assignments : asg[a].status = "active"}

occupant_of_room(r) == {a \in active : asg[a].room = r}

room_of_staff(s) == {a \in active : asg[a].staff = s}

\* The two partial unique indexes.
violated_index(r, s) == occupant_of_room(r) # {} \/ room_of_staff(s) # {}

\* FOR UPDATE, and every write of the row, waits for an open dispatch.
Unlocked(r) == \A p \in Staff : tx[p].verb = "dispatch" => tx[p].room # r

by_id_for_update(r) == Unlocked(r) /\ room[r] \in {"active", "inactive"}

\* The rooms' query: every live room joined to its active assignment.
occupancy_rows ==
    {[room |-> asg[a].room, asg |-> a] :
        a \in {b \in active : room[asg[b].room] \in {"active", "inactive"}}}

\* The board's occupancy of each staffer.
floor(s) == {row \in occupancy_rows : asg[row.asg].staff = s}

\* Breaks are left out: occupied comes before them.
card_status(s) == IF floor(s) # {} THEN "occupied" ELSE "available"

\* An id that no row has yet.
Fresh == {a \in Assignments : asg[a].status = "none"}

ring(p, s, a) ==
    bell' = IF s = p THEN bell ELSE [bell EXCEPT ![s] = @ \union {a}]

----------------------------------------------------------------------------
(* The claim and the dispatch. *)

\* A room taken with a client of the day's bookings, or with nobody named.  A
\* re-claim of the room she holds answers 200 and changes nothing; any other
\* violation of an index is refused.
claim(r, s) ==
    /\ Requesters(s) # {}
    /\ by_id_for_update(r) /\ room[r] = "active"
    /\ ~violated_index(r, s)
    /\ \E a \in Fresh :
          asg' = [asg EXCEPT ![a] = [status |-> "active", room |-> r,
                                     staff |-> s, ticket |-> None]]
    /\ UNCHANGED <<queueVars, room, tx, bell>>

\* The first statements of take_next and assign: lock the room, find it free,
\* take the ticket.
dispatch(p, r, s, t) ==
    /\ tx[p].verb = "none"
    /\ authorize(p, s)
    /\ by_id_for_update(r) /\ room[r] = "active"
    /\ occupant_of_room(r) = {}
    /\ tx' = [tx EXCEPT ![p] = [Idle EXCEPT !.verb = "dispatch", !.room = r,
                                            !.staff = s, !.ticket = t]]
    /\ held' = held \union {t}
    /\ UNCHANGED <<ticket, line, seen, room, asg, bell>>

take_next(p, r, s) == \E t \in claim_next : dispatch(p, r, s, t)

assign(p, r, s, t) == t \in claim_by_id /\ dispatch(p, r, s, t)

\* The INSERT went through: ticket, assignment and bell commit together.
dispatched(p) ==
    /\ tx[p].verb = "dispatch"
    /\ ~violated_index(tx[p].room, tx[p].staff)
    /\ \E a \in Fresh :
          /\ asg' = [asg EXCEPT ![a] = [status |-> "active", room |-> tx[p].room,
                                        staff |-> tx[p].staff, ticket |-> tx[p].ticket]]
          /\ ring(p, tx[p].staff, a)
    /\ ticket' = [ticket EXCEPT ![tx[p].ticket] = Left(@, "in_service")]
    /\ held' = held \ {tx[p].ticket}
    /\ tx' = [tx EXCEPT ![p] = Idle]
    /\ line' = Without(tx[p].ticket)
    /\ waiting_for_panel(p, ticket')
    /\ UNCHANGED room

\* Mutant: take_next returns from inside the block, and the ticket's UPDATE commits.
BugRefusedCommits(p) ==
    /\ ticket' = [ticket EXCEPT ![tx[p].ticket] = Left(@, "in_service")]
    /\ line' = Without(tx[p].ticket)
    /\ UNCHANGED <<seen, room, asg, bell>>

\* Mutant: the refusal stamps requeued_at.
BugRefusedRequeues(p) ==
    /\ line' = Append(Without(tx[p].ticket), tx[p].ticket)
    /\ UNCHANGED <<ticket, seen, room, asg, bell>>

\* What a rolled-back dispatch leaves of its writes: nothing.
RolledBack(p) == UNCHANGED <<ticket, line, seen, room, asg, bell>>

\* The INSERT violated an index, or the process died: the exception leaves the
\* block and the transaction is rolled back.
dispatch_refused(p) ==
    /\ tx[p].verb = "dispatch"
    /\ held' = held \ {tx[p].ticket}
    /\ tx' = [tx EXCEPT ![p] = Idle]
    /\ RolledBack(p)

----------------------------------------------------------------------------
(* Handover and release. *)

\* The guarded UPDATE; the index on the staffer may refuse it.
HandedOver(a, s) ==
    /\ a \in active
    /\ room_of_staff(s) \subseteq {a}
    /\ asg' = [asg EXCEPT ![a].staff = s]

handover(p, a, s) ==
    /\ tx[p].verb = "none"
    /\ p \in Elevated
    /\ HandedOver(a, s)
    /\ ring(p, s, a)
    /\ UNCHANGED <<queueVars, room, tx>>

\* The read that decides whether she may release it.
release_read(p, a) ==
    /\ tx[p].verb = "none"
    /\ a \in active
    /\ asg[a].staff = p \/ p \in Elevated
    /\ tx' = [tx EXCEPT ![p] = [Idle EXCEPT !.verb = "release", !.asg = a]]
    /\ UNCHANGED <<queueVars, room, asg, bell>>

\* The ticket's own guard: an in_service row becomes done.
close(t) ==
    IF t # None /\ ticket[t].status = "in_service"
    THEN [ticket EXCEPT ![t].status = "done"]
    ELSE ticket

\* Whose and which room it was is history that no verb reads.
Released(row) == [row EXCEPT !.status = "released", !.room = None, !.staff = None]

\* The guarded UPDATE; when somebody else was faster it writes nothing.  What the
\* bell still says of a fitting that is over is not kept apart either.
release(p) ==
    LET a == tx[p].asg IN
    /\ tx[p].verb = "release"
    /\ tx' = [tx EXCEPT ![p] = Idle]
    /\ asg' = IF a \in active THEN [asg EXCEPT ![a] = Released(@)] ELSE asg
    /\ ticket' = IF a \in active THEN close(asg[a].ticket) ELSE ticket
    /\ bell' = [q \in Staff |-> bell[q] \ {a}]
    /\ UNCHANGED <<line, held, seen, room>>

----------------------------------------------------------------------------
(* The registry of rooms, which an owner or a shift manager edits, and the  *)
(* bell.                                                                    *)

rooms_insert(r) == room[r] = "none" /\ room' = [room EXCEPT ![r] = "active"]

rooms_update(r) == room' = [room EXCEPT ![r] = IF @ = "active" THEN "inactive" ELSE "active"]

rooms_soft_delete(r) == room' = [room EXCEPT ![r] = "none"]

create_room(r) ==
    /\ Elevated # {}
    /\ rooms_insert(r)
    /\ UNCHANGED <<queueVars, asg, tx, bell>>

\* Deactivating an occupied room is allowed: it stops the next claim.
update_room(r) ==
    /\ Elevated # {}
    /\ by_id_for_update(r)
    /\ rooms_update(r)
    /\ UNCHANGED <<queueVars, asg, tx, bell>>

has_active_for_room(r) == occupant_of_room(r) # {}

delete_room(r) ==
    /\ Elevated # {}
    /\ by_id_for_update(r)
    /\ ~has_active_for_room(r)
    /\ rooms_soft_delete(r)
    /\ UNCHANGED <<queueVars, asg, tx, bell>>

mark_read(p) ==
    /\ bell[p] # {}
    /\ bell' = [bell EXCEPT ![p] = {}]
    /\ UNCHANGED <<queueVars, room, asg, tx>>

----------------------------------------------------------------------------
Next ==
    \/ QueueNext /\ UNCHANGED floorVars
    \/ \E r \in Rooms :
          \/ \E s \in Staff : claim(r, s)
          \/ create_room(r) \/ update_room(r) \/ delete_room(r)
    \/ \E p \in Staff :
          \/ \E r \in Rooms, s \in Staff : \/ take_next(p, r, s)
                                          \/ \E t \in Tickets : assign(p, r, s, t)
          \/ dispatched(p) \/ dispatch_refused(p)
          \/ \E a \in Assignments :
                \/ \E s \in Staff : handover(p, a, s)
                \/ release_read(p, a)
          \/ release(p)
          \/ mark_read(p)

Spec == Init /\ [][Next]_vars

----------------------------------------------------------------------------
(* Properties. *)

\* A customer marked in service is in exactly one room, and a customer in a room
\* is marked in service: whatever a dispatch, its refusal, a handover and a
\* release do to each other, nobody is left in service with no room to be
\* released from (take_next's docstring calls this the stranded customer).
NobodyStranded ==
    \A t \in Tickets :
        LET in == {a \in active : asg[a].ticket = t} IN
        IF ticket[t].status = "in_service" THEN Cardinality(in) = 1 ELSE in = {}

\* Every fitting in progress is on the floor board, under its room and on the card
\* of its one staffer: no room is deleted under its occupant (delete_room's lock,
\* then guard, then stamp), or nobody could see the fitting to release it.
OccupiedRoomStands ==
    \A a \in active :
        LET s == asg[a].staff IN
        card_status(s) = "occupied" /\ floor(s) = {[room |-> asg[a].room, asg |-> a]}

\* The three readings of the line agree whatever was skipped, called or dispatched:
\* the hall's board numbers every customer as her own page does, and take_next
\* takes the one the board shows first.
BoardIsTheLine ==
    /\ queue_board = {ticket_view(t) : t \in live_waiting}
    /\ held = {} /\ board # <<>> => claim_next = {board[1]}

\* One occupant per room and one room per staffer, over claims, dispatches that
\* were decided before the claim, and handovers (the two partial unique indexes).
OneRoomEach ==
    \A a, b \in active : a # b => asg[a].room # asg[b].room /\ asg[a].staff # asg[b].staff

\* A walk-in is served by one visit: no ticket appears in two assignments, live
\* or ended, although a refused dispatch gives the ticket back.
ServedOnce ==
    \A a, b \in Assignments : a # b /\ asg[a].ticket = asg[b].ticket => asg[a].ticket = None

\* The bell never rings for a dispatch that did not happen: every row it holds
\* names an assignment that was committed.
BellTellsTheTruth == \A p \in Staff : bell[p] \subseteq active

\* Her place in the line, as her phone shows it, gets worse only by a skip of her
\* own ticket: a refused dispatch puts her back where she was.
PositionOnlyImproves ==
    \A t \in Tickets :
       /\ Waiting(t) /\ Waiting(t)'
       /\ ticket'[t].today = ticket[t].today
       /\ ticket'[t].skips = ticket[t].skips
       => position(t)' <= position(t)

\* The second skip removes a customer, so nobody is removed by two managers who
\* each pressed skip on a ticket their panel showed as never skipped.
RemovedKnowingly ==
    \A t \in Tickets :
       ticket[t].skips < SKIP_LIMIT /\ ticket'[t].skips = SKIP_LIMIT
       => \E p \in Elevated : seen[p][t] = SKIP_LIMIT - 1

\* Rooms, staff, tickets and bell fit together at every moment, whoever claims,
\* dispatches, hands over and deletes at once: one occupant and one staffer each,
\* no fitting off the board, nobody lost between the line and the rooms or served
\* twice (take_next, the refused INSERT and its rollback, release), no false bell.
RoomsAreSound ==
    /\ TypeOK
    /\ OneRoomEach /\ OccupiedRoomStands
    /\ NobodyStranded /\ ServedOnce
    /\ BellTellsTheTruth

\* What a step may never do to a waiting customer: push her back without a skip,
\* or remove her on a count that nobody had seen.
LineIsFair == [][PositionOnlyImproves /\ RemovedKnowingly]_<<ticket, line>>

=============================================================================
