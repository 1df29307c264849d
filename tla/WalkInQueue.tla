---------------------------- MODULE WalkInQueue ----------------------------
(***************************************************************************)
(* The walk-in queue of one boutique (queue/service.py and                 *)
(* db/repositories/queue_tickets.py): the ticket a customer takes at the   *)
(* door, and the verbs of the console on it.  Dispatching a ticket into a  *)
(* fitting room is FloorBoard's; here is the row it writes, and the row    *)
(* locks its open transactions hold.                                       *)
(***************************************************************************)
EXTENDS Naturals, FiniteSets, SequencesExt

CONSTANTS Tickets,  \* the rows that can ever be inserted (a bound)
          Staff,    \* the signed-in staff of the boutique
          Elevated  \* those with the role owner or shift manager

ASSUME QueueAssumption == Elevated \subseteq Staff /\ IsFiniteSet(Tickets)

VARIABLES ticket,  \* queue_tickets
          line,    \* the waiting tickets by coalesce(requeued_at, created_at)
          held,    \* tickets whose row an open dispatch has written
          seen     \* the skip count that a manager's panel shows, per ticket;
                   \* 0 again once the ticket waits no longer, for good

queueVars == <<ticket, line, held, seen>>

QueueTicketStatus == {"waiting", "in_service", "done", "removed"}

SKIP_LIMIT == 2

QueueTicket == [status : QueueTicketStatus \union {"none"},
                today  : BOOLEAN,   \* queue_day is the current day
                called : BOOLEAN,
                skips  : 0 .. SKIP_LIMIT]

NoRow == [status |-> "none", today |-> FALSE, called |-> FALSE, skips |-> 0]

QueueTypeOK ==
    /\ ticket \in [Tickets -> QueueTicket]
    /\ line \in Seq(Tickets)
    /\ held \subseteq Tickets
    /\ seen \in [Elevated -> [Tickets -> 0 .. SKIP_LIMIT]]

QueueInit ==
    /\ ticket = [t \in Tickets |-> NoRow]
    /\ line = <<>>
    /\ held = {}
    /\ seen = [p \in Elevated |-> [t \in Tickets |-> 0]]

----------------------------------------------------------------------------
(* Reads. *)

Waiting(t) == ticket[t].status = "waiting"

\* The one predicate the panel, the board, the position and take-next share.
live_waiting == {t \in Tickets : Waiting(t) /\ ticket[t].today}

\* The order of the line.
SortKey(t) == CHOOSE i \in DOMAIN line : line[i] = t

\* The line once a waiting ticket's status or key is written.
Without(t) == RemoveAt(line, SortKey(t))

\* What the customer's page shows: her place among those of her own day.
position(t) ==
    1 + Cardinality({u \in Tickets : /\ Waiting(u)
                                     /\ ticket[u].today = ticket[t].today
                                     /\ SortKey(u) < SortKey(t)})

\* What a SELECT returns of these rows: each once, in the order of the line.
order_by(rows) ==
    CHOOSE s \in [1 .. Cardinality(rows) -> rows] :
        \A i, j \in DOMAIN s : i < j => SortKey(s[i]) < SortKey(s[j])

\* Mutant: the board's query has lost its day.
BugBoardOfAllDays == order_by({t \in Tickets : Waiting(t)})

\* The rows of the hall's board.
board == order_by(live_waiting)

\* What the hall's screen shows of them.
queue_board == {[ticket |-> board[i], position |-> i, called |-> ticket[board[i]].called] :
                    i \in DOMAIN board}

\* What her own page shows.
ticket_view(t) == [ticket |-> t, position |-> position(t), called |-> ticket[t].called]

\* The row that an UPDATE ... ORDER BY ... LIMIT 1 FOR UPDATE SKIP LOCKED takes.
claim_next == {t \in live_waiting \ held :
                  \A u \in live_waiting \ held : SortKey(t) <= SortKey(u)}

\* The row that an UPDATE by id takes, once no open dispatch holds it.
claim_by_id == {t \in Tickets \ held : Waiting(t)}

\* What a verb answers, and the panel of the manager who pressed it renders.
waiting_for_panel(p, rows) ==
    seen' = [q \in Elevated |-> [t \in Tickets |->
               CASE rows[t].status # "waiting"  -> 0
                 [] q = p /\ rows[t].today      -> rows[t].skips
                 [] OTHER                       -> seen[q][t]]]

\* The row once it waits no longer.  Its day, its summons and, unless the skips
\* removed it, their count are not read any more and are not kept apart.
Left(row, status) ==
    [row EXCEPT !.status = status, !.today = FALSE, !.called = FALSE,
                !.skips = IF @ = SKIP_LIMIT THEN @ ELSE 0]

----------------------------------------------------------------------------
(* The customer. *)

insert(t) ==
    /\ ticket' = [ticket EXCEPT ![t] = [NoRow EXCEPT !.status = "waiting", !.today = TRUE]]
    /\ line' = Append(line, t)

check_in(t) ==
    /\ ticket[t].status = "none"
    /\ insert(t)
    /\ UNCHANGED <<held, seen>>

----------------------------------------------------------------------------
(* The console.  Each is one guarded UPDATE; on a row that an open dispatch *)
(* has written it waits for that transaction to end.                        *)

\* The poll of a manager's panel.
poll(p) ==
    /\ waiting_for_panel(p, ticket)
    /\ seen' # seen
    /\ UNCHANGED <<ticket, line, held>>

\* WHERE status = 'waiting' AND called_at IS NULL
CallMatches(t) == t \in claim_by_id /\ ~ticket[t].called

call(p, t) ==
    /\ CallMatches(t)
    /\ ticket' = [ticket EXCEPT ![t].called = TRUE]
    /\ waiting_for_panel(p, ticket')
    /\ UNCHANGED <<line, held>>

\* WHERE ... skip_count = :seen_skip_count
SkipMatches(p, t) == ticket[t].skips = seen[p][t]

Skipped(row) ==
    LET counted == [row EXCEPT !.called = FALSE, !.skips = @ + 1]
    IN IF counted.skips >= SKIP_LIMIT THEN Left(counted, "removed") ELSE counted

skip(p, t) ==
    /\ p \in Elevated
    /\ t \in claim_by_id
    /\ SkipMatches(p, t)
    /\ ticket' = [ticket EXCEPT ![t] = Skipped(@)]
    /\ line' = IF ticket'[t].status = "waiting" THEN Append(Without(t), t)
                                                ELSE Without(t)
    /\ waiting_for_panel(p, ticket')
    /\ UNCHANGED held

remove(p, t) ==
    /\ p \in Elevated
    /\ t \in claim_by_id
    /\ ticket' = [ticket EXCEPT ![t] = Left(@, "removed")]
    /\ line' = Without(t)
    /\ waiting_for_panel(p, ticket')
    /\ UNCHANGED held

\* Midnight in Jerusalem; not while a ticket of an earlier day still waits, so
\* that one flag tells its day from today.
Midnight ==
    /\ live_waiting # {}
    /\ \A t \in Tickets : Waiting(t) => ticket[t].today
    /\ ticket' = [t \in Tickets |-> [ticket[t] EXCEPT !.today = FALSE]]
    /\ UNCHANGED <<line, held, seen>>

QueueNext ==
    \/ \E t \in Tickets : check_in(t)
    \/ \E p \in Staff :
          \/ poll(p)
          \/ \E t \in Tickets : call(p, t) \/ skip(p, t) \/ remove(p, t)
    \/ Midnight
=============================================================================
