------------------------------ MODULE Waitlist ------------------------------
(***************************************************************************)
(* The waitlist of one boutique.  Customers queue for a (day, appointment  *)
(* type) pair; a worker polls: it sends the texts that are due, closes the *)
(* offers that ran out and offers freed seats, oldest entry first; the     *)
(* customer claims, declines or lets the offer run out; the owner removes  *)
(* entries; direct bookings take and free the same seats.                  *)
(*                                                                         *)
(* A worker's job is one READ COMMITTED transaction of several statements. *)
(* Its writes are kept in tick[w].rows until it commits: others see the    *)
(* committed table, and wait when they want to write a row it has written. *)
(* Each group of statements between which another transaction could matter *)
(* is an action of its own.                                                *)
(***************************************************************************)
EXTENDS Integers, FiniteSets

CONSTANTS
    MaxEntries,   \* bound: rows of waitlist_entries
    Phones,       \* proven phone numbers
    Pairs,        \* (day, type) pairs, a set of numbers in walking order
    PairDay,      \* PairDay[p]: the day of pair p
    Slots,        \* instants of the grid, a set of numbers in time order
    SlotDay,      \* SlotDay[s]: the day of slot s
    Capacity,     \* seats of every slot
    Workers,      \* worker processes
    Taps,         \* claim requests being processed at the same time
    BatchSize,    \* ISSUE_BATCH_SIZE
    MaxFailures,  \* _MAX_OFFER_SEND_FAILURES
    MaxEvents,    \* bound: direct bookings, seats freed, slots that run into
                  \* their lead and worker jobs cut short, all together
    NONE          \* NULL

ASSUME ConstantsAssumption ==
    /\ MaxEntries \in Nat
    /\ Pairs \subseteq Nat \ {0}
    /\ Pairs # {}
    /\ Slots \subseteq Nat \ {0}
    /\ PairDay \in [Pairs -> Nat]
    /\ SlotDay \in [Slots -> Nat]
    /\ \A p, q \in Pairs : p < q => PairDay[p] =< PairDay[q]
    /\ Capacity \in Nat
    /\ BatchSize \in Nat \ {0}
    /\ MaxFailures \in Nat \ {0}
    /\ MaxEvents \in Nat
    /\ NONE \notin Phones
    /\ NONE \notin Pairs
    /\ NONE \notin Slots
    /\ NONE \notin Workers

VARIABLES
    entry,    \* waitlist_entries, each row with its newest offer text
    due,      \* the entries whose offer deadline has passed
    inbox,    \* the offered entries whose customer has the offer's link
    booked,   \* booked[s]: who holds a seat at s
    open,     \* the slots more than the minimum lead ahead of now
    today,    \* the current day
    tap,      \* claim requests between their read of the entry and their UPDATE
    tick,     \* the workers' transactions
    events    \* of the events MaxEvents bounds, how many there were

vars == <<entry, due, inbox, booked, open, today, tap, tick, events>>

-----------------------------------------------------------------------------
(* Rows.                                                                   *)

Ids == 1..MaxEntries   \* in created_at order
Days == {PairDay[p] : p \in Pairs} \cup {SlotDay[s] : s \in Slots}

WaitlistEntryStatus ==
    {"absent", "waiting", "offered", "claimed", "expired", "cancelled"}
ScheduledMessageStatus == {"none", "pending", "sent", "failed", "cancelled"}

\* `fails` is the number of this entry's offer texts in status 'failed'.
Row == [status : WaitlistEntryStatus, pair : Pairs \cup {NONE},
        phone : Phones \cup {NONE}, slot : Slots \cup {NONE},
        msg : ScheduledMessageStatus, fails : Nat]

NoRow == [status |-> "absent", pair |-> NONE, phone |-> NONE, slot |-> NONE,
          msg |-> "none", fails |-> 0]

NoTap == [entry |-> 0, slot |-> NONE, intime |-> FALSE]

Tick == [pc : {"idle", "drain", "cascade", "close", "gate", "walk", "offer"},
         cursor : Pairs \cup {0},   \* _issue_cursor, 0 for none
         rows : [Ids -> Row],       \* written, not committed; NoRow elsewhere
         late : SUBSET Ids,         \* `due` at the transaction's `now`
         open : SUBSET Slots,       \* `open` at the transaction's `now`
         expire : SUBSET Ids, back : SUBSET Ids,   \* _expire's two lists
         pairs : SUBSET Pairs,      \* what is left of the page
         cand : Ids \cup {0},       \* the entry _offer_one read
         grid : [Slots -> Nat]]     \* the day_slots it read: seats remaining

NoGrid == [s \in Slots |-> 0]

NoRows == [e \in Ids |-> NoRow]

Rest(pc, cursor) ==
    [pc |-> pc, cursor |-> cursor, rows |-> NoRows, late |-> {}, open |-> {},
     expire |-> {}, back |-> {}, pairs |-> {}, cand |-> 0, grid |-> NoGrid]

Active(e) == entry[e].status \in {"waiting", "offered"}

\* The rows the open transaction of w has written or locked.
Written(w) == {e \in Ids : tick[w].rows[e] # NoRow}

\* A writer other than w has to wait for row e.
Locked(e, w) == \E u \in Workers \ {w} : e \in Written(u)

\* What a statement of w's transaction reads.
Seen(w) == [e \in Ids |-> IF e \in Written(w) THEN tick[w].rows[e] ELSE entry[e]]

Least(S) == CHOOSE x \in S : \A y \in S : x =< y

-----------------------------------------------------------------------------
(* join and the owner's cancel (waitlist/service.py)                       *)

\* idx_waitlist_entries_active_unique admits this row.
Joinable(ph, p) ==
    \A e \in Ids : entry[e].phone = ph /\ entry[e].pair = p
                      => ~Active(e) /\ ~Locked(e, NONE)

\* A refused INSERT answers the row that refused it and changes nothing.
Join(ph, p) ==
    LET fresh == {e \in Ids : entry[e].status = "absent"} IN
    /\ fresh # {}
    /\ PairDay[p] >= today
    /\ Joinable(ph, p)
    /\ entry' = [entry EXCEPT ![Least(fresh)] =
                    [NoRow EXCEPT !.status = "waiting", !.pair = p, !.phone = ph]]
    /\ UNCHANGED <<due, inbox, booked, open, today, tap, tick, events>>

\* The operators named Bug... are the mutants of the definition that follows.
BugTextStays(row) == row

cancel_pending_for_entry(row) ==
    IF row.msg = "pending" THEN [row EXCEPT !.msg = "cancelled"] ELSE row

\* WaitlistEntriesRepository.cancel, then the queued text.
cancel(e) ==
    /\ Active(e)
    /\ ~Locked(e, NONE)
    /\ entry' = [entry EXCEPT ![e] =
                    cancel_pending_for_entry([@ EXCEPT !.status = "cancelled"])]
    /\ due' = due \ {e}
    /\ inbox' = inbox \ {e}
    /\ UNCHANGED <<booked, open, today, tap, tick, events>>

cancel_entry(e) == cancel(e)

-----------------------------------------------------------------------------
(* The offer page (waitlist/offer_service.py)                              *)

\* A request with the link of an entry that is not offered any more changes
\* nothing: the row has ended, or has lost that token's hash.
decline(e) == e \in inbox /\ cancel(e)

\* claim up to its UPDATE: `now` is taken and the entry is read.
claim_resolve(t, e) ==
    /\ tap[t] = NoTap
    /\ e \in inbox
    /\ entry[e].status = "offered"
    /\ tap' = [tap EXCEPT ![t] = [entry |-> e, slot |-> entry[e].slot,
                                  intime |-> e \notin due]]
    /\ UNCHANGED <<entry, due, inbox, booked, open, today, tick, events>>

\* WHERE status = 'offered' AND offer_expires_at > now
ClaimGuard(k) == entry[k.entry].status = "offered" /\ k.intime

\* claim_seat finds a seat, for the instant read with the entry.
SeatGuard(k) ==
    /\ Cardinality(booked[k.slot]) < Capacity
    /\ entry[k.entry].phone \notin booked[k.slot]

\* The UPDATE, the queued text, the seat: one transaction.
claim(t) ==
    LET k == tap[t] IN
    /\ k # NoTap
    /\ ~Locked(k.entry, NONE)
    /\ ClaimGuard(k)
    /\ SeatGuard(k)
    /\ entry' = [entry EXCEPT ![k.entry] =
                    cancel_pending_for_entry([@ EXCEPT !.status = "claimed"])]
    /\ booked' = [booked EXCEPT ![k.slot] = @ \cup {entry[k.entry].phone}]
    /\ due' = due \ {k.entry}
    /\ inbox' = inbox \ {k.entry}
    /\ tap' = [tap EXCEPT ![t] = NoTap]
    /\ UNCHANGED <<open, today, tick, events>>

\* OfferNotClaimableError, or SlotUnavailableError with the UPDATE rolled back.
claim_refused(t) ==
    LET k == tap[t] IN
    /\ k # NoTap
    /\ ~Locked(k.entry, NONE)
    /\ ~(ClaimGuard(k) /\ SeatGuard(k))
    /\ tap' = [tap EXCEPT ![t] = NoTap]
    /\ UNCHANGED <<entry, due, inbox, booked, open, today, tick, events>>

-----------------------------------------------------------------------------
(* The rest of the boutique, and time.                                     *)

Event == events < MaxEvents /\ events' = events + 1

\* create_booking, reduced to the seat it takes (DepositBooking has the rest).
DirectBook(ph, s) ==
    /\ SlotDay[s] >= today
    /\ Cardinality(booked[s]) < Capacity
    /\ ph \notin booked[s]
    /\ booked' = [booked EXCEPT ![s] = @ \cup {ph}]
    /\ Event
    /\ UNCHANGED <<entry, due, inbox, open, today, tap, tick>>

\* A cancellation, a move or the deposit sweep.
FreeSeat(ph, s) ==
    /\ ph \in booked[s]
    /\ booked' = [booked EXCEPT ![s] = @ \ {ph}]
    /\ Event
    /\ UNCHANGED <<entry, due, inbox, open, today, tap, tick>>

\* now passes offer_expires_at: the window, ...
OfferRunsOut(e) ==
    /\ entry[e].status = "offered"
    /\ e \notin due
    /\ due' = due \cup {e}
    /\ UNCHANGED <<entry, inbox, booked, open, today, tap, tick, events>>

\* ... or the slot's start less the minimum lead, for all offers of the slot.
SlotCloses(s) ==
    /\ s \in open
    /\ open' = open \ {s}
    /\ due' = due \cup {e \in Ids : entry[e].status = "offered" /\ entry[e].slot = s}
    /\ Event
    /\ UNCHANGED <<entry, inbox, booked, today, tap, tick>>

DayEnds ==
    /\ today \in Days
    /\ \A s \in open : SlotDay[s] # today
    /\ today' = today + 1
    /\ UNCHANGED <<entry, due, inbox, booked, open, tap, tick, events>>

-----------------------------------------------------------------------------
(* The worker's first job: the texts that are due (comms.drain_due)        *)

\* claim_due locks the pending rows nobody else has locked.  An entry and its
\* newest text are locked together here: whoever writes an entry that has a
\* pending text writes the text too before it commits.
claim_due(w) == {e \in Ids : entry[e].msg = "pending" /\ ~Locked(e, w)}

drain_claim(w) ==
    LET mine == claim_due(w) IN
    /\ tick[w].pc = "idle"
    /\ mine # {}
    /\ tick' = [tick EXCEPT ![w] =
                   [Rest("drain", @.cursor) EXCEPT
                      !.late = due \cap mine,
                      !.rows = [e \in Ids |-> IF e \in mine THEN entry[e] ELSE NoRow]]]
    /\ UNCHANGED <<entry, due, inbox, booked, open, today, tap, events>>

Queued(w, e) == tick[w].pc = "drain" /\ tick[w].rows[e].msg = "pending"

\* The entry is still what justified the text.
StillOffered(w, e) == tick[w].rows[e].status = "offered" /\ e \notin tick[w].late

\* A text about a dead offer is cancelled.
drain_dead(w, e) ==
    /\ Queued(w, e)
    /\ ~StillOffered(w, e)
    /\ tick' = [tick EXCEPT ![w].rows[e].msg = "cancelled"]
    /\ UNCHANGED <<entry, due, inbox, booked, open, today, tap, events>>

\* The provider takes the text, and the phone has it whatever happens next.
drain_sent(w, e) ==
    /\ Queued(w, e)
    /\ StillOffered(w, e)
    /\ inbox' = inbox \cup {e}
    /\ tick' = [tick EXCEPT ![w].rows[e].msg = "sent"]
    /\ UNCHANGED <<entry, due, booked, open, today, tap, events>>

mark_failed(row) == [row EXCEPT !.msg = "failed", !.fails = @ + 1]

\* The provider refuses it.
drain_failed(w, e) ==
    /\ Queued(w, e)
    /\ StillOffered(w, e)
    /\ tick' = [tick EXCEPT ![w].rows[e] = mark_failed(@)]
    /\ UNCHANGED <<entry, due, inbox, booked, open, today, tap, events>>

\* The batch is done, or no provider is configured and a live text stops it.
drain_commit(w) ==
    /\ tick[w].pc = "drain"
    /\ \/ \A e \in Ids : ~Queued(w, e)
       \/ \E e \in Ids : Queued(w, e) /\ StillOffered(w, e)
    /\ entry' = Seen(w)
    /\ tick' = [tick EXCEPT ![w] = Rest("cascade", @.cursor)]
    /\ UNCHANGED <<due, inbox, booked, open, today, tap, events>>

-----------------------------------------------------------------------------
(* The worker's last job: the cascade (waitlist/cascade.py)                *)

\* WHERE status = 'offered' AND offer_expires_at <= now, of what is committed.
due_offers == {e \in due : entry[e].status = "offered"}

BugUnsentExpires(e) == TRUE
\* D7: the window is used up only by a text that was sent, or by the last of
\* too many refusals.
UsedUp(e) == entry[e].msg = "sent" \/ entry[e].fails >= MaxFailures

\* After the drain, which is over at once when there is nothing to send, run
\* takes `now`; _expire reads the offers that are due and their texts, and
\* returns when there are none.
expire_read(w) ==
    /\ tick[w].pc = "cascade" \/ (tick[w].pc = "idle" /\ claim_due(w) = {})
    /\ tick' = [tick EXCEPT ![w] =
                   [Rest(IF due_offers = {} THEN "gate" ELSE "close", @.cursor) EXCEPT
                      !.open = open,
                      !.expire = {e \in due_offers : UsedUp(e)},
                      !.back = {e \in due_offers : ~UsedUp(e)}]]
    /\ UNCHANGED <<entry, due, inbox, booked, open, today, tap, events>>

\* An entry back in the queue gives up its instant and its link.
close_offer(row, status) ==
    cancel_pending_for_entry(
        IF status = "waiting" THEN [row EXCEPT !.status = status, !.slot = NONE]
                              ELSE [row EXCEPT !.status = status])

\* close_offer re-asserts status = 'offered'.
StillOpen(S) == {e \in S : entry[e].status = "offered"}

\* The two bulk UPDATEs, and the texts behind them.
expire_close(w) ==
    LET X == StillOpen(tick[w].expire)
        B == StillOpen(tick[w].back)
    IN  /\ tick[w].pc = "close"
        /\ \A e \in tick[w].expire \cup tick[w].back : ~Locked(e, w)
        /\ tick' = [tick EXCEPT ![w] =
                       [@ EXCEPT !.pc = "gate", !.expire = {}, !.back = {},
                          !.rows = [e \in Ids |->
                              IF e \in X THEN close_offer(entry[e], "expired")
                              ELSE IF e \in B THEN close_offer(entry[e], "waiting")
                              ELSE NoRow]]]
        /\ UNCHANGED <<entry, due, inbox, booked, open, today, tap, events>>

BugNoLiveOfferTest(w) ==
    {p \in Pairs : /\ PairDay[p] >= today
                   /\ \E e \in Ids : Seen(w)[e].pair = p /\ Seen(w)[e].status = "waiting"}

\* The pairs with somebody waiting and no live offer.
Candidates(w) ==
    {p \in Pairs :
        /\ PairDay[p] >= today
        /\ \E e \in Ids : Seen(w)[e].pair = p /\ Seen(w)[e].status = "waiting"
        /\ ~\E e \in Ids : Seen(w)[e].pair = p /\ Seen(w)[e].status = "offered"}

\* ... after the cursor, in order, at most BatchSize of them.
waiting_pairs(w) ==
    LET C == {p \in Candidates(w) : p > tick[w].cursor}
    IN  {p \in C : Cardinality({q \in C : q < p}) < BatchSize}

BugCursorStays(page) == 0

\* A full page leaves the cursor at its last pair, a short one clears it.
NextCursor(page) ==
    IF Cardinality(page) < BatchSize THEN 0
    ELSE CHOOSE p \in page : \A q \in page : q =< p

issue(w) ==
    /\ tick[w].pc = "gate"
    /\ tick' = [tick EXCEPT ![w].pc = "walk", ![w].pairs = waiting_pairs(w),
                            ![w].cursor = NextCursor(waiting_pairs(w))]
    /\ UNCHANGED <<entry, due, inbox, booked, open, today, tap, events>>

\* The oldest entry waiting for p, as a set: empty when there is none.
oldest_waiting(w, p) ==
    LET Q == {e \in Ids : Seen(w)[e].pair = p /\ Seen(w)[e].status = "waiting"}
    IN  {e \in Q : \A x \in Q : e =< x}

\* day_slots: the seats remaining at the instants of the day.
day_slots(d) ==
    [s \in Slots |-> IF SlotDay[s] = d THEN Capacity - Cardinality(booked[s]) ELSE 0]

\* _offer_one reads the entry and the grid.
offer_read(w) ==
    LET p == Least(tick[w].pairs) IN
    /\ tick[w].pc = "walk"
    /\ tick[w].pairs # {}
    /\ \/ \E e \in oldest_waiting(w, p) :
             tick' = [tick EXCEPT ![w].pc = "offer", ![w].cand = e,
                                  ![w].grid = day_slots(PairDay[p])]
       \/ /\ oldest_waiting(w, p) = {}
          /\ tick' = [tick EXCEPT ![w].pairs = @ \ {p}]
    /\ UNCHANGED <<entry, due, inbox, booked, open, today, tap, events>>

BugNothingHeld(w, s) == 0

\* The live offers that name s.
offered_instants(w, s) ==
    Cardinality({e \in Ids : Seen(w)[e].status = "offered" /\ Seen(w)[e].slot = s})

\* The earliest slot with a seat not spoken for and a window left, as a set.
SlotToOffer(w) ==
    LET F == {s \in tick[w].open : tick[w].grid[s] > offered_instants(w, s)}
    IN  {s \in F : \A x \in F : s =< x}

\* WHERE status = 'waiting'
OfferGuard(w, e) == Seen(w)[e].status = "waiting"

\* The pending-unique index (0033) admits the text: no other of this entry is
\* pending (NoDeadText).
insert_text(row) == [row EXCEPT !.msg = "pending"]

\* ... then the offers on that day, the guarded UPDATE and the queued text.
offer(w) ==
    LET e == tick[w].cand
        done == [tick[w] EXCEPT !.pc = "walk", !.pairs = @ \ {Least(@)},
                                !.cand = 0, !.grid = NoGrid]
    IN
    /\ tick[w].pc = "offer"
    /\ \/ \E s \in SlotToOffer(w) :
             /\ ~Locked(e, w)
             /\ OfferGuard(w, e)
             /\ tick' = [tick EXCEPT ![w] =
                    [done EXCEPT !.rows[e] = insert_text([Seen(w)[e] EXCEPT
                        !.status = "offered", !.slot = s])]]
       \/ /\ SlotToOffer(w) = {} \/ (~Locked(e, w) /\ ~OfferGuard(w, e))
          /\ tick' = [tick EXCEPT ![w] = done]
    /\ UNCHANGED <<entry, due, inbox, booked, open, today, tap, events>>

\* The page is walked, or the quiet hours, in which nothing is offered, ended the
\* tick before.  The commit makes the new offers live: each has a deadline of its own, passed
\* already if its slot closed meanwhile, and a token no phone has yet.  A claim
\* in flight took its `now` before that deadline.
commit(w) ==
    LET W == Written(w)
        fresh == {e \in W : tick[w].rows[e].status = "offered"}
    IN  /\ tick[w].pc = "gate" \/ (tick[w].pc = "walk" /\ tick[w].pairs = {})
        /\ entry' = Seen(w)
        /\ due' = (due \ W) \cup {e \in fresh : tick[w].rows[e].slot \notin open}
        /\ inbox' = inbox \ W
        /\ tap' = [t \in Taps |-> IF tap[t].entry \in fresh
                                  THEN [tap[t] EXCEPT !.intime = TRUE] ELSE tap[t]]
        /\ tick' = [tick EXCEPT ![w] = Rest("idle", @.cursor)]
        /\ UNCHANGED <<booked, open, today, events>>

\* A job fails: its transaction is rolled back and the worker goes on, with the
\* cursor it has in memory, or is killed and restarted without one.
job_fails(w, killed) ==
    /\ killed \/ tick[w].pc # "idle"
    /\ Event
    /\ tick' = [tick EXCEPT ![w] = Rest("idle", IF killed THEN 0 ELSE @.cursor)]
    /\ UNCHANGED <<entry, due, inbox, booked, open, today, tap>>

-----------------------------------------------------------------------------
(* The specification.                                                      *)

Init ==
    /\ entry = NoRows
    /\ due = {}
    /\ inbox = {}
    /\ booked = [s \in Slots |-> {}]
    /\ open = Slots
    /\ today = Least(Days)
    /\ tap = [t \in Taps |-> NoTap]
    /\ tick = [w \in Workers |-> Rest("idle", 0)]
    /\ events = 0

Customer ==
    \/ \E ph \in Phones, p \in Pairs : Join(ph, p)
    \/ \E e \in Ids : decline(e)
    \/ \E t \in Taps, e \in Ids : claim_resolve(t, e)
    \/ \E t \in Taps : claim(t) \/ claim_refused(t)

Boutique ==
    \/ \E e \in Ids : cancel_entry(e)
    \/ \E ph \in Phones, s \in Slots : DirectBook(ph, s) \/ FreeSeat(ph, s)

Time ==
    \/ \E e \in Ids : OfferRunsOut(e)
    \/ \E s \in Slots : SlotCloses(s)
    \/ DayEnds

\* The steps that need nobody: a worker that is alive takes them.
Polls(w) ==
    \/ drain_claim(w)
    \/ drain_commit(w)
    \/ \E e \in Ids : drain_dead(w, e)
    \/ expire_read(w)
    \/ expire_close(w)
    \/ offer_read(w)
    \/ offer(w)
    \/ commit(w)

Worker(w) ==
    \/ Polls(w)
    \/ \E e \in Ids : drain_sent(w, e) \/ drain_failed(w, e)
    \/ issue(w)

Next ==
    \/ Customer
    \/ Boutique
    \/ Time
    \/ \E w \in Workers : Worker(w)
    \/ \E w \in Workers, killed \in BOOLEAN : job_fails(w, killed)

Spec == Init /\ [][Next]_vars

\* Workers keep polling, the quiet hours end, a text that is due again and
\* again is handed to a provider in the end, and time passes.  Customers, the
\* owner and the rest of the boutique are free to do nothing.
Fairness ==
    /\ \A w \in Workers : WF_vars(Polls(w)) /\ SF_vars(issue(w))
    /\ \A w \in Workers, e \in Ids : SF_vars(drain_sent(w, e) \/ drain_failed(w, e))
    /\ \A e \in Ids : WF_vars(OfferRunsOut(e))

FairSpec == Spec /\ Fairness

-----------------------------------------------------------------------------
(* Properties.                                                             *)

TypeOK ==
    /\ entry \in [Ids -> Row]
    /\ due \subseteq Ids
    /\ inbox \subseteq Ids
    /\ booked \in [Slots -> SUBSET Phones]
    /\ open \subseteq Slots
    /\ today \in Nat
    /\ tap \in [Taps -> [entry : Ids \cup {0}, slot : Slots \cup {NONE}, intime : BOOLEAN]]
    /\ tick \in [Workers -> Tick]
    /\ events \in 0..MaxEvents

Offers(p) == {e \in Ids : entry[e].pair = p /\ entry[e].status = "offered"}

\* "Sequential, one at a time, no broadcast" (waiting_pairs): a queue has at
\* most one live offer.
OneOfferPerPair == \A p \in Pairs : Cardinality(Offers(p)) =< 1

\* Two queues of a day share its grid (offered_instants): an instant is never
\* offered to more customers than it has seats.
OffersFitTheGrid ==
    \A s \in Slots :
        Cardinality({e \in Ids : entry[e].status = "offered" /\ entry[e].slot = s}) =< Capacity

\* A queued text is about a live offer: an entry that leaves 'offered' by any of
\* its five ways takes its text along (cancel_pending_for_entry).
NoDeadText == \A e \in Ids : entry[e].msg = "pending" => entry[e].status = "offered"

\* A live offer has its text queued, sent or refused; none is silently dropped.
OfferIsTexted ==
    \A e \in Ids : entry[e].status = "offered" /\ e \notin due
                       => entry[e].msg \in {"pending", "sent", "failed"}

\* At most one entry of a phone is on the list for a pair (0026's index), also
\* when an expired customer rejoins while her old entry is being closed.
OneEntryPerPhone ==
    \A e, x \in Ids :
        Active(e) /\ Active(x) /\ entry[e].phone = entry[x].phone
                  /\ entry[e].pair = entry[x].pair => e = x

\* D7 (_expire): a turn is used up only by a text that was sent or by the last
\* of too many refusals, and an entry whose text was sent gets no second turn.
TurnUsedOnce ==
    \A e \in Ids :
      /\ entry[e].status = "offered" /\ entry'[e].status = "expired"
            => entry[e].msg = "sent" \/ entry[e].fails >= MaxFailures
      /\ entry[e].msg = "sent" => entry'[e].msg = "sent" /\ entry'[e].status # "waiting"

\* FIFO (#14): nobody is offered a seat while an older entry of her queue waits.
OldestFirst ==
    \A e \in Ids :
     entry[e].status # "offered" /\ entry'[e].status = "offered"
         => \A x \in Ids : x < e /\ entry'[x].pair = entry[e].pair
                             => entry'[x].status # "waiting"

\* Claimed, expired and cancelled entries stay so, whatever a claim, a decline
\* or a cascade that read them earlier still writes.
EndIsFinal ==
    \A e \in Ids : entry[e].status \in {"claimed", "expired", "cancelled"}
                       => entry'[e].status = entry[e].status

SeatOnDay(d) ==
    \E s \in open : SlotDay[s] = d /\ Cardinality(booked[s]) < Capacity

\* Nobody waits for ever while her day has a seat to offer: neither a customer
\* the provider refuses nor full days that fill every page hold the queue up.
QueueMoves ==
    \A e \in Ids :
        []<>~(entry[e].status = "waiting" /\ PairDay[entry[e].pair] >= today
                 /\ SeatOnDay(PairDay[entry[e].pair]))

\* "Text two brides about one seat" is what offered_instants is to prevent: an
\* instant's live offers and the seats claimed from offers fit its capacity.
SeatSpokenForOnce ==
    \A s \in Slots :
        Cardinality({e \in Ids :
            /\ entry[e].slot = s
            /\ \/ entry[e].status = "offered"
               \/ entry[e].status = "claimed" /\ entry[e].phone \in booked[s]}) =< Capacity

\* The list is well formed: one live offer per queue and one entry per customer.
OnePlaceEach == TypeOK /\ OneOfferPerPair /\ OneEntryPerPhone

\* Texts and offers match, over offers made again and drains that died.
TextsFollowOffers == NoDeadText /\ OfferIsTexted

\* What no tick, claim or decline may do, however late it writes: end a turn nobody
\* was told of, pass an older entry over, or bring an ended one back.
TurnsAreKept == [][TurnUsedOnce /\ OldestFirst /\ EndIsFinal]_entry

=============================================================================
