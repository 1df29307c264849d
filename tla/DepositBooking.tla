--------------------------- MODULE DepositBooking ---------------------------
(***************************************************************************)
(* The deposit flow of one boutique (tenant): a storefront request claims  *)
(* a seat, opens a hosted payment page, and the booking is then confirmed, *)
(* released, honoured late, moved or cancelled by the payment webhook, the *)
(* expiry sweeper, the reminder worker, the owner and the customer.        *)
(*                                                                         *)
(* Every database transaction is one action.  What is NOT one transaction  *)
(* in the code is not one action here: the claim and the deposit, the      *)
(* provider call and the INSERT it precedes, the settlement and the        *)
(* booking confirm, the late settlement, the read and the rebind.          *)
(***************************************************************************)
EXTENDS Integers

CONSTANTS
    Requests,     \* POST /bookings requests; a request inserts at most one
                  \* bookings row and opens at most one payment page, so its
                  \* name is also the id of that row and of that page
    Customers,    \* proven phone numbers
    Who,          \* Who[r]: the customer who submits request r
    Slots,        \* instants of the boutique's grid
    Capacity,     \* Capacity[s]: seats the grid offers at s
    Leads,        \* how far ahead a slot may be at the start
    Outcomes,     \* what an attempt to pay may come to at the provider
    Handlers,     \* webhook deliveries being processed concurrently
    MaxAttempts,  \* bound: payment attempts per hosted page
    MaxCrashes,   \* bound: processes killed between two of their steps
    NONE          \* no row, no lock holder, NULL

ASSUME ConstantsAssumption ==
    /\ Who \in [Requests -> Customers]
    /\ Capacity \in [Slots -> Nat \ {0}]
    /\ Leads \subseteq {"far", "day", "near"}
    /\ Outcomes \subseteq {"charged", "mispriced", "refused"}
    /\ MaxAttempts \in Nat
    /\ MaxCrashes \in Nat
    /\ NONE \notin Requests
    /\ NONE \notin Slots
    /\ NONE \notin Customers

VARIABLES
    bk,       \* the bookings table
    pay,      \* the payments table: the row behind each hosted page
    lastpay,  \* the newest payments row of each booking ("failed" for MD4's row)
    waived,   \* bookings with an MD4 `failed` payments row
    rem,      \* status of the newest reminder row of each booking
    lead,     \* how far ahead of now each slot is
    aged,     \* bookings older than the hold plus one poll interval
    req,      \* storefront requests
    lock,     \* who holds the tenant's advisory lock across a provider call
    minted,   \* payment pages that exist at the provider
    events,   \* webhook events the provider has produced (it may repeat them)
    acked,    \* events the webhook has answered 2xx
    audit,    \* <<action, event>>: the gateway rows of the audit log
    hook,     \* webhook deliveries
    crashes   \* processes killed so far

dbvars == <<bk, pay, lastpay, waived, rem>>
timevars == <<lead, aged>>
vars == <<bk, pay, lastpay, waived, rem, lead, aged, req, lock, minted,
          events, acked, audit, hook, crashes>>

-----------------------------------------------------------------------------
(* Rows.                                                                   *)

BookingStatus == {"absent", "pending_payment", "confirmed", "cancelled",
                  "no_show", "completed"}
BookingCancelledBy == {"nobody", "customer", "owner", "expired"}
PaymentStatus == {"absent", "pending", "paid", "expired"}
ReminderStatus == {"none", "pending", "sent", "cancelled"}

Booking == [status : BookingStatus, customer : Customers \cup {NONE},
            slot : Slots \cup {NONE}, seat : Nat, by : BookingCancelledBy]

\* A provider event: the attempt's page, its number there (page and number
\* together are the provider's transaction id), whether the card was charged
\* and whether the amount is the one the row asked for.
Event == [page : Requests, no : 1..MaxAttempts, paid : BOOLEAN, exact : BOOLEAN]

ASSUME NoneIsNoEvent == NONE \notin Event

Payment == [status : PaymentStatus, booking : Requests \cup {NONE},
            txn : Event \cup {NONE}, due : BOOLEAN]

NoBooking == [status |-> "absent", customer |-> NONE, slot |-> NONE,
              seat |-> 0, by |-> "nobody"]
NoPayment == [status |-> "absent", booking |-> NONE, txn |-> NONE, due |-> FALSE]

-----------------------------------------------------------------------------
(* The reads the transactions make.                                        *)

\* Both partial unique indexes and both occupancy reads: status <> 'cancelled'.
Live(b) == bk[b].status \notin {"absent", "cancelled"}

\* Faulty variants, named Bug..., are what the mutation runs substitute for the
\* definition that follows them; nothing else uses them.

BugPendingHoldsNoSeat(s) ==
    {bk[b].seat : b \in {x \in Requests : bk[x].status = "confirmed" /\ bk[x].slot = s}}

active_seats_at(s) == {bk[b].seat : b \in {x \in Requests : Live(x) /\ bk[x].slot = s}}

BugPendingIsNoBooking(c, s) ==
    {b \in Requests : bk[b].status = "confirmed" /\ bk[b].customer = c /\ bk[b].slot = s}

active_at(c, s) == {b \in Requests : Live(b) /\ bk[b].customer = c /\ bk[b].slot = s}

BugOneSeatTooMany(s, occupied) == (1..(Capacity[s] + 1)) \ occupied

FreeSeats(s, occupied) == (1..Capacity[s]) \ occupied

\* The lowest free seat, as a set: empty when the slot is full.
LowestFree(s, occupied) ==
    {k \in FreeSeats(s, occupied) : \A j \in FreeSeats(s, occupied) : k =< j}

\* Row b written with this slot and seat would break 0008's or 0009's index.
IndexConflict(b, s, seat) ==
    \E x \in Requests \ {b} :
        /\ Live(x)
        /\ bk[x].slot = s
        /\ bk[x].seat = seat \/ bk[x].customer = bk[b].customer

live_pending(b) == {p \in Requests : pay[p].status = "pending" /\ pay[p].booking = b}

PaidOn(b) == {p \in Requests : pay[p].status = "paid" /\ pay[p].booking = b}

Future(s) == lead[s] # "past"

\* The reminder bands: no row for an appointment less than two hours away.
reminder_send_after(s) == IF lead[s] \in {"far", "day"} THEN "pending" ELSE "none"

BugReminderNotRewritten(b, s) == rem[b]

\* upsert_reminder: the pending row is cancelled, a new one inserted if due.
upsert_reminder(b, s) ==
    IF reminder_send_after(s) = "pending" THEN "pending"
    ELSE IF rem[b] = "pending" THEN "cancelled" ELSE rem[b]

cancel_pending(b) == IF rem[b] = "pending" THEN "cancelled" ELSE rem[b]

-----------------------------------------------------------------------------
Init ==
    /\ bk = [b \in Requests |-> NoBooking]
    /\ pay = [p \in Requests |-> NoPayment]
    /\ lastpay = [b \in Requests |-> NONE]
    /\ waived = {}
    /\ rem = [b \in Requests |-> "none"]
    /\ lead \in [Slots -> Leads]
    /\ aged = {}
    /\ req = [r \in Requests |-> [pc |-> "start", b |-> NONE, status |-> "absent",
                                  due |-> FALSE]]
    /\ lock = NONE
    /\ minted = {}
    /\ events = {}
    /\ acked = {}
    /\ audit = {}
    /\ hook = [h \in Handlers |-> [pc |-> "idle", ev |-> NONE, b |-> NONE,
                                   snap |-> NoBooking]]
    /\ crashes = 0

-----------------------------------------------------------------------------
(* The storefront request: create_booking, then open_deposit.              *)

reqRest == <<lead, aged, minted, events, acked, audit, hook, crashes>>

\* create_booking refuses: phone not proven, budget spent, stale terms, slot
\* past or full, gown away.  The transaction rolls back.
RefuseBooking(r) ==
    /\ req[r].pc = "start"
    /\ req' = [req EXCEPT ![r].pc = "done"]
    /\ UNCHANGED <<dbvars, lock, reqRest>>

\* create_booking step 4b: the customer's live booking at this instant is the
\* answer.  The request keeps the row as it was read, not as it will be.
ReplayBooking(r, s) ==
    /\ req[r].pc = "start"
    /\ lock = NONE
    /\ Future(s)
    /\ \E b \in active_at(Who[r], s), due \in BOOLEAN :
          req' = [req EXCEPT ![r] = [pc |-> "claimed", b |-> b,
                                     status |-> bk[b].status, due |-> due]]
    /\ UNCHANGED <<dbvars, lock, reqRest>>

\* create_booking with no live booking to replay: claim_seat inserts the row on
\* the lowest free seat, awaiting payment when a deposit is due, and its reminder.
ClaimSeat(r, s) ==
    /\ req[r].pc = "start"
    /\ lock = NONE
    /\ Future(s)
    /\ active_at(Who[r], s) = {}
    /\ \E due \in BOOLEAN, seat \in LowestFree(s, active_seats_at(s)) :
          LET status == IF due THEN "pending_payment" ELSE "confirmed" IN
          /\ bk' = [bk EXCEPT ![r] = [status |-> status, customer |-> Who[r],
                                      slot |-> s, seat |-> seat, by |-> "nobody"]]
          /\ req' = [req EXCEPT ![r] = [pc |-> "claimed", b |-> r,
                                        status |-> status, due |-> due]]
    /\ rem' = [rem EXCEPT ![r] = reminder_send_after(s)]
    /\ UNCHANGED <<pay, lastpay, waived, lock, reqRest>>

\* BookingService.open_deposit: no money owed on the row as the claim read it.
AwaitsDeposit(r) == req[r].due /\ req[r].status = "pending_payment"

NoDepositDue(r) ==
    /\ req[r].pc = "claimed"
    /\ ~AwaitsDeposit(r)
    /\ req' = [req EXCEPT ![r].pc = "done"]
    /\ UNCHANGED <<dbvars, lock, reqRest>>

\* PaymentService.open_deposit finds the booking's pending hold and returns its
\* stored link without calling the provider.
ConvergeOnHold(r) ==
    /\ req[r].pc = "claimed"
    /\ AwaitsDeposit(r)
    /\ lock = NONE
    /\ live_pending(req[r].b) # {}
    /\ req' = [req EXCEPT ![r].pc = "done"]
    /\ UNCHANGED <<dbvars, lock, reqRest>>

BugMintWithoutRecheck(r) ==
    /\ req[r].pc = "claimed"
    /\ AwaitsDeposit(r)
    /\ lock = NONE
    /\ lock' = r
    /\ minted' = minted \cup {r}
    /\ req' = [req EXCEPT ![r].pc = "minted"]
    /\ UNCHANGED <<dbvars, lead, aged, events, acked, audit, hook, crashes>>

\* PaymentService.open_deposit mints a page at the provider, inside the lock.
MintSession(r) ==
    /\ req[r].pc = "claimed"
    /\ AwaitsDeposit(r)
    /\ lock = NONE
    /\ live_pending(req[r].b) = {}
    /\ lock' = r
    /\ minted' = minted \cup {r}
    /\ req' = [req EXCEPT ![r].pc = "minted"]
    /\ UNCHANGED <<dbvars, lead, aged, events, acked, audit, hook, crashes>>

\* ... and inserts the payments row; COMMIT releases the lock.
InsertHold(r) ==
    /\ req[r].pc = "minted"
    /\ pay' = [pay EXCEPT ![r] = [status |-> "pending", booking |-> req[r].b,
                                  txn |-> NONE, due |-> FALSE]]
    /\ lastpay' = [lastpay EXCEPT ![req[r].b] = r]
    /\ lock' = NONE
    /\ req' = [req EXCEPT ![r].pc = "done"]
    /\ UNCHANGED <<bk, waived, rem, reqRest>>

\* A credential or the provider fails, or its answer is lost after the page was
\* made: open_deposit raises before it writes, and rolls back.
GatewayUnavailable(r) ==
    /\ \/ req[r].pc = "claimed" /\ AwaitsDeposit(r)
       \/ req[r].pc = "minted"
    /\ lock' = IF lock = r THEN NONE ELSE lock
    /\ req' = [req EXCEPT ![r].pc = "compensate"]
    /\ UNCHANGED <<dbvars, reqRest>>

\* _book_without_deposit: the guarded confirm, and the `failed` payments row
\* whether or not it fired.  The reminder row is not rewritten.
BookWithoutDeposit(r) ==
    LET b == req[r].b IN
    /\ req[r].pc = "compensate"
    /\ bk' = IF bk[b].status = "pending_payment"
             THEN [bk EXCEPT ![b].status = "confirmed"] ELSE bk
    /\ waived' = waived \cup {b}
    /\ lastpay' = [lastpay EXCEPT ![b] = "failed"]
    /\ req' = [req EXCEPT ![r].pc = "done"]
    /\ UNCHANGED <<pay, rem, lock, reqRest>>

\* The process serving the request is killed between two of its steps; the
\* database rolls its open transaction back and frees the lock.
CrashRequest(r) ==
    /\ req[r].pc \in {"claimed", "minted", "compensate"}
    /\ crashes < MaxCrashes
    /\ crashes' = crashes + 1
    /\ req' = [req EXCEPT ![r].pc = "dead"]
    /\ lock' = IF lock = r THEN NONE ELSE lock
    /\ UNCHANGED <<dbvars, lead, aged, minted, events, acked, audit, hook>>

-----------------------------------------------------------------------------
(* The payment provider.                                                   *)

\* A customer tries her card on a page: charged the right amount, charged
\* another amount, or refused.  Every outcome is posted to the webhook.
Attempt(p) ==
    /\ p \in minted
    /\ \E outcome \in Outcomes, no \in 1..MaxAttempts :
          /\ \A e \in events : e.page = p => e.no < no
          /\ \A k \in 1..(no - 1) : \E e \in events : e.page = p /\ e.no = k
          /\ events' = events \cup {[page |-> p, no |-> no,
                                     paid |-> outcome # "refused",
                                     exact |-> outcome # "mispriced"]}
    /\ UNCHANGED <<dbvars, timevars, req, lock, minted, acked, audit, hook, crashes>>

-----------------------------------------------------------------------------
(* The webhook: settle_from_webhook, then the reaction to the row's status. *)

hookRest == <<lastpay, waived, lead, aged, req, lock, minted, events, crashes>>

Idle == [pc |-> "idle", ev |-> NONE, b |-> NONE, snap |-> NoBooking]

BugLatePaymentIgnored(status) == IF status = "paid" THEN "confirm" ELSE "ignore"

\* deposit_reaction looks at the row's status only.
deposit_reaction(status) ==
    CASE status = "paid" -> "confirm"
      [] status = "expired" -> "honour"
      [] OTHER -> "ignore"

\* The delivery continues with the reaction, or is answered 200 at once.
React(h, e, p, status) ==
    IF deposit_reaction(status) = "ignore"
    THEN hook' = hook /\ acked' = acked \cup {e}
    ELSE /\ hook' = [hook EXCEPT ![h] = [pc |-> deposit_reaction(status), ev |-> e,
                                         b |-> pay[p].booking, snap |-> NoBooking]]
         /\ acked' = acked

\* The transaction id already settled a row: nothing is written.
SettleAgain(h, e) ==
    /\ hook[h].pc = "idle"
    /\ \E p \in Requests : pay[p].txn = e /\ React(h, e, p, pay[p].status)
    /\ UNCHANGED <<bk, pay, rem, audit, hookRest>>

NotSettled(e) == \A p \in Requests : pay[p].txn # e

\* No row for the page: audited, answered 400, so the provider will retry.
SettleUnmatched(h, e) ==
    /\ hook[h].pc = "idle"
    /\ NotSettled(e)
    /\ pay[e.page].status = "absent"
    /\ audit' = audit \cup {<<"unmatched", e>>}
    /\ UNCHANGED <<bk, pay, rem, acked, hook, hookRest>>

\* _record_decline: evidence on the row, whose status stays what it is.
RecordDecline(h, e) ==
    /\ hook[h].pc = "idle"
    /\ NotSettled(e)
    /\ pay[e.page].status # "absent"
    /\ ~e.paid
    /\ audit' = audit \cup {<<"declined", e>>}
    /\ React(h, e, e.page, pay[e.page].status)
    /\ UNCHANGED <<bk, pay, rem, hookRest>>

\* The amount is not the row's: evidence in its own transaction, then 400.
RecordMismatch(h, e) ==
    /\ hook[h].pc = "idle"
    /\ NotSettled(e)
    /\ pay[e.page].status # "absent"
    /\ e.paid
    /\ ~e.exact
    /\ audit' = audit \cup {<<"mismatch", e>>}
    /\ UNCHANGED <<bk, pay, rem, acked, hook, hookRest>>

BugSettleUnguarded(h, e) ==
    /\ hook[h].pc = "idle"
    /\ NotSettled(e)
    /\ e.paid
    /\ e.exact
    /\ pay[e.page].status \in {"pending", "paid"}
    /\ pay' = [pay EXCEPT ![e.page] = [@ EXCEPT !.status = "paid", !.txn = e]]
    /\ React(h, e, e.page, "paid")
    /\ UNCHANGED <<bk, rem, audit, hookRest>>

\* settle: the UPDATE guarded on status = 'pending'.
Settle(h, e) ==
    /\ hook[h].pc = "idle"
    /\ NotSettled(e)
    /\ e.paid
    /\ e.exact
    /\ pay[e.page].status = "pending"
    /\ pay' = [pay EXCEPT ![e.page] = [@ EXCEPT !.status = "paid", !.txn = e]]
    /\ React(h, e, e.page, "paid")
    /\ UNCHANGED <<bk, rem, audit, hookRest>>

BugMissedWithoutAudit(h, e) ==
    /\ hook[h].pc = "idle"
    /\ NotSettled(e)
    /\ e.paid
    /\ e.exact
    /\ pay[e.page].status \in {"paid", "expired"}
    /\ React(h, e, e.page, pay[e.page].status)
    /\ UNCHANGED <<bk, pay, rem, audit, hookRest>>

\* _explain_missed_settlement: a second charge on a paid row, or a late one.
ExplainMissed(h, e) ==
    /\ hook[h].pc = "idle"
    /\ NotSettled(e)
    /\ e.paid
    /\ e.exact
    /\ pay[e.page].status \in {"paid", "expired"}
    /\ audit' = audit \cup {<<IF pay[e.page].status = "paid"
                              THEN "duplicate" ELSE "late", e>>}
    /\ React(h, e, e.page, pay[e.page].status)
    /\ UNCHANGED <<bk, pay, rem, hookRest>>

SettleFromWebhook(h, e) ==
    \/ SettleAgain(h, e)
    \/ SettleUnmatched(h, e)
    \/ RecordDecline(h, e)
    \/ RecordMismatch(h, e)
    \/ Settle(h, e)
    \/ ExplainMissed(h, e)

\* _confirm: one guarded UPDATE and the reminder rewrite, or nothing at all.
Confirm(h) ==
    LET b == hook[h].b IN
    /\ hook[h].pc = "confirm"
    /\ IF bk[b].status = "pending_payment"
       THEN /\ bk' = [bk EXCEPT ![b].status = "confirmed"]
            /\ rem' = [rem EXCEPT ![b] = upsert_reminder(b, bk[b].slot)]
       ELSE UNCHANGED <<bk, rem>>
    /\ hook' = [hook EXCEPT ![h] = Idle]
    /\ acked' = acked \cup {hook[h].ev}
    /\ UNCHANGED <<pay, audit, hookRest>>

BugPageForTransaction(h) ==
    LET p == hook[h].ev.page IN
    /\ hook[h].pc = "honour"
    /\ pay' = [pay EXCEPT ![p] = [@ EXCEPT !.status = "paid", !.txn = p]]
    /\ hook' = [hook EXCEPT ![h].pc = "read"]
    /\ UNCHANGED <<bk, rem, acked, audit, hookRest>>

\* _honour, first transaction: settle_late, guarded on status = 'expired'.
SettleLate(h) ==
    LET p == hook[h].ev.page IN
    /\ hook[h].pc = "honour"
    /\ IF pay[p].status = "expired"
       THEN /\ pay' = [pay EXCEPT ![p] = [@ EXCEPT !.status = "paid", !.txn = hook[h].ev]]
            /\ hook' = [hook EXCEPT ![h].pc = "read"]
            /\ acked' = acked
       ELSE /\ hook' = [hook EXCEPT ![h] = Idle]
            /\ acked' = acked \cup {hook[h].ev}
            /\ pay' = pay
    /\ UNCHANGED <<bk, rem, audit, hookRest>>

\* _honour, second transaction: the booking is read, outside the lock.
ReadBooking(h) ==
    /\ hook[h].pc = "read"
    /\ hook' = [hook EXCEPT ![h] = [@ EXCEPT !.pc = "rebind", !.snap = bk[hook[h].b]]]
    /\ UNCHANGED <<bk, pay, rem, acked, audit, hookRest>>

\* _free_seat works from the row that was read: its instant, and its own seat
\* if it was live then.
RebindOccupied(snap) ==
    IF snap.status # "cancelled"
    THEN active_seats_at(snap.slot) \ {snap.seat} ELSE active_seats_at(snap.slot)

\* _rebind under the lock: a free seat, no other live booking of hers at that
\* instant, and the guarded UPDATE of the row as it is now.
CanRebind(b, snap) ==
    /\ Future(snap.slot)
    /\ active_at(snap.customer, snap.slot) \subseteq {b}
    /\ bk[b].status \in {"cancelled", "pending_payment"}
    /\ Future(bk[b].slot)

RebindSeats(snap) == LowestFree(snap.slot, RebindOccupied(snap))

Rebind(h) ==
    LET b == hook[h].b
        snap == hook[h].snap
    IN
    /\ hook[h].pc = "rebind"
    /\ lock = NONE
    /\ CanRebind(b, snap)
    /\ \E seat \in RebindSeats(snap) :
          /\ ~IndexConflict(b, bk[b].slot, seat)
          /\ bk' = [bk EXCEPT ![b] = [@ EXCEPT !.status = "confirmed", !.by = "nobody",
                                               !.seat = seat]]
    /\ rem' = [rem EXCEPT ![b] = upsert_reminder(b, bk[b].slot)]
    /\ hook' = [hook EXCEPT ![h] = Idle]
    /\ acked' = acked \cup {hook[h].ev}
    /\ UNCHANGED <<pay, audit, hookRest>>

\* No seat, or the UPDATE broke an index: roll back and go on to the alert.
RebindRefused(h) ==
    LET b == hook[h].b
        snap == hook[h].snap
    IN
    /\ hook[h].pc = "rebind"
    /\ lock = NONE
    /\ CanRebind(b, snap)
           => \A seat \in RebindSeats(snap) : IndexConflict(b, bk[b].slot, seat)
    /\ hook' = [hook EXCEPT ![h].pc = "alert"]
    /\ UNCHANGED <<bk, pay, rem, acked, audit, hookRest>>

BugSilentDeadEnd(h) ==
    /\ hook[h].pc = "alert"
    /\ hook' = [hook EXCEPT ![h] = Idle]
    /\ acked' = acked \cup {hook[h].ev}
    /\ UNCHANGED <<bk, pay, rem, audit, hookRest>>

\* DEPOSIT_LATE_UNRESOLVED: the owner is told the money has no seat.
AlertOwner(h) ==
    /\ hook[h].pc = "alert"
    /\ audit' = audit \cup {<<"unresolved", hook[h].ev>>}
    /\ hook' = [hook EXCEPT ![h] = Idle]
    /\ acked' = acked \cup {hook[h].ev}
    /\ UNCHANGED <<bk, pay, rem, hookRest>>

\* The process handling a delivery is killed: no answer, so no ack.
CrashHandler(h) ==
    /\ hook[h].pc # "idle"
    /\ crashes < MaxCrashes
    /\ crashes' = crashes + 1
    /\ hook' = [hook EXCEPT ![h] = Idle]
    /\ UNCHANGED <<dbvars, timevars, req, lock, minted, events, acked, audit>>

-----------------------------------------------------------------------------
(* The expiry sweeper: both claims in one transaction.                     *)

ExpiredHolds == {p \in Requests : pay[p].status = "pending" /\ pay[p].due}

BugReleaseNextPass == {}

ReleasedBookings ==
    {b \in Requests : /\ bk[b].status = "pending_payment"
                      /\ \E p \in ExpiredHolds : pay[p].booking = b}

BugPaidCountsAsOrphan ==
    {b \in Requests : /\ bk[b].status = "pending_payment"
                      /\ b \in aged
                      /\ live_pending(b) \subseteq ExpiredHolds}

BugNoOrphans == {}

\* Old unpaid bookings with no hold left that is pending or paid.
OrphanedBookings ==
    {b \in Requests : /\ bk[b].status = "pending_payment"
                      /\ b \in aged
                      /\ live_pending(b) \subseteq ExpiredHolds
                      /\ PaidOn(b) = {}}

Sweep ==
    LET swept == ReleasedBookings \cup OrphanedBookings IN
    /\ ExpiredHolds # {} \/ swept # {}
    /\ pay' = [p \in Requests |->
                 IF p \in ExpiredHolds THEN [pay[p] EXCEPT !.status = "expired"] ELSE pay[p]]
    /\ bk' = [b \in Requests |->
                IF b \in swept THEN [bk[b] EXCEPT !.status = "cancelled", !.by = "expired"]
                ELSE bk[b]]
    /\ UNCHANGED <<lastpay, waived, rem, timevars, req, lock, minted, events, acked,
                   audit, hook, crashes>>

-----------------------------------------------------------------------------
(* The reminder worker, the customer's manage page and the owner's verbs.  *)

deskRest == <<pay, lastpay, waived, timevars, req, lock, minted, events, acked,
              audit, hook, crashes>>

\* drain_due on one due row: it goes to the SMS provider ("sent" stands for both
\* its outcomes) if the booking is confirmed and ahead, and is cancelled for
\* good otherwise.
DrainReminder(b) ==
    /\ rem[b] = "pending"
    /\ lead[bk[b].slot] # "far"
    /\ IF bk[b].status = "confirmed" /\ Future(bk[b].slot)
       THEN rem' = [rem EXCEPT ![b] = "sent"]
       ELSE rem' = [rem EXCEPT ![b] = "cancelled"]
    /\ UNCHANGED <<bk, deskRest>>

\* The guarded cancel, and the pending reminder with it.
CancelBooking(b, by) ==
    /\ bk[b].status = "confirmed"
    /\ Future(bk[b].slot)
    /\ bk' = [bk EXCEPT ![b] = [@ EXCEPT !.status = "cancelled", !.by = by]]
    /\ rem' = [rem EXCEPT ![b] = cancel_pending(b)]
    /\ UNCHANGED deskRest

CustomerCancel(b) == CancelBooking(b, "customer")

OwnerCancel(b) == CancelBooking(b, "owner")

\* no_show and complete: attendance of an appointment that has started.
MarkAttendance(b) ==
    /\ \E to \in {"no_show", "completed"} :
          /\ bk[b].status \in {"confirmed", "no_show", "completed"} \ {to}
          /\ bk' = [bk EXCEPT ![b].status = to]
    /\ ~Future(bk[b].slot)
    /\ UNCHANGED <<rem, deskRest>>

BugUndoAnything(b) ==
    /\ bk[b].status \in {"no_show", "completed", "cancelled"}
    /\ bk' = [bk EXCEPT ![b].status = "confirmed"]
    /\ UNCHANGED <<rem, deskRest>>

\* confirm: the undo of a mis-tapped no-show or completed.
UndoAttendance(b) ==
    /\ bk[b].status \in {"no_show", "completed"}
    /\ bk' = [bk EXCEPT ![b].status = "confirmed"]
    /\ UNCHANGED <<rem, deskRest>>

BugAnyDepositCounts(b) == lastpay[b] \in Requests

\* MD1: the newest payments row of the booking is paid.
HoldsPaidDeposit(b) == lastpay[b] \in PaidOn(b)

\* _restore, MD1: a cancelled booking that holds her deposit.  The row is first
\* parked, live again, at its old instant: 0009's index refuses that while she
\* has another live booking there.
CanRestore(b) ==
    /\ bk[b].status = "cancelled"
    /\ HoldsPaidDeposit(b)
    /\ active_at(bk[b].customer, bk[b].slot) = {}

\* reschedule under the lock: a confirmed booking moves, or a cancelled one is
\* restored, to the lowest free seat of s.
Reschedule(b, s) ==
    /\ lock = NONE
    /\ Future(s)
    /\ \/ bk[b].status = "confirmed" /\ bk[b].slot # s
       \/ CanRestore(b)
    /\ Future(bk[b].slot)
    /\ active_at(bk[b].customer, s) = {}
    /\ \E seat \in LowestFree(s, active_seats_at(s)) :
          bk' = [bk EXCEPT ![b] = [@ EXCEPT !.status = "confirmed", !.by = "nobody",
                                            !.slot = s, !.seat = seat]]
    /\ rem' = [rem EXCEPT ![b] = upsert_reminder(b, s)]
    /\ UNCHANGED deskRest

\* correct_phone onto a number another customer holds: the booking becomes hers.
\* No lock is taken.
RepointBooking(b, c) ==
    /\ bk[b].status = "confirmed"
    /\ Future(bk[b].slot)
    /\ c # bk[b].customer
    /\ active_at(c, bk[b].slot) = {}
    /\ bk' = [bk EXCEPT ![b].customer = c]
    /\ UNCHANGED <<rem, deskRest>>

-----------------------------------------------------------------------------
(* The clock.                                                              *)

clockRest == <<bk, lastpay, waived, rem, req, lock, minted, events, acked, audit,
               hook, crashes>>

SlotApproaches(s) ==
    /\ lead[s] # "past"
    /\ lead' = [lead EXCEPT ![s] = CASE @ = "far" -> "day"
                                     [] @ = "day" -> "near"
                                     [] OTHER -> "past"]
    /\ UNCHANGED <<pay, aged, clockRest>>

\* hold_expires_at passes.
HoldRunsOut(p) ==
    /\ pay[p].status = "pending"
    /\ ~pay[p].due
    /\ pay' = [pay EXCEPT ![p].due = TRUE]
    /\ UNCHANGED <<timevars, clockRest>>

\* created_at + hold + poll passes.  The request that inserted the row has
\* ended by then: its provider call times out in seconds, the hold is minutes.
BookingAges(b) ==
    /\ bk[b].status = "pending_payment"
    /\ b \notin aged
    /\ req[b].pc \in {"done", "dead"}
    /\ aged' = aged \cup {b}
    /\ UNCHANGED <<pay, lead, clockRest>>

-----------------------------------------------------------------------------
RequestStep(r) ==
    \/ RefuseBooking(r)
    \/ \E s \in Slots : ReplayBooking(r, s)
    \/ \E s \in Slots : ClaimSeat(r, s)
    \/ NoDepositDue(r)
    \/ ConvergeOnHold(r)
    \/ MintSession(r)
    \/ InsertHold(r)
    \/ GatewayUnavailable(r)
    \/ BookWithoutDeposit(r)

HandlerStep(h) ==
    \/ Confirm(h)
    \/ SettleLate(h)
    \/ ReadBooking(h)
    \/ Rebind(h)
    \/ RebindRefused(h)
    \/ AlertOwner(h)

DeskStep(b) ==
    \/ CustomerCancel(b)
    \/ OwnerCancel(b)
    \/ MarkAttendance(b)
    \/ UndoAttendance(b)
    \/ \E s \in Slots : Reschedule(b, s)
    \/ \E c \in Customers : RepointBooking(b, c)

ClockStep ==
    \/ \E s \in Slots : SlotApproaches(s)
    \/ \E p \in Requests : HoldRunsOut(p)
    \/ \E b \in Requests : BookingAges(b)

Crash ==
    \/ \E r \in Requests : CrashRequest(r)
    \/ \E h \in Handlers : CrashHandler(h)

Next ==
    \/ \E r \in Requests : RequestStep(r) \/ Attempt(r) \/ DrainReminder(r) \/ DeskStep(r)
    \/ \E h \in Handlers : HandlerStep(h)
    \/ \E h \in Handlers : \E e \in events : SettleFromWebhook(h, e)
    \/ Sweep
    \/ ClockStep
    \/ Crash

Spec == Init /\ [][Next]_vars

\* The provider posts again an attempt that was not answered 2xx.
Redeliver(p, no) ==
    \E h \in Handlers : \E e \in events \ acked :
        e.page = p /\ e.no = no /\ SettleFromWebhook(h, e)

\* What the deployment keeps running: requests and deliveries run to their end,
\* the worker polls, the clock advances, and the provider redelivers what was
\* not answered 2xx.  Crashes, attempts, desk verbs and refusals are free.
Fairness ==
    /\ \A r \in Requests : WF_vars(RequestStep(r))
    /\ \A h \in Handlers : WF_vars(HandlerStep(h))
    /\ \A p \in Requests : \A no \in 1..MaxAttempts : SF_vars(Redeliver(p, no))
    /\ WF_vars(Sweep)
    /\ WF_vars(ClockStep)

FairSpec == Spec /\ Fairness

-----------------------------------------------------------------------------
(* Properties.                                                             *)

RequestState == [pc : {"start", "claimed", "minted", "compensate", "done", "dead"},
                 b : Requests \cup {NONE}, status : BookingStatus, due : BOOLEAN]
HandlerState == [pc : {"idle", "confirm", "honour", "read", "rebind", "alert"},
                 ev : Event \cup {NONE}, b : Requests \cup {NONE}, snap : Booking]

\* Every row and every process holds values of its columns' types.
TypeOK ==
    /\ bk \in [Requests -> Booking]
    /\ pay \in [Requests -> Payment]
    /\ lastpay \in [Requests -> Requests \cup {NONE, "failed"}]
    /\ waived \subseteq Requests
    /\ rem \in [Requests -> ReminderStatus]
    /\ lead \in [Slots -> {"far", "day", "near", "past"}]
    /\ aged \subseteq Requests
    /\ req \in [Requests -> RequestState]
    /\ lock \in Requests \cup {NONE}
    /\ minted \subseteq Requests
    /\ events \subseteq Event
    /\ acked \subseteq events
    /\ audit \subseteq ({"unmatched", "declined", "mismatch", "duplicate", "late",
                         "unresolved"} \X events)
    /\ hook \in [Handlers -> HandlerState]
    /\ crashes \in 0..MaxCrashes

Occupies(b) == bk[b].status \in {"pending_payment", "confirmed", "no_show", "completed"}

\* No two live bookings hold one seat of one instant (what 0008's index is for):
\* through the claim, the late rebind and the owner's move alike.
SeatsUnique ==
    \A a, b \in Requests :
        Occupies(a) /\ Occupies(b) /\ bk[a].slot = bk[b].slot /\ bk[a].seat = bk[b].seat
            => a = b

\* A customer has at most one live booking per instant (what 0009's index is
\* for), so a retry or a late deposit never buys her a second appointment.
OnePerInstant ==
    \A a, b \in Requests :
        Occupies(a) /\ Occupies(b) /\ bk[a].slot = bk[b].slot
            /\ bk[a].customer = bk[b].customer
                => a = b

\* A live booking sits on a seat its slot really has: capacity is enforced by
\* the three seat arithmetics and by nothing in the database.
WithinCapacity ==
    \A b \in Requests : Occupies(b) => bk[b].seat \in 1..Capacity[bk[b].slot]

\* A booking has at most one pending hold, and no request is between minting a
\* page and recording it for a booking that already has one: open_deposit never
\* puts two payable pages in front of one appointment.
OnePendingHold ==
    LET Opens(p, b) == p \in live_pending(b) \/ (req[p].pc = "minted" /\ req[p].b = b) IN
    \A b, p, q \in Requests : Opens(p, b) /\ Opens(q, b) => p = q

\* The sweeper's transaction: no hold is ever seen expired while its booking
\* still waits for the payment, so a late settlement never finds a half-swept
\* booking and files a false "seat taken".
ExpiredIsReleased ==
    \A p \in Requests :
        pay[p].status = "expired" => bk[pay[p].booking].status # "pending_payment"

\* Whatever charge the webhook has answered 2xx is either the transaction that
\* settled a payments row or is named by an audit row.
AckedIsAccounted ==
    \A e \in acked :
        e.paid => \/ \E p \in Requests : pay[p].txn = e
                  \/ \E a \in audit : a[2] = e

\* Money that settled for a booking the sweeper released is on the owner's desk:
\* the unresolved alert is filed, or a delivery is still deciding the seat, or,
\* after a crash inside _honour, the gateway audit row remains.
LateMoneySurfaces ==
    \A p \in Requests :
        pay[p].status = "paid" /\ bk[pay[p].booking].by = "expired" =>
            \/ <<"unresolved", pay[p].txn>> \in audit
            \/ \E h \in Handlers : hook[h].pc \in {"read", "rebind", "alert"}
                                   /\ hook[h].ev = pay[p].txn
            \/ /\ crashes > 0
               /\ \E k \in {"late", "declined"} : <<k, pay[p].txn>> \in audit

\* A confirmed appointment two hours or more ahead that was not booked around a
\* failed gateway has its reminder, pending or sent: the worker cancelling the
\* row while the deposit was open is repaired by the confirm.
ReminderKept ==
    \A b \in Requests :
        bk[b].status = "confirmed" /\ b \notin waived
            /\ lead[bk[b].slot] \in {"far", "day"}
                => rem[b] \in {"pending", "sent"}

\* A booking that holds a paid deposit and waits for its confirm is never
\* released by the sweeper ("the sweeper never touches a paid booking").
PaidNeverSwept ==
    [][\A b \in Requests :
          bk[b].status = "pending_payment" /\ PaidOn(b) # {}
              => bk'[b].status # "cancelled"]_vars

\* A settled payments row never changes again, whatever the provider repeats,
\* delays or charges twice: the first transaction id stays its evidence.
SettledOnce ==
    [][\A p \in Requests : pay[p].status = "paid" => pay'[p] = pay[p]]_vars

\* An unpaid or cancelled row becomes an appointment only on a paid deposit or
\* on the recorded failure of the gateway.
NoFreeAppointment ==
    [][\A b \in Requests :
          bk[b].status \in {"pending_payment", "cancelled"} /\ bk'[b].status = "confirmed"
              => PaidOn(b)' # {} \/ b \in waived']_vars

\* The grid the public sees is a SeatLedger.
Ledger == INSTANCE SeatLedger WITH
    held <- {[customer |-> bk[b].customer, slot |-> bk[b].slot, seat |-> bk[b].seat] :
                b \in {x \in Requests : Occupies(x)}}

\* Every step of the deposit flow is a step of the seat ledger.
LedgerSpec == Ledger!Spec

\* No seat leaks: a booking never waits for its payment forever, whichever of
\* the request, the delivery and the provider call dies on the way.
HoldsEnd ==
    \A b \in Requests :
        bk[b].status = "pending_payment" ~> bk[b].status # "pending_payment"

\* A charge for the right amount on a recorded page ends as a paid deposit, in
\* time or late, however often its delivery is lost, repeated or interrupted.
ChargeSettles ==
    \A p \in Requests :
        (\E e \in events : e.page = p /\ e.paid /\ e.exact) /\ pay[p].status # "absent"
            ~> pay[p].status = "paid"

-----------------------------------------------------------------------------
(* Claims of the repository that the code does not keep (see the README).  *)

\* A deposit is marked paid only if its page charged a card ("a bride would get
\* a confirmation for money nobody took" is what _record_decline is to prevent).
PaidMeansCharged ==
    \A p \in Requests :
        pay[p].status = "paid" => \E e \in events : e.page = p /\ e.paid

\* A confirmed appointment two hours or more ahead has its reminder, pending or
\* sent, however it came to be confirmed.
ReminderNeverLost ==
    \A b \in Requests :
        bk[b].status = "confirmed" /\ lead[bk[b].slot] \in {"far", "day"}
            => rem[b] \in {"pending", "sent"}

=============================================================================
