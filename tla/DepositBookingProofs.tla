----------------------- MODULE DepositBookingProofs -----------------------
(***************************************************************************)
(* The deposit flow keeps its tables consistent, gives each seat out once, *)
(* implements the seat ledger, and accounts for money, for any number of   *)
(* requests, customers, slots, deliveries and crashes.                     *)
(*                                                                         *)
(* IInv is the inductive invariant: the column types, and that every       *)
(* reference between rows and processes points at a row that exists.  A    *)
(* step is then described by what it may do to the bookings table          *)
(* (SeatStep) and to the payments table (PayStep).  On these rest the      *)
(* sections on where rows come from, reminders, the ledger (GInv), money   *)
(* (MInv), and what holds when no customer submits twice (OwnInv).         *)
(***************************************************************************)
EXTENDS DepositBooking, TLAPS

USE ConstantsAssumption DEF ConstantsAssumption

\* A bookings row has its customer and its instant.
RowsOK ==
    \A b \in Requests :
        bk[b].status # "absent" => bk[b].customer \in Customers /\ bk[b].slot \in Slots

\* A request that has not begun has inserted nothing.
StartOK == \A r \in Requests : req[r].pc = "start" => bk[r].status = "absent"

\* A request under way works on an existing booking.
ReqOK ==
    \A r \in Requests :
        req[r].pc \in {"claimed", "minted", "compensate"}
            => req[r].b \in Requests /\ bk[req[r].b].status # "absent"

\* A payments row belongs to an existing booking.
PayOK ==
    \A p \in Requests :
        pay[p].status # "absent"
            => pay[p].booking \in Requests /\ bk[pay[p].booking].status # "absent"

\* A request's page is recorded by its last step only.
FreshOK ==
    \A r \in Requests :
        req[r].pc \in {"start", "claimed", "minted", "compensate"} => pay[r].status = "absent"

\* A delivery under way carries an event of the provider and an existing booking.
HookOK ==
    \A h \in Handlers :
        /\ hook[h].pc # "idle" => /\ hook[h].ev \in events
                                  /\ hook[h].b \in Requests
                                  /\ bk[hook[h].b].status # "absent"
        /\ hook[h].pc = "rebind" => hook[h].snap.slot \in Slots

IInv == TypeOK /\ RowsOK /\ StartOK /\ ReqOK /\ PayOK /\ FreshOK /\ HookOK

\* The empty database satisfies the invariant.
LEMMA InitIInv == Init => IInv
<1>1. Init => TypeOK
  <2> SUFFICES ASSUME Init PROVE TypeOK
    OBVIOUS
  <2>1. bk \in [Requests -> Booking]
    BY DEF Init, NoBooking, Booking, BookingStatus, BookingCancelledBy
  <2>2. pay \in [Requests -> Payment]
    BY DEF Init, NoPayment, Payment, PaymentStatus
  <2>3. hook \in [Handlers -> HandlerState]
    BY DEF Init, HandlerState, NoBooking, Booking, BookingStatus, BookingCancelledBy
  <2>4. req \in [Requests -> RequestState]
    BY DEF Init, RequestState, BookingStatus
  <2>5. lead \in [Slots -> {"far", "day", "near", "past"}]
    BY DEF Init
  <2>6. crashes \in 0..MaxCrashes
    BY DEF Init
  <2> QED
    BY <2>1, <2>2, <2>3, <2>4, <2>5, <2>6 DEF Init, TypeOK, ReminderStatus
<1>2. Init => RowsOK /\ StartOK /\ ReqOK /\ PayOK /\ FreshOK /\ HookOK
  BY DEF Init, RowsOK, StartOK, ReqOK, PayOK, FreshOK, HookOK, NoBooking, NoPayment
<1> QED
  BY <1>1, <1>2 DEF IInv

-----------------------------------------------------------------------------
(* Type correctness, one lemma per group of actions.                       *)

\* The UPDATEs of a bookings row keep its type.
LEMMA BookingWrites ==
    ASSUME NEW x \in Booking, NEW st \in BookingStatus, NEW by \in BookingCancelledBy,
           NEW seat \in Nat, NEW s \in Slots
    PROVE  /\ [x EXCEPT !.status = st] \in Booking
           /\ [x EXCEPT !.status = st, !.by = by] \in Booking
           /\ [x EXCEPT !.status = st, !.by = by, !.seat = seat] \in Booking
           /\ [x EXCEPT !.status = st, !.by = by, !.slot = s, !.seat = seat] \in Booking
BY DEF Booking

\* The UPDATEs of a payments row keep its type.
LEMMA PaymentWrites ==
    ASSUME NEW x \in Payment, NEW st \in PaymentStatus, NEW e \in Event
    PROVE  /\ [x EXCEPT !.status = st] \in Payment
           /\ [x EXCEPT !.status = st, !.txn = e] \in Payment
BY DEF Payment

\* Seats are numbered from one.
LEMMA SeatIsNat ==
    ASSUME NEW s \in Slots, NEW O, NEW seat \in LowestFree(s, O) PROVE seat \in Nat \ {0}
BY DEF LowestFree, FreeSeats

\* Storefront requests keep the types.
LEMMA RequestTypes ==
    ASSUME IInv, NEW r \in Requests, RequestStep(r) PROVE TypeOK'
<1>1. CASE RefuseBooking(r) \/ NoDepositDue(r) \/ ConvergeOnHold(r)
  <2>1. req' = [req EXCEPT ![r].pc = "done"]
        /\ UNCHANGED <<dbvars, lead, aged, lock, minted, events, acked, audit, hook, crashes>>
    BY <1>1 DEF RefuseBooking, NoDepositDue, ConvergeOnHold, reqRest
  <2>2. req' \in [Requests -> RequestState]
    BY <2>1 DEF IInv, TypeOK, RequestState
  <2> QED
    BY <2>1, <2>2 DEF IInv, TypeOK, dbvars
<1>7. CASE GatewayUnavailable(r)
  <2>1. req' \in [Requests -> RequestState]
    BY <1>7 DEF GatewayUnavailable, IInv, TypeOK, RequestState
  <2> QED
    BY <1>7, <2>1 DEF GatewayUnavailable, IInv, TypeOK, dbvars, reqRest
<1>2. CASE \E s \in Slots : ReplayBooking(r, s)
  BY <1>2 DEF ReplayBooking, active_at, IInv, TypeOK, dbvars, reqRest, RequestState, Booking
<1>3. ASSUME NEW s \in Slots, ClaimSeat(r, s) PROVE TypeOK'
  BY <1>3 DEF ClaimSeat, IInv, TypeOK, reqRest, RequestState, Booking, BookingStatus,
              BookingCancelledBy, LowestFree, FreeSeats, reminder_send_after, ReminderStatus
<1>4. CASE MintSession(r)
  <2>1. req' \in [Requests -> RequestState]
    BY <1>4 DEF MintSession, IInv, TypeOK, RequestState
  <2> QED
    BY <1>4, <2>1 DEF MintSession, IInv, TypeOK, dbvars
<1>5. CASE InsertHold(r)
  <2>1. req[r].b \in Requests
    BY <1>5 DEF InsertHold, IInv, ReqOK
  <2> QED
    <3>1. [status |-> "pending", booking |-> req[r].b, txn |-> NONE, due |-> FALSE] \in Payment
      BY <2>1 DEF Payment, PaymentStatus
    <3>2. pay' \in [Requests -> Payment]
      BY <1>5, <3>1 DEF InsertHold, IInv, TypeOK
    <3>3. req' \in [Requests -> RequestState]
      BY <1>5 DEF InsertHold, IInv, TypeOK, RequestState
    <3> QED
      BY <1>5, <2>1, <3>2, <3>3 DEF InsertHold, IInv, TypeOK, reqRest
<1>6. CASE BookWithoutDeposit(r)
  <2>1. req[r].b \in Requests
    BY <1>6 DEF BookWithoutDeposit, IInv, ReqOK
  <2>2. bk' \in [Requests -> Booking]
    <3>1. [bk[req[r].b] EXCEPT !.status = "confirmed"] \in Booking
      <4>1. bk[req[r].b] \in Booking
        BY <2>1 DEF IInv, TypeOK
      <4> QED
        BY <4>1 DEF Booking, BookingStatus
    <3>2. bk' = bk \/ bk' = [bk EXCEPT ![req[r].b] = [bk[req[r].b] EXCEPT !.status = "confirmed"]]
      BY <1>6 DEF BookWithoutDeposit
    <3> QED
      BY <3>1, <3>2 DEF IInv, TypeOK
  <2>3. req' \in [Requests -> RequestState]
    BY <1>6 DEF BookWithoutDeposit, IInv, TypeOK, RequestState
  <2> QED
    BY <1>6, <2>1, <2>2, <2>3 DEF BookWithoutDeposit, IInv, TypeOK, reqRest
<1> QED
  BY <1>1, <1>2, <1>3, <1>4, <1>5, <1>6, <1>7 DEF RequestStep

\* Payment attempts keep the types.
LEMMA ProviderTypes ==
    ASSUME IInv, NEW p \in Requests, Attempt(p) PROVE TypeOK'
<1>1. events \subseteq events' /\ events' \subseteq Event
  <2>1. PICK outcome \in Outcomes, no \in 1..MaxAttempts :
            events' = events \cup {[page |-> p, no |-> no, paid |-> outcome # "refused",
                                    exact |-> outcome # "mispriced"]}
    BY DEF Attempt
  <2>2. [page |-> p, no |-> no, paid |-> outcome # "refused",
         exact |-> outcome # "mispriced"] \in Event
    BY DEF Event
  <2> QED
    BY <2>1, <2>2 DEF IInv, TypeOK
<1> QED
  BY <1>1 DEF Attempt, IInv, TypeOK, dbvars, timevars

\* What a delivery does to its own state and to the acknowledged events.
\* The reaction to a delivery keeps the types.
LEMMA ReactTypes ==
    ASSUME IInv, NEW h \in Handlers, NEW e \in events, NEW p \in Requests,
           pay[p].booking \in Requests, NEW status, React(h, e, p, status)
    PROVE  hook' \in [Handlers -> HandlerState] /\ acked' \subseteq events
BY DEF React, deposit_reaction, IInv, TypeOK, HandlerState, NoBooking, Booking, BookingStatus,
       BookingCancelledBy

\* settle_from_webhook keeps the types.
LEMMA WebhookTypes ==
    ASSUME IInv, NEW h \in Handlers, NEW e \in events, SettleFromWebhook(h, e)
    PROVE  TypeOK'
<1> USE DEF hookRest
<1>0. e.page \in Requests /\ e \in Event
  BY DEF IInv, TypeOK, Event
<1>1. CASE SettleAgain(h, e)
  <2>1. PICK p \in Requests : pay[p].txn = e /\ React(h, e, p, pay[p].status)
    BY <1>1 DEF SettleAgain
  <2>2. CASE pay[p].booking \in Requests
    BY <1>1, <2>1, <2>2, ReactTypes DEF SettleAgain, IInv, TypeOK
  <2>3. CASE pay[p].booking \notin Requests
    BY <1>1, <2>1, <2>3 DEF SettleAgain, React, deposit_reaction, IInv, PayOK, TypeOK
  <2> QED
    BY <2>2, <2>3
<1>2. CASE SettleUnmatched(h, e)
  BY <1>2 DEF SettleUnmatched, IInv, TypeOK
<1>3. CASE RecordDecline(h, e)
  <2>1. pay[e.page].booking \in Requests
    BY <1>0, <1>3 DEF RecordDecline, IInv, PayOK
  <2> QED
    BY <1>0, <1>3, <2>1, ReactTypes DEF RecordDecline, IInv, TypeOK
<1>4. CASE RecordMismatch(h, e)
  BY <1>4 DEF RecordMismatch, IInv, TypeOK
<1>5. CASE Settle(h, e)
  <2>1. pay[e.page].booking \in Requests
    BY <1>0, <1>5 DEF Settle, IInv, PayOK
  <2>2. pay' \in [Requests -> Payment]
    <3>1. pay[e.page] \in Payment /\ "paid" \in PaymentStatus
      BY <1>0 DEF IInv, TypeOK, PaymentStatus
    <3> QED
      BY <1>0, <1>5, <3>1, PaymentWrites DEF Settle, IInv, TypeOK
  <2> QED
    BY <1>0, <1>5, <2>1, <2>2, ReactTypes DEF Settle, IInv, TypeOK
<1>6. CASE ExplainMissed(h, e)
  <2>1. pay[e.page].booking \in Requests
    BY <1>0, <1>6 DEF ExplainMissed, IInv, PayOK
  <2> QED
    BY <1>0, <1>6, <2>1, ReactTypes DEF ExplainMissed, IInv, TypeOK
<1> QED
  BY <1>1, <1>2, <1>3, <1>4, <1>5, <1>6 DEF SettleFromWebhook

\* An idle delivery is a delivery.
LEMMA IdleType == Idle \in HandlerState
BY DEF Idle, HandlerState, NoBooking, Booking, BookingStatus, BookingCancelledBy

\* The reminder writes keep the types.
LEMMA UpsertType ==
    ASSUME IInv, NEW b \in Requests, NEW s PROVE upsert_reminder(b, s) \in ReminderStatus
BY DEF upsert_reminder, reminder_send_after, IInv, TypeOK, ReminderStatus

\* The webhook's later transactions keep the types.
LEMMA HandlerTypes ==
    ASSUME IInv, NEW h \in Handlers, HandlerStep(h) PROVE TypeOK'
<1> USE DEF hookRest
<1>0. hook[h].pc # "idle" /\ hook[h].ev \in events /\ hook[h].b \in Requests
      /\ hook[h] \in HandlerState
  BY DEF HandlerStep, Confirm, SettleLate, ReadBooking, Rebind, RebindRefused, AlertOwner,
         IInv, HookOK, TypeOK
<1>1. CASE Confirm(h)
  <2>1. bk' \in [Requests -> Booking]
    <3>1. [bk[hook[h].b] EXCEPT !.status = "confirmed"] \in Booking
      <4>1. bk[hook[h].b] \in Booking
        BY <1>0 DEF IInv, TypeOK
      <4> QED
        BY <4>1 DEF Booking, BookingStatus
    <3>2. bk' = bk \/ bk' = [bk EXCEPT ![hook[h].b] = [bk[hook[h].b] EXCEPT !.status = "confirmed"]]
      BY <1>1 DEF Confirm
    <3> QED
      BY <3>1, <3>2 DEF IInv, TypeOK
  <2>2. rem' \in [Requests -> ReminderStatus]
    BY <1>0, <1>1, UpsertType DEF Confirm, IInv, TypeOK
  <2> QED
    BY <1>0, <1>1, <2>1, <2>2, IdleType DEF Confirm, IInv, TypeOK
<1>2. CASE SettleLate(h)
  <2>1. hook[h].ev.page \in Requests /\ hook[h].ev \in Event
    BY <1>0 DEF IInv, TypeOK, Event
  <2>2. pay' \in [Requests -> Payment]
    <3>1. [pay[hook[h].ev.page] EXCEPT !.status = "paid", !.txn = hook[h].ev] \in Payment
      <4>1. pay[hook[h].ev.page] \in Payment /\ "paid" \in PaymentStatus
        BY <2>1 DEF IInv, TypeOK, PaymentStatus
      <4> QED
        BY <2>1, <4>1, PaymentWrites
    <3> QED
      BY <1>2, <2>1, <3>1 DEF SettleLate, IInv, TypeOK
  <2>3. hook' \in [Handlers -> HandlerState]
    BY <1>0, <1>2, IdleType DEF SettleLate, IInv, TypeOK, HandlerState
  <2> QED
    BY <1>0, <1>2, <2>2, <2>3 DEF SettleLate, IInv, TypeOK
<1>3. CASE ReadBooking(h)
  BY <1>0, <1>3 DEF ReadBooking, IInv, TypeOK, HandlerState
<1>4. CASE Rebind(h)
  <2>1. hook[h].snap.slot \in Slots
    BY <1>4 DEF Rebind, IInv, HookOK
  <2>2. bk' \in [Requests -> Booking]
    <3>1. ASSUME NEW seat \in RebindSeats(hook[h].snap)
          PROVE  [bk[hook[h].b] EXCEPT !.status = "confirmed", !.by = "nobody",
                                       !.seat = seat] \in Booking
      <4>1. bk[hook[h].b] \in Booking
        BY <1>0 DEF IInv, TypeOK
      <4>2. seat \in Nat /\ "confirmed" \in BookingStatus /\ "nobody" \in BookingCancelledBy
        BY <2>1, SeatIsNat DEF RebindSeats, BookingStatus, BookingCancelledBy
      <4> QED
        BY <2>1, <4>1, <4>2, BookingWrites
    <3>2. PICK seat \in RebindSeats(hook[h].snap) :
              bk' = [bk EXCEPT ![hook[h].b] = [bk[hook[h].b] EXCEPT !.status = "confirmed",
                                                 !.by = "nobody", !.seat = seat]]
      BY <1>4 DEF Rebind
    <3> QED
      BY <1>0, <3>1, <3>2 DEF IInv, TypeOK
  <2>3. rem' \in [Requests -> ReminderStatus]
    BY <1>0, <1>4, UpsertType DEF Rebind, IInv, TypeOK
  <2> QED
    BY <1>0, <1>4, <2>2, <2>3, IdleType DEF Rebind, IInv, TypeOK
<1>5. CASE RebindRefused(h)
  BY <1>0, <1>5 DEF RebindRefused, IInv, TypeOK, HandlerState
<1>6. CASE AlertOwner(h)
  BY <1>0, <1>6, IdleType DEF AlertOwner, IInv, TypeOK
<1> QED
  BY <1>1, <1>2, <1>3, <1>4, <1>5, <1>6 DEF HandlerStep

\* The sweeper keeps the types.
LEMMA SweepTypes == ASSUME IInv, Sweep PROVE TypeOK'
<1>1. ASSUME NEW b \in Requests PROVE bk'[b] \in Booking
  <2>1. bk[b] \in Booking
        /\ bk'[b] \in {bk[b], [bk[b] EXCEPT !.status = "cancelled", !.by = "expired"]}
    BY DEF Sweep, IInv, TypeOK
  <2> QED
    BY <2>1 DEF Booking, BookingStatus, BookingCancelledBy
<1>2. ASSUME NEW p \in Requests PROVE pay'[p] \in Payment
  <2>1. pay[p] \in Payment /\ pay'[p] \in {pay[p], [pay[p] EXCEPT !.status = "expired"]}
    BY DEF Sweep, IInv, TypeOK
  <2> QED
    BY <2>1 DEF Payment, PaymentStatus
<1>3. bk' \in [Requests -> Booking] /\ pay' \in [Requests -> Payment]
  BY <1>1, <1>2 DEF Sweep
<1> QED
  BY <1>3 DEF Sweep, IInv, TypeOK, timevars

\* The owner's and the customer's verbs keep the types.
LEMMA DeskTypes ==
    ASSUME IInv, NEW b \in Requests, DeskStep(b) \/ DrainReminder(b) PROVE TypeOK'
<1> USE DEF deskRest, timevars
<1>1. CASE DrainReminder(b)
  BY <1>1 DEF DrainReminder, IInv, TypeOK, ReminderStatus
<1>2. ASSUME NEW by \in {"customer", "owner"}, CancelBooking(b, by) PROVE TypeOK'
  <2>1. bk' \in [Requests -> Booking]
    <3>1. [bk[b] EXCEPT !.status = "cancelled", !.by = by] \in Booking
      <4>1. bk[b] \in Booking
        BY DEF IInv, TypeOK
      <4> QED
        BY <4>1 DEF Booking, BookingStatus, BookingCancelledBy
    <3> QED
      BY <1>2, <3>1 DEF CancelBooking, IInv, TypeOK
  <2> QED
    BY <1>2, <2>1 DEF CancelBooking, cancel_pending, IInv, TypeOK, ReminderStatus
<1>3. CASE MarkAttendance(b) \/ UndoAttendance(b)
  <2>1. PICK to \in {"confirmed", "no_show", "completed"} :
            bk' = [bk EXCEPT ![b] = [bk[b] EXCEPT !.status = to]]
    BY <1>3 DEF MarkAttendance, UndoAttendance
  <2>2. [bk[b] EXCEPT !.status = to] \in Booking
    <3>1. bk[b] \in Booking
      BY DEF IInv, TypeOK
    <3> QED
      BY <3>1 DEF Booking, BookingStatus
  <2> QED
    BY <1>3, <2>1, <2>2 DEF MarkAttendance, UndoAttendance, IInv, TypeOK
<1>4. ASSUME NEW s \in Slots, Reschedule(b, s) PROVE TypeOK'
  <2>1. bk' \in [Requests -> Booking]
    <3>1. ASSUME NEW seat \in LowestFree(s, active_seats_at(s))
          PROVE  [bk[b] EXCEPT !.status = "confirmed", !.by = "nobody", !.slot = s,
                               !.seat = seat] \in Booking
      <4>1. bk[b] \in Booking
        BY DEF IInv, TypeOK
      <4>2. seat \in Nat /\ "confirmed" \in BookingStatus /\ "nobody" \in BookingCancelledBy
        BY SeatIsNat DEF BookingStatus, BookingCancelledBy
      <4> QED
        BY <4>1, <4>2, BookingWrites
    <3>2. PICK seat \in LowestFree(s, active_seats_at(s)) :
              bk' = [bk EXCEPT ![b] = [bk[b] EXCEPT !.status = "confirmed", !.by = "nobody",
                                                    !.slot = s, !.seat = seat]]
      BY <1>4 DEF Reschedule
    <3> QED
      BY <3>1, <3>2 DEF IInv, TypeOK
  <2>2. rem' \in [Requests -> ReminderStatus]
    BY <1>4, UpsertType DEF Reschedule, IInv, TypeOK
  <2> QED
    BY <1>4, <2>1, <2>2 DEF Reschedule, IInv, TypeOK
<1>5. ASSUME NEW c \in Customers, RepointBooking(b, c) PROVE TypeOK'
  <2>1. bk[b] \in Booking
    BY DEF IInv, TypeOK
  <2>2. [bk[b] EXCEPT !.customer = c] \in Booking
    BY <2>1 DEF Booking
  <2> QED
    BY <1>5, <2>2 DEF RepointBooking, IInv, TypeOK
<1> QED
  BY <1>1, <1>2, <1>3, <1>4, <1>5 DEF DeskStep, CustomerCancel, OwnerCancel

\* The clock keeps the types.
LEMMA ClockTypes == ASSUME IInv, ClockStep PROVE TypeOK'
<1> USE DEF clockRest, timevars
<1>1. ASSUME NEW s \in Slots, SlotApproaches(s) PROVE TypeOK'
  <2>1. lead' \in [Slots -> {"far", "day", "near", "past"}]
    <3>1. PICK l \in {"far", "day", "near", "past"} : lead' = [lead EXCEPT ![s] = l]
      BY <1>1 DEF SlotApproaches
    <3> QED
      BY <3>1 DEF IInv, TypeOK
  <2> QED
    BY <1>1, <2>1 DEF SlotApproaches, IInv, TypeOK
<1>2. ASSUME NEW p \in Requests, HoldRunsOut(p) PROVE TypeOK'
  <2>1. [pay[p] EXCEPT !.due = TRUE] \in Payment
    <3>1. pay[p] \in Payment
      BY DEF IInv, TypeOK
    <3> QED
      BY <3>1 DEF Payment
  <2>2. pay' = [pay EXCEPT ![p] = [pay[p] EXCEPT !.due = TRUE]]
    BY <1>2 DEF HoldRunsOut
  <2> QED
    BY <1>2, <2>1, <2>2 DEF HoldRunsOut, IInv, TypeOK
<1>3. ASSUME NEW b \in Requests, BookingAges(b) PROVE TypeOK'
  BY <1>3 DEF BookingAges, IInv, TypeOK
<1> QED
  BY <1>1, <1>2, <1>3 DEF ClockStep

\* Crashes keep the types.
LEMMA CrashTypes == ASSUME IInv, Crash PROVE TypeOK'
<1> USE DEF dbvars, timevars
<1>1. ASSUME NEW r \in Requests, CrashRequest(r) PROVE TypeOK'
  BY <1>1 DEF CrashRequest, IInv, TypeOK, RequestState
<1>2. ASSUME NEW h \in Handlers, CrashHandler(h) PROVE TypeOK'
  BY <1>2, IdleType DEF CrashHandler, IInv, TypeOK
<1> QED
  BY <1>1, <1>2 DEF Crash

\* Every step keeps the types.
LEMMA NextTypes == ASSUME IInv, Next PROVE TypeOK'
BY RequestTypes, ProviderTypes, WebhookTypes, HandlerTypes, SweepTypes, DeskTypes, ClockTypes,
   CrashTypes DEF Next

-----------------------------------------------------------------------------
(* How a step may change the bookings table.                               *)

\* No row disappears, only an INSERT awaits payment, and the
\* request that inserts a row has left its start.
RowsStay ==
    \A b \in Requests :
        /\ bk[b].status # "absent" => bk'[b].status # "absent"
        /\ bk'[b].status = "pending_payment" => bk[b].status \in {"absent", "pending_payment"}
        /\ bk[b].status = "absent" => bk'[b].status = "absent" \/ req'[b].pc # "start"

\* No seat is given out.
Quiet ==
    \A b \in Requests :
        Occupies(b)' => /\ Occupies(b)
                        /\ bk'[b].slot = bk[b].slot
                        /\ bk'[b].seat = bk[b].seat
                        /\ bk'[b].customer = bk[b].customer

\* Booking b takes a seat that no other live booking has, at an instant at
\* which its customer has no other live booking.
Takes(b) ==
    /\ \A x \in Requests \ {b} : bk'[x] = bk[x]
    /\ \A x \in Requests \ {b} :
          Occupies(x) /\ bk[x].slot = bk'[b].slot
              => bk[x].seat # bk'[b].seat /\ bk[x].customer # bk'[b].customer
    /\ Occupies(b)'
    /\ bk'[b].seat \in Nat \ {0}
    /\ bk[b].status # "absent" => bk'[b].customer = bk[b].customer

\* Booking b keeps its seat and goes to a customer with no live booking there.
Repoints(b) ==
    /\ \A x \in Requests \ {b} : bk'[x] = bk[x]
    /\ Occupies(b)
    /\ bk'[b].status = bk[b].status
    /\ bk'[b].slot = bk[b].slot
    /\ bk'[b].seat = bk[b].seat
    /\ \A x \in Requests \ {b} :
          Occupies(x) /\ bk[x].slot = bk[b].slot => bk[x].customer # bk'[b].customer

\* One step gives out at most one seat, or hands one over.
SeatStep == Quiet \/ \E b \in Requests : Takes(b) \/ Repoints(b)

\* The steps that do not write the table.
LEMMA SameRows == ASSUME IInv, bk' = bk PROVE RowsOK' /\ RowsStay /\ SeatStep
BY DEF IInv, RowsOK, RowsStay, SeatStep, Quiet, Occupies

\* The writers that change the status, and at most the cancel evidence.
LEMMA StatusWrite ==
    ASSUME IInv, NEW b \in Requests, NEW row,
           bk' = [bk EXCEPT ![b] = row],
           row.customer = bk[b].customer, row.slot = bk[b].slot, row.seat = bk[b].seat,
           \/ row.status = "cancelled" /\ bk[b].status # "absent"
           \/ row.status \in {"confirmed", "no_show", "completed"} /\ Occupies(b)
    PROVE  RowsOK' /\ RowsStay /\ SeatStep
<1>1. bk'[b] = row /\ \A x \in Requests \ {b} : bk'[x] = bk[x]
  BY DEF IInv, TypeOK
<1>2. bk[b].status # "absent"
  BY DEF Occupies
<1> QED
  BY <1>1, <1>2 DEF IInv, RowsOK, RowsStay, SeatStep, Quiet, Occupies

\* The writers that give out a seat.
LEMMA SeatWrite ==
    ASSUME IInv, NEW b \in Requests,
           \A x \in Requests \ {b} : bk'[x] = bk[x],
           bk'[b].status \in {"pending_payment", "confirmed"},
           bk'[b].slot \in Slots, bk'[b].seat \in Nat \ {0}, bk'[b].customer \in Customers,
           bk[b].status # "absent"
              => bk'[b].status = "confirmed" /\ bk'[b].customer = bk[b].customer,
           bk[b].status = "absent" => req'[b].pc # "start",
           \A x \in Requests \ {b} :
              Live(x) /\ bk[x].slot = bk'[b].slot
                 => bk[x].seat # bk'[b].seat /\ bk[x].customer # bk'[b].customer
    PROVE  RowsOK' /\ RowsStay /\ SeatStep
<1>2. Takes(b)
  BY DEF Takes, Occupies, Live
<1>3. RowsOK' /\ RowsStay
  BY DEF IInv, RowsOK, RowsStay
<1> QED
  BY <1>2, <1>3 DEF SeatStep

\* What a request does to the table.
LEMMA RequestRows ==
    ASSUME IInv, NEW r \in Requests, RequestStep(r) PROVE RowsOK' /\ RowsStay /\ SeatStep
<1>1. ASSUME NEW s \in Slots, ClaimSeat(r, s) PROVE RowsOK' /\ RowsStay /\ SeatStep
  <2>1. PICK due \in BOOLEAN, seat \in LowestFree(s, active_seats_at(s)) :
            bk' = [bk EXCEPT ![r] = [status |-> IF due THEN "pending_payment" ELSE "confirmed",
                                     customer |-> Who[r], slot |-> s, seat |-> seat,
                                     by |-> "nobody"]]
    BY <1>1 DEF ClaimSeat
  <2>2. bk[r].status = "absent"
    BY <1>1 DEF ClaimSeat, IInv, StartOK
  <2>3. seat \in Nat \ {0}
    BY SeatIsNat
  <2>4. ASSUME NEW x \in Requests, Live(x), bk[x].slot = s
        PROVE  bk[x].seat # seat /\ bk[x].customer # Who[r]
    BY <1>1, <2>4 DEF ClaimSeat, LowestFree, FreeSeats, active_seats_at, active_at
  <2>5. /\ \A x \in Requests \ {r} : bk'[x] = bk[x]
        /\ bk'[r].status \in {"pending_payment", "confirmed"}
        /\ bk'[r].slot = s /\ bk'[r].seat = seat /\ bk'[r].customer = Who[r]
    BY <2>1 DEF IInv, TypeOK
  <2>6. req'[r].pc # "start"
    BY <1>1 DEF ClaimSeat, IInv, TypeOK
  <2> QED
    BY <2>2, <2>3, <2>4, <2>5, <2>6, SeatWrite
<1>2. CASE BookWithoutDeposit(r)
  <2>1. req[r].b \in Requests
    BY <1>2 DEF BookWithoutDeposit, IInv, ReqOK
  <2>2. CASE bk[req[r].b].status = "pending_payment"
    <3>1. bk' = [bk EXCEPT ![req[r].b] = [bk[req[r].b] EXCEPT !.status = "confirmed"]]
      BY <1>2, <2>2 DEF BookWithoutDeposit
    <3>2. bk[req[r].b] \in Booking
      BY <2>1 DEF IInv, TypeOK
    <3> QED
      BY <2>1, <2>2, <3>1, <3>2, StatusWrite DEF Booking, Occupies
  <2>3. CASE bk[req[r].b].status # "pending_payment"
    BY <1>2, <2>3, SameRows DEF BookWithoutDeposit
  <2> QED
    BY <2>2, <2>3
<1>3. CASE \/ RefuseBooking(r) \/ NoDepositDue(r) \/ ConvergeOnHold(r)
           \/ GatewayUnavailable(r) \/ MintSession(r) \/ InsertHold(r)
           \/ \E s \in Slots : ReplayBooking(r, s)
  BY <1>3, SameRows DEF RefuseBooking, NoDepositDue, ConvergeOnHold, GatewayUnavailable,
                        MintSession, InsertHold, ReplayBooking, dbvars
<1> QED
  BY <1>1, <1>2, <1>3 DEF RequestStep

\* What a delivery does to the table, the rebind from a stale read included.
LEMMA HandlerRows ==
    ASSUME IInv, NEW h \in Handlers, HandlerStep(h) PROVE RowsOK' /\ RowsStay /\ SeatStep
<1> DEFINE b == hook[h].b
<1>0. hook[h].pc # "idle" /\ b \in Requests /\ bk[b].status # "absent" /\ bk[b] \in Booking
  BY DEF HandlerStep, Confirm, SettleLate, ReadBooking, Rebind, RebindRefused, AlertOwner,
         IInv, HookOK, TypeOK
<1>1. CASE Confirm(h)
  <2>1. CASE bk[b].status = "pending_payment"
    <3>1. bk' = [bk EXCEPT ![b] = [bk[b] EXCEPT !.status = "confirmed"]]
      BY <1>1, <2>1 DEF Confirm
    <3> QED
      BY <1>0, <2>1, <3>1, StatusWrite DEF Booking, Occupies
  <2>2. CASE bk[b].status # "pending_payment"
    BY <1>1, <2>2, SameRows DEF Confirm
  <2> QED
    BY <2>1, <2>2
<1>2. CASE Rebind(h)
  <2>1. PICK seat \in RebindSeats(hook[h].snap) :
            /\ ~IndexConflict(b, bk[b].slot, seat)
            /\ bk' = [bk EXCEPT ![b] = [bk[b] EXCEPT !.status = "confirmed", !.by = "nobody",
                                                     !.seat = seat]]
    BY <1>2 DEF Rebind
  <2>2. seat \in Nat \ {0}
    BY <1>2, SeatIsNat DEF Rebind, RebindSeats, IInv, HookOK
  <2>3. bk[b].slot \in Slots /\ bk[b].customer \in Customers
    BY <1>0 DEF IInv, RowsOK
  <2>4. \A x \in Requests \ {b} :
            Live(x) /\ bk[x].slot = bk[b].slot
               => bk[x].seat # seat /\ bk[x].customer # bk[b].customer
    BY <2>1 DEF IndexConflict
  <2>5. /\ \A x \in Requests \ {b} : bk'[x] = bk[x]
        /\ bk'[b].status = "confirmed"
        /\ bk'[b].slot = bk[b].slot
        /\ bk'[b].seat = seat
        /\ bk'[b].customer = bk[b].customer
    BY <1>0, <2>1 DEF IInv, TypeOK, Booking
  <2> QED
    BY <1>0, <2>2, <2>3, <2>4, <2>5, SeatWrite
<1>3. CASE SettleLate(h) \/ ReadBooking(h) \/ RebindRefused(h) \/ AlertOwner(h)
  BY <1>3, SameRows DEF SettleLate, ReadBooking, RebindRefused, AlertOwner
<1> QED
  BY <1>1, <1>2, <1>3 DEF HandlerStep

\* What the desk and the reminder worker do to the table.
LEMMA DeskRows ==
    ASSUME IInv, NEW b \in Requests, DeskStep(b) \/ DrainReminder(b)
    PROVE  RowsOK' /\ RowsStay /\ SeatStep
<1>0. bk[b] \in Booking
  BY DEF IInv, TypeOK
<1>1. ASSUME NEW by, CancelBooking(b, by) PROVE RowsOK' /\ RowsStay /\ SeatStep
  <2>1. bk' = [bk EXCEPT ![b] = [bk[b] EXCEPT !.status = "cancelled", !.by = by]]
        /\ bk[b].status = "confirmed"
    BY <1>1 DEF CancelBooking
  <2> QED
    BY <1>0, <2>1, StatusWrite DEF Booking
<1>2. CASE MarkAttendance(b) \/ UndoAttendance(b)
  <2>1. PICK to \in {"confirmed", "no_show", "completed"} :
            /\ bk' = [bk EXCEPT ![b] = [bk[b] EXCEPT !.status = to]]
            /\ bk[b].status \in {"confirmed", "no_show", "completed"}
    BY <1>2 DEF MarkAttendance, UndoAttendance
  <2> QED
    BY <1>0, <2>1, StatusWrite DEF Booking, Occupies
<1>3. ASSUME NEW s \in Slots, Reschedule(b, s) PROVE RowsOK' /\ RowsStay /\ SeatStep
  <2>1. PICK seat \in LowestFree(s, active_seats_at(s)) :
            bk' = [bk EXCEPT ![b] = [bk[b] EXCEPT !.status = "confirmed", !.by = "nobody",
                                                  !.slot = s, !.seat = seat]]
    BY <1>3 DEF Reschedule
  <2>2. bk[b].status # "absent" /\ bk[b].customer \in Customers
    BY <1>3 DEF Reschedule, CanRestore, IInv, RowsOK
  <2>3. seat \in Nat \ {0}
    BY SeatIsNat
  <2>4. ASSUME NEW x \in Requests, Live(x), bk[x].slot = s
        PROVE  bk[x].seat # seat /\ bk[x].customer # bk[b].customer
    BY <1>3, <2>4 DEF Reschedule, LowestFree, FreeSeats, active_seats_at, active_at
  <2>5. /\ \A x \in Requests \ {b} : bk'[x] = bk[x]
        /\ bk'[b].status = "confirmed"
        /\ bk'[b].slot = s
        /\ bk'[b].seat = seat
        /\ bk'[b].customer = bk[b].customer
    BY <1>0, <2>1 DEF IInv, TypeOK, Booking
  <2> QED
    BY <2>2, <2>3, <2>4, <2>5, SeatWrite
<1>4. CASE DrainReminder(b)
  BY <1>4, SameRows DEF DrainReminder
<1>5. ASSUME NEW c \in Customers, RepointBooking(b, c) PROVE RowsOK' /\ RowsStay /\ SeatStep
  <2>1. /\ \A x \in Requests \ {b} : bk'[x] = bk[x]
        /\ bk'[b].status = "confirmed"
        /\ bk'[b].slot = bk[b].slot
        /\ bk'[b].seat = bk[b].seat
        /\ bk'[b].customer = c
        /\ bk[b].status = "confirmed"
    BY <1>0, <1>5 DEF RepointBooking, IInv, TypeOK, Booking
  <2>2. \A x \in Requests : Live(x) /\ bk[x].slot = bk[b].slot => bk[x].customer # c
    BY <1>5 DEF RepointBooking, active_at
  <2>3. Repoints(b)
    BY <2>1, <2>2 DEF Repoints, Occupies, Live
  <2>4. RowsOK' /\ RowsStay
    BY <2>1 DEF IInv, RowsOK, RowsStay
  <2> QED
    BY <2>3, <2>4 DEF SeatStep
<1> QED
  BY <1>1, <1>2, <1>3, <1>4, <1>5 DEF DeskStep, CustomerCancel, OwnerCancel

\* The sweeper only releases.
LEMMA SweepRows == ASSUME IInv, Sweep PROVE RowsOK' /\ RowsStay /\ SeatStep
<1>1. ASSUME NEW b \in Requests
      PROVE  /\ bk'[b].customer = bk[b].customer
             /\ bk'[b].slot = bk[b].slot
             /\ bk'[b].seat = bk[b].seat
             /\ \/ bk'[b].status = bk[b].status
                \/ bk'[b].status = "cancelled" /\ bk[b].status = "pending_payment"
  <2>1. bk[b] \in Booking
    BY DEF IInv, TypeOK
  <2>2. \/ bk'[b] = bk[b]
        \/ /\ bk'[b] = [bk[b] EXCEPT !.status = "cancelled", !.by = "expired"]
           /\ bk[b].status = "pending_payment"
    BY DEF Sweep, ReleasedBookings, OrphanedBookings
  <2> QED
    BY <2>1, <2>2 DEF Booking
<1> QED
  BY <1>1 DEF IInv, RowsOK, RowsStay, SeatStep, Quiet, Occupies

\* What any step does to the table.
LEMMA NextRows == ASSUME IInv, Next PROVE RowsOK' /\ RowsStay /\ SeatStep
<1>1. ASSUME NEW p \in Requests, Attempt(p) PROVE RowsOK' /\ RowsStay /\ SeatStep
  BY <1>1, SameRows DEF Attempt, dbvars
<1>2. ASSUME NEW h \in Handlers, NEW e \in events, SettleFromWebhook(h, e)
      PROVE  RowsOK' /\ RowsStay /\ SeatStep
  BY <1>2, SameRows DEF SettleFromWebhook, SettleAgain, SettleUnmatched, RecordDecline,
                        RecordMismatch, Settle, ExplainMissed
<1>3. CASE ClockStep \/ Crash
  BY <1>3, SameRows DEF ClockStep, SlotApproaches, HoldRunsOut, BookingAges, Crash,
                        CrashRequest, CrashHandler, clockRest, dbvars
<1> QED
  BY <1>1, <1>2, <1>3, RequestRows, HandlerRows, DeskRows, SweepRows DEF Next

-----------------------------------------------------------------------------
(* The other tables keep pointing at existing rows.                        *)

\* A request that can still open a page could before.
Active == {"start", "claimed", "minted", "compensate"}
ReqStep == \A r \in Requests : req'[r].pc \in Active => req[r].pc \in Active

\* No request goes back to its start, and what a request works on exists.
LEMMA NextRequests == ASSUME IInv, Next PROVE StartOK' /\ ReqOK' /\ ReqStep
<1>0. RowsStay /\ TypeOK
  BY NextRows DEF IInv
<1> DEFINE Goal ==
      \A r \in Requests :
        /\ req'[r].pc = "start" => req[r].pc = "start"
        /\ req'[r].pc \in Active => req[r].pc \in Active
        /\ req'[r].pc \in {"claimed", "minted", "compensate"} =>
              req'[r].b \in Requests /\ bk'[req'[r].b].status # "absent"
<1>1. Goal
  <2>1. CASE req' = req
    BY <1>0, <2>1 DEF RowsStay, IInv, ReqOK
  <2>2. ASSUME NEW r \in Requests, NEW pc,
               req' = [req EXCEPT ![r].pc = pc],
               \/ pc \in {"done", "dead"}
               \/ /\ pc \in {"minted", "compensate"}
                  /\ req[r].pc \in {"claimed", "minted"}
        PROVE  Goal
    <3>1. req[r] \in RequestState
      BY <1>0 DEF TypeOK
    <3>2. req'[r].pc = pc /\ req'[r].b = req[r].b /\ \A x \in Requests \ {r} : req'[x] = req[x]
      BY <1>0, <2>2, <3>1 DEF TypeOK, RequestState
    <3> QED
      BY <1>0, <2>2, <3>2 DEF RowsStay, IInv, ReqOK, Active
  <2>3. ASSUME NEW r \in Requests, RequestStep(r) PROVE Goal
    <3>1. CASE RefuseBooking(r) \/ NoDepositDue(r) \/ ConvergeOnHold(r) \/ InsertHold(r)
               \/ BookWithoutDeposit(r)
      BY <2>2, <3>1 DEF RefuseBooking, NoDepositDue, ConvergeOnHold, InsertHold,
                        BookWithoutDeposit
    <3>2. CASE MintSession(r) \/ GatewayUnavailable(r)
      BY <2>2, <3>2 DEF MintSession, GatewayUnavailable
    <3>3. ASSUME NEW s \in Slots, ReplayBooking(r, s) PROVE Goal
      <4>1. PICK b \in active_at(Who[r], s), due \in BOOLEAN :
                req' = [req EXCEPT ![r] = [pc |-> "claimed", b |-> b,
                                           status |-> bk[b].status, due |-> due]]
        BY <3>3 DEF ReplayBooking
      <4>2. b \in Requests /\ bk[b].status # "absent"
        BY DEF active_at, Live
      <4>3. req'[r].pc = "claimed" /\ req'[r].b = b /\ \A x \in Requests \ {r} : req'[x] = req[x]
        BY <1>0, <4>1 DEF TypeOK
      <4>4. req[r].pc = "start"
        BY <3>3 DEF ReplayBooking
      <4> QED
        BY <1>0, <4>2, <4>3, <4>4 DEF RowsStay, IInv, ReqOK, Active
    <3>4. ASSUME NEW s \in Slots, ClaimSeat(r, s) PROVE Goal
      <4>1. req'[r].pc = "claimed" /\ req'[r].b = r /\ \A x \in Requests \ {r} : req'[x] = req[x]
        BY <1>0, <3>4 DEF ClaimSeat, TypeOK
      <4>2. bk'[r].status # "absent"
        BY <1>0, <3>4 DEF ClaimSeat, TypeOK
      <4>3. req[r].pc = "start"
        BY <3>4 DEF ClaimSeat
      <4> QED
        BY <1>0, <4>1, <4>2, <4>3 DEF RowsStay, IInv, ReqOK, Active
    <3> QED
      BY <2>3, <3>1, <3>2, <3>3, <3>4 DEF RequestStep
  <2>4. CASE Crash
    BY <2>1, <2>2, <2>4 DEF Crash, CrashRequest, CrashHandler
  <2>5. ASSUME NEW r \in Requests, Attempt(r) \/ DrainReminder(r) \/ DeskStep(r) PROVE req' = req
    BY <2>5 DEF Attempt, DrainReminder, DeskStep, CustomerCancel, OwnerCancel, CancelBooking,
                MarkAttendance, UndoAttendance, Reschedule, RepointBooking,
              deskRest
  <2>6. ASSUME NEW h \in Handlers, HandlerStep(h) PROVE req' = req
    BY <2>6 DEF HandlerStep, Confirm, SettleLate, ReadBooking, Rebind, RebindRefused,
                AlertOwner, hookRest
  <2>7. ASSUME NEW h \in Handlers, NEW e \in events, SettleFromWebhook(h, e) PROVE req' = req
    BY <2>7 DEF SettleFromWebhook, SettleAgain, SettleUnmatched, RecordDecline,
                RecordMismatch, Settle, ExplainMissed, hookRest
  <2>8. CASE Sweep \/ ClockStep
    BY <2>1, <2>8 DEF Sweep, ClockStep, SlotApproaches, HoldRunsOut, BookingAges, clockRest
  <2> QED
    BY <2>1, <2>3, <2>4, <2>5, <2>6, <2>7, <2>8 DEF Next
<1> QED
  BY <1>0, <1>1 DEF RowsStay, StartOK, ReqOK, IInv, ReqStep

-----------------------------------------------------------------------------
(* How a step may change the payments table.                               *)

Opened(p) ==
    /\ req[p].pc = "minted"
    /\ req'[p].pc = "done"
    /\ lock' = NONE
    /\ pay[p].status = "absent"
    /\ pay'[p].status = "pending"
    /\ pay'[p].booking = req[p].b
    /\ pay'[p].txn = NONE

\* The hold runs out, is settled or expires; it never becomes pending again and
\* a paid row is not touched.
Advanced(p) ==
    /\ pay[p].status \in {"pending", "expired"}
    /\ pay'[p].status \in {"pending", "paid", "expired"}
    /\ pay'[p].status = "pending" => pay[p].status = "pending"
    /\ pay'[p].status = "expired" =>
          pay[p].status = "expired" \/ bk'[pay[p].booking].status # "pending_payment"
    /\ pay'[p].booking = pay[p].booking
    /\ IF pay'[p].status = "paid"
       THEN pay'[p].txn \in events /\ pay'[p].txn.page = p
       ELSE pay'[p].txn = pay[p].txn

PayStep == \A p \in Requests : pay'[p] = pay[p] \/ Opened(p) \/ Advanced(p)

\* open_deposit's INSERT opens one row.
LEMMA InsertPays == ASSUME IInv, NEW r \in Requests, InsertHold(r) PROVE PayStep
<1>1. pay'[r].status = "pending" /\ pay'[r].booking = req[r].b /\ pay'[r].txn = NONE
      /\ \A x \in Requests \ {r} : pay'[x] = pay[x]
  BY DEF InsertHold, IInv, TypeOK
<1>2. pay[r].status = "absent"
  BY DEF InsertHold, IInv, FreshOK
<1>3. req[r].pc = "minted" /\ req'[r].pc = "done" /\ lock' = NONE
  BY DEF InsertHold, IInv, TypeOK, RequestState
<1> QED
  BY <1>1, <1>2, <1>3 DEF PayStep, Opened

\* settle and settle_late, as the write they both are.
LEMMA SettlePays ==
    ASSUME IInv, NEW p \in Requests, pay[p].status \in {"pending", "expired"},
           pay'[p].status = "paid", pay'[p].booking = pay[p].booking,
           pay'[p].txn \in events, pay'[p].txn.page = p,
           \A x \in Requests \ {p} : pay'[x] = pay[x]
    PROVE  PayStep
BY DEF PayStep, Advanced

\* The sweeper only expires pending rows, and releases their bookings.
LEMMA SweepPays == ASSUME IInv, Sweep PROVE PayStep
<1> SUFFICES ASSUME NEW p \in Requests PROVE pay'[p] = pay[p] \/ Advanced(p)
  BY DEF PayStep
<1>1. CASE p \in ExpiredHolds
  <2>1. pay[p] \in Payment /\ pay[p].status = "pending"
        /\ pay'[p] = [pay[p] EXCEPT !.status = "expired"]
    BY <1>1 DEF Sweep, ExpiredHolds, IInv, TypeOK
  <2>2. /\ pay'[p].status = "expired" /\ pay'[p].booking = pay[p].booking
        /\ pay'[p].txn = pay[p].txn
    BY <2>1 DEF Payment
  <2>3. pay[p].booking \in Requests
    BY <2>1 DEF IInv, PayOK
  <2>4. bk'[pay[p].booking].status # "pending_payment"
    <3>1. bk[pay[p].booking] \in Booking
      BY <2>3 DEF IInv, TypeOK
    <3>2. CASE bk[pay[p].booking].status = "pending_payment"
      <4>1. pay[p].booking \in ReleasedBookings
        BY <1>1, <2>3, <3>2 DEF ReleasedBookings
      <4>2. bk'[pay[p].booking]
                = [bk[pay[p].booking] EXCEPT !.status = "cancelled", !.by = "expired"]
        BY <2>3, <4>1 DEF Sweep
      <4> QED
        BY <3>1, <4>2 DEF Booking
    <3>3. CASE bk[pay[p].booking].status # "pending_payment"
      BY <2>1, <2>3, <3>3, SweepRows DEF RowsStay, IInv, PayOK
    <3> QED
      BY <3>2, <3>3
  <2> QED
    BY <2>1, <2>2, <2>4 DEF Advanced
<1>2. CASE p \notin ExpiredHolds
  BY <1>2 DEF Sweep
<1> QED
  BY <1>1, <1>2

\* What any step does to the table.
LEMMA NextPays == ASSUME IInv, Next PROVE PayStep
<1>0. ASSUME pay' = pay PROVE PayStep
  BY <1>0 DEF PayStep
<1>1. ASSUME NEW r \in Requests, RequestStep(r) PROVE PayStep
  <2>1. CASE InsertHold(r)
    BY <2>1, InsertPays
  <2>2. CASE ~InsertHold(r)
    BY <1>0, <1>1, <2>2
       DEF RequestStep, RefuseBooking, ReplayBooking, ClaimSeat, NoDepositDue, ConvergeOnHold,
           MintSession, GatewayUnavailable, BookWithoutDeposit, dbvars
  <2> QED
    BY <2>1, <2>2
<1>2. ASSUME NEW r \in Requests, Attempt(r) \/ DrainReminder(r) \/ DeskStep(r) PROVE PayStep
  BY <1>0, <1>2 DEF Attempt, DrainReminder, DeskStep, CustomerCancel, OwnerCancel,
                    CancelBooking, MarkAttendance, UndoAttendance, Reschedule, RepointBooking,
              deskRest, dbvars
<1>3. ASSUME NEW h \in Handlers, HandlerStep(h) PROVE PayStep
  <2>1. CASE SettleLate(h)
    <3>1. hook[h].ev.page \in Requests
      BY <2>1 DEF SettleLate, IInv, HookOK, TypeOK, Event
    <3>2. CASE pay[hook[h].ev.page].status = "expired"
      <4>1. pay' = [pay EXCEPT ![hook[h].ev.page] =
                      [pay[hook[h].ev.page] EXCEPT !.status = "paid", !.txn = hook[h].ev]]
        BY <2>1, <3>2 DEF SettleLate
      <4>2. pay[hook[h].ev.page] \in Payment
        BY <3>1 DEF IInv, TypeOK
      <4>3. /\ pay'[hook[h].ev.page].status = "paid"
            /\ pay'[hook[h].ev.page].booking = pay[hook[h].ev.page].booking
            /\ pay'[hook[h].ev.page].txn = hook[h].ev
            /\ \A x \in Requests \ {hook[h].ev.page} : pay'[x] = pay[x]
        BY <3>1, <4>1, <4>2 DEF IInv, TypeOK, Payment
      <4>4. hook[h].ev \in events
        BY <2>1 DEF SettleLate, IInv, HookOK
      <4> QED
        BY <3>1, <3>2, <4>3, <4>4, SettlePays
    <3>3. CASE pay[hook[h].ev.page].status # "expired"
      BY <1>0, <2>1, <3>3 DEF SettleLate
    <3> QED
      BY <3>2, <3>3
  <2>2. CASE Confirm(h) \/ ReadBooking(h) \/ Rebind(h) \/ RebindRefused(h) \/ AlertOwner(h)
    BY <1>0, <2>2 DEF Confirm, ReadBooking, Rebind, RebindRefused, AlertOwner
  <2> QED
    BY <1>3, <2>1, <2>2 DEF HandlerStep
<1>4. ASSUME NEW h \in Handlers, NEW e \in events, SettleFromWebhook(h, e) PROVE PayStep
  <2>1. CASE Settle(h, e)
    <3>1. e.page \in Requests
      BY DEF IInv, TypeOK, Event
    <3>2. pay[e.page].status = "pending"
          /\ pay' = [pay EXCEPT ![e.page] = [pay[e.page] EXCEPT !.status = "paid", !.txn = e]]
      BY <2>1 DEF Settle
    <3>3. pay[e.page] \in Payment
      BY <3>1 DEF IInv, TypeOK
    <3>4. /\ pay'[e.page].status = "paid"
          /\ pay'[e.page].booking = pay[e.page].booking
          /\ pay'[e.page].txn = e
          /\ \A x \in Requests \ {e.page} : pay'[x] = pay[x]
      BY <3>1, <3>2, <3>3 DEF IInv, TypeOK, Payment
    <3> QED
      BY <3>1, <3>2, <3>4, SettlePays
  <2>2. CASE ~Settle(h, e)
    BY <1>0, <1>4, <2>2 DEF SettleFromWebhook, SettleAgain, SettleUnmatched, RecordDecline,
                            RecordMismatch, ExplainMissed
  <2> QED
    BY <2>1, <2>2
<1>5. CASE ClockStep
  <2>1. ASSUME NEW p \in Requests, HoldRunsOut(p) PROVE PayStep
    <3>1. pay[p] \in Payment
      BY DEF IInv, TypeOK
    <3>2. pay'[p].status = "pending" /\ pay'[p].booking = pay[p].booking
          /\ pay'[p].txn = pay[p].txn /\ \A x \in Requests \ {p} : pay'[x] = pay[x]
      BY <2>1, <3>1 DEF HoldRunsOut, IInv, TypeOK, Payment
    <3> QED
      BY <2>1, <3>2 DEF HoldRunsOut, PayStep, Advanced
  <2> QED
    BY <1>0, <1>5, <2>1 DEF ClockStep, SlotApproaches, BookingAges
<1>6. CASE Crash
  BY <1>0, <1>6 DEF Crash, CrashRequest, CrashHandler, dbvars
<1> QED
  BY <1>1, <1>2, <1>3, <1>4, <1>5, <1>6, SweepPays DEF Next

\* A hold's booking exists, and a request that can still open a page has none.
LEMMA NextPayments == ASSUME IInv, Next PROVE PayOK' /\ FreshOK'
<1>1. PayStep /\ RowsStay /\ ReqStep
  BY NextPays, NextRows, NextRequests
<1>2. PayOK'
  <2> SUFFICES ASSUME NEW p \in Requests, pay'[p].status # "absent"
               PROVE  pay'[p].booking \in Requests /\ bk'[pay'[p].booking].status # "absent"
    BY DEF PayOK
  <2>1. CASE Opened(p)
    BY <1>1, <2>1 DEF Opened, RowsStay, IInv, ReqOK
  <2>2. CASE pay'[p] = pay[p] \/ Advanced(p)
    BY <1>1, <2>2 DEF Advanced, RowsStay, IInv, PayOK
  <2> QED
    BY <1>1, <2>1, <2>2 DEF PayStep
<1>3. FreshOK'
  BY <1>1 DEF PayStep, Opened, Advanced, ReqStep, Active, FreshOK, IInv
<1> QED
  BY <1>2, <1>3

-----------------------------------------------------------------------------
(* Webhook deliveries.                                                     *)

\* The delivery is left alone, ends, or works on an event and a booking that
\* exist; at the rebind it has just read that booking.
HandlerOK(h) ==
    /\ hook'[h].pc # "idle" => /\ hook'[h].ev \in events
                               /\ hook'[h].b \in Requests
                               /\ bk[hook'[h].b].status # "absent"
    /\ hook'[h].pc = "rebind" => hook'[h].snap.slot \in Slots

\* Deliveries keep carrying events and existing bookings.
LEMMA NextHandlers == ASSUME IInv, Next PROVE HookOK'
<1>1. RowsStay /\ events \subseteq events'
  <2>1. ASSUME NEW r \in Requests, RequestStep(r) PROVE events' = events
    BY <2>1 DEF RequestStep, RefuseBooking, ReplayBooking, ClaimSeat, NoDepositDue,
                ConvergeOnHold, MintSession, InsertHold, GatewayUnavailable,
                BookWithoutDeposit, reqRest
  <2>2. ASSUME NEW r \in Requests, Attempt(r) \/ DrainReminder(r) \/ DeskStep(r)
        PROVE  events \subseteq events'
    BY <2>2 DEF Attempt, DrainReminder, DeskStep, CustomerCancel, OwnerCancel, CancelBooking,
                MarkAttendance, UndoAttendance, Reschedule, RepointBooking, deskRest
  <2>3. ASSUME NEW g \in Handlers, HandlerStep(g) PROVE events' = events
    BY <2>3 DEF HandlerStep, Confirm, SettleLate, ReadBooking, Rebind, RebindRefused,
                AlertOwner, hookRest
  <2>4. ASSUME NEW g \in Handlers, NEW e \in events, SettleFromWebhook(g, e)
        PROVE  events' = events
    BY <2>4 DEF SettleFromWebhook, SettleAgain, SettleUnmatched, RecordDecline,
                RecordMismatch, Settle, ExplainMissed, hookRest
  <2>5. ASSUME Sweep \/ ClockStep \/ Crash PROVE events' = events
    BY <2>5 DEF Sweep, ClockStep, SlotApproaches, HoldRunsOut, BookingAges, clockRest, Crash,
                CrashRequest, CrashHandler
  <2> QED
    <3>1. RowsStay
      BY NextRows
    <3> QED
      BY <2>1, <2>2, <2>3, <2>4, <2>5, <3>1 DEF Next
<1>2. SUFFICES ASSUME NEW h \in Handlers PROVE HandlerOK(h)
  BY <1>1 DEF HookOK, HandlerOK, RowsStay
<1>3. CASE hook' = hook
  BY <1>3 DEF HandlerOK, IInv, HookOK
<1>4. ASSUME NEW g \in Handlers, HandlerStep(g) PROVE HandlerOK(h)
  <2>0. /\ hook[g] \in HandlerState /\ hook \in [Handlers -> HandlerState]
        /\ bk \in [Requests -> Booking]
    BY DEF IInv, TypeOK
  <2>1. CASE hook' = [hook EXCEPT ![g] = Idle]
    BY <2>0, <2>1 DEF HandlerOK, IInv, HookOK, Idle
  <2>2. ASSUME NEW pc, hook' = [hook EXCEPT ![g].pc = pc], pc # "rebind", hook[g].pc # "idle"
        PROVE  HandlerOK(h)
    <3>1. /\ hook'[g].pc = pc /\ hook'[g].b = hook[g].b /\ hook'[g].ev = hook[g].ev
          /\ \A x \in Handlers \ {g} : hook'[x] = hook[x]
      BY <2>0, <2>2 DEF HandlerState
    <3> QED
      BY <2>2, <3>1 DEF HandlerOK, IInv, HookOK
  <2>3. CASE ReadBooking(g)
    <3>1. hook[g].b \in Requests /\ bk[hook[g].b].slot \in Slots
      BY <2>3 DEF ReadBooking, IInv, HookOK, RowsOK
    <3>2. /\ hook'[g].pc = "rebind" /\ hook'[g].b = hook[g].b /\ hook'[g].ev = hook[g].ev
          /\ hook'[g].snap = bk[hook[g].b]
          /\ \A x \in Handlers \ {g} : hook'[x] = hook[x]
      BY <2>0, <2>3 DEF ReadBooking, HandlerState
    <3> QED
      BY <2>3, <3>1, <3>2 DEF ReadBooking, HandlerOK, IInv, HookOK
  <2> QED
    BY <1>4, <2>1, <2>2, <2>3 DEF HandlerStep, Confirm, SettleLate, Rebind, RebindRefused,
                                  AlertOwner
<1>5. ASSUME NEW g \in Handlers, NEW e \in events, SettleFromWebhook(g, e) PROVE HandlerOK(h)
  <2>1. ASSUME NEW p \in Requests, pay[p].status # "absent", NEW status,
               React(g, e, p, status)
        PROVE  HandlerOK(h)
    <3>1. pay[p].booking \in Requests /\ bk[pay[p].booking].status # "absent"
      BY <2>1 DEF IInv, PayOK
    <3> QED
      BY <1>3, <2>1, <3>1 DEF React, deposit_reaction, HandlerOK, IInv, HookOK, TypeOK
  <2>2. CASE SettleAgain(g, e)
    <3>1. PICK p \in Requests : React(g, e, p, pay[p].status)
      BY <2>2 DEF SettleAgain
    <3>2. CASE pay[p].status = "absent"
      BY <1>3, <3>1, <3>2 DEF React, deposit_reaction
    <3> QED
      BY <2>1, <3>1, <3>2
  <2>3. e.page \in Requests
    BY DEF IInv, TypeOK, Event
  <2> QED
    BY <1>3, <1>5, <2>1, <2>2, <2>3 DEF SettleFromWebhook, SettleUnmatched, RecordDecline,
                                   RecordMismatch, Settle, ExplainMissed
<1>6. CASE Crash
  <2>1. ASSUME NEW g \in Handlers, CrashHandler(g) PROVE HandlerOK(h)
    BY <2>1 DEF CrashHandler, HandlerOK, IInv, HookOK, TypeOK, Idle
  <2> QED
    BY <1>3, <1>6, <2>1 DEF Crash, CrashRequest
<1>7. ASSUME NEW r \in Requests, RequestStep(r) \/ Attempt(r) \/ DrainReminder(r) \/ DeskStep(r)
      PROVE  hook' = hook
  BY <1>7 DEF RequestStep, RefuseBooking, ReplayBooking, ClaimSeat, NoDepositDue,
              ConvergeOnHold, MintSession, InsertHold, GatewayUnavailable, BookWithoutDeposit,
              reqRest, Attempt, DrainReminder, DeskStep, CustomerCancel, OwnerCancel,
              CancelBooking, MarkAttendance, UndoAttendance, Reschedule, RepointBooking,
              deskRest
<1>8. CASE Sweep \/ ClockStep
  BY <1>3, <1>8 DEF Sweep, ClockStep, SlotApproaches, HoldRunsOut, BookingAges, clockRest
<1> QED
  BY <1>3, <1>4, <1>5, <1>6, <1>7, <1>8 DEF Next

-----------------------------------------------------------------------------
(* The theorems.                                                           *)

\* IInv is inductive.
LEMMA Inductive == IInv /\ [Next]_vars => IInv'
<1>1. CASE Next
  BY <1>1, NextTypes, NextRows, NextRequests, NextPayments, NextHandlers DEF IInv
<1>2. CASE UNCHANGED vars
  BY <1>2 DEF vars, IInv, TypeOK, RowsOK, StartOK, ReqOK, PayOK, FreshOK, HookOK
<1> QED
  BY <1>1, <1>2

\* IInv holds in every reachable state.
THEOREM InvariantHolds == Spec => []IInv
BY InitIInv, Inductive, PTL DEF Spec

\* Every row and every process keeps the types of its columns, for any number
\* of requests, customers, slots and deliveries.
THEOREM TypeCorrect == Spec => []TypeOK
<1>1. IInv => TypeOK
  BY DEF IInv
<1> QED
  BY <1>1, InvariantHolds, PTL

\* No seat of an instant is held twice and no customer holds an instant twice,
\* whatever the claim, the late rebind on a stale read and the owner do.
THEOREM SeatSafety == Spec => [](SeatsUnique /\ OnePerInstant)
<1>1. Init => SeatsUnique /\ OnePerInstant
  BY DEF Init, NoBooking, SeatsUnique, OnePerInstant, Occupies
<1>2. IInv /\ SeatsUnique /\ OnePerInstant /\ [Next]_vars => SeatsUnique' /\ OnePerInstant'
  <2> SUFFICES ASSUME IInv, SeatsUnique, OnePerInstant, [Next]_vars
               PROVE  SeatsUnique' /\ OnePerInstant'
    OBVIOUS
  <2>1. SeatStep
    BY NextRows, SameRows DEF vars
  <2>2. CASE Quiet
    BY <2>2 DEF Quiet, SeatsUnique, OnePerInstant, Occupies
  <2>3. CASE \E b \in Requests : Takes(b)
    BY <2>3 DEF Takes, SeatsUnique, OnePerInstant, Occupies
  <2>4. CASE \E b \in Requests : Repoints(b)
    BY <2>4 DEF Repoints, SeatsUnique, OnePerInstant, Occupies
  <2> QED
    BY <2>1, <2>2, <2>3, <2>4 DEF SeatStep
<1> QED
  BY <1>1, <1>2, InvariantHolds, PTL DEF Spec

\* The sweeper releases the booking of every hold it expires, and nothing makes
\* a released booking wait for its payment again.
THEOREM SweeperReleases == Spec => []ExpiredIsReleased
<1>1. Init => ExpiredIsReleased
  BY DEF Init, NoPayment, ExpiredIsReleased
<1>2. IInv /\ ExpiredIsReleased /\ [Next]_vars => ExpiredIsReleased'
  <2> SUFFICES ASSUME IInv, ExpiredIsReleased, [Next]_vars PROVE ExpiredIsReleased'
    OBVIOUS
  <2>1. CASE Next
    <3>1. PayStep /\ RowsStay
      BY <2>1, NextPays, NextRows
    <3> SUFFICES ASSUME NEW p \in Requests, pay'[p].status = "expired"
                 PROVE  bk'[pay'[p].booking].status # "pending_payment"
      BY DEF ExpiredIsReleased
    <3>2. CASE pay[p].status = "expired" /\ pay'[p].booking = pay[p].booking
      BY <3>1, <3>2 DEF RowsStay, ExpiredIsReleased, IInv, PayOK
    <3> QED
      BY <3>1, <3>2 DEF PayStep, Opened, Advanced
  <2>2. CASE UNCHANGED vars
    BY <2>2 DEF vars, ExpiredIsReleased
  <2> QED
    BY <2>1, <2>2
<1> QED
  BY <1>1, <1>2, InvariantHolds, PTL DEF Spec

\* A settled payments row is never written again.
THEOREM SettlementIsFinal == Spec => SettledOnce
<1> DEFINE Kept == \A p \in Requests : pay[p].status = "paid" => pay'[p] = pay[p]
<1>1. IInv /\ [Next]_vars => [Kept]_vars
  BY NextPays DEF PayStep, Opened, Advanced, vars
<1> QED
  BY <1>1, InvariantHolds, PTL DEF Spec, SettledOnce

-----------------------------------------------------------------------------
(* Where rows come from.                                                   *)

\* Every instant offers as many seats as every other.
SameCapacity == \A s, t \in Slots : Capacity[s] = Capacity[t]

\* After a step, an unpaid row is the request's own or was unpaid before, a
\* released one was released before or is being swept, an unpaid row is
\* cancelled by the sweeper only, and a live row sits on the seat it had or on
\* one its instant offers.
Traced(b) ==
    /\ bk'[b].status = "pending_payment" =>
          \/ bk'[b].customer = Who[b]
          \/ bk[b].status = "pending_payment" /\ bk'[b].customer = bk[b].customer
    /\ bk'[b].by = "expired" =>
          \/ bk[b].by = "expired"
          \/ Sweep /\ b \in ReleasedBookings \cup OrphanedBookings
    /\ bk'[b].status = "cancelled" =>
          \/ bk[b].status # "pending_payment"
          \/ Sweep /\ b \in ReleasedBookings \cup OrphanedBookings
    /\ Occupies(b)' =>
          \/ /\ Occupies(b)
             /\ bk'[b].slot = bk[b].slot
             /\ bk'[b].seat = bk[b].seat
          \/ SameCapacity => bk'[b].seat \in 1..Capacity[bk'[b].slot]

\* Rows a step leaves alone.
LEMMA SameTraced == ASSUME NEW b \in Requests, bk'[b] = bk[b] PROVE Traced(b)
BY DEF Traced, Occupies

\* The writers that only change the status, or hand the row over.
LEMMA StatusTraced ==
    ASSUME IInv, NEW b \in Requests, NEW row, bk' = [bk EXCEPT ![b] = row],
           row.slot = bk[b].slot, row.seat = bk[b].seat,
           row.status # "pending_payment", row.by # "expired" \/ row.by = bk[b].by,
           IF row.status = "cancelled" THEN bk[b].status # "pending_payment" ELSE Occupies(b)
    PROVE  \A x \in Requests : Traced(x)
<1>1. ASSUME NEW x \in Requests \ {b} PROVE Traced(x)
  BY SameTraced DEF IInv, TypeOK
<1>2. bk'[b] = row
  BY DEF IInv, TypeOK
<1>3. Traced(b)
  BY <1>2 DEF Traced, Occupies
<1> QED
  BY <1>1, <1>3

\* The writers that choose a seat: the lowest free one of some instant.
LEMMA SeatTraced ==
    ASSUME IInv, NEW b \in Requests, NEW row, bk' = [bk EXCEPT ![b] = row],
           row.by = "nobody", row.slot \in Slots, row.status # "cancelled",
           NEW s \in Slots, NEW O, row.seat \in LowestFree(s, O),
           row.status = "pending_payment" => row.customer = Who[b]
    PROVE  \A x \in Requests : Traced(x)
<1>1. ASSUME NEW x \in Requests \ {b} PROVE Traced(x)
  BY SameTraced DEF IInv, TypeOK
<1>2. bk'[b] = row
  BY DEF IInv, TypeOK
<1>3. ASSUME SameCapacity PROVE row.seat \in 1..Capacity[row.slot]
  BY <1>3 DEF SameCapacity, LowestFree, FreeSeats
<1>4. Traced(b)
  BY <1>2, <1>3 DEF Traced
<1> QED
  BY <1>1, <1>4

\* Storefront requests.
LEMMA RequestTraced ==
    ASSUME IInv, NEW r \in Requests, RequestStep(r) PROVE \A b \in Requests : Traced(b)
<1>1. ASSUME NEW s \in Slots, ClaimSeat(r, s) PROVE \A b \in Requests : Traced(b)
  <2>1. PICK due \in BOOLEAN, seat \in LowestFree(s, active_seats_at(s)) :
            bk' = [bk EXCEPT ![r] = [status |-> IF due THEN "pending_payment" ELSE "confirmed",
                                     customer |-> Who[r], slot |-> s, seat |-> seat,
                                     by |-> "nobody"]]
    BY <1>1 DEF ClaimSeat
  <2>2. PICK row : row = [status |-> IF due THEN "pending_payment" ELSE "confirmed",
                          customer |-> Who[r], slot |-> s, seat |-> seat, by |-> "nobody"]
    OBVIOUS
  <2>3. bk' = [bk EXCEPT ![r] = row]
    BY <2>1, <2>2
  <2>4. /\ row.by = "nobody" /\ row.slot = s /\ row.seat = seat /\ row.customer = Who[r]
        /\ row.status # "cancelled"
    BY <2>2
  <2> QED
    BY <2>3, <2>4, SeatTraced
<1>2. CASE BookWithoutDeposit(r)
  <2>1. PICK b \in Requests : /\ b = req[r].b
                              /\ bk[b] \in Booking
    BY <1>2 DEF BookWithoutDeposit, IInv, TypeOK, ReqOK
  <2>2. PICK row : row = [bk[b] EXCEPT !.status = "confirmed"]
    OBVIOUS
  <2>3. /\ row.slot = bk[b].slot /\ row.seat = bk[b].seat /\ row.by = bk[b].by
        /\ row.status = "confirmed"
    BY <2>1, <2>2 DEF Booking
  <2>4. bk' = bk \/ (bk[b].status = "pending_payment" /\ bk' = [bk EXCEPT ![b] = row])
    BY <1>2, <2>1, <2>2 DEF BookWithoutDeposit
  <2>5. CASE bk[b].status = "pending_payment" /\ bk' = [bk EXCEPT ![b] = row]
    BY <2>3, <2>5, StatusTraced DEF Occupies
  <2> QED
    BY <2>4, <2>5, SameTraced
<1>3. CASE bk' = bk
  BY <1>3, SameTraced
<1> QED
  BY <1>1, <1>2, <1>3 DEF RequestStep, RefuseBooking, ReplayBooking, NoDepositDue,
                          ConvergeOnHold, MintSession, InsertHold, GatewayUnavailable, dbvars

\* Deliveries.
LEMMA HandlerTraced ==
    ASSUME IInv, NEW h \in Handlers, HandlerStep(h) PROVE \A b \in Requests : Traced(b)
<1> DEFINE b == hook[h].b
<1>0. hook[h].pc # "idle" /\ b \in Requests /\ bk[b] \in Booking /\ bk[b].status # "absent"
  BY DEF HandlerStep, Confirm, SettleLate, ReadBooking, Rebind, RebindRefused, AlertOwner,
         IInv, HookOK, TypeOK
<1>1. CASE bk' = bk
  BY <1>1, SameTraced
<1>2. CASE Confirm(h) /\ bk[b].status = "pending_payment"
  <2>1. PICK row : row = [bk[b] EXCEPT !.status = "confirmed"]
    OBVIOUS
  <2>2. /\ row.slot = bk[b].slot /\ row.seat = bk[b].seat /\ row.by = bk[b].by
        /\ row.status = "confirmed"
    BY <1>0, <2>1 DEF Booking
  <2>3. bk' = [bk EXCEPT ![b] = row]
    BY <1>2, <2>1 DEF Confirm
  <2> QED
    BY <1>0, <1>2, <2>2, <2>3, StatusTraced DEF Occupies
<1>3. CASE Rebind(h)
  <2>1. PICK seat \in RebindSeats(hook[h].snap) :
            bk' = [bk EXCEPT ![b] = [bk[b] EXCEPT !.status = "confirmed", !.by = "nobody",
                                                  !.seat = seat]]
    BY <1>3 DEF Rebind
  <2>2. PICK row : row = [bk[b] EXCEPT !.status = "confirmed", !.by = "nobody", !.seat = seat]
    OBVIOUS
  <2>3. /\ row.status = "confirmed" /\ row.slot = bk[b].slot /\ row.by = "nobody"
        /\ row.seat = seat
    BY <1>0, <2>2 DEF Booking
  <2>4. bk' = [bk EXCEPT ![b] = row]
    BY <2>1, <2>2
  <2>5. bk[b].slot \in Slots
    BY <1>0 DEF IInv, RowsOK
  <2>6. hook[h].snap.slot \in Slots
    BY <1>3 DEF Rebind, IInv, HookOK
  <2>7. seat \in LowestFree(hook[h].snap.slot, RebindOccupied(hook[h].snap))
    BY <2>1 DEF RebindSeats
  <2> QED
    BY <1>0, <2>3, <2>4, <2>5, <2>6, <2>7, SeatTraced
<1> QED
  BY <1>1, <1>2, <1>3 DEF HandlerStep, Confirm, SettleLate, ReadBooking, RebindRefused,
                          AlertOwner

\* The owner, the customer and the reminder worker.
LEMMA DeskTraced ==
    ASSUME IInv, NEW b \in Requests, DeskStep(b) \/ DrainReminder(b)
    PROVE  \A x \in Requests : Traced(x)
<1>0. bk[b] \in Booking
  BY DEF IInv, TypeOK
<1>1. ASSUME NEW by \in {"customer", "owner"}, CancelBooking(b, by)
      PROVE  \A x \in Requests : Traced(x)
  <2>1. PICK row : row = [bk[b] EXCEPT !.status = "cancelled", !.by = by]
    OBVIOUS
  <2>2. /\ row.status = "cancelled" /\ row.by # "expired"
        /\ row.slot = bk[b].slot /\ row.seat = bk[b].seat
    BY <1>0, <2>1 DEF Booking
  <2>3. bk' = [bk EXCEPT ![b] = row] /\ bk[b].status = "confirmed"
    BY <1>1, <2>1 DEF CancelBooking
  <2> QED
    BY <2>2, <2>3, StatusTraced
<1>2. ASSUME NEW to \in {"confirmed", "no_show", "completed"},
             bk' = [bk EXCEPT ![b].status = to],
             bk[b].status \in {"confirmed", "no_show", "completed"}
      PROVE  \A x \in Requests : Traced(x)
  <2>1. PICK row : row = [bk[b] EXCEPT !.status = to]
    OBVIOUS
  <2>2. /\ row.status = to /\ row.by = bk[b].by
        /\ row.slot = bk[b].slot /\ row.seat = bk[b].seat
    BY <1>0, <2>1 DEF Booking
  <2>3. bk' = [bk EXCEPT ![b] = row]
    BY <1>2, <2>1
  <2> QED
    BY <1>2, <2>2, <2>3, StatusTraced DEF Occupies
<1>3. ASSUME NEW s \in Slots, Reschedule(b, s) PROVE \A x \in Requests : Traced(x)
  <2>1. PICK seat \in LowestFree(s, active_seats_at(s)) :
            bk' = [bk EXCEPT ![b] = [bk[b] EXCEPT !.status = "confirmed", !.by = "nobody",
                                                  !.slot = s, !.seat = seat]]
    BY <1>3 DEF Reschedule
  <2>2. PICK row : row = [bk[b] EXCEPT !.status = "confirmed", !.by = "nobody", !.slot = s,
                                       !.seat = seat]
    OBVIOUS
  <2>3. row.status = "confirmed" /\ row.slot = s /\ row.by = "nobody" /\ row.seat = seat
    BY <1>0, <2>2 DEF Booking
  <2>4. bk' = [bk EXCEPT ![b] = row]
    BY <2>1, <2>2
  <2> QED
    BY <2>1, <2>3, <2>4, SeatTraced
<1>4. ASSUME NEW c \in Customers, RepointBooking(b, c) PROVE \A x \in Requests : Traced(x)
  <2>1. PICK row : row = [bk[b] EXCEPT !.customer = c]
    OBVIOUS
  <2>2. /\ row.status = "confirmed" /\ row.by = bk[b].by
        /\ row.slot = bk[b].slot /\ row.seat = bk[b].seat /\ Occupies(b)
    BY <1>0, <1>4, <2>1 DEF Booking, RepointBooking, Occupies
  <2>3. bk' = [bk EXCEPT ![b] = row]
    BY <1>4, <2>1 DEF RepointBooking
  <2> QED
    BY <2>2, <2>3, StatusTraced
<1>5. CASE MarkAttendance(b)
  BY <1>2, <1>5 DEF MarkAttendance
<1>6. CASE UndoAttendance(b)
  BY <1>2, <1>6 DEF UndoAttendance
<1>7. CASE DrainReminder(b)
  BY <1>7, SameTraced DEF DrainReminder
<1> QED
  BY <1>1, <1>3, <1>4, <1>5, <1>6, <1>7 DEF DeskStep, CustomerCancel, OwnerCancel

\* Every step.
LEMMA NextTraced == ASSUME IInv, [Next]_vars PROVE \A b \in Requests : Traced(b)
<1>1. CASE bk' = bk
  BY <1>1, SameTraced
<1>2. CASE Sweep
  <2> SUFFICES ASSUME NEW b \in Requests PROVE Traced(b)
    OBVIOUS
  <2>1. bk[b] \in Booking
    BY DEF IInv, TypeOK
  <2>2. CASE b \in ReleasedBookings \cup OrphanedBookings
    <3>1. bk'[b] = [bk[b] EXCEPT !.status = "cancelled", !.by = "expired"]
      BY <1>2, <2>2 DEF Sweep
    <3>2. bk'[b].status = "cancelled"
      BY <2>1, <3>1 DEF Booking
    <3> QED
      BY <1>2, <2>2, <3>2 DEF Traced, Occupies
  <2>3. CASE b \notin ReleasedBookings \cup OrphanedBookings
    BY <1>2, <2>3, SameTraced DEF Sweep
  <2> QED
    BY <2>2, <2>3
<1>3. ASSUME NEW r \in Requests, Attempt(r) PROVE bk' = bk
  BY <1>3 DEF Attempt, dbvars
<1>4. ASSUME NEW h \in Handlers, NEW e \in events, SettleFromWebhook(h, e) PROVE bk' = bk
  BY <1>4 DEF SettleFromWebhook, SettleAgain, SettleUnmatched, RecordDecline,
              RecordMismatch, Settle, ExplainMissed
<1>5. ASSUME ClockStep \/ Crash \/ UNCHANGED vars PROVE bk' = bk
  BY <1>5 DEF ClockStep, SlotApproaches, HoldRunsOut, BookingAges, Crash, CrashRequest,
              CrashHandler, clockRest, dbvars, vars
<1> QED
  BY <1>1, <1>2, <1>3, <1>4, <1>5, RequestTraced, HandlerTraced, DeskTraced DEF Next

\* A live booking sits on a seat its slot really has, through the claim, the late
\* rebind and the owner's move, when every instant of the grid offers as many
\* seats: _rebind counts the seats of the instant it read, and writes the row
\* where it is now.
THEOREM SeatsExist ==
    ASSUME SameCapacity PROVE Spec => []WithinCapacity
<1>1. Init => WithinCapacity
  BY DEF Init, NoBooking, WithinCapacity, Occupies
<1>2. IInv /\ WithinCapacity /\ [Next]_vars => WithinCapacity'
  BY NextTraced DEF Traced, WithinCapacity
<1> QED
  BY <1>1, <1>2, InvariantHolds, PTL DEF Spec

-----------------------------------------------------------------------------
(* Reminders.                                                              *)

\* Attendance is recorded only of an appointment that has begun.
PastOK ==
    \A b \in Requests : bk[b].status \in {"no_show", "completed"} => lead[bk[b].slot] = "past"

\* No appointment gets further away, and no waiver is taken back.
Onward ==
    /\ \A s \in Slots : /\ lead'[s] \in {"far", "day"} => lead[s] \in {"far", "day"}
                        /\ lead[s] = "past" => lead'[s] = "past"
    /\ waived \subseteq waived'

\* Every step is onward.
LEMMA TimeGoesOn ==
    ASSUME IInv, [Next]_vars PROVE Onward
<1>0. ASSUME lead' = lead, waived \subseteq waived' PROVE Onward
  BY <1>0 DEF Onward
<1>1. ASSUME NEW r \in Requests, RequestStep(r) PROVE Onward
  BY <1>0, <1>1 DEF RequestStep, RefuseBooking, ReplayBooking, ClaimSeat, NoDepositDue,
                    ConvergeOnHold, MintSession, InsertHold, GatewayUnavailable,
                    BookWithoutDeposit, reqRest, dbvars
<1>2. ASSUME NEW r \in Requests, Attempt(r) \/ DrainReminder(r) \/ DeskStep(r) PROVE Onward
  BY <1>0, <1>2 DEF Attempt, DrainReminder, DeskStep, CustomerCancel, OwnerCancel,
                    CancelBooking, MarkAttendance, UndoAttendance, Reschedule,
                    RepointBooking, deskRest, dbvars, timevars
<1>3. ASSUME NEW h \in Handlers, HandlerStep(h) PROVE Onward
  BY <1>0, <1>3 DEF HandlerStep, Confirm, SettleLate, ReadBooking, Rebind, RebindRefused,
                    AlertOwner, hookRest
<1>4. ASSUME NEW h \in Handlers, NEW e \in events, SettleFromWebhook(h, e) PROVE Onward
  BY <1>0, <1>4 DEF SettleFromWebhook, SettleAgain, SettleUnmatched, RecordDecline,
                    RecordMismatch, Settle, ExplainMissed, hookRest
<1>5. CASE Sweep \/ Crash \/ UNCHANGED vars
  BY <1>0, <1>5 DEF Sweep, Crash, CrashRequest, CrashHandler, dbvars, timevars, vars
<1>6. CASE ClockStep
  <2>1. ASSUME NEW s \in Slots, SlotApproaches(s) PROVE Onward
    <3>1. PICK l : /\ lead' = [lead EXCEPT ![s] = l]
                   /\ l \in {"far", "day"} => lead[s] \in {"far", "day"}
                   /\ lead[s] # "past"
      BY <2>1 DEF SlotApproaches
    <3> QED
      BY <2>1, <3>1 DEF Onward, SlotApproaches, clockRest, IInv, TypeOK
  <2>2. ASSUME NEW p \in Requests, HoldRunsOut(p) \/ BookingAges(p) PROVE Onward
    <3>1. lead' = lead /\ waived' = waived
      BY <2>2 DEF HoldRunsOut, BookingAges, clockRest, timevars
    <3> QED
      BY <1>0, <3>1
  <2> QED
    BY <1>6, <2>1, <2>2 DEF ClockStep
<1> QED
  BY <1>1, <1>2, <1>3, <1>4, <1>5, <1>6 DEF Next

\* A row that is confirmed after a step has its reminder, was waived, is less
\* than two hours away, or was confirmed before with the same reminder; and a
\* row whose attendance is known had it before, or has begun.
Reminded(b) ==
    /\ bk'[b].status = "confirmed" =>
          \/ rem'[b] \in {"pending", "sent"}
          \/ b \in waived'
          \/ lead'[bk'[b].slot] \notin {"far", "day"}
          \/ /\ bk[b].status = "confirmed"
             /\ bk'[b].slot = bk[b].slot
             /\ rem'[b] = rem[b]
    /\ bk'[b].status \in {"no_show", "completed"} =>
          /\ bk'[b].slot = bk[b].slot
          /\ bk[b].status \in {"no_show", "completed"} \/ lead[bk[b].slot] = "past"

\* Rows and reminders a step leaves alone.
LEMMA SameReminded ==
    ASSUME NEW b \in Requests, bk'[b] = bk[b], rem'[b] = rem[b] PROVE Reminded(b)
BY DEF Reminded

\* The rewrite that goes with a confirm.
LEMMA UpsertReminds ==
    ASSUME IInv, NEW b \in Requests, NEW row, bk' = [bk EXCEPT ![b] = row],
           rem' = [rem EXCEPT ![b] = upsert_reminder(b, row.slot)], lead' = lead,
           row.status = "confirmed"
    PROVE  \A x \in Requests : Reminded(x)
<1>1. ASSUME NEW x \in Requests \ {b} PROVE Reminded(x)
  BY SameReminded DEF IInv, TypeOK
<1>2. bk'[b] = row /\ rem'[b] = upsert_reminder(b, row.slot)
  BY DEF IInv, TypeOK
<1>3. Reminded(b)
  BY <1>2 DEF Reminded, upsert_reminder, reminder_send_after
<1> QED
  BY <1>1, <1>3

\* Storefront requests keep the reminders.
LEMMA RequestReminds ==
    ASSUME IInv, NEW r \in Requests, RequestStep(r) PROVE \A b \in Requests : Reminded(b)
<1>1. ASSUME NEW s \in Slots, ClaimSeat(r, s) PROVE \A b \in Requests : Reminded(b)
  <2>1. PICK due \in BOOLEAN, seat \in LowestFree(s, active_seats_at(s)) :
            bk' = [bk EXCEPT ![r] = [status |-> IF due THEN "pending_payment" ELSE "confirmed",
                                     customer |-> Who[r], slot |-> s, seat |-> seat,
                                     by |-> "nobody"]]
    BY <1>1 DEF ClaimSeat
  <2>2. PICK row : row = [status |-> IF due THEN "pending_payment" ELSE "confirmed",
                          customer |-> Who[r], slot |-> s, seat |-> seat, by |-> "nobody"]
    OBVIOUS
  <2>3. bk' = [bk EXCEPT ![r] = row]
    BY <2>1, <2>2
  <2>4. row.slot = s /\ row.status \in {"pending_payment", "confirmed"}
    BY <2>2
  <2>5. bk'[r] = row /\ rem'[r] = reminder_send_after(s) /\ lead' = lead
    BY <1>1, <2>3 DEF ClaimSeat, IInv, TypeOK, reqRest
  <2>6. Reminded(r)
    BY <2>4, <2>5 DEF Reminded, reminder_send_after
  <2>7. ASSUME NEW x \in Requests \ {r} PROVE Reminded(x)
    BY <1>1, <2>3, SameReminded DEF ClaimSeat, IInv, TypeOK
  <2> QED
    BY <2>6, <2>7
<1>2. CASE BookWithoutDeposit(r)
  <2>1. /\ rem' = rem /\ waived' = waived \cup {req[r].b}
        /\ \A x \in Requests \ {req[r].b} : bk'[x] = bk[x]
        /\ req[r].b \in Requests
        /\ bk'[req[r].b].status = "confirmed" \/ bk' = bk
    BY <1>2 DEF BookWithoutDeposit, IInv, TypeOK, ReqOK, Booking
  <2>2. Reminded(req[r].b)
    BY <2>1 DEF Reminded
  <2> QED
    BY <2>1, <2>2, SameReminded
<1>3. CASE bk' = bk /\ rem' = rem
  BY <1>3, SameReminded
<1> QED
  BY <1>1, <1>2, <1>3 DEF RequestStep, RefuseBooking, ReplayBooking, NoDepositDue,
                          ConvergeOnHold, MintSession, InsertHold, GatewayUnavailable, dbvars

\* Deliveries keep the reminders.
LEMMA HandlerReminds ==
    ASSUME IInv, NEW h \in Handlers, HandlerStep(h) PROVE \A b \in Requests : Reminded(b)
<1> DEFINE b == hook[h].b
<1>0. hook[h].pc # "idle" /\ b \in Requests /\ bk[b] \in Booking /\ lead' = lead
  BY DEF HandlerStep, Confirm, SettleLate, ReadBooking, Rebind, RebindRefused, AlertOwner,
         IInv, HookOK, TypeOK, hookRest
<1>1. CASE bk' = bk /\ rem' = rem
  BY <1>1, SameReminded
<1>2. CASE Confirm(h) /\ bk[b].status = "pending_payment"
  <2>1. PICK row : row = [bk[b] EXCEPT !.status = "confirmed"]
    OBVIOUS
  <2>2. row.status = "confirmed" /\ row.slot = bk[b].slot
    BY <1>0, <2>1 DEF Booking
  <2>3. bk' = [bk EXCEPT ![b] = row]
    BY <1>2, <2>1 DEF Confirm
  <2>4. rem' = [rem EXCEPT ![b] = upsert_reminder(b, row.slot)]
    BY <1>2, <2>2 DEF Confirm
  <2> QED
    BY <1>0, <2>2, <2>3, <2>4, UpsertReminds
<1>3. CASE Rebind(h)
  <2>1. PICK seat : bk' = [bk EXCEPT ![b] = [bk[b] EXCEPT !.status = "confirmed",
                                                          !.by = "nobody", !.seat = seat]]
    BY <1>3 DEF Rebind
  <2>2. PICK row : row = [bk[b] EXCEPT !.status = "confirmed", !.by = "nobody", !.seat = seat]
    OBVIOUS
  <2>3. row.status = "confirmed" /\ row.slot = bk[b].slot
    BY <1>0, <2>2 DEF Booking
  <2>4. bk' = [bk EXCEPT ![b] = row]
    BY <2>1, <2>2
  <2>5. rem' = [rem EXCEPT ![b] = upsert_reminder(b, row.slot)]
    BY <1>3, <2>3 DEF Rebind
  <2> QED
    BY <1>0, <2>3, <2>4, <2>5, UpsertReminds
<1> QED
  BY <1>1, <1>2, <1>3 DEF HandlerStep, Confirm, SettleLate, ReadBooking, RebindRefused,
                          AlertOwner

\* The desk and the reminder worker keep the reminders: an attendance mark that
\* is undone was of an appointment that has begun.
LEMMA DeskReminds ==
    ASSUME IInv, PastOK, NEW b \in Requests, DeskStep(b) \/ DrainReminder(b)
    PROVE  \A x \in Requests : Reminded(x)
<1>0. bk[b] \in Booking /\ lead' = lead /\ waived' = waived
  BY DEF DeskStep, CustomerCancel, OwnerCancel, CancelBooking, MarkAttendance,
         UndoAttendance, Reschedule, RepointBooking, DrainReminder, deskRest, timevars,
         IInv, TypeOK
<1>1. ASSUME NEW row, bk' = [bk EXCEPT ![b] = row], NEW note, rem' = [rem EXCEPT ![b] = note],
             \/ row.status = "cancelled"
             \/ row.slot = bk[b].slot /\ lead[bk[b].slot] = "past"
             \/ /\ row.slot = bk[b].slot /\ row.status = "confirmed"
                /\ bk[b].status = "confirmed" /\ note = rem[b]
      PROVE  \A x \in Requests : Reminded(x)
  <2>1. bk'[b] = row /\ rem'[b] = note
    BY <1>1 DEF IInv, TypeOK
  <2>2. Reminded(b)
    BY <1>0, <1>1, <2>1 DEF Reminded
  <2>3. ASSUME NEW x \in Requests \ {b} PROVE Reminded(x)
    BY <1>1, SameReminded DEF IInv, TypeOK
  <2> QED
    BY <2>2, <2>3
<1>2. rem = [rem EXCEPT ![b] = rem[b]]
  BY DEF IInv, TypeOK
<1>3. ASSUME NEW by, CancelBooking(b, by) PROVE \A x \in Requests : Reminded(x)
  <2>1. PICK row : row = [bk[b] EXCEPT !.status = "cancelled", !.by = by]
    OBVIOUS
  <2>2. row.status = "cancelled"
    BY <1>0, <2>1 DEF Booking
  <2>3. bk' = [bk EXCEPT ![b] = row] /\ rem' = [rem EXCEPT ![b] = cancel_pending(b)]
    BY <1>3, <2>1 DEF CancelBooking
  <2> QED
    BY <1>1, <2>2, <2>3
<1>4. CASE MarkAttendance(b)
  <2>1. PICK to : bk' = [bk EXCEPT ![b] = [bk[b] EXCEPT !.status = to]]
    BY <1>4 DEF MarkAttendance
  <2>2. PICK row : row = [bk[b] EXCEPT !.status = to]
    OBVIOUS
  <2>3. row.slot = bk[b].slot /\ lead[bk[b].slot] = "past" /\ rem' = rem
    BY <1>0, <1>4, <2>2 DEF Booking, MarkAttendance, Future
  <2> QED
    BY <1>1, <1>2, <2>1, <2>2, <2>3
<1>5. CASE UndoAttendance(b)
  <2>1. PICK row : row = [bk[b] EXCEPT !.status = "confirmed"]
    OBVIOUS
  <2>2. row.slot = bk[b].slot /\ rem' = rem
    BY <1>0, <1>5, <2>1 DEF Booking, UndoAttendance
  <2>3. lead[bk[b].slot] = "past"
    BY <1>5 DEF UndoAttendance, PastOK
  <2>4. bk' = [bk EXCEPT ![b] = row]
    BY <1>5, <2>1 DEF UndoAttendance
  <2> QED
    BY <1>1, <1>2, <2>2, <2>3, <2>4
<1>6. ASSUME NEW s \in Slots, Reschedule(b, s) PROVE \A x \in Requests : Reminded(x)
  <2>1. PICK seat : bk' = [bk EXCEPT ![b] = [bk[b] EXCEPT !.status = "confirmed",
                                               !.by = "nobody", !.slot = s, !.seat = seat]]
    BY <1>6 DEF Reschedule
  <2>2. PICK row : row = [bk[b] EXCEPT !.status = "confirmed", !.by = "nobody", !.slot = s,
                                       !.seat = seat]
    OBVIOUS
  <2>3. row.status = "confirmed" /\ row.slot = s
    BY <1>0, <2>2 DEF Booking
  <2>4. rem' = [rem EXCEPT ![b] = upsert_reminder(b, row.slot)]
    BY <1>6, <2>3 DEF Reschedule
  <2> QED
    BY <1>0, <2>1, <2>2, <2>3, <2>4, UpsertReminds
<1>7. ASSUME NEW c \in Customers, RepointBooking(b, c) PROVE \A x \in Requests : Reminded(x)
  <2>1. PICK row : row = [bk[b] EXCEPT !.customer = c]
    OBVIOUS
  <2>2. /\ row.slot = bk[b].slot /\ row.status = "confirmed" /\ bk[b].status = "confirmed"
        /\ rem' = rem
    BY <1>0, <1>7, <2>1 DEF Booking, RepointBooking
  <2>3. bk' = [bk EXCEPT ![b] = row]
    BY <1>7, <2>1 DEF RepointBooking
  <2> QED
    BY <1>1, <1>2, <2>2, <2>3
<1>8. CASE DrainReminder(b)
  <2>1. ASSUME NEW x \in Requests \ {b} PROVE Reminded(x)
    BY <1>8, SameReminded DEF DrainReminder, IInv, TypeOK
  <2>2. bk' = bk /\ (bk[b].status = "confirmed" /\ lead[bk[b].slot] # "past" => rem'[b] = "sent")
    BY <1>8 DEF DrainReminder, Future, IInv, TypeOK
  <2>3. Reminded(b)
    BY <1>0, <2>2 DEF Reminded
  <2> QED
    BY <2>1, <2>3
<1> QED
  BY <1>3, <1>4, <1>5, <1>6, <1>7, <1>8 DEF DeskStep, CustomerCancel, OwnerCancel

\* Every step keeps the reminders.
LEMMA NextReminds == ASSUME IInv, PastOK, [Next]_vars PROVE \A b \in Requests : Reminded(b)
<1>1. CASE bk' = bk /\ rem' = rem
  BY <1>1, SameReminded
<1>2. CASE Sweep
  <2> SUFFICES ASSUME NEW b \in Requests PROVE Reminded(b)
    OBVIOUS
  <2>1. bk[b] \in Booking /\ rem' = rem
    BY <1>2 DEF Sweep, IInv, TypeOK
  <2>2. \/ bk'[b] = bk[b]
        \/ bk'[b] = [bk[b] EXCEPT !.status = "cancelled", !.by = "expired"]
    BY <1>2 DEF Sweep
  <2>3. bk'[b] = bk[b] \/ bk'[b].status = "cancelled"
    BY <2>1, <2>2 DEF Booking
  <2> QED
    BY <2>1, <2>3 DEF Reminded
<1>3. ASSUME NEW r \in Requests, Attempt(r) PROVE bk' = bk /\ rem' = rem
  BY <1>3 DEF Attempt, dbvars
<1>4. ASSUME NEW h \in Handlers, NEW e \in events, SettleFromWebhook(h, e)
      PROVE  bk' = bk /\ rem' = rem
  BY <1>4 DEF SettleFromWebhook, SettleAgain, SettleUnmatched, RecordDecline,
              RecordMismatch, Settle, ExplainMissed
<1>5. ASSUME ClockStep \/ Crash \/ UNCHANGED vars PROVE bk' = bk /\ rem' = rem
  BY <1>5 DEF ClockStep, SlotApproaches, HoldRunsOut, BookingAges, Crash, CrashRequest,
              CrashHandler, clockRest, dbvars, vars
<1> QED
  BY <1>1, <1>2, <1>3, <1>4, <1>5, RequestReminds, HandlerReminds, DeskReminds DEF Next

\* A confirmed appointment two hours or more ahead that was not booked around a
\* failed gateway has its reminder, pending or sent, through every confirm, late
\* rebind, move, undo and pass of the worker.
THEOREM RemindersKept == Spec => []ReminderKept
<1>1. Init => PastOK /\ ReminderKept
  BY DEF Init, NoBooking, PastOK, ReminderKept
<1>2. IInv /\ IInv' /\ PastOK /\ ReminderKept /\ [Next]_vars => PastOK' /\ ReminderKept'
  <2> SUFFICES ASSUME IInv, IInv', PastOK, ReminderKept, [Next]_vars
               PROVE  PastOK' /\ ReminderKept'
    OBVIOUS
  <2>1. \A b \in Requests : Reminded(b)
    BY NextReminds
  <2>2. Onward
    BY TimeGoesOn
  <2>3. \A b \in Requests : bk'[b].status # "absent" => bk'[b].slot \in Slots
    BY DEF IInv, RowsOK
  <2>4. PastOK'
    BY <2>1, <2>2, <2>3 DEF PastOK, Reminded, Onward, IInv, RowsOK
  <2>5. ASSUME NEW b \in Requests, bk'[b].status = "confirmed", b \notin waived',
               lead'[bk'[b].slot] \in {"far", "day"}
        PROVE  rem'[b] \in {"pending", "sent"}
    BY <2>1, <2>2, <2>3, <2>5 DEF Reminded, ReminderKept, Onward
  <2> QED
    BY <2>4, <2>5 DEF ReminderKept
<1>3. Spec => [](PastOK /\ ReminderKept)
  BY <1>1, <1>2, InvariantHolds, PTL DEF Spec
<1> QED
  BY <1>3, PTL

-----------------------------------------------------------------------------
(* The seat ledger.  Whatever the requests, the webhook, the sweeper, the    *)
(* owner and the crashes do, the grid sees one appointment claimed, moved or *)
(* handed over at a time, each on a free seat, or appointments released.     *)

\* The appointment a bookings row stands for, and the grid of all of them.
Seen(b) == [customer |-> bk[b].customer, slot |-> bk[b].slot, seat |-> bk[b].seat]

Held == {Seen(b) : b \in {x \in Requests : Occupies(x)}}

\* The same in the next state.
SeenAfter(b) == [customer |-> bk'[b].customer, slot |-> bk'[b].slot, seat |-> bk'[b].seat]

OccupiesAfter(b) ==
    bk'[b].status \in {"pending_payment", "confirmed", "no_show", "completed"}

HeldAfter == {SeenAfter(b) : b \in {x \in Requests : OccupiesAfter(x)}}

\* A live booking has a seat.
Seated == \A b \in Requests : Occupies(b) => bk[b].seat \in Nat \ {0}

GInv == IInv /\ Seated /\ SeatsUnique /\ OnePerInstant

\* Every step keeps live bookings seated.
LEMMA NextSeated == ASSUME IInv, Seated, [Next]_vars PROVE Seated'
<1>1. SeatStep
  BY NextRows, SameRows DEF vars
<1>2. CASE Quiet
  BY <1>2 DEF Quiet, Seated, Occupies
<1>3. CASE \E b \in Requests : Takes(b)
  BY <1>3 DEF Takes, Seated, Occupies
<1>4. CASE \E b \in Requests : Repoints(b)
  BY <1>4 DEF Repoints, Seated, Occupies
<1> QED
  BY <1>1, <1>2, <1>3, <1>4 DEF SeatStep

\* GInv holds in every reachable state.
THEOREM GridInvariant == Spec => []GInv
<1>1. Init => Seated
  BY DEF Init, NoBooking, Seated, Occupies
<1>2. IInv /\ Seated /\ [Next]_vars => Seated'
  BY NextSeated
<1>3. Spec => []Seated
  BY <1>1, <1>2, InvariantHolds, PTL DEF Spec
<1> QED
  BY <1>3, InvariantHolds, SeatSafety, PTL DEF GInv

\* Two bookings are never the same appointment.
LEMMA SeenIsOne ==
    ASSUME GInv, NEW a \in Requests, NEW b \in Requests, Occupies(a), Occupies(b),
           Seen(a) = Seen(b)
    PROVE  a = b
BY DEF GInv, SeatsUnique, Seen

\* What each kind of step does to the grid.
LEMMA GridStep ==
    ASSUME GInv, GInv', SeatStep
    PROVE  \/ HeldAfter \subseteq Held
           \/ \E x \in HeldAfter : Ledger!Fits(x, Held) /\ HeldAfter = Held \cup {x}
           \/ \E y \in Held, x \in HeldAfter :
                 /\ x.customer = y.customer \/ (x.slot = y.slot /\ x.seat = y.seat)
                 /\ Ledger!Fits(x, Held \ {y})
                 /\ HeldAfter = (Held \ {y}) \cup {x}
<1>1. CASE Quiet
  <2>1. ASSUME NEW b \in Requests, OccupiesAfter(b) PROVE Occupies(b) /\ SeenAfter(b) = Seen(b)
    BY <1>1, <2>1 DEF Quiet, OccupiesAfter, Occupies, SeenAfter, Seen
  <2> QED
    BY <2>1 DEF Held, HeldAfter
<1>2. ASSUME NEW b \in Requests,
             \A x \in Requests \ {b} : bk'[x] = bk[x],
             OccupiesAfter(b),
             \A x \in Requests \ {b} :
                Occupies(x) /\ bk[x].slot = bk'[b].slot
                    => bk[x].seat # bk'[b].seat /\ bk[x].customer # bk'[b].customer
      PROVE  /\ SeenAfter(b) \in HeldAfter
             /\ ~Occupies(b) => Ledger!Fits(SeenAfter(b), Held) /\ HeldAfter = Held \cup {SeenAfter(b)}
             /\ Occupies(b) => /\ Ledger!Fits(SeenAfter(b), Held \ {Seen(b)})
                               /\ HeldAfter = (Held \ {Seen(b)}) \cup {SeenAfter(b)}
  <2>1. SeenAfter(b) \in HeldAfter
    BY <1>2 DEF HeldAfter
  <2>2. SeenAfter(b) \in Ledger!Appointment
    <3>1. bk'[b].customer \in Customers /\ bk'[b].slot \in Slots /\ bk'[b].seat \in Nat \ {0}
      BY <1>2 DEF GInv, IInv, RowsOK, Seated, Occupies, OccupiesAfter
    <3> QED
      BY <3>1 DEF Ledger!Appointment, SeenAfter
  <2>3. ASSUME NEW x \in Requests \ {b}
        PROVE  (OccupiesAfter(x) <=> Occupies(x)) /\ SeenAfter(x) = Seen(x)
    BY <1>2, <2>3 DEF OccupiesAfter, Occupies, SeenAfter, Seen
  <2>4. ASSUME NEW x \in Requests \ {b}, Occupies(x)
        PROVE  Seen(x).slot = SeenAfter(b).slot =>
                  Seen(x).seat # SeenAfter(b).seat /\ Seen(x).customer # SeenAfter(b).customer
    BY <1>2, <2>4 DEF Seen, SeenAfter
  <2>5. ASSUME ~Occupies(b)
        PROVE  Ledger!Fits(SeenAfter(b), Held) /\ HeldAfter = Held \cup {SeenAfter(b)}
    <3>1. Ledger!Fits(SeenAfter(b), Held)
      BY <2>2, <2>4, <2>5 DEF Ledger!Fits, Held
    <3> QED
      BY <1>2, <2>3, <2>5, <3>1 DEF Held, HeldAfter
  <2>6. ASSUME Occupies(b)
        PROVE  /\ Ledger!Fits(SeenAfter(b), Held \ {Seen(b)})
               /\ HeldAfter = (Held \ {Seen(b)}) \cup {SeenAfter(b)}
    <3>1. Held \ {Seen(b)} = {Seen(x) : x \in {z \in Requests \ {b} : Occupies(z)}}
      BY <2>6, SeenIsOne DEF Held
    <3>2. Ledger!Fits(SeenAfter(b), Held \ {Seen(b)})
      BY <2>2, <2>4, <3>1 DEF Ledger!Fits
    <3>3. HeldAfter = {Seen(x) : x \in {z \in Requests \ {b} : Occupies(z)}} \cup {SeenAfter(b)}
      BY <1>2, <2>3 DEF HeldAfter
    <3> QED
      BY <3>1, <3>2, <3>3
  <2> QED
    BY <2>1, <2>5, <2>6
<1>3. ASSUME NEW b \in Requests, Takes(b)
      PROVE  Occupies(b) => SeenAfter(b).customer = Seen(b).customer
  BY <1>3 DEF Takes, Occupies, Seen, SeenAfter
<1>4. ASSUME NEW b \in Requests, Repoints(b)
      PROVE  /\ Occupies(b) /\ OccupiesAfter(b)
             /\ SeenAfter(b).slot = Seen(b).slot /\ SeenAfter(b).seat = Seen(b).seat
             /\ \A x \in Requests \ {b} :
                   Occupies(x) /\ bk[x].slot = bk'[b].slot
                       => bk[x].seat # bk'[b].seat /\ bk[x].customer # bk'[b].customer
  BY <1>4 DEF Repoints, Occupies, OccupiesAfter, Seen, SeenAfter, GInv, SeatsUnique
<1>5. ASSUME NEW b \in Requests, Takes(b)
      PROVE  OccupiesAfter(b) /\ \A x \in Requests \ {b} : bk'[x] = bk[x]
  BY <1>5 DEF Takes, Occupies, OccupiesAfter
<1>6. CASE \E b \in Requests : Takes(b)
  <2>1. PICK b \in Requests : Takes(b)
    BY <1>6
  <2>2. Occupies(b) => Seen(b) \in Held
    BY DEF Held
  <2>3. /\ SeenAfter(b) \in HeldAfter
        /\ ~Occupies(b) => Ledger!Fits(SeenAfter(b), Held) /\ HeldAfter = Held \cup {SeenAfter(b)}
        /\ Occupies(b) => /\ Ledger!Fits(SeenAfter(b), Held \ {Seen(b)})
                          /\ HeldAfter = (Held \ {Seen(b)}) \cup {SeenAfter(b)}
    BY <1>2, <1>5, <2>1 DEF Takes
  <2> QED
    BY <1>3, <2>1, <2>2, <2>3
<1>7. CASE \E b \in Requests : Repoints(b)
  <2>1. PICK b \in Requests : Repoints(b)
    BY <1>7
  <2>2. Seen(b) \in Held
    BY <1>4, <2>1 DEF Held
  <2>3. /\ SeenAfter(b) \in HeldAfter
        /\ Ledger!Fits(SeenAfter(b), Held \ {Seen(b)})
        /\ HeldAfter = (Held \ {Seen(b)}) \cup {SeenAfter(b)}
    BY <1>2, <1>4, <2>1 DEF Repoints
  <2> QED
    BY <1>4, <2>1, <2>2, <2>3
<1> QED
  BY <1>1, <1>6, <1>7 DEF SeatStep

\* The deposit flow implements the seat ledger.
THEOREM ImplementsLedger == Spec => LedgerSpec
<1>1. Init => Ledger!Init
  BY DEF Init, NoBooking, Ledger!Init, Occupies
<1>2. GInv /\ GInv' /\ [Next]_vars => [Ledger!Next]_(Held)
  <2> SUFFICES ASSUME GInv, GInv', [Next]_vars PROVE [Ledger!Next]_(Held)
    OBVIOUS
  <2>1. SeatStep
    BY NextRows, SameRows DEF vars, GInv
  <2>2. Held' = HeldAfter
    BY DEF Held, HeldAfter, Seen, SeenAfter, Occupies, OccupiesAfter
  <2> QED
    BY <2>1, <2>2, GridStep DEF Ledger!Next, Ledger!Claim, Ledger!Move, Ledger!Release,
       Held, Seen
<1> QED
  BY <1>1, <1>2, GridInvariant, PTL DEF Spec, LedgerSpec, Ledger!Spec, Held, Seen

-----------------------------------------------------------------------------
(* Money: one pending hold per booking, no acknowledged charge without a     *)
(* trace, no appointment for nothing.  Each needs more than IInv: who holds  *)
(* the lock, what a delivery has already written, and whose page a settled   *)
(* row is.                                                                   *)

USE NoneIsNoEvent

\* A row has a transaction id only if it is paid, and then one of its own page.
TxnOK ==
    \A p \in Requests :
        pay[p].txn # NONE => pay[p].status = "paid" /\ pay[p].txn.page = p

\* A request between the provider call and the INSERT holds the tenant's lock,
\* and the booking it opens a hold for has no pending one.
LockOK ==
    \A r \in Requests :
        req[r].pc = "minted" => lock = r /\ live_pending(req[r].b) = {}

\* The event settled a payments row, or an audit row names it.
Accounted(e) ==
    \/ \E p \in Requests : pay[p].txn = e
    \/ \E a \in audit : a[2] = e

\* Answered deliveries, and those being worked on, are accounted for.
AckOK ==
    /\ \A e \in acked : Accounted(e)
    /\ \A h \in Handlers : hook[h].pc # "idle" => Accounted(hook[h].ev)

\* A delivery that may confirm a booking has a paid deposit behind it.
BackedOK ==
    \A h \in Handlers :
        /\ hook[h].pc = "honour" =>
              /\ pay[hook[h].ev.page].status \in {"expired", "paid"}
              /\ pay[hook[h].ev.page].booking = hook[h].b
        /\ hook[h].pc \in {"confirm", "read", "rebind", "alert"} => PaidOn(hook[h].b) # {}

MInv == TxnOK /\ LockOK /\ AckOK /\ BackedOK

-----------------------------------------------------------------------------
(* What no step takes back.                                                *)

\* Paid rows are final, so a booking never loses its paid deposit.
LEMMA PaidStays ==
    ASSUME IInv, Next
    PROVE  /\ \A p \in Requests : pay[p].status = "paid" => pay'[p] = pay[p]
           /\ \A b : PaidOn(b) # {} => PaidOn(b)' # {}
<1>1. \A p \in Requests : pay[p].status = "paid" => pay'[p] = pay[p]
  BY NextPays DEF PayStep, Opened, Advanced
<1> QED
  BY <1>1 DEF PaidOn

\* Audit rows are never deleted.
LEMMA AuditGrows == ASSUME Next PROVE audit \subseteq audit'
<1>1. ASSUME NEW r \in Requests, RequestStep(r) PROVE audit' = audit
  BY <1>1 DEF RequestStep, RefuseBooking, ReplayBooking, ClaimSeat, NoDepositDue,
              ConvergeOnHold, MintSession, InsertHold, GatewayUnavailable,
              BookWithoutDeposit, reqRest
<1>2. ASSUME NEW r \in Requests, Attempt(r) \/ DrainReminder(r) \/ DeskStep(r)
      PROVE  audit' = audit
  BY <1>2 DEF Attempt, DrainReminder, DeskStep, CustomerCancel, OwnerCancel, CancelBooking,
              MarkAttendance, UndoAttendance, Reschedule, RepointBooking, deskRest
<1>3. ASSUME NEW h \in Handlers, HandlerStep(h) PROVE audit \subseteq audit'
  BY <1>3 DEF HandlerStep, Confirm, SettleLate, ReadBooking, Rebind, RebindRefused, AlertOwner
<1>4. ASSUME NEW h \in Handlers, NEW e \in events, SettleFromWebhook(h, e)
      PROVE  audit \subseteq audit'
  BY <1>4 DEF SettleFromWebhook, SettleAgain, SettleUnmatched, RecordDecline,
              RecordMismatch, Settle, ExplainMissed
<1>5. ASSUME Sweep \/ ClockStep \/ Crash PROVE audit' = audit
  BY <1>5 DEF Sweep, ClockStep, SlotApproaches, HoldRunsOut, BookingAges, clockRest, Crash,
              CrashRequest, CrashHandler
<1> QED
  BY <1>1, <1>2, <1>3, <1>4, <1>5 DEF Next

\* The event is accounted for in the next state.
AccountedAfter(e) ==
    \/ \E p \in Requests : pay'[p].txn = e
    \/ \E a \in audit' : a[2] = e

\* What is accounted for stays accounted for.
LEMMA AccountedStays ==
    ASSUME IInv, TxnOK, Next, NEW e \in events, Accounted(e) PROVE AccountedAfter(e)
<1>1. e # NONE
  BY DEF IInv, TypeOK
<1>2. CASE \E p \in Requests : pay[p].txn = e
  BY <1>1, <1>2, PaidStays DEF TxnOK, AccountedAfter
<1>3. CASE \E a \in audit : a[2] = e
  BY <1>3, AuditGrows DEF AccountedAfter
<1> QED
  BY <1>2, <1>3 DEF Accounted

-----------------------------------------------------------------------------
(* The four parts of MInv.                                                 *)

\* Transaction ids stay with the paid rows of their own pages.
LEMMA NextTxn == ASSUME IInv, TxnOK, Next PROVE TxnOK'
<1> SUFFICES ASSUME NEW p \in Requests, pay'[p].txn # NONE
             PROVE  pay'[p].status = "paid" /\ pay'[p].txn.page = p
  BY DEF TxnOK
<1>1. pay'[p] = pay[p] \/ Opened(p) \/ Advanced(p)
  BY NextPays DEF PayStep
<1> QED
  BY <1>1 DEF TxnOK, Opened, Advanced

\* How a step changes who may insert a hold: nobody, one more request, one less.
Mints(r) ==
    /\ req[r].pc = "claimed"
    /\ lock = NONE
    /\ lock' = r
    /\ pay' = pay
    /\ live_pending(req[r].b) = {}
    /\ req'[r].b = req[r].b

Ends(r) == req'[r].pc # "minted" /\ (lock' = lock \/ lock = r)

LockStep ==
    \/ req' = req /\ lock' = lock
    \/ \E r \in Requests : /\ \A x \in Requests \ {r} : req'[x] = req[x]
                           /\ Mints(r) \/ Ends(r)

\* Every step is one of those.
LEMMA NextLockStep == ASSUME IInv, LockOK, Next PROVE LockStep
<1>0. req \in [Requests -> RequestState]
  BY DEF IInv, TypeOK
<1>1. ASSUME NEW r \in Requests, RequestStep(r) PROVE LockStep
  <2>1. CASE MintSession(r)
    BY <1>0, <2>1 DEF MintSession, LockStep, Mints, RequestState, dbvars
  <2>2. ASSUME NEW pc, pc # "minted", req' = [req EXCEPT ![r].pc = pc],
               lock' = lock \/ lock = r
        PROVE  LockStep
    BY <1>0, <2>2 DEF LockStep, Ends, RequestState
  <2>3. CASE InsertHold(r)
    BY <2>2, <2>3 DEF InsertHold, LockOK
  <2>4. CASE GatewayUnavailable(r)
    BY <2>2, <2>4 DEF GatewayUnavailable
  <2>5. CASE RefuseBooking(r) \/ NoDepositDue(r) \/ ConvergeOnHold(r) \/ BookWithoutDeposit(r)
    BY <2>2, <2>5 DEF RefuseBooking, NoDepositDue, ConvergeOnHold, BookWithoutDeposit
  <2>6. CASE \E s \in Slots : ReplayBooking(r, s) \/ ClaimSeat(r, s)
    <3>1. req'[r].pc = "claimed" /\ lock' = lock /\ \A x \in Requests \ {r} : req'[x] = req[x]
      BY <1>0, <2>6 DEF ReplayBooking, ClaimSeat
    <3> QED
      BY <3>1 DEF LockStep, Ends
  <2> QED
    BY <1>1, <2>1, <2>3, <2>4, <2>5, <2>6 DEF RequestStep
<1>2. ASSUME NEW r \in Requests, Attempt(r) \/ DrainReminder(r) \/ DeskStep(r) PROVE LockStep
  BY <1>2 DEF Attempt, DrainReminder, DeskStep, CustomerCancel, OwnerCancel, CancelBooking,
              MarkAttendance, UndoAttendance, Reschedule, RepointBooking, deskRest, LockStep
<1>3. ASSUME NEW h \in Handlers, HandlerStep(h) PROVE LockStep
  BY <1>3 DEF HandlerStep, Confirm, SettleLate, ReadBooking, Rebind, RebindRefused,
              AlertOwner, hookRest, LockStep
<1>4. ASSUME NEW h \in Handlers, NEW e \in events, SettleFromWebhook(h, e) PROVE LockStep
  BY <1>4 DEF SettleFromWebhook, SettleAgain, SettleUnmatched, RecordDecline,
              RecordMismatch, Settle, ExplainMissed, hookRest, LockStep
<1>5. CASE Sweep \/ ClockStep
  BY <1>5 DEF Sweep, ClockStep, SlotApproaches, HoldRunsOut, BookingAges, clockRest, LockStep
<1>6. CASE Crash
  <2>1. ASSUME NEW r \in Requests, CrashRequest(r) PROVE LockStep
    <3>1. /\ req'[r].pc = "dead"
          /\ \A x \in Requests \ {r} : req'[x] = req[x]
          /\ lock' = lock \/ lock = r
      BY <1>0, <2>1 DEF CrashRequest, RequestState
    <3> QED
      BY <3>1 DEF LockStep, Ends
  <2> QED
    BY <1>6, <2>1 DEF Crash, CrashHandler, LockStep
<1> QED
  BY <1>1, <1>2, <1>3, <1>4, <1>5, <1>6 DEF Next

\* The pending holds of booking b in the next state.
PendingAfter(b) == {p \in Requests : pay'[p].status = "pending" /\ pay'[p].booking = b}

\* Only the holder of the lock adds a pending hold.
LEMMA PendingGrows ==
    ASSUME IInv, LockOK, Next, NEW b, NEW p \in PendingAfter(b)
    PROVE  \/ p \in live_pending(b)
           \/ req[p].pc = "minted" /\ req[p].b = b /\ lock = p /\ req'[p].pc = "done"
<1>1. pay'[p] = pay[p] \/ Opened(p) \/ Advanced(p)
  BY NextPays DEF PayStep, PendingAfter
<1> QED
  BY <1>1 DEF PendingAfter, live_pending, Opened, Advanced, LockOK

\* The lock keeps excluding a second mint.
LEMMA NextLock == ASSUME IInv, LockOK, Next PROVE LockOK'
<1>1. SUFFICES ASSUME NEW x \in Requests, req'[x].pc = "minted"
               PROVE  lock' = x /\ PendingAfter(req'[x].b) = {}
  BY DEF LockOK, live_pending, PendingAfter
<1>0. LockStep
  BY NextLockStep
<1>2. CASE req'[x] = req[x]
  <2>1. lock = x /\ live_pending(req[x].b) = {}
    BY <1>1, <1>2 DEF LockOK
  <2>2. lock' = x
    BY <1>0, <1>1, <2>1 DEF LockStep, Mints, Ends
  <2>3. ASSUME NEW p \in PendingAfter(req[x].b) PROVE FALSE
    <3>1. p \in live_pending(req[x].b) \/ (lock = p /\ req'[p].pc = "done")
      BY PendingGrows
    <3> QED
      BY <1>1, <2>1, <3>1
  <2> QED
    BY <1>2, <2>2, <2>3
<1>3. CASE req'[x] # req[x]
  <2>1. Mints(x)
    BY <1>0, <1>1, <1>3 DEF LockStep, Ends
  <2> QED
    BY <2>1 DEF Mints, live_pending, PendingAfter
<1> QED
  BY <1>2, <1>3

-----------------------------------------------------------------------------
(* Deliveries.                                                             *)

\* The paid deposits of booking b in the next state.
PaidAfter(b) == {p \in Requests : pay'[p].status = "paid" /\ pay'[p].booking = b}

\* What is needed of delivery h in the next state for BackedOK.
Backed(h) ==
    /\ hook'[h].pc = "honour" =>
          /\ pay'[hook'[h].ev.page].status \in {"expired", "paid"}
          /\ pay'[hook'[h].ev.page].booking = hook'[h].b
    /\ hook'[h].pc \in {"confirm", "read", "rebind", "alert"} => PaidAfter(hook'[h].b) # {}

\* React answers the delivery, or goes on to confirm or to honour.
LEMMA ReactCases ==
    ASSUME IInv, NEW g \in Handlers, NEW e, NEW p \in Requests, NEW status,
           React(g, e, p, status)
    PROVE  \/ /\ status \notin {"paid", "expired"}
              /\ hook' = hook
              /\ acked' = acked \cup {e}
           \/ /\ \A h \in Handlers \ {g} : hook'[h] = hook[h]
              /\ hook'[g].ev = e
              /\ hook'[g].b = pay[p].booking
              /\ acked' = acked
              /\ \/ status = "paid" /\ hook'[g].pc = "confirm"
                 \/ status = "expired" /\ hook'[g].pc = "honour"
BY DEF React, deposit_reaction, IInv, TypeOK

\* A delivery of event e is left alone, or answered or pursued with e accounted
\* for; pursued, it is backed.
Delivered(g, e) ==
    \/ hook' = hook /\ acked' = acked
    \/ hook' = hook /\ acked' = acked \cup {e} /\ AccountedAfter(e)
    \/ /\ \A h \in Handlers \ {g} : hook'[h] = hook[h]
       /\ hook'[g].ev = e
       /\ acked' = acked
       /\ AccountedAfter(e)
       /\ Backed(g)

\* settle_from_webhook never answers, nor goes on, without a trace of the event.
LEMMA WebhookMoney ==
    ASSUME IInv, TxnOK, NEW g \in Handlers, NEW e \in events, SettleFromWebhook(g, e)
    PROVE  Delivered(g, e)
<1> DEFINE Pursued(p, status) ==
             /\ \A h \in Handlers \ {g} : hook'[h] = hook[h]
             /\ hook'[g].ev = e
             /\ hook'[g].b = pay[p].booking
             /\ acked' = acked
             /\ \/ status = "paid" /\ hook'[g].pc = "confirm"
                \/ status = "expired" /\ hook'[g].pc = "honour"
           Answered == hook' = hook /\ acked' = acked \cup {e}
<1>0. e \in Event /\ e # NONE /\ e.page \in Requests
  BY DEF IInv, TypeOK, Event
<1>1. CASE SettleAgain(g, e)
  <2>1. PICK p \in Requests : pay[p].txn = e /\ React(g, e, p, pay[p].status)
    BY <1>1 DEF SettleAgain
  <2>2. pay[p].status = "paid" /\ pay' = pay
    <3>1. pay[p].status = "paid"
      BY <1>0, <2>1 DEF TxnOK
    <3> QED
      BY <1>1, <3>1 DEF SettleAgain
  <2>3. AccountedAfter(e)
    BY <2>1, <2>2 DEF AccountedAfter
  <2>4. Pursued(p, "paid")
    BY <2>1, <2>2, ReactCases
  <2> QED
    BY <2>2, <2>3, <2>4 DEF Delivered, Backed, PaidAfter
<1>2. CASE SettleUnmatched(g, e) \/ RecordMismatch(g, e)
  BY <1>2 DEF SettleUnmatched, RecordMismatch, Delivered
<1>3. CASE RecordDecline(g, e) \/ ExplainMissed(g, e)
  <2>1. React(g, e, e.page, pay[e.page].status) /\ pay' = pay
    BY <1>3 DEF RecordDecline, ExplainMissed
  <2>2. AccountedAfter(e)
    <3>1. PICK k : audit' = audit \cup {<<k, e>>}
      BY <1>3 DEF RecordDecline, ExplainMissed
    <3>2. <<k, e>> \in audit' /\ <<k, e>>[2] = e
      BY <3>1
    <3> QED
      BY <3>2 DEF AccountedAfter
  <2>3. Pursued(e.page, pay[e.page].status) \/ Answered
    BY <1>0, <2>1, ReactCases
  <2> QED
    BY <1>0, <2>1, <2>2, <2>3 DEF Delivered, Backed, PaidAfter
<1>4. CASE Settle(g, e)
  <2>1. React(g, e, e.page, "paid")
        /\ pay' = [pay EXCEPT ![e.page] = [pay[e.page] EXCEPT !.status = "paid", !.txn = e]]
    BY <1>4 DEF Settle
  <2>2. pay[e.page] \in Payment
    BY <1>0 DEF IInv, TypeOK
  <2>3. pay'[e.page].status = "paid" /\ pay'[e.page].txn = e
        /\ pay'[e.page].booking = pay[e.page].booking
    BY <1>0, <2>1, <2>2 DEF IInv, TypeOK, Payment
  <2>4. AccountedAfter(e)
    BY <1>0, <2>3 DEF AccountedAfter
  <2>5. Pursued(e.page, "paid")
    BY <1>0, <2>1, ReactCases
  <2> QED
    BY <1>0, <2>3, <2>4, <2>5 DEF Delivered, Backed, PaidAfter
<1> QED
  BY <1>1, <1>2, <1>3, <1>4 DEF SettleFromWebhook

\* A delivery under way is left alone, ends and is answered, or goes on with its
\* event, backed.
Advances(g) ==
    /\ hook[g].pc # "idle"
    /\ \A h \in Handlers \ {g} : hook'[h] = hook[h]
    /\ \/ hook'[g].pc = "idle" /\ acked' \subseteq acked \cup {hook[g].ev}
       \/ hook'[g].ev = hook[g].ev /\ acked' = acked /\ Backed(g)

\* The later transactions of a delivery keep it backed by a paid deposit.
LEMMA HandlerMoney ==
    ASSUME IInv, BackedOK, NEW g \in Handlers, HandlerStep(g) PROVE Advances(g)
<1>0. hook[g] \in HandlerState /\ hook \in [Handlers -> HandlerState]
  BY DEF IInv, TypeOK
<1>1. ASSUME hook' = [hook EXCEPT ![g] = Idle], acked' = acked \cup {hook[g].ev},
             hook[g].pc # "idle"
      PROVE  Advances(g)
  BY <1>0, <1>1 DEF Advances, Idle
<1>2. CASE SettleLate(g)
  <2>1. hook[g].ev.page \in Requests
    BY <1>2 DEF SettleLate, IInv, HookOK, TypeOK, Event
  <2>2. CASE pay[hook[g].ev.page].status = "expired"
    <3>1. /\ pay' = [pay EXCEPT ![hook[g].ev.page] =
                        [pay[hook[g].ev.page] EXCEPT !.status = "paid", !.txn = hook[g].ev]]
          /\ hook' = [hook EXCEPT ![g].pc = "read"] /\ acked' = acked
      BY <1>2, <2>2 DEF SettleLate
    <3>2. pay[hook[g].ev.page] \in Payment
      BY <2>1 DEF IInv, TypeOK
    <3>3. /\ pay'[hook[g].ev.page].status = "paid"
          /\ pay'[hook[g].ev.page].booking = hook[g].b
      BY <1>2, <2>1, <3>1, <3>2 DEF SettleLate, BackedOK, IInv, TypeOK, Payment
    <3>4. /\ hook'[g].pc = "read" /\ hook'[g].ev = hook[g].ev /\ hook'[g].b = hook[g].b
          /\ \A h \in Handlers \ {g} : hook'[h] = hook[h]
      BY <1>0, <3>1 DEF HandlerState
    <3> QED
      BY <1>2, <2>1, <3>1, <3>3, <3>4 DEF SettleLate, Advances, Backed, PaidAfter
  <2> QED
    BY <1>1, <1>2, <2>2 DEF SettleLate
<1>3. CASE ReadBooking(g) \/ RebindRefused(g)
  <2>1. /\ hook'[g].pc \in {"rebind", "alert"} /\ hook'[g].ev = hook[g].ev
        /\ hook'[g].b = hook[g].b /\ \A h \in Handlers \ {g} : hook'[h] = hook[h]
    <3>1. CASE ReadBooking(g)
      BY <1>0, <3>1 DEF ReadBooking, HandlerState
    <3>2. CASE RebindRefused(g)
      BY <1>0, <3>2 DEF RebindRefused, HandlerState
    <3> QED
      BY <1>3, <3>1, <3>2
  <2>2. hook[g].pc \in {"read", "rebind"} /\ pay' = pay /\ acked' = acked
    BY <1>3 DEF ReadBooking, RebindRefused
  <2> QED
    BY <2>1, <2>2 DEF Advances, Backed, BackedOK, PaidOn, PaidAfter
<1>4. CASE Confirm(g) \/ Rebind(g) \/ AlertOwner(g)
  BY <1>1, <1>4 DEF Confirm, Rebind, AlertOwner
<1> QED
  BY <1>2, <1>3, <1>4 DEF HandlerStep

\* Any other step leaves the deliveries alone, or kills one unanswered.
LEMMA OtherMoney ==
    ASSUME IInv, Next
    PROVE  \/ hook' = hook /\ acked' = acked
           \/ \E g \in Handlers : HandlerStep(g)
           \/ \E g \in Handlers, e \in events : SettleFromWebhook(g, e)
           \/ \E g \in Handlers : /\ \A h \in Handlers \ {g} : hook'[h] = hook[h]
                                  /\ hook'[g].pc = "idle"
                                  /\ acked' = acked
<1>1. ASSUME NEW r \in Requests, RequestStep(r) PROVE hook' = hook /\ acked' = acked
  BY <1>1 DEF RequestStep, RefuseBooking, ReplayBooking, ClaimSeat, NoDepositDue,
              ConvergeOnHold, MintSession, InsertHold, GatewayUnavailable,
              BookWithoutDeposit, reqRest
<1>2. ASSUME NEW r \in Requests, Attempt(r) \/ DrainReminder(r) \/ DeskStep(r)
      PROVE  hook' = hook /\ acked' = acked
  BY <1>2 DEF Attempt, DrainReminder, DeskStep, CustomerCancel, OwnerCancel, CancelBooking,
              MarkAttendance, UndoAttendance, Reschedule, RepointBooking, deskRest
<1>3. ASSUME Sweep \/ ClockStep PROVE hook' = hook /\ acked' = acked
  BY <1>3 DEF Sweep, ClockStep, SlotApproaches, HoldRunsOut, BookingAges, clockRest
<1>4. ASSUME NEW r \in Requests, CrashRequest(r) PROVE hook' = hook /\ acked' = acked
  BY <1>4 DEF CrashRequest
<1>5. ASSUME NEW g \in Handlers, CrashHandler(g)
      PROVE  /\ \A h \in Handlers \ {g} : hook'[h] = hook[h]
             /\ hook'[g].pc = "idle"
             /\ acked' = acked
  BY <1>5 DEF CrashHandler, IInv, TypeOK, Idle
<1> QED
  BY <1>1, <1>2, <1>3, <1>4, <1>5 DEF Next, Crash

\* A delivery no step touches stays accounted for and backed.
LEMMA UntouchedStays ==
    ASSUME IInv, MInv, Next, NEW h \in Handlers, hook'[h] = hook[h]
    PROVE  Backed(h) /\ (hook[h].pc # "idle" => AccountedAfter(hook[h].ev))
<1>1. hook[h].pc # "idle" => hook[h].ev \in events /\ hook[h].ev.page \in Requests
  BY DEF IInv, HookOK, TypeOK, Event
<1>2. ASSUME hook[h].pc # "idle" PROVE AccountedAfter(hook[h].ev)
  BY <1>1, <1>2, AccountedStays DEF MInv, AckOK
<1>3. Backed(h)
  <2>1. ASSUME hook[h].pc = "honour"
        PROVE  /\ pay'[hook[h].ev.page].status \in {"expired", "paid"}
               /\ pay'[hook[h].ev.page].booking = hook[h].b
    <3>1. /\ pay[hook[h].ev.page].status \in {"expired", "paid"}
          /\ pay[hook[h].ev.page].booking = hook[h].b
      BY <2>1 DEF MInv, BackedOK
    <3> QED
      BY <1>1, <2>1, <3>1, NextPays DEF PayStep, Opened, Advanced
  <2>2. ASSUME PaidOn(hook[h].b) # {} PROVE PaidAfter(hook[h].b) # {}
    BY <2>2, PaidStays DEF PaidOn, PaidAfter
  <2> QED
    BY <2>1, <2>2 DEF Backed, MInv, BackedOK
<1> QED
  BY <1>2, <1>3

\* Deliveries stay accounted for and backed.
LEMMA NextDeliveries == ASSUME IInv, MInv, Next PROVE AckOK' /\ BackedOK'
<1> DEFINE Told(h) == hook'[h].pc # "idle" => AccountedAfter(hook'[h].ev)
           Goal == /\ \A e \in acked' : AccountedAfter(e)
                   /\ \A h \in Handlers : Told(h) /\ Backed(h)
<1>1. SUFFICES Goal
  BY DEF AckOK, BackedOK, Accounted, AccountedAfter, Backed, PaidOn, PaidAfter
<1>2. \A e \in acked : AccountedAfter(e)
  BY AccountedStays DEF MInv, AckOK, IInv, TypeOK
<1>3. ASSUME NEW h \in Handlers, hook'[h] = hook[h] PROVE Told(h) /\ Backed(h)
  BY <1>3, UntouchedStays
<1>4. CASE hook' = hook /\ acked' = acked
  BY <1>2, <1>3, <1>4
<1>5. ASSUME NEW g \in Handlers, HandlerStep(g) PROVE Goal
  <2>1. Advances(g)
    BY <1>5, HandlerMoney DEF MInv
  <2>2. AccountedAfter(hook[g].ev)
    <3>1. hook[g].ev \in events /\ Accounted(hook[g].ev)
      BY <2>1 DEF Advances, IInv, HookOK, MInv, AckOK
    <3> QED
      BY <3>1, AccountedStays DEF MInv
  <2>3. Told(g) /\ Backed(g)
    BY <2>1, <2>2 DEF Advances, Backed
  <2> QED
    BY <1>2, <1>3, <2>1, <2>2, <2>3 DEF Advances
<1>6. ASSUME NEW g \in Handlers, NEW e \in events, SettleFromWebhook(g, e) PROVE Goal
  <2>1. Delivered(g, e)
    BY <1>6, WebhookMoney DEF MInv
  <2> QED
    BY <1>2, <1>3, <2>1 DEF Delivered
<1>7. ASSUME NEW g \in Handlers, \A h \in Handlers \ {g} : hook'[h] = hook[h],
             hook'[g].pc = "idle", acked' = acked
      PROVE  Goal
  BY <1>2, <1>3, <1>7 DEF Backed
<1> QED
  BY <1>4, <1>5, <1>6, <1>7, OtherMoney

-----------------------------------------------------------------------------
(* The theorems.                                                           *)

\* MInv is inductive relative to IInv.
LEMMA MoneyInductive == IInv /\ MInv /\ [Next]_vars => MInv'
<1>1. ASSUME IInv, MInv, Next PROVE MInv'
  BY <1>1, NextTxn, NextLock, NextDeliveries DEF MInv
<1>2. ASSUME MInv, UNCHANGED vars PROVE MInv'
  BY <1>2 DEF vars, MInv, TxnOK, LockOK, AckOK, BackedOK, Accounted, live_pending, PaidOn
<1> QED
  BY <1>1, <1>2

\* The lock, the settled rows and the deliveries stay consistent.
THEOREM MoneyInvariant == Spec => []MInv
<1>1. Init => MInv
  BY DEF Init, MInv, TxnOK, LockOK, AckOK, BackedOK, NoPayment
<1> QED
  BY <1>1, MoneyInductive, InvariantHolds, PTL DEF Spec

\* No charge is answered 2xx and forgotten: every acknowledged charge settled a
\* payments row or is named by a gateway audit row.
THEOREM ChargesAccounted == Spec => []AckedIsAccounted
<1>1. MInv => AckedIsAccounted
  BY DEF MInv, AckOK, Accounted, AckedIsAccounted
<1> QED
  BY <1>1, MoneyInvariant, PTL

\* open_deposit never puts two payable pages in front of one booking, however
\* many retries and double taps run at once.
THEOREM SingleHold == Spec => []OnePendingHold
<1> DEFINE Opens(p, b) == p \in live_pending(b) \/ (req[p].pc = "minted" /\ req[p].b = b)
           OpensAfter(p, b) == p \in PendingAfter(b)
                               \/ (req'[p].pc = "minted" /\ req'[p].b = b)
<1>1. Init => OnePendingHold
  BY DEF Init, NoPayment, OnePendingHold, live_pending
<1>2. ASSUME IInv, MInv, OnePendingHold, Next PROVE OnePendingHold'
  <2>0. LockOK /\ LockStep
    BY <1>2, NextLockStep DEF MInv
  <2>1. SUFFICES ASSUME NEW b \in Requests, NEW p \in Requests, NEW q \in Requests,
                        OpensAfter(p, b), OpensAfter(q, b)
                 PROVE  p = q
    BY DEF OnePendingHold, PendingAfter, live_pending
  <2>2. ASSUME NEW x \in Requests, OpensAfter(x, b) PROVE Opens(x, b) \/ Mints(x)
    <3>1. CASE x \in PendingAfter(b)
      BY <1>2, <2>0, <3>1, PendingGrows
    <3>2. CASE req'[x].pc = "minted" /\ req'[x].b = b
      BY <2>0, <3>2 DEF LockStep, Ends
    <3> QED
      BY <2>2, <3>1, <3>2
  <2>3. ASSUME NEW x \in Requests, NEW y \in Requests, Mints(x), OpensAfter(x, b),
               OpensAfter(y, b)
        PROVE  x = y
    <3>1. \A r \in Requests : req[r].pc # "minted"
      BY <2>0, <2>3 DEF Mints, LockOK
    <3>2. pay' = pay /\ live_pending(req[x].b) = {} /\ req'[x].b = req[x].b
      BY <2>3 DEF Mints
    <3>3. x \notin live_pending(b)
      BY <1>2, <2>3 DEF Mints, IInv, FreshOK, live_pending
    <3>4. req[x].b = b
      BY <2>3, <3>2, <3>3 DEF PendingAfter, live_pending
    <3>5. y \notin live_pending(b)
      BY <3>2, <3>4
    <3>6. Mints(y)
      BY <2>2, <2>3, <3>1, <3>5
    <3> QED
      BY <2>3, <3>6 DEF Mints
  <2>4. Opens(p, b) /\ Opens(q, b) => p = q
    BY <1>2 DEF OnePendingHold
  <2> QED
    BY <2>1, <2>2, <2>3, <2>4
<1>3. OnePendingHold /\ UNCHANGED vars => OnePendingHold'
  BY DEF vars, OnePendingHold, live_pending
<1> QED
  BY <1>1, <1>2, <1>3, InvariantHolds, MoneyInvariant, PTL DEF Spec

\* No unpaid or cancelled row becomes an appointment except on a paid deposit or
\* on a recorded gateway failure: through the confirm, the late rebind, the
\* compensation and the owner's restore alike.
THEOREM NothingForFree == Spec => NoFreeAppointment
<1> DEFINE Earned(b) == PaidAfter(b) # {} \/ b \in waived'
           Kept == \A b \in Requests :
                      bk[b].status \in {"pending_payment", "cancelled"}
                          /\ bk'[b].status = "confirmed" => Earned(b)
<1>1. ASSUME IInv, MInv, Next PROVE Kept
  <2>0. bk \in [Requests -> Booking]
    BY <1>1 DEF IInv, TypeOK
  <2>1. ASSUME bk' = bk PROVE Kept
    BY <2>1
  <2>2. ASSUME NEW x \in Requests, \A b \in Requests \ {x} : bk'[b] = bk[b], Earned(x)
        PROVE  Kept
    BY <2>2
  <2>3. ASSUME NEW r \in Requests, RequestStep(r) PROVE Kept
    <3>1. ASSUME NEW s \in Slots, ClaimSeat(r, s) PROVE Kept
      <4>1. bk[r].status = "absent"
        BY <1>1, <3>1 DEF ClaimSeat, IInv, StartOK
      <4>2. \A b \in Requests \ {r} : bk'[b] = bk[b]
        BY <2>0, <3>1 DEF ClaimSeat
      <4> QED
        BY <4>1, <4>2
    <3>2. CASE BookWithoutDeposit(r)
      <4>1. req[r].b \in Requests /\ req[r].b \in waived'
        BY <1>1, <3>2 DEF BookWithoutDeposit, IInv, ReqOK
      <4>2. \A b \in Requests \ {req[r].b} : bk'[b] = bk[b]
        BY <2>0, <3>2 DEF BookWithoutDeposit
      <4> QED
        BY <2>2, <4>1, <4>2
    <3>3. CASE \/ RefuseBooking(r) \/ NoDepositDue(r) \/ ConvergeOnHold(r)
               \/ GatewayUnavailable(r) \/ MintSession(r) \/ InsertHold(r)
               \/ \E s \in Slots : ReplayBooking(r, s)
      BY <2>1, <3>3 DEF RefuseBooking, NoDepositDue, ConvergeOnHold, GatewayUnavailable,
                        MintSession, InsertHold, ReplayBooking, dbvars
    <3> QED
      BY <2>3, <3>1, <3>2, <3>3 DEF RequestStep
  <2>4. ASSUME NEW h \in Handlers, HandlerStep(h) PROVE Kept
    <3>1. CASE Confirm(h) \/ Rebind(h)
      <4>0. hook[h].pc \in {"confirm", "rebind"} /\ pay' = pay
        BY <3>1 DEF Confirm, Rebind
      <4>1. hook[h].b \in Requests /\ PaidAfter(hook[h].b) # {}
        BY <1>1, <4>0 DEF IInv, HookOK, MInv, BackedOK, PaidOn, PaidAfter
      <4>2. \A b \in Requests \ {hook[h].b} : bk'[b] = bk[b]
        BY <2>0, <3>1 DEF Confirm, Rebind
      <4> QED
        BY <2>2, <4>1, <4>2
    <3>2. CASE SettleLate(h) \/ ReadBooking(h) \/ RebindRefused(h) \/ AlertOwner(h)
      BY <2>1, <3>2 DEF SettleLate, ReadBooking, RebindRefused, AlertOwner
    <3> QED
      BY <2>4, <3>1, <3>2 DEF HandlerStep
  <2>5. ASSUME NEW x \in Requests, DeskStep(x) \/ DrainReminder(x) PROVE Kept
    <3>1. ASSUME NEW s \in Slots, Reschedule(x, s) PROVE Kept
      <4>1. bk[x].status = "confirmed" \/ PaidAfter(x) # {}
        BY <3>1 DEF Reschedule, CanRestore, HoldsPaidDeposit, PaidOn, PaidAfter, deskRest
      <4>2. \A b \in Requests \ {x} : bk'[b] = bk[b]
        BY <2>0, <3>1 DEF Reschedule
      <4> QED
        BY <4>1, <4>2
    <3>2. ASSUME NEW by, CancelBooking(x, by) PROVE Kept
      <4>1. bk[x].status = "confirmed" /\ \A b \in Requests \ {x} : bk'[b] = bk[b]
        BY <2>0, <3>2 DEF CancelBooking
      <4> QED
        BY <4>1
    <3>3. CASE MarkAttendance(x) \/ UndoAttendance(x) \/ \E c \in Customers : RepointBooking(x, c)
      <4>1. bk[x].status \in {"confirmed", "no_show", "completed"}
            /\ \A b \in Requests \ {x} : bk'[b] = bk[b]
        BY <2>0, <3>3 DEF MarkAttendance, UndoAttendance, RepointBooking
      <4> QED
        BY <4>1
    <3>4. CASE DrainReminder(x)
      BY <2>1, <3>4 DEF DrainReminder
    <3> QED
      BY <2>5, <3>1, <3>2, <3>3, <3>4 DEF DeskStep, CustomerCancel, OwnerCancel
  <2>6. CASE Sweep
    <3>1. \A b \in Requests :
            bk'[b] = bk[b] \/ bk'[b] = [bk[b] EXCEPT !.status = "cancelled", !.by = "expired"]
      BY <2>6 DEF Sweep
    <3>2. ASSUME NEW b \in Requests, bk'[b] # bk[b] PROVE bk'[b].status = "cancelled"
      <4>1. bk'[b] = [bk[b] EXCEPT !.status = "cancelled", !.by = "expired"]
        BY <3>1, <3>2
      <4> QED
        BY <2>0, <4>1 DEF Booking
    <3> QED
      BY <3>2
  <2>7. ASSUME NEW p \in Requests, Attempt(p) PROVE Kept
    BY <2>1, <2>7 DEF Attempt, dbvars
  <2>8. ASSUME NEW h \in Handlers, NEW e \in events, SettleFromWebhook(h, e) PROVE Kept
    BY <2>1, <2>8 DEF SettleFromWebhook, SettleAgain, SettleUnmatched, RecordDecline,
                      RecordMismatch, Settle, ExplainMissed
  <2>9. CASE ClockStep \/ Crash
    BY <2>1, <2>9 DEF ClockStep, SlotApproaches, HoldRunsOut, BookingAges, Crash,
                      CrashRequest, CrashHandler, clockRest, dbvars
  <2> QED
    BY <1>1, <2>3, <2>4, <2>5, <2>6, <2>7, <2>8, <2>9 DEF Next
<1> DEFINE Goal == \A b \in Requests :
                      bk[b].status \in {"pending_payment", "cancelled"}
                          /\ bk'[b].status = "confirmed"
                              => PaidOn(b)' # {} \/ b \in waived'
<1>2. IInv /\ MInv /\ [Next]_vars => [Goal]_vars
  BY <1>1 DEF PaidOn, PaidAfter
<1> QED
  BY <1>2, InvariantHolds, MoneyInvariant, PTL DEF Spec, NoFreeAppointment

-----------------------------------------------------------------------------
(* One booking, one page.  When no customer submits a second request, a page *)
(* belongs to the booking of its own request, so the sweeper's two reads of  *)
(* the payments table see everything there is about a booking.               *)

\* No customer submits twice.
OneRequestEach == \A a, b \in Requests : Who[a] = Who[b] => a = b

InFlight == {"claimed", "minted", "compensate"}
InHonour == {"honour", "read", "rebind", "alert"}

\* An unpaid row is still in the name of the customer who submitted it, ...
OwnRows == \A b \in Requests : bk[b].status = "pending_payment" => bk[b].customer = Who[b]

\* ... so a request that waits for a deposit works on the row it inserted, ...
OwnRequests ==
    \A r \in Requests :
        /\ req[r].pc \in InFlight /\ req[r].status = "pending_payment" => req[r].b = r
        /\ req[r].pc = "minted" => req[r].status = "pending_payment"

\* ... and its page belongs to that row.
OwnPages == \A p \in Requests : pay[p].status # "absent" => pay[p].booking = p

\* The request that inserted an old row has ended.
AgedOK == \A b \in aged : req[b].pc \notin Active

\* A released booking has no payable page left, and will get none.
ReleasedOK ==
    \A b \in Requests :
        bk[b].by = "expired" => req[b].pc \notin Active /\ pay[b].status # "pending"

\* A delivery that honours late money has filed its gateway row, and is about
\* the booking of its page.
Filed(e, log) == \E k \in {"late", "declined"} : <<k, e>> \in log

HonourOK ==
    \A h \in Handlers :
        hook[h].pc \in InHonour =>
            Filed(hook[h].ev, audit) /\ hook[h].b = hook[h].ev.page

OwnInv == OwnRows /\ OwnRequests /\ OwnPages /\ AgedOK /\ ReleasedOK /\ HonourOK

\* How a step moves request r.
RequestMoves(r) ==
    \/ req'[r] = req[r]
    \/ req'[r].pc \notin InFlight
    \/ /\ req[r].pc \in {"claimed", "minted"}
       /\ req'[r].b = req[r].b
       /\ req'[r].status = req[r].status
       /\ req'[r].pc = "minted" => req[r].status = "pending_payment"
    \/ req'[r].pc = "claimed" /\ req'[r].b = r
    \/ /\ req'[r].pc = "claimed"
       /\ req'[r].b \in Requests
       /\ req'[r].status = bk[req'[r].b].status
       /\ bk[req'[r].b].customer = Who[r]

\* Every request is moved so.
LEMMA NextMoves == ASSUME IInv, Next PROVE \A r \in Requests : RequestMoves(r)
<1>0. req \in [Requests -> RequestState]
  BY DEF IInv, TypeOK
<1>1. ASSUME req' = req PROVE \A r \in Requests : RequestMoves(r)
  BY <1>1 DEF RequestMoves
<1>2. ASSUME NEW r \in Requests, \A x \in Requests \ {r} : req'[x] = req[x], RequestMoves(r)
      PROVE  \A x \in Requests : RequestMoves(x)
  BY <1>2 DEF RequestMoves
<1>3. ASSUME NEW r \in Requests, RequestStep(r) PROVE \A x \in Requests : RequestMoves(x)
  <2>1. ASSUME req' = [req EXCEPT ![r].pc = "done"] PROVE \A x \in Requests : RequestMoves(x)
    BY <1>0, <1>2, <2>1 DEF RequestMoves, InFlight, RequestState
  <2>2. CASE RefuseBooking(r) \/ NoDepositDue(r) \/ ConvergeOnHold(r) \/ InsertHold(r)
             \/ BookWithoutDeposit(r)
    BY <2>1, <2>2 DEF RefuseBooking, NoDepositDue, ConvergeOnHold, InsertHold,
                      BookWithoutDeposit
  <2>3. CASE \E s \in Slots : ReplayBooking(r, s)
    <3>1. PICK s \in Slots : ReplayBooking(r, s)
      BY <2>3
    <3>2. PICK b \in active_at(Who[r], s), due \in BOOLEAN :
             req' = [req EXCEPT ![r] = [pc |-> "claimed", b |-> b, status |-> bk[b].status,
                                        due |-> due]]
      BY <3>1 DEF ReplayBooking
    <3>3. b \in Requests /\ bk[b].customer = Who[r]
      BY <3>2 DEF active_at
    <3>4. RequestMoves(r)
      BY <1>0, <3>2, <3>3 DEF RequestMoves
    <3> QED
      BY <1>0, <1>2, <3>2, <3>4
  <2>4. CASE \E s \in Slots : ClaimSeat(r, s)
    <3>1. PICK status, due :
             req' = [req EXCEPT ![r] = [pc |-> "claimed", b |-> r, status |-> status,
                                        due |-> due]]
      BY <2>4 DEF ClaimSeat
    <3>2. RequestMoves(r)
      BY <1>0, <3>1 DEF RequestMoves
    <3> QED
      BY <1>0, <1>2, <3>1, <3>2
  <2>5. CASE MintSession(r)
    <3>1. req' = [req EXCEPT ![r].pc = "minted"] /\ req[r].pc = "claimed"
          /\ req[r].status = "pending_payment"
      BY <2>5 DEF MintSession, AwaitsDeposit
    <3>2. RequestMoves(r)
      BY <1>0, <3>1 DEF RequestMoves, RequestState
    <3> QED
      BY <1>0, <1>2, <3>1, <3>2
  <2>6. CASE GatewayUnavailable(r)
    <3>1. req' = [req EXCEPT ![r].pc = "compensate"] /\ req[r].pc \in {"claimed", "minted"}
      BY <2>6 DEF GatewayUnavailable
    <3>2. RequestMoves(r)
      BY <1>0, <3>1 DEF RequestMoves, RequestState
    <3> QED
      BY <1>0, <1>2, <3>1, <3>2
  <2> QED
    BY <1>3, <2>2, <2>3, <2>4, <2>5, <2>6 DEF RequestStep
<1>4. ASSUME NEW r \in Requests, CrashRequest(r) PROVE \A x \in Requests : RequestMoves(x)
  <2>1. req' = [req EXCEPT ![r].pc = "dead"]
    BY <1>4 DEF CrashRequest
  <2>2. RequestMoves(r)
    BY <1>0, <2>1 DEF RequestMoves, InFlight, RequestState
  <2> QED
    BY <1>0, <1>2, <2>1, <2>2
<1>5. ASSUME NEW r \in Requests, Attempt(r) \/ DrainReminder(r) \/ DeskStep(r)
      PROVE  req' = req
  BY <1>5 DEF Attempt, DrainReminder, DeskStep, CustomerCancel, OwnerCancel, CancelBooking,
              MarkAttendance, UndoAttendance, Reschedule, RepointBooking, deskRest
<1>6. ASSUME NEW h \in Handlers, HandlerStep(h) PROVE req' = req
  BY <1>6 DEF HandlerStep, Confirm, SettleLate, ReadBooking, Rebind, RebindRefused,
              AlertOwner, hookRest
<1>7. ASSUME NEW h \in Handlers, NEW e \in events, SettleFromWebhook(h, e) PROVE req' = req
  BY <1>7 DEF SettleFromWebhook, SettleAgain, SettleUnmatched, RecordDecline,
              RecordMismatch, Settle, ExplainMissed, hookRest
<1>8. ASSUME Sweep \/ ClockStep \/ \E h \in Handlers : CrashHandler(h) PROVE req' = req
  BY <1>8 DEF Sweep, ClockStep, SlotApproaches, HoldRunsOut, BookingAges, CrashHandler,
              clockRest
<1> QED
  BY <1>1, <1>3, <1>4, <1>5, <1>6, <1>7, <1>8 DEF Next, Crash

\* Rows, requests and pages stay a request's own.
LEMMA NextOwn ==
    ASSUME OneRequestEach, IInv, OwnInv, Next PROVE OwnRows' /\ OwnRequests' /\ OwnPages'
<1>1. OwnRows /\ OwnRequests /\ OwnPages
  BY DEF OwnInv
<1>2. OwnRows'
  BY <1>1, NextTraced DEF OwnRows, Traced
<1>3. OwnRequests'
  <2> SUFFICES ASSUME NEW r \in Requests
               PROVE  /\ req'[r].pc \in InFlight /\ req'[r].status = "pending_payment"
                            => req'[r].b = r
                      /\ req'[r].pc = "minted" => req'[r].status = "pending_payment"
    BY DEF OwnRequests
  <2>1. RequestMoves(r)
    BY NextMoves
  <2>2. ASSUME req'[r].b \in Requests, bk[req'[r].b].status = "pending_payment",
               bk[req'[r].b].customer = Who[r]
        PROVE  req'[r].b = r
    BY <1>1, <2>2 DEF OwnRows, OneRequestEach
  <2> QED
    BY <1>1, <2>1, <2>2 DEF RequestMoves, OwnRequests, InFlight
<1>4. OwnPages'
  <2> SUFFICES ASSUME NEW p \in Requests, pay'[p].status # "absent"
               PROVE  pay'[p].booking = p
    BY DEF OwnPages
  <2>1. pay'[p] = pay[p] \/ Opened(p) \/ Advanced(p)
    BY NextPays DEF PayStep
  <2>2. CASE Opened(p)
    BY <1>1, <2>2 DEF Opened, OwnRequests, InFlight
  <2> QED
    BY <1>1, <2>1, <2>2 DEF Advanced, OwnPages
<1> QED
  BY <1>2, <1>3, <1>4

\* Only rows whose request has ended grow old.
LEMMA NextAged == ASSUME IInv, AgedOK, Next PROVE AgedOK'
<1>1. ReqStep
  BY NextRequests
<1>2. ASSUME aged' = aged PROVE AgedOK'
  BY <1>1, <1>2 DEF AgedOK, ReqStep, IInv, TypeOK
<1>3. ASSUME NEW b \in Requests, BookingAges(b) PROVE AgedOK'
  <2>1. aged' = aged \cup {b} /\ req' = req /\ req[b].pc \notin Active
    BY <1>3 DEF BookingAges, clockRest, Active
  <2> QED
    BY <2>1 DEF AgedOK
<1>4. ASSUME NEW r \in Requests, RequestStep(r) \/ CrashRequest(r) PROVE aged' = aged
  BY <1>4 DEF RequestStep, RefuseBooking, ReplayBooking, ClaimSeat, NoDepositDue,
              ConvergeOnHold, MintSession, InsertHold, GatewayUnavailable,
              BookWithoutDeposit, CrashRequest, reqRest
<1>5. ASSUME NEW r \in Requests, Attempt(r) \/ DrainReminder(r) \/ DeskStep(r)
      PROVE  aged' = aged
  BY <1>5 DEF Attempt, DrainReminder, DeskStep, CustomerCancel, OwnerCancel, CancelBooking,
              MarkAttendance, UndoAttendance, Reschedule, RepointBooking, deskRest, timevars
<1>6. ASSUME NEW h \in Handlers, HandlerStep(h) \/ CrashHandler(h) PROVE aged' = aged
  BY <1>6 DEF HandlerStep, Confirm, SettleLate, ReadBooking, Rebind, RebindRefused,
              AlertOwner, CrashHandler, hookRest, timevars
<1>7. ASSUME NEW h \in Handlers, NEW e \in events, SettleFromWebhook(h, e) PROVE aged' = aged
  BY <1>7 DEF SettleFromWebhook, SettleAgain, SettleUnmatched, RecordDecline,
              RecordMismatch, Settle, ExplainMissed, hookRest
<1>8. ASSUME Sweep PROVE aged' = aged
  BY <1>8 DEF Sweep, timevars
<1>9. ASSUME ClockStep PROVE aged' = aged \/ \E b \in Requests : BookingAges(b)
  BY <1>9 DEF ClockStep, SlotApproaches, HoldRunsOut, timevars
<1> QED
  BY <1>2, <1>3, <1>4, <1>5, <1>6, <1>7, <1>8, <1>9 DEF Next, Crash

\* What the sweeper releases has no pending page but one that it expires.
LEMMA SweptBookings ==
    ASSUME IInv, OwnPages, AgedOK, Sweep, NEW b \in ReleasedBookings \cup OrphanedBookings
    PROVE  /\ b \in Requests
           /\ req[b].pc \notin Active
           /\ pay[b].status # "paid"
           /\ pay[b].status = "pending" => b \in ExpiredHolds
<1>1. CASE b \in ReleasedBookings
  <2>1. b \in Requests /\ b \in ExpiredHolds
    BY <1>1 DEF ReleasedBookings, ExpiredHolds, OwnPages
  <2>2. pay[b].status = "pending"
    BY <2>1 DEF ExpiredHolds
  <2> QED
    BY <2>1, <2>2 DEF IInv, FreshOK, Active
<1>2. CASE b \in OrphanedBookings
  <2>1. /\ b \in Requests /\ b \in aged
        /\ live_pending(b) \subseteq ExpiredHolds
        /\ PaidOn(b) = {}
    BY <1>2 DEF OrphanedBookings
  <2>2. pay[b].status # "paid"
    BY <2>1 DEF PaidOn, OwnPages
  <2>3. pay[b].status = "pending" => b \in ExpiredHolds
    BY <2>1 DEF live_pending, OwnPages
  <2> QED
    BY <2>1, <2>2, <2>3 DEF AgedOK
<1> QED
  BY <1>1, <1>2

\* What the sweeper does to the payments table.
LEMMA SweptPages ==
    ASSUME IInv, Sweep, NEW p \in Requests
    PROVE  /\ pay'[p].status = "paid" => pay[p].status = "paid"
           /\ pay'[p].status = "pending" => pay[p].status = "pending" /\ p \notin ExpiredHolds
           /\ req' = req
<1>1. pay[p] \in Payment /\ req' = req
  BY DEF Sweep, IInv, TypeOK
<1>2. CASE p \in ExpiredHolds
  <2>1. pay'[p] = [pay[p] EXCEPT !.status = "expired"]
    BY <1>2 DEF Sweep
  <2>2. pay'[p].status = "expired"
    BY <1>1, <2>1 DEF Payment
  <2> QED
    BY <1>1, <2>2
<1>3. CASE p \notin ExpiredHolds
  BY <1>1, <1>3 DEF Sweep
<1> QED
  BY <1>2, <1>3

\* A released booking keeps having no payable page.
LEMMA NextReleased == ASSUME IInv, OwnInv, Next PROVE ReleasedOK'
<1> SUFFICES ASSUME NEW b \in Requests, bk'[b].by = "expired"
             PROVE  req'[b].pc \notin Active /\ pay'[b].status # "pending"
  BY DEF ReleasedOK
<1>0. ReqStep /\ (pay'[b] = pay[b] \/ Opened(b) \/ Advanced(b))
  BY NextRequests, NextPays DEF PayStep
<1>1. Traced(b)
  BY NextTraced
<1>2. CASE bk[b].by = "expired"
  BY <1>0, <1>2 DEF OwnInv, ReleasedOK, ReqStep, Opened, Advanced, Active
<1>3. CASE Sweep /\ b \in ReleasedBookings \cup OrphanedBookings
  BY <1>3, SweptBookings, SweptPages DEF OwnInv
<1> QED
  BY <1>1, <1>2, <1>3 DEF Traced

\* How a step moves delivery h: honouring begins with a filed event of an
\* expired page, and goes on until the seat is restored or the owner is told,
\* unless the process dies.
Honours(h) ==
    /\ hook'[h].pc \in InHonour =>
          \/ /\ hook[h].pc \in InHonour
             /\ hook'[h].ev = hook[h].ev
             /\ hook'[h].b = hook[h].b
          \/ /\ hook'[h].ev \in events
             /\ Filed(hook'[h].ev, audit')
             /\ pay[hook'[h].ev.page].status = "expired"
             /\ hook'[h].b = pay[hook'[h].ev.page].booking
    /\ hook[h].pc \in {"read", "rebind", "alert"} =>
          \/ hook'[h].pc \in {"read", "rebind", "alert"} /\ hook'[h].ev = hook[h].ev
          \/ bk'[hook[h].b].by = "nobody"
          \/ <<"unresolved", hook[h].ev>> \in audit'
          \/ crashes' > 0

\* Deliveries a step leaves alone.
LEMMA SameHonours == ASSUME NEW h, hook'[h] = hook[h] PROVE Honours(h)
BY DEF Honours

\* settle_from_webhook starts to honour only what it has filed.
LEMMA WebhookHonours ==
    ASSUME IInv, TxnOK, NEW g \in Handlers, NEW e \in events, SettleFromWebhook(g, e)
    PROVE  \A h \in Handlers : Honours(h)
<1>0. /\ e \in Event /\ e # NONE /\ e.page \in Requests /\ hook[g].pc = "idle"
      /\ hook \in [Handlers -> HandlerState]
  <2>1. e \in Event /\ hook \in [Handlers -> HandlerState]
    BY DEF IInv, TypeOK
  <2>2. hook[g].pc = "idle"
    BY DEF SettleFromWebhook, SettleAgain, SettleUnmatched, RecordDecline, RecordMismatch,
           Settle, ExplainMissed
  <2> QED
    BY <2>1, <2>2, NoneIsNoEvent DEF Event
<1>1. ASSUME \A h \in Handlers \ {g} : hook'[h] = hook[h], Honours(g)
      PROVE  \A h \in Handlers : Honours(h)
  BY <1>1, SameHonours
<1>2. CASE hook' = hook
  BY <1>2, SameHonours
<1>3. ASSUME NEW p \in Requests, React(g, e, p, "paid") PROVE \A h \in Handlers : Honours(h)
  <2>1. hook'[g].pc = "confirm" /\ \A h \in Handlers \ {g} : hook'[h] = hook[h]
    BY <1>0, <1>3 DEF React, deposit_reaction
  <2> QED
    BY <1>0, <1>1, <2>1 DEF Honours, InHonour
<1>4. CASE SettleAgain(g, e)
  <2>1. PICK p \in Requests : pay[p].txn = e /\ React(g, e, p, pay[p].status)
    BY <1>4 DEF SettleAgain
  <2>2. pay[p].status = "paid"
    BY <1>0, <2>1 DEF TxnOK
  <2> QED
    BY <1>3, <2>1, <2>2
<1>5. CASE SettleUnmatched(g, e) \/ RecordMismatch(g, e)
  BY <1>2, <1>5 DEF SettleUnmatched, RecordMismatch
<1>6. CASE Settle(g, e)
  BY <1>0, <1>3, <1>6 DEF Settle
<1>7. CASE (RecordDecline(g, e) \/ ExplainMissed(g, e)) /\ pay[e.page].status # "paid"
  <2>1. React(g, e, e.page, pay[e.page].status)
    BY <1>7 DEF RecordDecline, ExplainMissed
  <2>2. Filed(e, audit')
    BY <1>7 DEF RecordDecline, ExplainMissed, Filed
  <2>3. CASE pay[e.page].status = "expired"
    <3>1. /\ \A h \in Handlers \ {g} : hook'[h] = hook[h]
          /\ hook'[g].ev = e /\ hook'[g].b = pay[e.page].booking
      BY <1>0, <2>1, <2>3 DEF React, deposit_reaction
    <3> QED
      BY <1>0, <1>1, <2>2, <2>3, <3>1 DEF Honours
  <2>4. CASE pay[e.page].status # "expired"
    <3>1. hook' = hook
      BY <1>7, <2>1, <2>4 DEF React, deposit_reaction
    <3> QED
      BY <1>2, <3>1
  <2> QED
    BY <2>3, <2>4
<1>8. CASE (RecordDecline(g, e) \/ ExplainMissed(g, e)) /\ pay[e.page].status = "paid"
  BY <1>0, <1>3, <1>8 DEF RecordDecline, ExplainMissed
<1> QED
  BY <1>4, <1>5, <1>6, <1>7, <1>8 DEF SettleFromWebhook

\* _honour, transaction by transaction.
LEMMA HandlerHonours ==
    ASSUME IInv, NEW g \in Handlers, HandlerStep(g) \/ CrashHandler(g)
    PROVE  \A h \in Handlers : Honours(h)
<1>0. hook[g] \in HandlerState /\ hook \in [Handlers -> HandlerState]
  BY DEF IInv, TypeOK
<1>1. ASSUME \A h \in Handlers \ {g} : hook'[h] = hook[h], Honours(g)
      PROVE  \A h \in Handlers : Honours(h)
  BY <1>1, SameHonours
<1>2. CASE Confirm(g)
  <2>1. hook[g].pc = "confirm" /\ hook' = [hook EXCEPT ![g] = Idle]
    BY <1>2 DEF Confirm
  <2> QED
    BY <1>0, <1>1, <2>1 DEF Honours, InHonour, Idle
<1>3. CASE SettleLate(g)
  <2>1. /\ hook[g].pc = "honour"
        /\ hook' = [hook EXCEPT ![g].pc = "read"] \/ hook' = [hook EXCEPT ![g] = Idle]
    BY <1>3 DEF SettleLate
  <2> QED
    BY <1>0, <1>1, <2>1 DEF Honours, InHonour, Idle, HandlerState
<1>4. CASE ReadBooking(g)
  <2>1. PICK row : hook' = [hook EXCEPT ![g] = [hook[g] EXCEPT !.pc = "rebind", !.snap = row]]
    BY <1>4 DEF ReadBooking
  <2>2. hook[g].pc = "read"
    BY <1>4 DEF ReadBooking
  <2>3. /\ hook'[g].pc = "rebind" /\ hook'[g].ev = hook[g].ev /\ hook'[g].b = hook[g].b
        /\ \A h \in Handlers \ {g} : hook'[h] = hook[h]
    BY <1>0, <2>1 DEF HandlerState
  <2> QED
    BY <1>1, <2>2, <2>3 DEF Honours, InHonour
<1>5. CASE Rebind(g)
  <2>1. hook[g].pc = "rebind" /\ hook' = [hook EXCEPT ![g] = Idle]
    BY <1>5 DEF Rebind
  <2>2. bk'[hook[g].b].by = "nobody"
    <3>1. hook[g].b \in Requests /\ bk[hook[g].b] \in Booking
      BY <2>1 DEF IInv, HookOK, TypeOK
    <3>2. PICK seat, row : /\ row = [bk[hook[g].b] EXCEPT !.status = "confirmed",
                                                          !.by = "nobody", !.seat = seat]
                           /\ bk' = [bk EXCEPT ![hook[g].b] = row]
      BY <1>5 DEF Rebind
    <3>3. row.by = "nobody"
      BY <3>1, <3>2 DEF Booking
    <3> QED
      BY <3>1, <3>2, <3>3 DEF IInv, TypeOK
  <2> QED
    BY <1>0, <1>1, <2>1, <2>2 DEF Honours, InHonour, Idle
<1>6. CASE RebindRefused(g)
  <2>1. hook[g].pc = "rebind" /\ hook' = [hook EXCEPT ![g].pc = "alert"]
    BY <1>6 DEF RebindRefused
  <2> QED
    BY <1>0, <1>1, <2>1 DEF Honours, InHonour, HandlerState
<1>7. CASE AlertOwner(g)
  <2>1. /\ hook[g].pc = "alert" /\ hook' = [hook EXCEPT ![g] = Idle]
        /\ <<"unresolved", hook[g].ev>> \in audit'
    BY <1>7 DEF AlertOwner
  <2> QED
    BY <1>0, <1>1, <2>1 DEF Honours, InHonour, Idle
<1>8. CASE CrashHandler(g)
  <2>1. hook' = [hook EXCEPT ![g] = Idle] /\ crashes' > 0
    BY <1>8 DEF CrashHandler, IInv, TypeOK
  <2> QED
    BY <1>0, <1>1, <2>1 DEF Honours, InHonour, Idle
<1> QED
  BY <1>2, <1>3, <1>4, <1>5, <1>6, <1>7, <1>8 DEF HandlerStep

\* Every step moves every delivery so.
LEMMA NextHonours == ASSUME IInv, TxnOK, Next PROVE \A h \in Handlers : Honours(h)
<1>1. CASE hook' = hook
  BY <1>1, SameHonours
<1>2. ASSUME NEW r \in Requests, RequestStep(r) \/ CrashRequest(r) PROVE hook' = hook
  BY <1>2 DEF RequestStep, RefuseBooking, ReplayBooking, ClaimSeat, NoDepositDue,
              ConvergeOnHold, MintSession, InsertHold, GatewayUnavailable,
              BookWithoutDeposit, CrashRequest, reqRest
<1>3. ASSUME NEW r \in Requests, Attempt(r) \/ DrainReminder(r) \/ DeskStep(r)
      PROVE  hook' = hook
  BY <1>3 DEF Attempt, DrainReminder, DeskStep, CustomerCancel, OwnerCancel, CancelBooking,
              MarkAttendance, UndoAttendance, Reschedule, RepointBooking, deskRest
<1>4. ASSUME Sweep \/ ClockStep PROVE hook' = hook
  BY <1>4 DEF Sweep, ClockStep, SlotApproaches, HoldRunsOut, BookingAges, clockRest
<1> QED
  BY <1>1, <1>2, <1>3, <1>4, WebhookHonours, HandlerHonours DEF Next, Crash

\* Deliveries that honour stay filed, and about their page's booking.
LEMMA NextHonour == ASSUME IInv, TxnOK, OwnInv, Next PROVE HonourOK'
<1> SUFFICES ASSUME NEW h \in Handlers, hook'[h].pc \in InHonour
             PROVE  Filed(hook'[h].ev, audit') /\ hook'[h].b = hook'[h].ev.page
  BY DEF HonourOK, Filed
<1>1. Honours(h)
  BY NextHonours
<1>2. CASE /\ hook[h].pc \in InHonour
           /\ hook'[h].ev = hook[h].ev
           /\ hook'[h].b = hook[h].b
  BY <1>2, AuditGrows DEF OwnInv, HonourOK, Filed
<1>3. CASE /\ hook'[h].ev \in events
           /\ Filed(hook'[h].ev, audit')
           /\ pay[hook'[h].ev.page].status = "expired"
           /\ hook'[h].b = pay[hook'[h].ev.page].booking
  BY <1>3 DEF OwnInv, OwnPages, IInv, TypeOK, Event
<1> QED
  BY <1>1, <1>2, <1>3 DEF Honours

\* With one request per customer, rows, pages, requests and deliveries of one
\* booking stay together.
THEOREM OwnInvariant ==
    ASSUME OneRequestEach PROVE Spec => []OwnInv
<1>1. Init => OwnInv
  BY DEF Init, OwnInv, OwnRows, OwnRequests, OwnPages, AgedOK, ReleasedOK, HonourOK,
         NoBooking, NoPayment, InFlight, InHonour
<1>2. IInv /\ MInv /\ OwnInv /\ [Next]_vars => OwnInv'
  <2>1. ASSUME IInv, MInv, OwnInv, Next PROVE OwnInv'
    BY <2>1, NextOwn, NextAged, NextReleased, NextHonour DEF OwnInv, MInv
  <2>2. ASSUME OwnInv, UNCHANGED vars PROVE OwnInv'
    BY <2>2 DEF vars, OwnInv, OwnRows, OwnRequests, OwnPages, AgedOK, ReleasedOK, HonourOK,
                Filed
  <2> QED
    BY <2>1, <2>2
<1> QED
  BY <1>1, <1>2, InvariantHolds, MoneyInvariant, PTL DEF Spec

\* The sweeper never releases a booking that holds a paid deposit and waits for
\* its confirm, when no customer submits twice: with a second page, the hold
\* that ran out may be another than the one that was paid.
THEOREM PaidIsSafe ==
    ASSUME OneRequestEach PROVE Spec => PaidNeverSwept
<1> DEFINE Safe == \A b \in Requests :
                      bk[b].status = "pending_payment" /\ PaidOn(b) # {}
                          => bk'[b].status # "cancelled"
<1>1. ASSUME IInv, OwnInv, [Next]_vars PROVE Safe
  <2> SUFFICES ASSUME NEW b \in Requests, bk[b].status = "pending_payment",
                      PaidOn(b) # {}, bk'[b].status = "cancelled"
               PROVE  FALSE
    OBVIOUS
  <2>1. pay[b].status = "paid"
    BY <1>1 DEF PaidOn, OwnInv, OwnPages
  <2>2. Sweep /\ b \in ReleasedBookings \cup OrphanedBookings
    BY <1>1, NextTraced DEF Traced
  <2> QED
    BY <1>1, <2>1, <2>2, SweptBookings DEF OwnInv
<1>2. IInv /\ OwnInv /\ [Next]_vars => [Safe]_vars
  BY <1>1
<1> QED
  BY <1>2, InvariantHolds, OwnInvariant, PTL DEF Spec, PaidNeverSwept

\* An expired page is settled by _honour, which goes on to the seat.
LEMMA LateSettles ==
    ASSUME IInv, Next, NEW p \in Requests, pay[p].status = "expired", pay'[p].status = "paid"
    PROVE  \E h \in Handlers : hook'[h].pc = "read" /\ hook'[h].ev = pay'[p].txn
<1>0. pay' # pay
  OBVIOUS
<1>1. ASSUME NEW g \in Handlers, SettleLate(g)
      PROVE  \E h \in Handlers : hook'[h].pc = "read" /\ hook'[h].ev = pay'[p].txn
  <2>1. /\ hook[g] \in HandlerState /\ hook[g].ev.page \in Requests
        /\ pay[hook[g].ev.page] \in Payment
    BY <1>1 DEF SettleLate, IInv, TypeOK, HookOK, Event
  <2>2. /\ hook' = [hook EXCEPT ![g].pc = "read"]
        /\ pay' = [pay EXCEPT ![hook[g].ev.page] =
                      [pay[hook[g].ev.page] EXCEPT !.status = "paid", !.txn = hook[g].ev]]
    BY <1>0, <1>1 DEF SettleLate
  <2>3. p = hook[g].ev.page
    BY <2>1, <2>2 DEF IInv, TypeOK
  <2>4. pay'[p].txn = hook[g].ev
    BY <2>1, <2>2, <2>3 DEF IInv, TypeOK, Payment
  <2>5. hook'[g].pc = "read" /\ hook'[g].ev = hook[g].ev
    BY <2>1, <2>2 DEF IInv, TypeOK, HandlerState
  <2> QED
    BY <2>4, <2>5
<1>2. ASSUME NEW g \in Handlers, HandlerStep(g), ~SettleLate(g) PROVE FALSE
  BY <1>0, <1>2 DEF HandlerStep, Confirm, ReadBooking, Rebind, RebindRefused, AlertOwner
<1>3. ASSUME NEW g \in Handlers, NEW e \in events, SettleFromWebhook(g, e) PROVE FALSE
  <2>1. CASE Settle(g, e)
    BY <2>1 DEF Settle, IInv, TypeOK
  <2>2. CASE ~Settle(g, e)
    BY <1>0, <1>3, <2>2 DEF SettleFromWebhook, SettleAgain, SettleUnmatched, RecordDecline,
                            RecordMismatch, ExplainMissed
  <2> QED
    BY <2>1, <2>2
<1>4. ASSUME NEW r \in Requests, RequestStep(r) PROVE FALSE
  <2>1. CASE InsertHold(r)
    BY <2>1 DEF InsertHold, IInv, TypeOK
  <2>2. CASE ~InsertHold(r)
    BY <1>0, <1>4, <2>2
       DEF RequestStep, RefuseBooking, ReplayBooking, ClaimSeat, NoDepositDue, ConvergeOnHold,
           MintSession, GatewayUnavailable, BookWithoutDeposit, dbvars
  <2> QED
    BY <2>1, <2>2
<1>5. ASSUME NEW r \in Requests, Attempt(r) \/ DrainReminder(r) \/ DeskStep(r) PROVE FALSE
  BY <1>0, <1>5 DEF Attempt, DrainReminder, DeskStep, CustomerCancel, OwnerCancel,
                    CancelBooking, MarkAttendance, UndoAttendance, Reschedule,
                    RepointBooking, deskRest, dbvars
<1>6. CASE Sweep
  BY <1>6, SweptPages
<1>7. CASE ClockStep
  <2>1. ASSUME NEW q \in Requests, HoldRunsOut(q) PROVE FALSE
    BY <2>1 DEF HoldRunsOut, IInv, TypeOK
  <2> QED
    BY <1>0, <1>7, <2>1 DEF ClockStep, SlotApproaches, BookingAges
<1>8. CASE Crash
  BY <1>0, <1>8 DEF Crash, CrashRequest, CrashHandler, dbvars
<1> QED
  BY <1>1, <1>2, <1>3, <1>4, <1>5, <1>6, <1>7, <1>8 DEF Next

\* Crashes are not forgotten.
LEMMA CrashesStay == ASSUME IInv, Next PROVE crashes > 0 => crashes' > 0
<1>0. crashes \in Nat
  BY DEF IInv, TypeOK
<1>1. CASE crashes' = crashes \/ crashes' = crashes + 1
  BY <1>0, <1>1
<1>2. ASSUME NEW r \in Requests, RequestStep(r) PROVE crashes' = crashes
  BY <1>2 DEF RequestStep, RefuseBooking, ReplayBooking, ClaimSeat, NoDepositDue,
              ConvergeOnHold, MintSession, InsertHold, GatewayUnavailable,
              BookWithoutDeposit, reqRest
<1>3. ASSUME NEW r \in Requests, Attempt(r) \/ DrainReminder(r) \/ DeskStep(r)
      PROVE  crashes' = crashes
  BY <1>3 DEF Attempt, DrainReminder, DeskStep, CustomerCancel, OwnerCancel, CancelBooking,
              MarkAttendance, UndoAttendance, Reschedule, RepointBooking, deskRest
<1>4. ASSUME NEW h \in Handlers, HandlerStep(h) PROVE crashes' = crashes
  BY <1>4 DEF HandlerStep, Confirm, SettleLate, ReadBooking, Rebind, RebindRefused,
              AlertOwner, hookRest
<1>5. ASSUME NEW h \in Handlers, NEW e \in events, SettleFromWebhook(h, e)
      PROVE  crashes' = crashes
  BY <1>5 DEF SettleFromWebhook, SettleAgain, SettleUnmatched, RecordDecline,
              RecordMismatch, Settle, ExplainMissed, hookRest
<1>6. ASSUME Sweep \/ ClockStep PROVE crashes' = crashes
  BY <1>6 DEF Sweep, ClockStep, SlotApproaches, HoldRunsOut, BookingAges, clockRest
<1>7. ASSUME Crash PROVE crashes' = crashes + 1
  BY <1>7 DEF Crash, CrashRequest, CrashHandler
<1> QED
  BY <1>1, <1>2, <1>3, <1>4, <1>5, <1>6, <1>7 DEF Next

\* The money of transaction e is on the owner's desk, or on its way there.
Surfaced(e) ==
    \/ <<"unresolved", e>> \in audit
    \/ \E h \in Handlers : hook[h].pc \in {"read", "rebind", "alert"} /\ hook[h].ev = e
    \/ crashes > 0 /\ Filed(e, audit)

SurfacedAfter(e) ==
    \/ <<"unresolved", e>> \in audit'
    \/ \E h \in Handlers : hook'[h].pc \in {"read", "rebind", "alert"} /\ hook'[h].ev = e
    \/ crashes' > 0 /\ Filed(e, audit')

\* Until the seat is restored, it stays there.
LEMMA SurfacedStays ==
    ASSUME IInv, MInv, OwnInv, Next, NEW p \in Requests, pay[p].status = "paid",
           Surfaced(pay[p].txn), bk'[p].by = "expired"
    PROVE  SurfacedAfter(pay[p].txn)
<1>1. PICK e : e = pay[p].txn
  OBVIOUS
<1>2. CASE <<"unresolved", e>> \in audit \/ (crashes > 0 /\ Filed(e, audit))
  BY <1>1, <1>2, AuditGrows, CrashesStay DEF SurfacedAfter, Filed
<1>3. ASSUME NEW h \in Handlers, hook[h].pc \in {"read", "rebind", "alert"}, hook[h].ev = e
      PROVE  SurfacedAfter(e)
  <2>1. Honours(h)
    BY NextHonours DEF MInv
  <2>2. Filed(e, audit) /\ hook[h].b = e.page
    BY <1>3 DEF OwnInv, HonourOK, InHonour
  <2>3. e # NONE
    BY <1>3, NoneIsNoEvent DEF IInv, HookOK, TypeOK
  <2>4. e.page = p
    BY <1>1, <2>3 DEF MInv, TxnOK
  <2>5. Filed(e, audit')
    BY <2>2, AuditGrows DEF Filed
  <2> QED
    BY <1>3, <2>1, <2>2, <2>4, <2>5 DEF Honours, SurfacedAfter
<1> QED
  BY <1>1, <1>2, <1>3 DEF Surfaced

\* Money that settles for a booking the sweeper released is never lost between
\* the provider and the owner, when no customer submits twice: the seat is being
\* looked for, or the owner was told, or the gateway audit row survives the crash.
THEOREM LateMoneyIsSeen ==
    ASSUME OneRequestEach PROVE Spec => []LateMoneySurfaces
<1> DEFINE Inv == \A p \in Requests :
                     pay[p].status = "paid" /\ bk[pay[p].booking].by = "expired"
                         => Surfaced(pay[p].txn)
<1>1. LateMoneySurfaces <=> Inv
  BY DEF LateMoneySurfaces, Surfaced, Filed
<1>2. Init => LateMoneySurfaces
  BY DEF Init, NoPayment, LateMoneySurfaces
<1>3. ASSUME IInv, MInv, OwnInv, OwnInv', LateMoneySurfaces, Next PROVE LateMoneySurfaces'
  <2> SUFFICES ASSUME NEW p \in Requests, pay'[p].status = "paid",
                      bk'[pay'[p].booking].by = "expired"
               PROVE  SurfacedAfter(pay'[p].txn)
    BY DEF LateMoneySurfaces, SurfacedAfter, Filed
  <2>0. bk'[p].by = "expired"
    BY <1>3 DEF OwnInv, OwnPages
  <2>1. \/ bk[p].by = "expired"
        \/ Sweep /\ p \in ReleasedBookings \cup OrphanedBookings
    BY <1>3, <2>0, NextTraced DEF Traced
  <2>2. pay'[p] = pay[p] \/ Opened(p) \/ Advanced(p)
    BY <1>3, NextPays DEF PayStep
  <2>3. CASE pay[p].status = "paid"
    <3>1. pay'[p] = pay[p]
      BY <2>2, <2>3 DEF Opened, Advanced
    <3>2. bk[p].by = "expired"
      BY <1>3, <2>1, <2>3, SweptBookings DEF OwnInv
    <3>3. Surfaced(pay[p].txn)
      BY <1>1, <1>3, <2>3, <3>2 DEF OwnInv, OwnPages
    <3> QED
      BY <1>3, <2>0, <2>3, <3>1, <3>3, SurfacedStays
  <2>4. CASE pay[p].status # "paid"
    <3>1. pay[p].status \in {"pending", "expired"}
      BY <2>2, <2>4 DEF Opened, Advanced
    <3>2. ~Sweep
      BY <1>3, <2>4, SweptPages
    <3>3. pay[p].status = "expired"
      BY <1>3, <2>1, <3>1, <3>2 DEF OwnInv, ReleasedOK
    <3> QED
      BY <1>3, <3>3, LateSettles DEF SurfacedAfter
  <2> QED
    BY <2>3, <2>4
<1>4. IInv /\ MInv /\ OwnInv /\ OwnInv' /\ LateMoneySurfaces /\ [Next]_vars
         => LateMoneySurfaces'
  <2>1. ASSUME LateMoneySurfaces, UNCHANGED vars PROVE LateMoneySurfaces'
    BY <2>1 DEF vars, LateMoneySurfaces
  <2> QED
    BY <1>3, <2>1
<1> QED
  BY <1>2, <1>4, InvariantHolds, MoneyInvariant, OwnInvariant, PTL DEF Spec

=============================================================================
