---------------------------- MODULE CustomerDesk ----------------------------
(***************************************************************************)
(* What a boutique knows of a customer and who may act for her: her row,   *)
(* her bookings with their manage links, her portal session, the staff's   *)
(* desk (phone correction, link resend, check-in, walk-in), the erasure of *)
(* a person and the retention job.  Composed with PhoneCodes: a booking or *)
(* a portal session needs a verification of the number.                    *)
(*                                                                         *)
(* A transaction is one step at its commit unless a read of it can be      *)
(* overtaken: correct_phone (three steps), check_in and undo_check_in      *)
(* (two), create_booking and erase_subject (two, both inside the tenant's  *)
(* advisory lock), a text (phone, link, delivery).  Bookings take no       *)
(* deposit here, so a cancelled one stays cancelled (DepositBooking has    *)
(* the other half); seats and instants are DepositBooking's too.           *)
(***************************************************************************)
EXTENDS PhoneCodes

CONSTANTS Customers, Bookings, Staff,
          Nobody,              \* the number "erased:{id}" of an erased row
          MaxRequests          \* bound: requests made

\* Ids of rows tell their table; NONE is nothing else, a set of numbers least of all.
ASSUME DeskAssumption ==
    /\ Customers \cap Bookings = {} /\ Codes \cap (Customers \cup Bookings) = {}
    /\ NONE \notin Customers /\ \A links \in SUBSET Phones : links # NONE
    /\ Nobody \notin Phones /\ Nobody # NONE /\ MaxRequests \in Nat

VARIABLES customer,  \* customers: number, marketing consent, who erased the row
          booking,   \* bookings, each with its link and its pending reminder
          cookies,   \* customer_sessions: whose live portal session each verification opened
          claim,     \* the booking request inside the tenant's advisory lock
          erasing,   \* the erasure inside it
          req,       \* req[s]: a desk request between its read and its commit
          texts,     \* texts being prepared
          trail,     \* trail[b]: check-ins minus undone check-ins in the audit log
          aged,      \* rows older than their retention period
          left       \* requests left

deskVars == <<customer, booking, cookies, claim, erasing, req, texts, trail, aged>>
vars == <<codeVars, deskVars, left>>

Numbers == Phones \cup {Nobody}

\* A link is a set of numbers: those the token behind manage_token_hash was
\* texted to.  NONE is a null hash.  The pending reminder carries that token
\* ("same") or one that no longer opens anything ("other").
Booking == [who : Customers \cup {NONE},
            status : {"none", "confirmed", "cancelled", "completed", "no_show"},
            started : BOOLEAN, arrived : BOOLEAN,
            link : (SUBSET Phones) \cup {NONE},
            reminder : {"none", "same", "other"}]
Customer == [phone : Numbers \cup {NONE}, consent : {"none", "given", "withdrawn"},
             erased : {"no", "subject", "retention"}]
Text == [booking : Bookings, who : Customers, to : Numbers \cup {NONE},
         link : {"unread", "rotate", "opens"}]

unused == [who |-> NONE, status |-> "none", started |-> FALSE, arrived |-> FALSE,
           link |-> NONE, reminder |-> "none"]

by_phone(p) == {k \in Customers : customer[k].phone = p}
live(b) == booking[b].status = "confirmed" /\ ~booking[b].started
list_live_for_customer(k) == {b \in Bookings : booking[b].who = k /\ live(b)}

Requested == left > 0 /\ left' = left - 1

\* Rows whose uncommitted UPDATE makes another writer wait.
customerLocked(k) ==
    \/ \E s \in Staff : req[s] # NONE /\ req[s].op = "phone" /\ req[s].listed /\ ~req[s].repointed
                        /\ req[s].who = k
    \/ erasing # NONE /\ erasing.who = k
bookingLocked(b) ==
    \/ \E s \in Staff : req[s] # NONE /\ req[s].op = "phone" /\ req[s].listed /\ req[s].repointed
                        /\ req[s].booking = b
    \/ erasing # NONE /\ b \in erasing.bookings

\* pg_advisory_xact_lock of the tenant, held to the end of the transaction.
advisoryLockFree == claim = NONE /\ erasing = NONE

\* A new token replaces the one behind b.  A text that carries the old one opens
\* nothing wherever it arrives, and is not kept.
staleTexts(bs) == {t \in texts : ~(t.booking \in bs /\ t.link = "opens")}

confirmation(b, k) == [booking |-> b, who |-> k, to |-> NONE, link |-> "opens"]

(***************************************************************************)
(* Booking and portal: what a verification opens                           *)
(***************************************************************************)

upsert(p, k) == k \in by_phone(p) \/ (by_phone(p) = {} /\ customer[k].phone = NONE)

\* create_booking up to the claim: the burn, the tenant's lock, the customer.
create_booking(o, p, k, consents) ==
    /\ Requested
    /\ advisoryLockFree
    /\ consume_verification(o, p)
    /\ upsert(p, k)
    /\ claim' = [code |-> o, phone |-> p, who |-> k, consents |-> consents]
    /\ UNCHANGED <<codeVars, customer, booking, cookies, erasing, req, texts, trail, aged>>

record_marketing_consent(row) == IF row.consent = "none" THEN [row EXCEPT !.consent = "given"] ELSE row

bookings_insert(k, soon) ==
    [unused EXCEPT !.who = k, !.status = "confirmed", !.link = {}, !.reminder = IF soon THEN "none" ELSE "same"]

\* The claim commits: row, link and reminder, then the confirmation's text.
claim_commit(b, soon) ==
    LET k == claim.who
        row == IF customer[k].phone = NONE THEN [customer[k] EXCEPT !.phone = claim.phone] ELSE customer[k]
    IN /\ claim # NONE
       /\ booking[b].status = "none"
       /\ customer[k].phone = NONE => by_phone(claim.phone) = {}
       /\ customer' = [customer EXCEPT ![k] = IF claim.consents THEN record_marketing_consent(row) ELSE row]
       /\ booking' = [booking EXCEPT ![b] = bookings_insert(k, soon)]
       /\ code' = burnt(claim.code)
       /\ opened' = [opened EXCEPT ![claim.code] = @ + 1]
       /\ texts' = texts \cup {confirmation(b, k)}
       /\ claim' = NONE
       /\ UNCHANGED <<guess, compared, cookies, erasing, req, trail, aged, left>>

\* Stale terms, a full slot, a taken instant: everything rolls back, the burn too.
claim_refused ==
    /\ claim # NONE
    /\ claim' = NONE
    /\ UNCHANGED <<codeVars, customer, booking, cookies, erasing, req, texts, trail, aged, left>>

sessions_insert(o, k) == [cookies EXCEPT ![o] = k]

active_by_token_hash(o) == cookies[o] # NONE

revoke_by_token_hash(o) == [cookies EXCEPT ![o] = NONE]

\* Waits for a booking that is burning the same row; burns it for an unknown
\* number too.
create_session(o, p) ==
    /\ Requested
    /\ consume_verification(o, p)
    /\ claim # NONE => claim.code # o
    /\ code' = burnt(o)
    /\ opened' = [opened EXCEPT ![o] = @ + 1]
    /\ IF by_phone(p) = {} THEN UNCHANGED cookies ELSE \E k \in by_phone(p) : cookies' = sessions_insert(o, k)
    /\ UNCHANGED <<guess, compared, customer, booking, claim, erasing, req, texts, trail, aged>>

logout(o) ==
    /\ active_by_token_hash(o)
    /\ cookies' = revoke_by_token_hash(o)
    /\ UNCHANGED <<codeVars, customer, booking, claim, erasing, req, texts, trail, aged, left>>

hers(b) == \E o \in Codes : active_by_token_hash(o) /\ cookies[o] = booking[b].who
resolve(b) == booking[b].link # NONE /\ booking[b].link # {}

cancelled(row) == [row EXCEPT !.status = "cancelled", !.reminder = "none"]

\* Cancelled from the portal, from the manage link or by the owner.
cancel(b) ==
    /\ Requested
    /\ live(b) /\ ~bookingLocked(b)
    /\ booking' = [booking EXCEPT ![b] = cancelled(@)]
    /\ UNCHANGED <<codeVars, customer, cookies, claim, erasing, req, texts, trail, aged>>

customer_cancel(b) == (resolve(b) \/ hers(b)) /\ cancel(b)
owner_cancel(b) == cancel(b)

(***************************************************************************)
(* The staff's desk                                                        *)
(***************************************************************************)

\* correct_phone's reads.  `hers` is history: her live bookings from here on.
correct_phone(s, b, p) ==
    LET k == booking[b].who
        target == IF by_phone(p) = {} THEN NONE ELSE CHOOSE x \in by_phone(p) : TRUE
    IN /\ Requested
       /\ req[s] = NONE
       /\ live(b)
       /\ req' = [req EXCEPT ![s] = [op |-> "phone", booking |-> b, phone |-> p, who |-> k,
                                     target |-> target, repointed |-> target \notin {NONE, k},
                                     listed |-> FALSE, rotate |-> {}, hers |-> list_live_for_customer(k)]]
       /\ UNCHANGED <<codeVars, customer, booking, cookies, claim, erasing, texts, trail, aged>>

\* Mutant: only the edited booking gets a new link.
BugOneLink(r) == {r.booking}

\* A re-pointed booking alone, or every live booking of the corrected customer.
links_to_rotate(r) == IF r.repointed THEN {r.booking} ELSE list_live_for_customer(r.who)

\* The UPDATE of the booking (re-point) or of the number, and the list of
\* links to rotate, still uncommitted.
correct_write(s) ==
    LET r == req[s] IN
    /\ r # NONE /\ r.op = "phone" /\ ~r.listed
    /\ IF r.repointed THEN live(r.booking) /\ ~bookingLocked(r.booking) ELSE ~customerLocked(r.who)
    /\ req' = [req EXCEPT ![s].listed = TRUE,
                          ![s].rotate = links_to_rotate(r)]
    /\ UNCHANGED <<codeVars, customer, booking, cookies, claim, erasing, texts, trail, aged, left>>

set_phone(k, p) == [customer EXCEPT ![k].phone = p]
set_customer_id(b, k) == [booking EXCEPT ![b].who = k]

\* set_manage_token_hash, and the token of the pending reminder with it.
rotated(row) == [row EXCEPT !.link = {}, !.reminder = IF @ = "none" THEN "none" ELSE "same"]

_rotate_links(rows, bs) == [b \in Bookings |-> IF b \in bs THEN rotated(rows[b]) ELSE rows[b]]

\* Every listed booking must still be live, the corrected one among them, and
\* the number still free (the unique index).
correctable(r) ==
    /\ \A b \in r.rotate : live(b) /\ (bookingLocked(b) => r.repointed)
    /\ r.booking \in r.rotate
    /\ ~r.repointed => by_phone(r.phone) \subseteq {r.who}

noLongerHers(r, b) ==
    IF r # NONE /\ r.op = "phone" THEN [r EXCEPT !.hers = @ \ {b}] ELSE r

correct_commit(s) ==
    LET r == req[s] IN
    /\ r # NONE /\ r.op = "phone" /\ r.listed /\ correctable(r)
    /\ customer' = IF r.repointed THEN customer ELSE set_phone(r.who, r.phone)
    /\ booking' = _rotate_links(IF r.repointed THEN set_customer_id(r.booking, r.target) ELSE booking,
                                r.rotate)
    /\ texts' = staleTexts(r.rotate)
                \cup {confirmation(r.booking, IF r.repointed THEN r.target ELSE r.who)}
    /\ req' = [x \in Staff |-> IF x # s /\ r.repointed THEN noLongerHers(req[x], r.booking)
                               ELSE IF x = s THEN NONE ELSE req[x]]
    /\ UNCHANGED <<codeVars, cookies, claim, erasing, trail, aged, left>>

\* A request that lost to a concurrent write is rolled back.
correct_refused(s) ==
    LET r == req[s] IN
    /\ r # NONE /\ r.op = "phone"
    /\ IF r.listed THEN ~correctable(r) ELSE r.repointed /\ ~live(r.booking)
    /\ req' = [req EXCEPT ![s] = NONE]
    /\ UNCHANGED <<codeVars, customer, booking, cookies, claim, erasing, texts, trail, aged, left>>

resend_link(b) ==
    /\ Requested
    /\ live(b) /\ ~bookingLocked(b)
    /\ booking' = _rotate_links(booking, {b})
    /\ texts' = staleTexts({b}) \cup {confirmation(b, booking[b].who)}
    /\ UNCHANGED <<codeVars, customer, cookies, claim, erasing, req, trail, aged>>

\* A replayed booking request: the same, without a look at the status.
reissue_manage_token(b) ==
    /\ Requested
    /\ booking[b].status # "none" /\ ~bookingLocked(b)
    /\ booking' = _rotate_links(booking, {b})
    /\ texts' = staleTexts({b}) \cup {confirmation(b, booking[b].who)}
    /\ UNCHANGED <<codeVars, customer, cookies, claim, erasing, req, trail, aged>>

\* The reminder is written again with the token it carried, a new one if there
\* was no pending row, or not at all when the new instant is too near.
upsert_reminder(row, near) ==
    CASE near -> [row EXCEPT !.reminder = "none"]
      [] ~near /\ row.reminder = "none" -> [row EXCEPT !.reminder = "same", !.link = {}]
      [] OTHER -> row

reschedule(b, near) ==
    LET minted == ~near /\ booking[b].reminder = "none" IN
    /\ Requested
    /\ advisoryLockFree /\ live(b) /\ ~bookingLocked(b)
    /\ booking' = [booking EXCEPT ![b] = upsert_reminder(@, near)]
    /\ texts' = (IF minted THEN staleTexts({b}) ELSE texts)
                \cup {[booking |-> b, who |-> booking[b].who, to |-> NONE, link |-> "unread"]}
    /\ UNCHANGED <<codeVars, customer, cookies, claim, erasing, req, trail, aged>>

\* A walk-in has no link, and has started and arrived as it is written.
insert_walk_in(k) ==
    [unused EXCEPT !.who = k, !.status = "confirmed", !.started = TRUE, !.arrived = TRUE]

create_walk_in(b, k) ==
    /\ Requested
    /\ customer[k].phone # NONE /\ customer[k].erased = "no"
    /\ booking[b].status = "none"
    /\ booking' = [booking EXCEPT ![b] = insert_walk_in(k)]
    /\ trail' = [trail EXCEPT ![b] = 1]
    /\ UNCHANGED <<codeVars, customer, cookies, claim, erasing, req, texts, aged>>

\* check_in and undo_check_in: the read, which may already answer.
check_in(s, b) ==
    /\ Requested
    /\ req[s] = NONE
    /\ booking[b].status = "confirmed" /\ ~booking[b].arrived
    /\ req' = [req EXCEPT ![s] = [op |-> "check_in", booking |-> b]]
    /\ UNCHANGED <<codeVars, customer, booking, cookies, claim, erasing, texts, trail, aged>>

undo_check_in(s, b) ==
    /\ Requested
    /\ req[s] = NONE
    /\ booking[b].arrived
    /\ req' = [req EXCEPT ![s] = [op |-> "undo", booking |-> b]]
    /\ UNCHANGED <<codeVars, customer, booking, cookies, claim, erasing, texts, trail, aged>>

check_in_guard(row) == ~row.arrived /\ row.status = "confirmed"
undo_guard(row) == row.arrived

\* The guarded UPDATE; the audit row only if it wrote.
arrival_commit(s) ==
    LET r == req[s]
        row == booking[r.booking]
        wrote == IF r.op = "check_in" THEN check_in_guard(row) ELSE undo_guard(row)
    IN /\ r # NONE /\ r.op \in {"check_in", "undo"}
       /\ ~bookingLocked(r.booking)
       /\ booking' = IF wrote THEN [booking EXCEPT ![r.booking].arrived = (r.op = "check_in")] ELSE booking
       /\ trail' = IF wrote THEN [trail EXCEPT ![r.booking] = @ + IF r.op = "check_in" THEN 1 ELSE -1] ELSE trail
       /\ req' = [req EXCEPT ![s] = NONE]
       /\ UNCHANGED <<codeVars, customer, cookies, claim, erasing, texts, aged, left>>

\* confirm, no_show, complete: only a booking that started can leave confirmed.
_transition(b, to) ==
    /\ Requested
    /\ to \in {"confirmed", "no_show", "completed"}
    /\ booking[b].status \in {"confirmed", "no_show", "completed"} \ {to}
    /\ to # "confirmed" => booking[b].started
    /\ ~bookingLocked(b)
    /\ booking' = [booking EXCEPT ![b].status = to]
    /\ UNCHANGED <<codeVars, customer, cookies, claim, erasing, req, texts, trail, aged>>

(***************************************************************************)
(* Texts                                                                   *)
(***************************************************************************)

_customer_phone(t) ==
    /\ t.to = NONE
    /\ texts' = (texts \ {t}) \cup {[t EXCEPT !.to = customer[t.who].phone]}
    /\ UNCHANGED <<codeVars, customer, booking, cookies, claim, erasing, req, trail, aged, left>>

\* notify_owner_reschedule reads the number first and the link afterwards, from
\* the pending reminder.
_live_token(t) ==
    /\ t.to # NONE /\ t.link = "unread"
    /\ texts' = (texts \ {t}) \cup CASE booking[t.booking].reminder = "same" -> {[t EXCEPT !.link = "opens"]}
                                      [] booking[t.booking].reminder = "other" -> {}
                                      [] OTHER -> {[t EXCEPT !.link = "rotate"]}
    /\ UNCHANGED <<codeVars, customer, booking, cookies, claim, erasing, req, trail, aged, left>>

\* No pending row to copy from: a new token, whatever became of the booking and
\* without the reminder that may have been written since.
_rotate(t) ==
    LET b == t.booking IN
    /\ t.link = "rotate"
    /\ booking[b].status # "none" /\ ~bookingLocked(b)
    /\ booking' = [booking EXCEPT ![b].link = {}, ![b].reminder = IF @ = "none" THEN "none" ELSE "other"]
    /\ texts' = (staleTexts({b}) \ {t}) \cup {[t EXCEPT !.link = "opens"]}
    /\ UNCHANGED <<codeVars, customer, cookies, claim, erasing, req, trail, aged, left>>

\* The number is a person's.
reaches(t) == t.to # Nobody

\* send_sms: an erased number is refused.  A text the provider fails to take is
\* one that stays here.
_deliver(t) ==
    /\ t.to # NONE /\ t.link = "opens"
    /\ booking' = IF reaches(t) THEN [booking EXCEPT ![t.booking].link = @ \cup {t.to}] ELSE booking
    /\ texts' = texts \ {t}
    /\ UNCHANGED <<codeVars, customer, cookies, claim, erasing, req, trail, aged, left>>

(***************************************************************************)
(* Privacy: consent, erasure, retention                                    *)
(***************************************************************************)

withdraw_marketing_consent(row) == IF row.consent = "given" THEN [row EXCEPT !.consent = "withdrawn"] ELSE row

\* The same, as a column of the erasure's UPDATE.
_withdraw_case(row) == withdraw_marketing_consent(row)

withdraw_marketing(k) ==
    /\ Requested
    /\ ~customerLocked(k) /\ customer[k].consent = "given"
    /\ customer' = [customer EXCEPT ![k] = withdraw_marketing_consent(@)]
    /\ UNCHANGED <<codeVars, booking, cookies, claim, erasing, req, texts, trail, aged>>

\* Mutant: the erasure takes no lock.
BugEraseUnlocked(k) == list_live_for_customer(k) = {}

\* Inside the tenant's lock, with no confirmed booking ahead.
erasable(k) == advisoryLockFree /\ list_live_for_customer(k) = {}

\* erase_subject up to the revocation of her sessions, inside the tenant's lock.
\* A second erasure of the same person only writes an audit row.
erase_subject(k) ==
    /\ Requested
    /\ erasable(k) /\ ~customerLocked(k)
    /\ customer[k].phone # NONE /\ customer[k].erased # "subject"
    /\ erasing' = [who |-> k, phone |-> customer[k].phone,
                bookings |-> {b \in Bookings : booking[b].who = k},
                revoked |-> {o \in Codes : cookies[o] = k}]
    /\ UNCHANGED <<codeVars, customer, booking, cookies, claim, req, texts, trail, aged>>

forgotten(row) == [_withdraw_case(row) EXCEPT !.phone = Nobody, !.erased = "subject"]

revoke_all_for_customer == [o \in Codes |-> IF o \in erasing.revoked THEN NONE ELSE cookies[o]]

\* Her rows in message_log, queue_tickets and waitlist_entries hold nothing that
\* is told apart here but her number, and are scrubbed in the same commit.  Her
\* codes are deleted last, after waiting for whoever is spending one; then
\* the commit.
erase_commit ==
    /\ erasing # NONE
    /\ customer' = [customer EXCEPT ![erasing.who] = forgotten(@)]
    /\ booking' = [b \in Bookings |-> IF b \in erasing.bookings
                                      THEN [booking[b] EXCEPT !.link = NONE, !.reminder = "none"]
                                      ELSE booking[b]]
    /\ texts' = staleTexts(erasing.bookings)
    /\ code' = without({o \in Codes : code[o].phone = erasing.phone})
    /\ cookies' = revoke_all_for_customer
    /\ erasing' = NONE
    /\ UNCHANGED <<guess, compared, opened, claim, req, trail, aged, left>>

Idle == /\ advisoryLockFree /\ texts = {}
        /\ \A s \in Staff : req[s] = NONE
        /\ \A v \in Verifiers : guess[v] = NONE

\* Years pass: every row there is outlives its retention period.
Age ==
    /\ Idle /\ aged = {}
    /\ aged' = {k \in Customers : customer[k].phone # NONE} \cup {o \in Codes : code[o].state # "none"}
               \cup {b \in Bookings : booking[b].status # "none"}
    /\ booking' = [b \in Bookings |-> [booking[b] EXCEPT !.started = booking[b].status # "none"]]
    /\ cookies' = [o \in Codes |-> NONE]
    /\ UNCHANGED <<codeVars, customer, claim, erasing, req, texts, trail, left>>

_purge_otp_codes ==
    /\ claim # NONE => claim.code \notin aged
    /\ aged \cap Codes # {}
    /\ code' = without(aged \cap Codes)
    /\ aged' = aged \ Codes
    /\ UNCHANGED <<guess, compared, opened, customer, booking, cookies, claim, erasing, req, texts, trail, left>>

\* Each booking goes with its scheduled messages.
_purge_bookings ==
    /\ aged \cap Bookings # {}
    /\ \A b \in aged \cap Bookings : ~bookingLocked(b)
    /\ booking' = [b \in Bookings |-> IF b \in aged THEN unused ELSE booking[b]]
    /\ trail' = [b \in Bookings |-> IF b \in aged THEN 0 ELSE trail[b]]
    /\ texts' = {t \in texts : t.booking \notin aged}
    /\ req' = [s \in Staff |-> IF req[s] # NONE /\ req[s].booking \in aged THEN NONE ELSE req[s]]
    /\ aged' = aged \ Bookings
    /\ UNCHANGED <<codeVars, customer, cookies, claim, erasing, left>>

orphan(k) == \A b \in Bookings : booking[b].who # k

\* The retention job takes no lock of the tenant's.
_scrub_customers ==
    LET due == {k \in aged \cap Customers : customer[k].erased = "no" /\ orphan(k) /\ ~customerLocked(k)} IN
    /\ due # {}
    /\ customer' = [k \in Customers |-> IF k \in due
                                        THEN [customer[k] EXCEPT !.phone = Nobody, !.erased = "retention"]
                                        ELSE customer[k]]
    /\ UNCHANGED <<codeVars, booking, cookies, claim, erasing, req, texts, trail, aged, left>>

\* The day of her appointments comes.  A request keeps the `now` it started
\* with, so the clock does not overtake a correction.
Start ==
    /\ \E b \in Bookings : live(b)
    /\ \A s \in Staff : req[s] # NONE => req[s].op # "phone"
    /\ booking' = [b \in Bookings |-> [booking[b] EXCEPT !.started = booking[b].status # "none"]]
    /\ UNCHANGED <<codeVars, customer, cookies, claim, erasing, req, texts, trail, aged, left>>

(***************************************************************************)
(* Specification                                                           *)
(***************************************************************************)

\* A customer with her bookings, and others whose numbers are their own.
Init ==
    /\ CodesInit
    /\ \E phone \in [Customers -> Phones \cup {NONE}], k \in Customers, consent \in {"none", "given"},
          booked \in SUBSET Bookings :
        /\ phone[k] # NONE /\ booked # {}
        /\ \A x, y \in Customers : phone[x] = phone[y] => x = y
        /\ customer = [x \in Customers |->
                         [phone |-> phone[x], consent |-> IF x = k THEN consent ELSE "none", erased |-> "no"]]
        /\ booking = [b \in Bookings |->
                        IF b \in booked
                        THEN [unused EXCEPT !.who = k, !.status = "confirmed", !.link = {phone[k]},
                                            !.reminder = "same"]
                        ELSE unused]
    /\ cookies = [o \in Codes |-> NONE]
    /\ claim = NONE
    /\ erasing = NONE
    /\ req = [s \in Staff |-> NONE]
    /\ texts = {}
    /\ trail = [b \in Bookings |-> 0]
    /\ aged = {}
    /\ left = MaxRequests

CodeStep ==
    \/ /\ Requested /\ UNCHANGED deskVars
       /\ \/ \E p \in Phones : send(p)
          \/ \E v \in Verifiers, p \in Phones : verify_read(v, p)
    \/ /\ UNCHANGED <<deskVars, left>>
       /\ \E v \in Verifiers, right, late \in BOOLEAN : verify(v, right, late)

OpenStep ==
    \/ \E o \in Codes, p \in Phones, k \in Customers, c \in BOOLEAN : create_booking(o, p, k, c)
    \/ \E b \in Bookings, soon \in BOOLEAN : claim_commit(b, soon)
    \/ claim_refused
    \/ \E o \in Codes, p \in Phones : create_session(o, p)
    \/ \E o \in Codes : logout(o)
    \/ \E b \in Bookings : customer_cancel(b)

StaffStep ==
    \/ \E b \in Bookings : owner_cancel(b) \/ resend_link(b) \/ reissue_manage_token(b)
    \/ \E b \in Bookings, near \in BOOLEAN : reschedule(b, near)
    \/ \E b \in Bookings, k \in Customers : create_walk_in(b, k)
    \/ \E b \in Bookings, to \in {"confirmed", "no_show", "completed"} : _transition(b, to)
    \/ \E s \in Staff :
        \/ \E b \in Bookings, p \in Phones : correct_phone(s, b, p)
        \/ correct_write(s) \/ correct_commit(s) \/ correct_refused(s)
        \/ \E b \in Bookings : check_in(s, b) \/ undo_check_in(s, b)
        \/ arrival_commit(s)

TextStep ==
    \E t \in texts : _customer_phone(t) \/ _live_token(t) \/ _rotate(t) \/ _deliver(t)

PrivacyStep ==
    \/ \E k \in Customers : withdraw_marketing(k) \/ erase_subject(k)
    \/ erase_commit
    \/ Age \/ _purge_otp_codes \/ _purge_bookings \/ _scrub_customers

Next == CodeStep \/ OpenStep \/ StaffStep \/ TextStep \/ PrivacyStep \/ Start

Spec == Init /\ [][Next]_vars

(***************************************************************************)
(* Properties                                                              *)
(***************************************************************************)

TypeOK ==
    /\ CodesTypeOK
    /\ customer \in [Customers -> Customer]
    /\ booking \in [Bookings -> Booking]
    /\ cookies \in [Codes -> Customers \cup {NONE}]
    /\ texts \subseteq Text
    /\ left \in 0..MaxRequests

number(b) == customer[booking[b].who].phone

\* A phone correction leaves no old link behind: when it commits, every booking
\* that was hers from its first read on, and whose number it moves, has a token
\* nobody was sent, in the row and in its pending reminder, however many bookings
\* she has and whatever was cancelled, moved or re-pointed meanwhile.
OldLinkDies ==
    \A s \in Staff :
       correct_commit(s) =>
           \A b \in req[s].hers : (live(b)' /\ number(b)' # number(b)) =>
               booking'[b].link = {} /\ booking'[b].reminder # "other"

\* A withdrawn consent is never standing again, whatever a later booking form
\* ticks: the evidence of when she withdrew is kept.
WithdrawnForGood ==
    \A k \in Customers : customer[k].consent = "withdrawn" => customer'[k].consent = "withdrawn"

\* An erasure and a booking never overlap: nobody is erased under a claim that
\* has already picked her row, which would leave a live appointment on a row
\* without a name and a number.
EraseMeetsNoClaim ==
    \A k \in Customers :
       (customer[k].erased # "subject" /\ customer'[k].erased = "subject") =>
           (claim # NONE => claim.who # k)

\* The audit log agrees with the arrivals: two tablets checking one customer in,
\* or undoing it, write one row for each change and none for a no-op.
ArrivalsAudited == \A b \in Bookings : trail[b] = IF booking[b].arrived THEN 1 ELSE 0

\* Rows are well formed, and guesses, verifications and arrivals are each counted
\* right across racing requests.
DeskIsSound == TypeOK /\ GuessesBounded /\ SpentOnce /\ ArrivalsAudited

\* What opened her bookings once and was taken back opens nothing any more: a code
\* that was removed, a link that her old number was sent.
OldKeysAreDead == [][RemovedCodeIsDead /\ OldLinkDies]_<<code, req>>

\* Her word on her own data stands: consent she withdrew, and an erasure, which
\* never meets a booking of hers on its way.
HerWordStands == [][WithdrawnForGood /\ EraseMeetsNoClaim]_customer

=============================================================================
