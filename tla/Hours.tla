-------------------------------- MODULE Hours --------------------------------
(***************************************************************************)
(* A boutique's opening hours and the slots they offer (boutique/service,  *)
(* booking/slots, booking/slots_io; availability_rules and                 *)
(* availability_exceptions): the weekly windows, replaced whole, the dates *)
(* that close or open otherwise, and the three readings of the grid, the   *)
(* picker's, the claim's and the dashboard's.                              *)
(*                                                                         *)
(* Time is counted in ticks.  A local time is date * DayLength + wall; the *)
(* clocks go forward at SpringAt and back at FallAt, by Shift.  A claim    *)
(* and a change of an exception are one step each: the claim's check and   *)
(* its insert are one transaction, and an exception that commits between   *)
(* them is one that commits after it.                                      *)
(***************************************************************************)
EXTENDS Integers, FiniteSets, FiniteSetsExt

CONSTANTS LastDate,              \* dates are 0 .. LastDate, the picker's too (a bound)
          Weekday,               \* date.weekday() of each date
          DaysPerWeek,           \* seven in the code
          DayLength,             \* ticks of a day
          SLOT_INTERVAL,         \* SLOT_INTERVAL_MINUTES, in ticks
          SpringAt, FallAt,      \* the local times at which the clocks change
          Shift,                 \* and by how much
          MAX_RULE_CAPACITY,
          MAX_WEEKLY_RULES,
          SLOT_WINDOW_MAX_DAYS,
          SLOT_WINDOW_DEFAULT_DAYS,
          Weeks,                 \* the weeks an owner may submit, valid or not
          SpecialHours,          \* and the times of an exception
          Replaces,              \* submissions of a week (a bound)
          MaxSeats               \* live bookings (a bound)

Dates == 0 .. LastDate
Instants == 0 .. (LastDate + 1) * DayLength - 1

DEFAULT_SLOT_CAPACITY == 1
NoTime == -1
Free == "free"

Walls == 0 .. DayLength

\* No clock changes across a midnight: in Israel they go forward at two.
ASSUME HoursAssumption ==
    /\ \A n \in {DayLength, SLOT_INTERVAL, Shift, DaysPerWeek, MAX_RULE_CAPACITY} : n \in Nat \ {0}
    /\ \A n \in {LastDate, SpringAt, FallAt, MaxSeats, MAX_WEEKLY_RULES,
                SLOT_WINDOW_MAX_DAYS, SLOT_WINDOW_DEFAULT_DAYS} : n \in Nat
    /\ SpringAt + 2 * Shift <= FallAt
    /\ \A d \in 0 .. LastDate + 1 :
          d * DayLength <= SpringAt \/ SpringAt + Shift <= d * DayLength
    /\ Weekday \in [Dates -> 0 .. DaysPerWeek - 1]
    /\ Free \notin Replaces

\* The requests' schemas: the times are times of a day, the numbers numbers.
ASSUME InputsAssumption ==
    /\ \A week \in Weeks :
          /\ IsFiniteSet(week)
          /\ week \subseteq [day : Int, open : Walls, close : Walls, capacity : Int]
    /\ SpecialHours \subseteq [open : Walls \union {NoTime}, close : Walls \union {NoTime}]

VARIABLES rules,       \* availability_rules: the live rows
          exceptions,  \* availability_exceptions: the live rows
          booked,      \* the live bookings at each instant
          now,
          replace,     \* the transactions of replace_weekly_rules
          hoursLock    \* who holds the tenant's advisory lock

hoursVars == <<rules, exceptions, booked, now, replace, hoursLock>>

NoReplace == [step |-> "none", week |-> {}, retired |-> {}]

HoursInit ==
    /\ rules = {} /\ exceptions = {}
    /\ booked = [i \in Instants |-> 0]
    /\ now = 0
    /\ replace = [w \in Replaces |-> NoReplace]
    /\ hoursLock = Free

\* A row knows the submission that put it there.
AvailabilityRule ==
    [day : 0 .. DaysPerWeek - 1, open : Walls, close : Walls, capacity : 1 .. MAX_RULE_CAPACITY,
     put : Replaces]

AvailabilityException ==
    [date : Dates, open : Walls \union {NoTime}, close : Walls \union {NoTime}]

HoursTypeOK ==
    /\ rules \subseteq AvailabilityRule /\ exceptions \subseteq AvailabilityException
    /\ booked \in [Instants -> 0 .. MaxSeats]
    /\ now \in Nat
    /\ \A w \in Replaces : replace[w].step \in {"none", "retired", "done", "refused"}
    /\ hoursLock \in Replaces \union {Free}

----------------------------------------------------------------------------
(* Validation. *)

\* At most so many windows, each well formed, and no two of a day overlap; that
\* one closes when the next opens is fine.
validate_weekly_rules(week) ==
    /\ Cardinality(week) <= MAX_WEEKLY_RULES
    /\ \A r \in week : /\ r.day \in 0 .. DaysPerWeek - 1
                       /\ r.open < r.close
                       /\ r.capacity \in 1 .. MAX_RULE_CAPACITY
    /\ \A r, s \in week : (r # s /\ r.day = s.day) => (r.close <= s.open \/ s.close <= r.open)

\* Both times, or neither.
validate_exception_times(times) ==
    \/ times.open = NoTime /\ times.close = NoTime
    \/ times.open # NoTime /\ times.close # NoTime /\ times.open < times.close

----------------------------------------------------------------------------
(* Wall time and instants. *)

\* 0 = Sunday; Python's weekday() has 0 = Monday.
jerusalem_day_index(date) == (Weekday[date] + 1) % DaysPerWeek

\* A local time with fold = 0, as an instant: a time that occurs twice is its
\* first occurrence, one that never occurs is read with the offset before the jump.
astimezone(local) ==
    IF SpringAt + Shift <= local /\ local < FallAt THEN local - Shift ELSE local

\* The local time of an instant.
wall_time(i) == IF SpringAt <= i /\ i < FallAt - Shift THEN i + Shift ELSE i

local_date(i) == wall_time(i) \div DayLength

midnight(date) == astimezone(date * DayLength)

\* A wall time that does not survive the round trip does not exist.
to_utc(date, wall) ==
    LET local == date * DayLength + wall
    IN  IF wall_time(astimezone(local)) = local THEN astimezone(local) ELSE NoTime

----------------------------------------------------------------------------
(* The grid. *)

Window(r, capacity) == [open |-> r.open, close |-> r.close, capacity |-> capacity]

\* AvailabilityExceptionsRepository.list_active, of one date.
exceptions_on(date) == {x \in exceptions : x.date = date}

\* An exception beats the weekly grid in both directions, with the least of the
\* weekday's capacities.
windows_for(date) ==
    LET day_rules == {r \in rules : r.day = jerusalem_day_index(date)}
        least == IF day_rules = {} THEN DEFAULT_SLOT_CAPACITY
                 ELSE Min({r.capacity : r \in day_rules})
    IN  IF exceptions_on(date) # {}
        THEN {Window(x, least) : x \in {x \in exceptions_on(date) : x.open # NoTime}}
        ELSE {Window(r, r.capacity) : r \in day_rules}

\* Each start of a window: its opening time, then every interval before it closes.
starts(w) == {t \in w.open .. w.close - 1 : (t - w.open) % SLOT_INTERVAL = 0}

\* Keyed by instant, the larger capacity where two windows meet; what is past is
\* left out, and so is what is full.
materialize_slots(counts, first, last) ==
    LET offers == UNION {UNION {{[at |-> to_utc(d, t), capacity |-> w.capacity] : t \in starts(w)}
                            : w \in windows_for(d)} : d \in first .. last}
        found == {o \in offers : o.at # NoTime /\ o.at > now}
        slots == {[at |-> i, capacity |-> Max({o.capacity : o \in {o \in found : o.at = i}}),
                   booked |-> counts[i]] : i \in {o.at : o \in found}}
    IN  {s \in slots : s.booked < s.capacity}

remaining(s) == Max({s.capacity - s.booked, 0})

\* The bookings from one instant up to, not including, another.
count_by_start(from, until) ==
    [i \in Instants |-> IF from <= i /\ i < until THEN booked[i] ELSE 0]

day_slots(day) ==
    materialize_slots(count_by_start(midnight(day), midnight(day + 1)), day, day)

\* What a claim asks: the instant, as its own day's grid offers it.
offered_slot(i) == {s \in day_slots(local_date(i)) : s.at = i}

\* The window a picker asks for, held between today and the ceiling; backwards it
\* is refused.
slot_window(from, to) ==
    LET today == local_date(now)
        ceiling == Min({today + SLOT_WINDOW_MAX_DAYS, LastDate})
        start == Min({Max({from, today}), ceiling})
    IN  [first |-> start,
         last |-> IF to = NoTime THEN Min({start + SLOT_WINDOW_DEFAULT_DAYS, ceiling})
                  ELSE Min({to, ceiling})]

list_slots(from, to) ==
    LET w == slot_window(from, to)
    IN  materialize_slots(count_by_start(midnight(w.first), midnight(w.last + 1)),
                          w.first, w.last)

\* The sums go over the grid, not over the bookings: an instant the hours no
\* longer offer counts for nothing.
grid_totals(grid, counts) ==
    [capacity |-> MapThenSumSet(LAMBDA s : s.capacity, grid),
     booked |-> MapThenSumSet(LAMBDA s : Min({counts[s.at], s.capacity}), grid)]

\* How full the window is; the grid is taken as if nothing were booked, so that
\* the full slots stay in.
forward_capacity(first, last) ==
    grid_totals(materialize_slots([i \in Instants |-> 0], first, last),
                count_by_start(midnight(first), midnight(last + 1)))

----------------------------------------------------------------------------
(* Actions. *)

\* pg_advisory_xact_lock: the claim of a seat takes the same key.
lock_free == hoursLock = Free

\* The rows a replacement retires: those live when it runs.
soft_delete_all == rules

\* The rows it puts in their place.
rules_insert(w) ==
    {[day |-> r.day, open |-> r.open, close |-> r.close, capacity |-> r.capacity, put |-> w] :
        r \in replace[w].week}

\* replace_weekly_rules: the week is checked before anything is touched; under the
\* lock the rows that are live now are retired.
replace_weekly_rules(w, week) ==
    /\ replace[w].step = "none"
    /\ \/ /\ validate_weekly_rules(week) /\ lock_free
          /\ replace' = [replace EXCEPT ![w] = [step |-> "retired", week |-> week,
                                                 retired |-> soft_delete_all]]
          /\ hoursLock' = w
       \/ /\ ~validate_weekly_rules(week)
          /\ replace' = [replace EXCEPT ![w].step = "refused"]
          /\ UNCHANGED hoursLock
    /\ UNCHANGED <<rules, exceptions, booked, now>>

\* The new rows, and the commit, which lets the lock go.
insert_week(w) ==
    /\ replace[w].step = "retired"
    /\ rules' = (rules \ replace[w].retired) \union rules_insert(w)
    /\ replace' = [replace EXCEPT ![w] = [NoReplace EXCEPT !.step = "done"]]
    /\ hoursLock' = Free
    /\ UNCHANGED <<exceptions, booked, now>>

\* The connection dies before the commit.
rollback_week(w) ==
    /\ replace[w].step = "retired"
    /\ replace' = [replace EXCEPT ![w] = [NoReplace EXCEPT !.step = "refused"]]
    /\ hoursLock' = Free
    /\ UNCHANGED <<rules, exceptions, booked, now>>

\* The partial unique index on (tenant_id, date).
date_taken(date) == exceptions_on(date) # {}

exceptions_insert(date, times) ==
    exceptions' = exceptions \union {[date |-> date, open |-> times.open, close |-> times.close]}

exceptions_soft_delete(x) == x \in exceptions /\ exceptions' = exceptions \ {x}

\* One live row a date; no lock.
add_availability_exception(date, times) ==
    /\ validate_exception_times(times)
    /\ ~date_taken(date)
    /\ exceptions_insert(date, times)
    /\ UNCHANGED <<rules, booked, now, replace, hoursLock>>

remove_availability_exception(x) ==
    /\ exceptions_soft_delete(x)
    /\ UNCHANGED <<rules, booked, now, replace, hoursLock>>

\* A claim commits: the instant is still offered, under the lock.
claim_slot(i) ==
    /\ lock_free
    /\ MapThenSumSet(LAMBDA j : booked[j], Instants) < MaxSeats
    /\ offered_slot(i) # {}
    /\ booked' = [booked EXCEPT ![i] = @ + 1]
    /\ UNCHANGED <<rules, exceptions, now, replace, hoursLock>>

\* A booking is cancelled, by whoever may.
free_seat(i) ==
    /\ booked[i] > 0
    /\ booked' = [booked EXCEPT ![i] = @ - 1]
    /\ UNCHANGED <<rules, exceptions, now, replace, hoursLock>>

hours_tick ==
    /\ now + SLOT_INTERVAL \in Instants
    /\ now' = now + SLOT_INTERVAL
    /\ UNCHANGED <<rules, exceptions, booked, replace, hoursLock>>

HoursNext ==
    \/ \E w \in Replaces : \/ \E week \in Weeks : replace_weekly_rules(w, week)
                           \/ insert_week(w) \/ rollback_week(w)
    \/ \E d \in Dates, times \in SpecialHours : add_availability_exception(d, times)
    \/ \E x \in exceptions : remove_availability_exception(x)
    \/ \E i \in Instants : claim_slot(i) \/ free_seat(i)
    \/ hours_tick

----------------------------------------------------------------------------
(* What the hours promise. *)

\* The comment at replace_weekly_rules: two concurrent replacements never leave
\* the union of their weeks.  The live week is one submission, and a valid one.
WeekIsOneSubmission ==
    /\ validate_weekly_rules(rules)
    /\ \A r, s \in rules : r.put = s.put

\* What the picker shows is what the claim grants: every slot of every window is
\* in the grid of the one day that the claim looks at, with the same seats.
ShownIsClaimable ==
    \A from \in Dates, to \in Dates \union {NoTime} :
        (to # NoTime => from <= to) =>
            \A s \in list_slots(from, to) : offered_slot(s.at) = {s}

\* Every slot of a day is ahead and reads, on the boutique's clock, within the
\* hours that are in force: the exception's if the date has one (closed has none),
\* else a weekly window's; also on the days of 23 and of 25 hours.
SlotsKeepTheHours ==
    \A d \in Dates : \A s \in day_slots(d) :
        LET wall == wall_time(s.at) - d * DayLength
            special == exceptions_on(d)
            weekly == {r \in rules : r.day = jerusalem_day_index(d)}
        IN  /\ s.at > now
            /\ \E h \in IF special # {} THEN special ELSE weekly :
                    h.open <= wall /\ wall < h.close

\* The dashboard's two numbers are never at odds with the grid that customers see:
\* what they leave free is what the days still offer, whatever bookings an earlier
\* week left behind and however far the capacity has shrunk.
TotalsAgree ==
    \A first, last \in Dates :
        first <= last =>
            LET f == forward_capacity(first, last) IN
            /\ f.booked <= f.capacity
            /\ f.capacity - f.booked =
                    MapThenSumSet(LAMBDA s : remaining(s), UNION {day_slots(d) : d \in first .. last})

HoursAreSound ==
    HoursTypeOK /\ WeekIsOneSubmission /\ ShownIsClaimable /\ SlotsKeepTheHours /\ TotalsAgree

=============================================================================
