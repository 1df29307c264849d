------------------------------- MODULE SosPages -------------------------------
(***************************************************************************)
(* Emergency pages on the floor (floor/service.py, the SOS verbs;          *)
(* sos_alerts): raise, accept, resolve, cancel, and the three read-time    *)
(* predicates that decide on whose screen a page rises.                    *)
(*                                                                         *)
(* A verb on a page is one READ COMMITTED transaction: it reads the row    *)
(* and decides whether the caller may act, and then runs one guarded       *)
(* UPDATE; another transaction may commit in between.  The bell's row of a *)
(* raise names the same staffer as the page's target and is not kept       *)
(* apart.                                                                  *)
(***************************************************************************)
EXTENDS StaffAccess, Sequences

CONSTANT Alerts  \* the rows that can ever be inserted (a bound)

ASSUME SosAssumption == Null \notin Alerts /\ Accounts \intersect Alerts = {}

VARIABLES alert,  \* sos_alerts
          late,   \* the page has been open for ESCALATION_AFTER, or accepted for
                  \* STALLED_AFTER
          trail   \* the page's audit rows, oldest first

sosVars == <<alert, late, trail>>
pageVars == <<accessVars, req, sosVars>>

SosStatus == {"open", "accepted", "resolved", "cancelled"}

LIVE_STATUSES == {"open", "accepted"}

SosAlert ==
    [status : SosStatus \union {"none"}, raised_by : Accounts \union {Null},
     target : Accounts \union {Null}, accepted_by : Accounts \union {Null}]

NoAlert == [status |-> "none", raised_by |-> Null, target |-> Null, accepted_by |-> Null]

SosVerbs == {"accept", "resolve", "cancel"}

SosTypeOK ==
    /\ AccessTypeOK
    /\ req \in [Accounts -> [verb : {"none"} \union AdminVerbs \union SosVerbs,
                          step : {"none", "admitted", "decided", "read"},
                          arg  : Accounts \union Alerts \union {Null},
                          role : Roles \union {"none"}]]
    /\ alert \in [Alerts -> SosAlert]
    /\ late \in [Alerts -> BOOLEAN]
    /\ \A a \in Alerts : \A i \in DOMAIN trail[a] :
          trail[a][i] \in {"raised", "accepted", "resolved", "cancelled"}

SosInit ==
    /\ AccessInit
    /\ req = [s \in Accounts |-> NoRequest]
    /\ alert = [a \in Alerts |-> NoAlert]
    /\ late = [a \in Alerts |-> FALSE]
    /\ trail = [a \in Alerts |-> <<>>]

----------------------------------------------------------------------------
(* Reads. *)

live(a) == alert[a].status \in LIVE_STATUSES

escalated(a) == alert[a].status = "open" /\ late[a]

\* Mutant: an accepted page never comes back.
BugNeverStalled(a) == FALSE

stalled(a) == alert[a].status = "accepted" /\ late[a]

\* Whether the page rises, full screen, on this staffer's device.
for_me(a, s) ==
    /\ alert[a].raised_by # s
    /\ \/ alert[a].status = "accepted" /\ stalled(a) /\ elevated(s)
       \/ /\ alert[a].status = "open"
          /\ \/ alert[a].target = s
             \/ elevated(s) /\ (alert[a].target = Null \/ escalated(a))

\* The list her console polls.
live_for(s) ==
    {a \in Alerts : live(a) /\ (elevated(s) \/ s \in {alert[a].raised_by, alert[a].target,
                                                      alert[a].accepted_by})}

\* The poll of her console: her list, and which of it rises.
sos(s) == {[alert |-> a, rises |-> for_me(a, s)] : a \in live_for(s)}

visible_to(a, s) ==
    elevated(s) \/ s \in {alert[a].raised_by, alert[a].target, alert[a].accepted_by}

\* Mutant: the target check alone, so that an elevated raiser passes.
BugRaiserAccepts(a, s) == alert[a].target = s \/ elevated(s)

may_accept(a, s) == alert[a].raised_by # s /\ (alert[a].target = s \/ elevated(s))

may_resolve(a, s) == s \in {alert[a].raised_by, alert[a].accepted_by} \/ elevated(s)

may_cancel(a, s) == alert[a].raised_by = s \/ elevated(s)

\* A verb on a page that has ended is answered from that very row, and writes
\* nothing.
permitted(verb, a, s) ==
    /\ live(a)
    /\ visible_to(a, s)
    /\ CASE verb = "accept"  -> may_accept(a, s)
         [] verb = "resolve" -> may_resolve(a, s)
         [] verb = "cancel"  -> may_cancel(a, s)

----------------------------------------------------------------------------
(* The verbs. *)

alerts_insert(a, p, target) ==
    /\ alert[a].status = "none"
    /\ alert' = [alert EXCEPT ![a] = [NoAlert EXCEPT !.status = "open", !.raised_by = p,
                                                    !.target = target]]

\* A target that is not live, or not signed in, is dropped: the page goes to the
\* shift manager, and the raiser is told so.
raise_sos(p, s) ==
    /\ s # p
    /\ resolve_session(p)
    /\ Free(p)
    /\ \E a \in Alerts :
          /\ alerts_insert(a, p, IF s \in Accounts /\ by_id(s) /\ has_live_session(s) THEN s ELSE Null)
          /\ trail' = [trail EXCEPT ![a] = <<"raised">>]
    /\ UNCHANGED <<accessVars, req, late>>

\* The read of a verb: 404 to whoever may not act.  Her own accept, repeated,
\* answers 200 and goes no further.
read_sos(p, verb, a) ==
    /\ permitted(verb, a, p)
    /\ resolve_session(p)
    /\ Free(p)
    /\ ~ (verb = "accept" /\ alert[a].status = "accepted" /\ alert[a].accepted_by = p)
    /\ req' = [req EXCEPT ![p] = [verb |-> verb, step |-> "read", arg |-> a,
                                  role |-> "none"]]
    /\ UNCHANGED <<accessVars, sosVars>>

\* The statuses the verb's UPDATE matches.
allowed(verb) == IF verb = "resolve" THEN LIVE_STATUSES ELSE {"open"}

Done(verb) == CASE verb = "accept"  -> "accepted"
                [] verb = "resolve" -> "resolved"
                [] verb = "cancel"  -> "cancelled"

audit(a, verb, wrote) == IF wrote THEN Append(trail[a], Done(verb)) ELSE trail[a]

Accepted(row, p) == [row EXCEPT !.status = "accepted", !.accepted_by = p]

\* Who raised an ended page, and for whom, is history that no verb reads.
Ended(row, status) == [row EXCEPT !.status = status, !.raised_by = Null, !.target = Null]

\* The guarded UPDATE.  When it matches nothing the row is read again to say who
\* has it, and nothing is written.
Update(p, verb) ==
    LET a == req[p].arg
        wrote == alert[a].status \in allowed(verb)
    IN
    /\ req[p].step = "read" /\ req[p].verb = verb
    /\ req' = [req EXCEPT ![p] = NoRequest]
    /\ alert' = IF wrote
                THEN [alert EXCEPT ![a] = IF verb = "accept" THEN Accepted(@, p)
                                                             ELSE Ended(@, Done(verb))]
                ELSE alert
    /\ late' = IF wrote THEN [late EXCEPT ![a] = FALSE] ELSE late
    /\ trail' = [trail EXCEPT ![a] = audit(a, verb, wrote)]
    /\ UNCHANGED accessVars

accept_sos(p) == Update(p, "accept")

resolve_sos(p) == Update(p, "resolve")

cancel_sos(p) == Update(p, "cancel")

\* Thirty seconds on an open page, two minutes on an accepted one.
Waits(a) ==
    /\ live(a) /\ ~late[a]
    /\ late' = [late EXCEPT ![a] = TRUE]
    /\ UNCHANGED <<accessVars, req, alert, trail>>

SosNext ==
    \/ AccessNext /\ UNCHANGED sosVars
    \/ \E p \in Accounts :
          \/ \E s \in Accounts \union {Null} : raise_sos(p, s)
          \/ \E a \in Alerts, verb \in SosVerbs : read_sos(p, verb, a)
          \/ accept_sos(p) \/ resolve_sos(p) \/ cancel_sos(p)
    \/ \E a \in Alerts : Waits(a)

SosSpec == SosInit /\ [][SosNext]_pageVars

----------------------------------------------------------------------------
(* Properties. *)

rising(a) == {s \in Accounts : by_id(s) /\ for_me(a, s)}

\* A page nobody has dealt with in time rises for every owner and shift manager
\* but the one who raised it, also after somebody accepted it and did not come,
\* lost her role or left (the two silences of _escalated and _stalled).
OverduePageRises ==
    \A a \in Alerts : live(a) /\ late[a] =>
        {s \in Accounts : elevated(s)} \ {alert[a].raised_by} \subseteq rising(a)

\* A page rises only for people who find it in their list and may answer it, so
\* that no screen shows an alarm its holder cannot act on: _for_me, live_for's
\* SQL and accept_sos's permission are three separate predicates.
RisesForThoseWhoCan ==
    \A a \in Alerts : \A s \in rising(a) :
        /\ [alert |-> a, rises |-> TRUE] \in sos(s)
        /\ alert[a].status = "open" => may_accept(a, s)

\* The alarm on a live page goes quiet on every screen only because somebody
\* other than the raiser said she is coming, or because the people it rose for
\* lost their role or left (accept_sos's docstring: the raiser must not be able
\* to silence her own page).
QuietMeansHelp ==
    \A a \in Alerts :
       /\ rising(a) # {} /\ rising(a)' = {}
       /\ alert'[a].status \in LIVE_STATUSES
       /\ staff' = staff
       => alert'[a].accepted_by \notin {Null, alert[a].raised_by}

\* The first accept owns the page: its acceptor never changes, and an accepted
\* page can only be resolved, whatever was decided before the accept committed.
FirstAcceptOwns ==
    \A a \in Alerts : alert[a].status = "accepted" =>
       /\ alert'[a].accepted_by = alert[a].accepted_by
       /\ alert'[a].status \in {"accepted", "resolved"}

\* The audit tells the page's story once: raised, perhaps accepted, and one end;
\* racing verbs and repeated taps leave no row of a change that did not happen.
TrailTellsTheStory ==
    \A a \in Alerts :
        /\ Len(trail[a]) <= 3
        /\ live(a) \/ trail[a] # <<>> =>
              /\ trail[a][1] = "raised"
              /\ trail[a][Len(trail[a])] = IF alert[a].status = "open" THEN "raised"
                                           ELSE alert[a].status
              /\ (alert[a].accepted_by # Null) <=> \E i \in DOMAIN trail[a] :
                                                      trail[a][i] = "accepted"

\* Pages are seen: an overdue one by everybody who leads the floor, each by people
\* who can act on it only, and its log says what became of it.
PagesAreSeen == SosTypeOK /\ OverduePageRises /\ RisesForThoseWhoCan /\ TrailTellsTheStory

\* Pages are answered: one goes quiet only when somebody comes, and stays hers.
PagesAreAnswered == [][QuietMeansHelp /\ FirstAcceptOwns]_<<alert, late, staff>>

=============================================================================
