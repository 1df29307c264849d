----------------------------- MODULE StaffAccess -----------------------------
(***************************************************************************)
(* The staff of one boutique and their sessions: auth/service.py (login,   *)
(* session, logout), auth/staff.py (the owner's administration of staff)   *)
(* and the platform's reset of an owner's password.                        *)
(*                                                                         *)
(* An administrative request is admitted by the role gate, waits for the   *)
(* tenant's staff lock, and under it reads, decides, writes and commits:   *)
(* three steps, of which the last two hold the lock.  Names, phones and    *)
(* dates are left out: no guard reads them.                                *)
(***************************************************************************)
EXTENDS Naturals, FiniteSets

CONSTANTS Accounts,     \* the rows that can ever be inserted (a bound)
          Founders,     \* the owners the boutique starts with
          Roles,        \* the roles in use, a subset of StaffRole
          MaxSessions,  \* cookies one staffer holds at once (a bound)
          MaxEdits,     \* administrative requests (a bound)
          MaxInFlight,  \* requests open at once (a bound)
          Null

StaffRole == {"owner", "shift_manager", "reception", "sales_assistant", "seamstress"}

ELEVATED_ROLES == {"owner", "shift_manager"}

ASSUME AccessAssumption ==
    /\ IsFiniteSet(Accounts) /\ Null \notin Accounts
    /\ Founders \subseteq Accounts /\ Founders # {}
    /\ Roles \subseteq StaffRole /\ "owner" \in Roles
    /\ MaxSessions \in Nat \ {0} /\ MaxEdits \in Nat /\ MaxInFlight \in Nat

VARIABLES staff,     \* staff_users: the role of a live row, or "none" or "gone"
          sessions,  \* how many live rows of `sessions` each staffer has
          req,       \* the open request of each staffer
          edits      \* administrative requests so far (bounds the model)

accessVars == <<staff, sessions, edits>>

AdminVerbs == {"role", "password", "deactivate"}

NoRequest == [verb |-> "none", step |-> "none", arg |-> Null, role |-> "none"]

AccessTypeOK ==
    /\ staff \in [Accounts -> Roles \union {"none", "gone"}]
    /\ sessions \in [Accounts -> 0..MaxSessions]
    /\ edits \in 0..MaxEdits

AccessInit ==
    /\ staff = [s \in Accounts |-> IF s \in Founders THEN "owner" ELSE "none"]
    /\ sessions = [s \in Accounts |-> 0]
    /\ edits = 0

----------------------------------------------------------------------------
by_id(s) == staff[s] \in Roles

count_live_owners == Cardinality({s \in Accounts : staff[s] = "owner"})

elevated(s) == staff[s] \in ELEVATED_ROLES

has_live_session(s) == sessions[s] > 0

\* One of her cookies resolves to a live row.
active_by_token_hash(s) == \E cookie \in 1..MaxSessions : cookie <= sessions[s]

\* The cookie's session is live and its staffer still is: a removed staffer's
\* session row is never swept, it just stops resolving.
resolve_session(s) == active_by_token_hash(s) /\ by_id(s)

Free(p) ==
    /\ req[p] = NoRequest
    /\ Cardinality({q \in Accounts : req[q] # NoRequest}) < MaxInFlight

----------------------------------------------------------------------------
(* Sessions. *)

sessions_insert(p) ==
    /\ sessions[p] < MaxSessions
    /\ sessions' = [sessions EXCEPT ![p] = @ + 1]

revoke_by_token_hash(p) ==
    /\ active_by_token_hash(p)
    /\ sessions' = [sessions EXCEPT ![p] = @ - 1]

\* Every session of hers, but the one whose cookie p holds if that is herself.
revoke_for_staff_user(s, p) ==
    sessions' = [sessions EXCEPT ![s] = IF s = p /\ @ > 0 THEN 1 ELSE 0]

login(p) ==
    /\ by_id(p)
    /\ sessions_insert(p)
    /\ UNCHANGED <<staff, edits, req>>

\* A logout, or the expiry of the row.
logout(p) ==
    /\ revoke_by_token_hash(p)
    /\ UNCHANGED <<staff, edits, req>>

\* The platform's command, without the staff lock: an UPDATE of a live owner.
reset_owner_password(s) ==
    /\ edits < MaxEdits
    /\ staff[s] = "owner"
    /\ revoke_for_staff_user(s, Null)
    /\ edits' = edits + 1
    /\ UNCHANGED <<staff, req>>

----------------------------------------------------------------------------
(* The owner's administration of staff. *)

staff_insert(s, role) == staff[s] = "none" /\ staff' = [staff EXCEPT ![s] = role]

\* By some owner.  No lock: an insert can only raise the number of owners.
create(s, role) ==
    /\ edits < MaxEdits
    /\ staff_insert(s, role)
    /\ {p \in Accounts : staff[p] = "owner" /\ resolve_session(p)} # {}
    /\ edits' = edits + 1
    /\ UNCHANGED <<sessions, req>>

\* The router's gate: an owner at the time the request comes in.
admit(p, verb, s, role) ==
    /\ edits < MaxEdits
    /\ staff[p] = "owner" /\ resolve_session(p)
    /\ Free(p)
    /\ verb \in AdminVerbs
    /\ req' = [req EXCEPT ![p] = [verb |-> verb, step |-> "admitted",
                                  arg |-> s, role |-> role]]
    /\ edits' = edits + 1
    /\ UNCHANGED <<staff, sessions>>

\* Mutant: the lock is not taken.
BugNoLock == TRUE

\* pg_advisory_xact_lock: nobody else's transaction is past it.
STAFF_LOCK == \A q \in Accounts : req[q].step # "decided"

last_owner(r) ==
    /\ r.verb = "deactivate" \/ (r.verb = "role" /\ r.role # "owner")
    /\ staff[r.arg] = "owner"
    /\ count_live_owners <= 1

\* Under the lock: the target is live, nobody demotes or removes herself, and
\* the last owner stays.
decide(p) ==
    LET r == req[p] IN
    /\ r.step = "admitted"
    /\ STAFF_LOCK
    /\ IF /\ by_id(r.arg)
          /\ r.verb \in {"role", "deactivate"} => r.arg # p
          /\ r.verb = "role" => staff[r.arg] # r.role
          /\ ~last_owner(r)
       THEN req' = [req EXCEPT ![p].step = "decided"]
       ELSE req' = [req EXCEPT ![p] = NoRequest]
    /\ UNCHANGED accessVars

\* The write and the commit.
Write(p, verb) ==
    /\ req[p].step = "decided" /\ req[p].verb = verb
    /\ req' = [req EXCEPT ![p] = NoRequest]
    /\ UNCHANGED edits

update_role(p) ==
    /\ Write(p, "role")
    /\ staff' = [staff EXCEPT ![req[p].arg] = req[p].role]
    /\ UNCHANGED sessions

\* A new password ends every session of hers but the cookie that asked for it.
update_password(p) ==
    /\ Write(p, "password")
    /\ revoke_for_staff_user(req[p].arg, p)
    /\ UNCHANGED staff

staff_soft_delete(s) == staff' = [staff EXCEPT ![s] = "gone"]

\* A removal ends no session.
deactivate(p) ==
    /\ Write(p, "deactivate")
    /\ staff_soft_delete(req[p].arg)
    /\ UNCHANGED sessions

AccessNext ==
    \/ \E s \in Accounts, role \in Roles : create(s, role)
    \/ \E p \in Accounts :
          \/ login(p) \/ logout(p) \/ reset_owner_password(p)
          \/ decide(p) \/ update_role(p) \/ update_password(p) \/ deactivate(p)
          \/ \E s \in Accounts :
                \/ \E role \in Roles : admit(p, "role", s, role)
                \/ admit(p, "password", s, "none") \/ admit(p, "deactivate", s, "none")

----------------------------------------------------------------------------
(* Properties. *)

\* A boutique always has a live owner, whatever two owners do to each other at
\* once (the invariant auth/staff.py takes its advisory lock for).
LiveOwnerRemains == count_live_owners >= 1

=============================================================================
