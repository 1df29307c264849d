------------------------------ MODULE Platform ------------------------------
(***************************************************************************)
(* The platform's own administration (platform/service.py, platform/       *)
(* auth.py): the operators of the console and their sessions, the invites  *)
(* they issue, and the boutiques that come into being by an invite or by   *)
(* the provision command.                                                  *)
(*                                                                         *)
(* A request reads, and then runs the transaction that decides; other      *)
(* transactions may commit in between.  That second step is atomic here:   *)
(* the invite's row lock and the unique indexes make racing transactions   *)
(* wait for each other.  Names, passwords and the platform's audit rows    *)
(* are left out: no guard reads them.                                      *)
(***************************************************************************)
EXTENDS Naturals, FiniteSets

CONSTANTS Tenants, Invites, Operators,  \* the rows that can ever be inserted (a bound)
          Cookies,                      \* the operators' sessions (a bound)
          Slugs, Emails,
          Callers,                      \* requests open at once (a bound)
          NoOne

ASSUME PlatformAssumption ==
    NoOne \notin Tenants \union Invites \union Operators \union Cookies \union Slugs \union Emails

VARIABLES tenant,    \* tenants
          invite,    \* platform_invites
          operator,  \* platform_operators
          cookie,    \* platform_sessions: whose a live one is
          call       \* the open request of each caller

platformVars == <<tenant, invite, operator, cookie, call>>

TenantStatus == {"active", "suspended"}

Tenant == [status : TenantStatus \union {"none"}, slug : Slugs \union {NoOne},
           invite : Invites \union {NoOne}]   \* the invite it came from, if any

PlatformInvite ==
    [status : {"none", "open", "expired"}, slug : Slugs \union {NoOne},
     redeemed : Tenants \union {NoOne}, deleted : BOOLEAN]

PlatformOperator == [status : {"none", "active", "gone"}, email : Emails \union {NoOne}]

NoTenant == [status |-> "none", slug |-> NoOne, invite |-> NoOne]
NoInvite == [status |-> "none", slug |-> NoOne, redeemed |-> NoOne, deleted |-> FALSE]
NoOperator == [status |-> "none", email |-> NoOne]
NoCall == [verb |-> "none", arg |-> NoOne]

PlatformTypeOK ==
    /\ tenant \in [Tenants -> Tenant]
    /\ invite \in [Invites -> PlatformInvite]
    /\ operator \in [Operators -> PlatformOperator]
    /\ cookie \in [Cookies -> [minted : BOOLEAN, live : BOOLEAN, of : Operators \union {NoOne}]]
    /\ call \in [Callers -> [verb : {"none", "provision", "redeem", "login", "deactivate"},
                             arg : Slugs \union Invites \union Operators \union {NoOne}]]

\* The console starts with one operator, created from a shell.
PlatformInit ==
    /\ tenant = [t \in Tenants |-> NoTenant]
    /\ invite = [i \in Invites |-> NoInvite]
    /\ \E first \in Operators, e \in Emails :
          operator = [o \in Operators |-> IF o = first THEN [status |-> "active", email |-> e]
                                                       ELSE NoOperator]
    /\ cookie = [k \in Cookies |-> [minted |-> FALSE, live |-> FALSE, of |-> NoOne]]
    /\ call = [c \in Callers |-> NoCall]

----------------------------------------------------------------------------
(* Reads. *)

by_slug(s) == {t \in Tenants : tenant[t].status = "active" /\ tenant[t].slug = s}

by_active_email(e) == {o \in Operators : operator[o].status = "active" /\ operator[o].email = e}

by_id(o) == operator[o].status = "active"

count_active == Cardinality({o \in Operators : operator[o].status = "active"})

live_by_token_hash(k) == cookie[k].live

\* The console's gate: the session row is live, and so is its operator.
resolve_session(k) == live_by_token_hash(k) /\ by_id(cookie[k].of)

get_current_operator == {k \in Cookies : cookie[k].minted /\ resolve_session(k)}

redeemable(i) ==
    invite[i].status = "open" /\ ~invite[i].deleted /\ invite[i].redeemed = NoOne

Ask(c, verb, arg) ==
    /\ call[c] = NoCall
    /\ call' = [call EXCEPT ![c] = [verb |-> verb, arg |-> arg]]
    /\ UNCHANGED <<tenant, invite, operator, cookie>>

Answer(c, verb) == call[c].verb = verb /\ call' = [call EXCEPT ![c] = NoCall]

----------------------------------------------------------------------------
(* Boutiques and invites. *)

\* The partial unique index: a suspended boutique keeps its address.
slug_taken(s) == \E t \in Tenants : tenant[t].status # "none" /\ tenant[t].slug = s

\* The row, its owner and its audit row, in the caller's transaction.
create_tenant(t, s, i) ==
    tenant' = [tenant EXCEPT ![t] = [status |-> "active", slug |-> s, invite |-> i]]

\* provision, from the console or from a shell: the pre-check ...
provision_read(c, s) == by_slug(s) = {} /\ Ask(c, "provision", s)

\* ... and the transaction; a taken address rolls it back.
provision(c) ==
    LET s == call[c].arg IN
    /\ Answer(c, "provision")
    /\ IF slug_taken(s) THEN UNCHANGED tenant
       ELSE \E t \in Tenants : tenant[t].status = "none" /\ create_tenant(t, s, NoOne)
    /\ UNCHANGED <<invite, operator, cookie>>

suspend(s) ==
    /\ get_current_operator # {}
    /\ \E t \in by_slug(s) : tenant' = [tenant EXCEPT ![t].status = "suspended"]
    /\ UNCHANGED <<invite, operator, cookie, call>>

invites_insert(i, s) ==
    /\ invite[i].status = "none"
    /\ invite' = [invite EXCEPT ![i] = [NoInvite EXCEPT !.status = "open", !.slug = s]]

create_invite(i, s) ==
    /\ get_current_operator # {}
    /\ by_slug(s) = {}
    /\ invites_insert(i, s)
    /\ UNCHANGED <<tenant, operator, cookie, call>>

\* Also of an invite that is spent or expired.
invites_soft_delete(i) ==
    /\ invite[i].status # "none" /\ ~invite[i].deleted
    /\ invite' = [invite EXCEPT ![i].deleted = TRUE]

revoke_invite(i) ==
    /\ get_current_operator # {}
    /\ invites_soft_delete(i)
    /\ UNCHANGED <<tenant, operator, cookie, call>>

InviteExpires(i) ==
    /\ invite[i].status = "open"
    /\ invite' = [invite EXCEPT ![i].status = "expired"]
    /\ UNCHANGED <<tenant, operator, cookie, call>>

\* The read shapes the refusal and decides nothing.
redeem_read(c, i) == redeemable(i) /\ Ask(c, "redeem", i)

\* Mutant: the claim only asks whether the invite is spent.
BugClaimRevoked(i) == invite[i].redeemed = NoOne

\* The guard of the claim's UPDATE, re-evaluated once the row's lock is had.
claim(i) == redeemable(i)

\* Mutant: the claim was committed before the boutique was refused.
BugClaimApart(i, t) == invite' = [invite EXCEPT ![i].redeemed = t] /\ UNCHANGED tenant

\* What an aborted redemption leaves: nothing, so the invite stays unspent.
rolled_back(i, t) == UNCHANGED <<invite, tenant>>

\* One transaction: claim, boutique, owner, audit.
redeem_invite(c) ==
    LET i == call[c].arg IN
    /\ Answer(c, "redeem")
    /\ \E t \in Tenants :
          /\ tenant[t].status = "none"
          /\ IF ~claim(i) THEN UNCHANGED <<invite, tenant>>
             ELSE IF slug_taken(invite[i].slug) THEN rolled_back(i, t)
             ELSE /\ invite' = [invite EXCEPT ![i].redeemed = t]
                  /\ create_tenant(t, invite[i].slug, i)
    /\ UNCHANGED <<operator, cookie>>

----------------------------------------------------------------------------
(* Operators. *)

\* The pre-check, and the unique index behind it.
operators_insert(o, e) ==
    /\ operator[o].status = "none"
    /\ by_active_email(e) = {}
    /\ operator' = [operator EXCEPT ![o] = [status |-> "active", email |-> e]]

create_operator(o, e) ==
    /\ operators_insert(o, e)
    /\ UNCHANGED <<tenant, invite, cookie, call>>

\* The row whose password is verified ...
login_read(c, o) == by_id(o) /\ Ask(c, "login", o)

\* ... and the session that is inserted for it.
sessions_insert(k, o) ==
    /\ ~cookie[k].minted
    /\ cookie' = [cookie EXCEPT ![k] = [minted |-> TRUE, live |-> TRUE, of |-> o]]

login(c) ==
    /\ Answer(c, "login")
    /\ \E k \in Cookies : sessions_insert(k, call[c].arg)
    /\ UNCHANGED <<tenant, invite, operator>>

\* A logout, or the session's expiry.
logout(k) ==
    /\ live_by_token_hash(k)
    /\ cookie' = [cookie EXCEPT ![k].live = FALSE]
    /\ UNCHANGED <<tenant, invite, operator, call>>

\* A shell's command: it counts, without a lock ...
deactivate_read(c, o) == by_id(o) /\ count_active > 1 /\ Ask(c, "deactivate", o)

operators_soft_delete(o) == operator' = [operator EXCEPT ![o].status = "gone"]

revoke_all_for_operator(o) ==
    cookie' = [k \in Cookies |-> [cookie[k] EXCEPT !.live = @ /\ cookie[k].of # o]]

\* ... and writes.
deactivate_operator(c) ==
    /\ Answer(c, "deactivate")
    /\ operators_soft_delete(call[c].arg)
    /\ revoke_all_for_operator(call[c].arg)
    /\ UNCHANGED <<tenant, invite>>

PlatformNext ==
    \/ \E c \in Callers :
          \/ provision(c) \/ redeem_invite(c) \/ login(c) \/ deactivate_operator(c)
          \/ \E s \in Slugs : provision_read(c, s)
          \/ \E i \in Invites : redeem_read(c, i)
          \/ \E o \in Operators : login_read(c, o) \/ deactivate_read(c, o)
    \/ \E s \in Slugs : suspend(s) \/ \E i \in Invites : create_invite(i, s)
    \/ \E i \in Invites : revoke_invite(i) \/ InviteExpires(i)
    \/ \E o \in Operators, e \in Emails : create_operator(o, e)
    \/ \E k \in Cookies : logout(k)

----------------------------------------------------------------------------
(* Properties. *)

\* An address leads to one boutique, for good: neither a suspended boutique's
\* address nor one that was free when the invite was issued is given twice,
\* although by_slug, the pre-check of every caller, sees active boutiques only.
OneBoutiquePerSlug ==
    \A t, u \in Tenants :
        tenant[t].status # "none" /\ tenant[t].slug = tenant[u].slug => t = u

\* An invite is spent exactly when the boutique it authorised exists, at the
\* address it names: whatever two redeemers, a revocation and a rival provision
\* do, no invite is burnt without a boutique and no boutique has two invites
\* (redeem_invite's "one transaction").
SpentMeansFounded ==
    /\ \A i \in Invites : LET t == invite[i].redeemed IN
          t # NoOne => tenant[t].invite = i /\ tenant[t].slug = invite[i].slug
    /\ \A t \in Tenants : LET i == tenant[t].invite IN
          i # NoOne => invite[i].redeemed = t

\* An invite that was revoked or has expired founds nothing, also not for a
\* redeemer who read it before.
DeadInviteFoundsNothing ==
    \A i \in Invites : invite[i].deleted \/ invite[i].status = "expired"
       => invite'[i].redeemed = invite[i].redeemed

\* A console session that has stopped to resolve stays dead: neither a login that
\* was on its way when its operator was deactivated, nor a new operator at the
\* same address, brings a cookie back.
DeadCookieStaysDead ==
    \A k \in Cookies : cookie[k].minted /\ k \notin get_current_operator
       => k \notin get_current_operator'

\* What was taken back gives nothing any more: a dead invite no boutique, a dead
\* cookie no console.
TheDeadStayDead ==
    [][DeadInviteFoundsNothing /\ DeadCookieStaysDead]_<<invite, tenant, cookie, operator>>

=============================================================================
