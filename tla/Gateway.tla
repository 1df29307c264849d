------------------------------- MODULE Gateway -------------------------------
(***************************************************************************)
(* The payment gateway credentials of one boutique (payments/service.py,   *)
(* GatewayCredentialService; gateway_credentials): connecting a set,       *)
(* checking it again, disconnecting, and the two lookups, one to open new  *)
(* deposits with and one to verify what the provider says of old ones.     *)
(*                                                                         *)
(* A row is one credential set, and stands for what the owner typed; the   *)
(* provider accepts it until its key is withdrawn there.  Encryption and   *)
(* the rate limits are left out: a failure there changes nothing.          *)
(***************************************************************************)
EXTENDS Naturals, Sequences

CONSTANTS Creds,     \* the sets that can ever be submitted (a bound)
          Checks,    \* re-validations in flight at once (a bound)
          Deposits,  \* deposits opened (a bound)
          NoCred

ASSUME GatewayAssumption == NoCred \notin Creds

VARIABLES cred,      \* tenant_gateway_credentials, and the requests that insert
          began,     \* the rows by created_at: the start of their transaction
          accepted,  \* the provider accepts the set
          check,     \* the verdict a re-validation is about to write
          deposit    \* the set a deposit was opened with

gatewayVars == <<cred, began, accepted, check, deposit>>

GatewayCredentialStatus == {"valid", "invalid"}

\* A connect's request is pinged, has begun its transaction, has superseded the
\* active rows under the lock; then the row is active, and in the end deleted.
Stages == {"none", "pinged", "begun", "locked", "active", "deleted", "refused"}

TenantGatewayCredential ==
    [stage : Stages, status : GatewayCredentialStatus, superseded : SUBSET Creds]

NoCheck == [of |-> NoCred, verdict |-> "valid"]

GatewayTypeOK ==
    /\ cred \in [Creds -> TenantGatewayCredential]
    /\ began \in Seq(Creds) /\ \A i, j \in DOMAIN began : began[i] = began[j] => i = j
    /\ accepted \in [Creds -> BOOLEAN]
    /\ check \in [Checks -> [of : Creds \union {NoCred}, verdict : GatewayCredentialStatus]]
    /\ deposit \in [Deposits -> [step : {"none", "read", "open", "settled"},
                                 with : Creds \union {NoCred}]]

GatewayInit ==
    /\ cred = [c \in Creds |-> [stage |-> "none", status |-> "valid", superseded |-> {}]]
    /\ began = <<>>
    /\ accepted = [c \in Creds |-> TRUE]
    /\ check = [w \in Checks |-> NoCheck]
    /\ deposit = [d \in Deposits |-> [step |-> "none", with |-> NoCred]]

----------------------------------------------------------------------------
(* Lookups. *)

\* To move new money: the live row.
active_for_provider == {c \in Creds : cred[c].stage = "active"}

Inserted(c) == cred[c].stage \in {"active", "deleted"}

\* Mutant: the lookup leaves out what was deleted.
BugNewestActive == {i \in DOMAIN began : cred[began[i]].stage = "active"}

\* To verify money that has moved: every row, deleted or invalid, by its
\* place in created_at.
rows_for_provider == {i \in DOMAIN began : Inserted(began[i])}

newest_for_provider ==
    {began[i] : i \in {i \in rows_for_provider : \A j \in rows_for_provider : j <= i}}

credentials_for == {c \in active_for_provider : cred[c].status = "valid"}

verification_credentials_for == newest_for_provider

----------------------------------------------------------------------------
(* Connecting. *)

\* The ping, before any transaction: a rejected set goes no further.
connect_ping(c) ==
    /\ cred[c].stage = "none"
    /\ cred' = [cred EXCEPT ![c].stage = IF accepted[c] THEN "pinged" ELSE "refused"]
    /\ UNCHANGED <<began, accepted, check, deposit>>

\* The transaction begins, and fixes what now() will say.
connect_begin(c) ==
    /\ cred[c].stage = "pinged"
    /\ cred' = [cred EXCEPT ![c].stage = "begun"]
    /\ began' = Append(began, c)
    /\ UNCHANGED <<accepted, check, deposit>>

\* The tenant's advisory lock is free.
advisory_lock == \A c \in Creds : cred[c].stage # "locked"

\* Under the lock: the UPDATE that supersedes the active rows, not committed yet.
soft_delete_active(c) ==
    /\ cred[c].stage = "begun"
    /\ advisory_lock
    /\ cred' = [cred EXCEPT ![c].stage = "locked", ![c].superseded = active_for_provider]
    /\ UNCHANGED <<began, accepted, check, deposit>>

\* Rows that the transaction of a connect has written and not committed.
RowLocked(c) == \E b \in Creds : cred[b].stage = "locked" /\ c \in cred[b].superseded

\* A live row besides those this connect supersedes refuses its INSERT.
index_refuses(c) == active_for_provider \ cred[c].superseded # {}

\* The INSERT and the commit.
connect(c) ==
    /\ cred[c].stage = "locked"
    /\ cred' = [b \in Creds |->
          CASE b = c -> [cred[c] EXCEPT !.stage = IF index_refuses(c) THEN "refused" ELSE "active",
                                        !.superseded = {}]
            [] b \in cred[c].superseded /\ ~index_refuses(c) -> [cred[b] EXCEPT !.stage = "deleted"]
            [] OTHER -> cred[b]]
    /\ UNCHANGED <<began, accepted, check, deposit>>

\* No lock, and no precondition on deposits in flight.
disconnect ==
    /\ \E c \in active_for_provider :
          ~RowLocked(c) /\ cred' = [cred EXCEPT ![c].stage = "deleted"]
    /\ UNCHANGED <<began, accepted, check, deposit>>

----------------------------------------------------------------------------
(* Checking again. *)

KeyWithdrawn(c) ==
    /\ accepted[c]
    /\ accepted' = [accepted EXCEPT ![c] = FALSE]
    /\ UNCHANGED <<cred, began, check, deposit>>

\* The active row is read and pinged; an outage would end the request here.
revalidate(w) ==
    /\ check[w] = NoCheck
    /\ \E c \in active_for_provider :
          check' = [check EXCEPT ![w] =
                      [of |-> c, verdict |-> IF accepted[c] THEN "valid" ELSE "invalid"]]
    /\ UNCHANGED <<cred, began, accepted, deposit>>

\* The UPDATE by id of a row that is live.
mark_status(c) == {c} \intersect active_for_provider

write_outcome(w) ==
    LET c == check[w].of IN
    /\ c # NoCred
    /\ ~RowLocked(c)
    /\ cred' = [b \in Creds |-> IF b \in mark_status(c)
                                THEN [cred[b] EXCEPT !.status = check[w].verdict] ELSE cred[b]]
    /\ check' = [check EXCEPT ![w] = NoCheck]
    /\ UNCHANGED <<began, accepted, deposit>>

----------------------------------------------------------------------------
(* Deposits: DepositBooking has the rest of their story. *)

\* The credentials are read before the transaction that opens the hold.
open_read(d) ==
    /\ deposit[d].step = "none"
    /\ \E c \in credentials_for :
          deposit' = [deposit EXCEPT ![d] = [step |-> "read", with |-> c]]
    /\ UNCHANGED <<cred, began, accepted, check>>

open_deposit(d) ==
    /\ deposit[d].step = "read"
    /\ advisory_lock
    /\ deposit' = [deposit EXCEPT ![d].step = "open"]
    /\ UNCHANGED <<cred, began, accepted, check>>

\* A delivery signed with the deposit's own secret; one that does not verify is
\* refused, and comes again.
settle_from_webhook(d) ==
    /\ deposit[d].step = "open"
    /\ deposit[d].with \in verification_credentials_for
    /\ deposit' = [deposit EXCEPT ![d].step = "settled"]
    /\ UNCHANGED <<cred, began, accepted, check>>

GatewayNext ==
    \/ \E c \in Creds : connect_ping(c) \/ connect_begin(c) \/ soft_delete_active(c)
                           \/ connect(c) \/ KeyWithdrawn(c)
    \/ disconnect
    \/ \E w \in Checks : revalidate(w) \/ write_outcome(w)
    \/ \E d \in Deposits : open_read(d) \/ open_deposit(d) \/ settle_from_webhook(d)

----------------------------------------------------------------------------
(* Properties. *)

\* Two connects at once never meet at the unique index: the later one supersedes
\* the earlier, which is what connect takes the boutique's lock for, and a
\* disconnect in between, which takes no lock, does not change that.
LaterConnectSupersedes == \A c \in Creds : cred[c].stage = "locked" => ~index_refuses(c)

\* A set marked invalid is one the provider has rejected: the verdict on a set
\* that was replaced while it was being checked never falls on its successor.
VerdictIsItsOwn == \A c \in Creds : cred[c].status = "invalid" => ~accepted[c]

\* The rotation's trail stands: no later verdict changes a superseded row.
TrailStands ==
    \A c \in Creds : cred[c].stage = "deleted" => cred'[c] = cred[c]

\* Money in flight stays verifiable: once the webhooks of an open deposit can be
\* verified, neither a disconnect nor an invalid verdict takes that away; only
\* a newly connected set does (D20 in verification_credentials_for's docstring).
MoneyStaysVerifiable ==
    \A d \in Deposits :
       /\ deposit[d].step = "open" /\ deposit[d].with \in verification_credentials_for
       /\ ~(deposit[d].with \in verification_credentials_for')
       => \E c \in Creds : cred[c].stage = "locked" /\ cred'[c].stage = "active"

\* What the two lookups do not give: the set that opens deposits is not always the
\* one that verifies them.  A connect that began first and got the lock last is
\* active, and older by created_at than the row it superseded.
NewestIsActive == active_for_provider \subseteq newest_for_provider

\* What no verb on the credentials may do: rewrite a superseded set, or lose the
\* one that money on its way has to be verified with.
MoneyIsSafe == [][TrailStands /\ MoneyStaysVerifiable]_cred

=============================================================================
