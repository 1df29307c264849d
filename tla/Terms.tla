-------------------------------- MODULE Terms --------------------------------
(***************************************************************************)
(* The cancellation policy of one boutique (boutique/service,              *)
(* terms_versions): numbered versions that are only ever added, the        *)
(* customer who reads one and books under it, and what she is owed when    *)
(* she cancels.                                                            *)
(*                                                                         *)
(* Each publication stands for one text.  The number is read in one step   *)
(* and the row is inserted and committed in the next, so two owners can    *)
(* compute the same one.                                                   *)
(***************************************************************************)
EXTENDS Integers, FiniteSets, FiniteSetsExt

CONSTANTS Publications,  \* the texts that are ever submitted (a bound)
          Policy,        \* the refund window and the forfeit of each
          Brides,        \* customers who read the terms, then book
          MAX_REFUNDABLE_HOURS,
          MaxTerms,      \* creations the limiter lets through
          AMOUNT,        \* a deposit, in agorot
          StartsAt       \* the hour of the appointment

ASSUME TermsAssumption ==
    /\ Policy \in [Publications -> [refundable_until_hours_before : Nat, forfeit_percent : Nat]]
    /\ AMOUNT \in Nat /\ StartsAt \in Nat

VARIABLES terms,    \* terms_versions
          publish,  \* the requests of create_terms_version
          created,  \* what the limiter has counted
          bride     \* what each customer was shown, and what her booking says

termsVars == <<terms, publish, created, bride>>

TermsVersion == [version : Nat \ {0}, text : Publications]

NoTerms == [step |-> "none", version |-> 0, shown |-> {}]

TermsInit ==
    /\ terms = {}
    /\ publish = [p \in Publications |-> [step |-> "none", version |-> 0, retried |-> FALSE]]
    /\ created = 0
    /\ bride = [c \in Brides |-> NoTerms]

TermsTypeOK ==
    /\ terms \subseteq TermsVersion
    /\ publish \in [Publications ->
            [step : {"none", "counted", "done", "refused", "throttled", "conflict"},
             version : Nat, retried : BOOLEAN]]
    /\ created = Cardinality(terms)
    /\ \A c \in Brides : /\ bride[c].step \in {"none", "shown", "checked", "booked"}
                         /\ bride[c].shown \subseteq Publications

----------------------------------------------------------------------------
(* Lookups. *)

max_version == Max({r.version : r \in terms} \union {0})

current == {r \in terms : r.version = max_version}

by_version(v) == {r \in terms : r.version = v}

\* A policy is refused when its window or its share is out of range.
validate_terms(p) ==
    /\ Policy[p].refundable_until_hours_before \in 0 .. MAX_REFUNDABLE_HOURS
    /\ Policy[p].forfeit_percent \in 0 .. 100

\* All of it up to and including the cutoff hour; after that the boutique keeps
\* the floor of its share.
refund_due_agorot(at, policy) ==
    IF at <= StartsAt - policy.refundable_until_hours_before THEN AMOUNT
    ELSE AMOUNT - (AMOUNT * policy.forfeit_percent) \div 100

\* The policy that her manage page renders: of the version she accepted.
manage_policy(c) == {Policy[r.text] : r \in by_version(bride[c].version)}

\* The refund that the owner's desk puts beside her paid booking.
payment_marker(c, at) ==
    {refund_due_agorot(at, Policy[r.text]) : r \in by_version(bride[c].version)}

----------------------------------------------------------------------------
(* Actions. *)

\* create_terms_version: refused, throttled, or the next number is computed.
create_terms_version(p) ==
    /\ publish[p].step = "none"
    /\ publish' = [publish EXCEPT ![p] =
            IF ~validate_terms(p) THEN [@ EXCEPT !.step = "refused"]
            ELSE IF created >= MaxTerms THEN [@ EXCEPT !.step = "throttled"]
            ELSE [@ EXCEPT !.step = "counted", !.version = max_version + 1]]
    /\ UNCHANGED <<terms, created, bride>>

\* The unique (tenant_id, version).
version_taken(v) == by_version(v) # {}

terms_insert(p) ==
    /\ ~version_taken(publish[p].version)
    /\ terms' = terms \union {[version |-> publish[p].version, text |-> p]}

\* The insert commits and counts; or the number was taken meanwhile, and it is
\* computed once more in a fresh transaction, or the request gives up.
insert_terms(p) ==
    /\ publish[p].step = "counted"
    /\ \/ /\ ~version_taken(publish[p].version)
          /\ terms' = terms \union {[version |-> publish[p].version, text |-> p]}
          /\ publish' = [publish EXCEPT ![p].step = "done"]
          /\ created' = created + 1
       \/ /\ version_taken(publish[p].version)
          /\ publish' = [publish EXCEPT ![p] =
                IF @.retried THEN [@ EXCEPT !.step = "conflict"]
                ELSE [@ EXCEPT !.retried = TRUE, !.version = max_version + 1]]
          /\ UNCHANGED <<terms, created>>
    /\ UNCHANGED bride

\* get_terms: the page shows the current version.
get_terms(c) ==
    /\ bride[c].step \in {"none", "shown"}
    /\ \E r \in current :
            bride' = [bride EXCEPT ![c] = [step |-> "shown", version |-> r.version,
                                           shown |-> {r.text}]]
    /\ UNCHANGED <<terms, publish, created>>

\* create_booking's check: the version she sends is the current one, or her
\* request is refused as stale and her page loads the terms again.
check_terms(c) ==
    /\ bride[c].step = "shown"
    /\ bride' = [bride EXCEPT ![c] =
            IF bride[c].version = max_version THEN [@ EXCEPT !.step = "checked"] ELSE NoTerms]
    /\ UNCHANGED <<terms, publish, created>>

\* The booking commits later, with terms_version_accepted.
accept_terms(c) ==
    /\ bride[c].step = "checked"
    /\ bride' = [bride EXCEPT ![c].step = "booked"]
    /\ UNCHANGED <<terms, publish, created>>

TermsNext ==
    \/ \E p \in Publications : create_terms_version(p) \/ insert_terms(p)
    \/ \E c \in Brides : get_terms(c) \/ check_terms(c) \/ accept_terms(c)

----------------------------------------------------------------------------
(* What the terms promise. *)

\* No number is skipped or given twice, whoever raced whom.
VersionsAreGapless == {r.version : r \in terms} = 1 .. Cardinality(terms)

\* A customer's page renders, however often the policy was published since she
\* booked, the one policy she was shown; and at every hour the refund on the
\* owner's marker is the one it promised her, with the odd agora hers.
PolicyIsHers ==
    \A c \in Brides : bride[c].step = "booked" =>
        /\ manage_policy(c) = {Policy[t] : t \in bride[c].shown}
        /\ \A at \in 0 .. StartsAt, p \in manage_policy(c) :
            \E due \in 0 .. AMOUNT :
                /\ payment_marker(c, at) = {due}
                /\ at + p.refundable_until_hours_before <= StartsAt => due = AMOUNT
                /\ 100 * due >= AMOUNT * (100 - p.forfeit_percent)

TermsAreSound == TermsTypeOK /\ VersionsAreGapless /\ PolicyIsHers

=============================================================================
