----------------------------- MODULE PhoneCodes -----------------------------
(***************************************************************************)
(* One-time codes (notifications/service.py OtpService, otp_codes.py): a   *)
(* code is texted to a number, guessed at most OTP_MAX_VERIFY_ATTEMPTS     *)
(* times, and turned into a verification that is spent once, inside the    *)
(* transaction of whatever it opens.                                       *)
(*                                                                         *)
(* Every statement is a guarded UPDATE under READ COMMITTED; what a request*)
(* read before it is kept in `guess`.  The in-memory rate limiters only    *)
(* refuse a request before it touches anything, which a request that is    *)
(* never made models as well; the dev code is off.                         *)
(***************************************************************************)
EXTENDS Naturals, FiniteSets, FiniteSetsExt

CONSTANTS Phones,                   \* normalized mobile numbers
          MaxCodes,                 \* bound: rows ever inserted
          Verifiers,                \* requests of OtpService.verify in flight
          OTP_MAX_VERIFY_ATTEMPTS,
          NONE

Codes == 1..MaxCodes                \* in the order of created_at

ASSUME CodesAssumption ==
    /\ MaxCodes \in Nat /\ OTP_MAX_VERIFY_ATTEMPTS \in Nat /\ IsFiniteSet(Verifiers)
    /\ NONE \notin Codes /\ NONE \notin Phones

VARIABLES code,     \* otp_codes: the row of each code
          guess,    \* guess[v]: the row a verify has read
          compared, \* history: comparisons made against a code still standing
          opened    \* history: what each verification opened for good

codeVars == <<code, guess, compared, opened>>

\* "active": neither consumed nor deleted; "verified": consumed_at is set and a
\* verification token issued; "spent": verification_consumed_at is set.
CodeStates == {"none", "active", "verified", "spent", "deleted"}
OtpCode == [state : CodeStates, phone : Phones \cup {NONE},
            attempts : 0..(OTP_MAX_VERIFY_ATTEMPTS + Cardinality(Verifiers))]

CodesInit ==
    /\ code = [o \in Codes |-> [state |-> "none", phone |-> NONE, attempts |-> 0]]
    /\ guess = [v \in Verifiers |-> NONE]
    /\ compared = [o \in Codes |-> 0]
    /\ opened = [o \in Codes |-> 0]

active(p) == {o \in Codes : code[o].state = "active" /\ code[o].phone = p}

latest_active_by_phone(p) == IF active(p) = {} THEN NONE ELSE Max(active(p))

\* Whose a removed code was, and how often it was tried, no statement reads.
removed == [state |-> "deleted", phone |-> NONE, attempts |-> 0]

soft_delete_active_for_phone(p, seen) ==
    [o \in Codes |-> IF o \in active(p) \cap seen THEN removed ELSE code[o]]

insert(rows, o, p) ==
    [rows EXCEPT ![o] = [state |-> "active", phone |-> p, attempts |-> 0]]

\* Two sends that overlap do not see each other's uncommitted row: the soft
\* delete may miss the newest code of the number.
send(p) ==
    \E o \in Codes, missed \in {{}} \cup {{x} : x \in active(p)} :
        /\ code[o].state = "none"
        /\ \A x \in Codes : x < o => code[x].state # "none"
        /\ missed \subseteq {latest_active_by_phone(p)}
        /\ code' = insert(soft_delete_active_for_phone(p, Codes \ missed), o, p)
        /\ UNCHANGED <<guess, compared, opened>>

\* verify up to its read: no row, or a row already out of attempts, is refused.
verify_read(v, p) ==
    LET o == latest_active_by_phone(p) IN
    /\ guess[v] = NONE /\ o # NONE
    /\ code[o].attempts < OTP_MAX_VERIFY_ATTEMPTS
    /\ guess' = [guess EXCEPT ![v] = o]
    /\ UNCHANGED <<code, compared, opened>>

\* Returns 0 when the row was deleted meanwhile: it matches no row.
increment_attempts(o) ==
    IF code[o].state \in {"deleted", "none"} THEN 0 ELSE code[o].attempts + 1

mark_consumed(row) ==
    IF row.state = "active" THEN [row EXCEPT !.state = "verified"] ELSE row

\* Mutant: the count the UPDATE returns is ignored.
BugUncounted(attempts) == FALSE

exhausted(attempts) == attempts > OTP_MAX_VERIFY_ATTEMPTS

\* verify from the increment to the commit, under the row's lock; `late`: the
\* code has expired by the request's clock.
verify(v, right, late) ==
    LET o == guess[v]
        attempts == increment_attempts(o)
        row == IF attempts = 0 THEN code[o] ELSE [code[o] EXCEPT !.attempts = attempts]
        compares == ~exhausted(attempts) /\ ~late
    IN /\ guess[v] # NONE
       /\ code' = [code EXCEPT ![o] = IF compares /\ right THEN mark_consumed(row) ELSE row]
       /\ compared' = [compared EXCEPT ![o] = @ + IF compares /\ attempts > 0 THEN 1 ELSE 0]
       /\ guess' = [guess EXCEPT ![v] = NONE]
       /\ UNCHANGED opened

\* The guard of the UPDATE that burns a verification for its number.  One that
\* has expired is as good as one nobody brings.
consume_verification(o, p) ==
    code[o].state = "verified" /\ code[o].phone = p

burnt(o) == [code EXCEPT ![o].state = "spent"]

\* DELETE FROM otp_codes: the erasure's and the retention job's.
without(gone) ==
    [o \in Codes |-> IF o \in gone THEN removed ELSE code[o]]

CodesTypeOK ==
    /\ code \in [Codes -> OtpCode]
    /\ guess \in [Verifiers -> Codes \cup {NONE}]
    /\ compared \in [Codes -> Nat]
    /\ opened \in [Codes -> Nat]

(***************************************************************************)
(* Properties                                                              *)
(***************************************************************************)

\* However many verify requests race on one code, at most
\* OTP_MAX_VERIFY_ATTEMPTS guesses are ever compared with it while it stands:
\* the count is taken by the UPDATE, not from the row that was read.
GuessesBounded == \A o \in Codes : compared[o] <= OTP_MAX_VERIFY_ATTEMPTS

\* A code that a later send, an erasure or the retention job removed never
\* becomes a verification, even for a verify that had already read it.
RemovedCodeIsDead ==
    \A o \in Codes : code[o].state = "deleted" => code'[o].state = "deleted"

\* A verification opens one thing for good (a booking, a portal session), even
\* though a refused booking gives it back by rolling its burn back.
SpentOnce == \A o \in Codes : opened[o] <= 1

=============================================================================
