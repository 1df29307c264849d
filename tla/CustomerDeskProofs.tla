------------------------- MODULE CustomerDeskProofs -------------------------
(***************************************************************************)
(* Proofs about the customer desk and the one-time codes, for any number   *)
(* of customers, bookings, codes and requests in flight: guesses are       *)
(* bounded and a verification opens one thing, a phone correction kills    *)
(* every old link, the audit log agrees with the arrivals, and a withdrawn *)
(* consent or an erasure stands.                                           *)
(*                                                                         *)
(* CodeInv counts what is under way on a code, and says that the booking   *)
(* request inside the lock still has its verification.  DeskInv says what  *)
(* a desk request read of bookings that others change meanwhile.           *)
(***************************************************************************)
EXTENDS CustomerDesk, FiniteSetTheorems, WellFoundedInduction, TLAPS

\* Verifies that have read the code and not yet counted themselves.
Guessing(o) == {v \in Verifiers : guess[v] = o}

\* What a code has been through: each comparison was counted in the row, each verify
\* under way read a row with attempts to spare, and what opened something is spent.
CodeOK(o) ==
    /\ code[o].state = "none" => compared[o] = 0 /\ opened[o] = 0
    /\ code[o].state \in {"active", "verified", "spent"} => compared[o] <= code[o].attempts
    /\ compared[o] <= OTP_MAX_VERIFY_ATTEMPTS
    /\ opened[o] <= 1
    /\ opened[o] > 0 => code[o].state \in {"spent", "deleted"}
    /\ code[o].attempts + Cardinality(Guessing(o)) <= OTP_MAX_VERIFY_ATTEMPTS + Cardinality(Verifiers)

Claim == [code : Codes, phone : Phones, who : Customers, consents : BOOLEAN]

Erasure == [who : Customers, phone : Numbers, bookings : SUBSET Bookings, revoked : SUBSET Codes]

\* One booking or erasure is inside the lock, and the booking's verification is unspent.
LockOK ==
    /\ claim \in Claim \cup {NONE} /\ erasing \in Erasure \cup {NONE}
    /\ claim = NONE \/ erasing = NONE
    /\ claim # NONE => code[claim.code].state = "verified"

CodeInv == CodesTypeOK /\ (\A o \in Codes : CodeOK(o)) /\ LockOK

\* A correction under way, and a check-in or its undo.
Correction ==
    [op : {"phone"}, booking : Bookings, phone : Phones, who : Customers,
     target : Customers \cup {NONE}, repointed : BOOLEAN, listed : BOOLEAN,
     rotate : SUBSET Bookings, hers : SUBSET Bookings]

Arrival == [op : {"check_in", "undo"}, booking : Bookings]

\* A bookings row.
RowOK(row) ==
    /\ row \in Booking
    /\ row.status # "none" => row.who \in Customers
    /\ row.status = "none" => row = unused
    /\ row.status \in {"no_show", "completed"} => row.started
    /\ row.reminder # "none" => row.link # NONE

\* A text with a link is of a booking that has one.
TextOK(t) == t.link = "opens" => booking[t.booking].link # NONE

\* What a correction knows: the bookings that were hers are hers, ahead, and, once it
\* made its list, on it while they are live.
CorrectionOK(r) ==
    /\ r.repointed => r.target \in Customers
    /\ r.listed /\ r.repointed => r.rotate = {r.booking}
    /\ \A b \in r.hers :
          /\ booking[b].who = r.who
          /\ booking[b].status # "none" /\ ~ booking[b].started
          /\ r.listed /\ ~ r.repointed /\ live(b) => b \in r.rotate

RequestOK(s) == req[s] # NONE /\ req[s].op = "phone" => CorrectionOK(req[s])

PeopleOK ==
    /\ customer \in [Customers -> Customer]
    /\ cookies \in [Codes -> Customers \cup {NONE}]
    /\ left \in 0..MaxRequests

RowsOK == booking \in [Bookings -> Booking] /\ \A b \in Bookings : RowOK(booking[b])

TextsOK == texts \subseteq Text /\ \A t \in texts : TextOK(t)

RequestsOK ==
    req \in [Staff -> Correction \cup Arrival \cup {NONE}] /\ \A s \in Staff : RequestOK(s)

AuditOK == trail \in [Bookings -> {0, 1}] /\ ArrivalsAudited

\* What is past its retention period is past.
AgedOK == \A b \in Bookings : b \in aged => booking[b].started

DeskInv == PeopleOK /\ RowsOK /\ TextsOK /\ RequestsOK /\ AuditOK /\ AgedOK

IInv == CodeInv /\ DeskInv

(***************************************************************************)
(* Codes                                                                   *)
(***************************************************************************)

\* A number's newest active code is one.
LEMMA LatestIsActive ==
    ASSUME NEW p \in Phones, active(p) # {}
    PROVE  latest_active_by_phone(p) \in active(p)
<1> DEFINE T == {MaxCodes - o : o \in active(p)}
<1>1. MaxCodes \in Nat /\ active(p) \subseteq 1..MaxCodes
  BY CodesAssumption DEF CodesAssumption, active, Codes
<1>2. T \subseteq Nat /\ T # {}
  <2>1. \A o \in active(p) : MaxCodes - o \in Nat
    BY <1>1
  <2>2. PICK o \in active(p) : TRUE
    OBVIOUS
  <2> QED
    BY <2>1, <2>2
<1>3. PICK x \in T : \A y \in T : ~ (<<y, x>> \in OpToRel(<, Nat))
  <2>1. IsWellFoundedOn(OpToRel(<, Nat), Nat)
    BY NatLessThanWellFounded
  <2> QED
    BY <1>2, <2>1, WFMin
<1>4. \A y \in T : ~ (y < x)
  BY <1>2, <1>3 DEF OpToRel
<1>5. PICK o \in active(p) : x = MaxCodes - o
  OBVIOUS
<1>6. \A q \in active(p) : o >= q
  <2> TAKE q \in active(p)
  <2>1. ~ (MaxCodes - q < MaxCodes - o)
    BY <1>4, <1>5
  <2> QED
    BY <1>1, <2>1
<1> QED
  BY <1>6 DEF latest_active_by_phone, Max

\* The verifies under way on a code are finitely many, no more than there are.
LEMMA GuessingFinite ==
    ASSUME NEW o
    PROVE  /\ IsFiniteSet(Guessing(o)) /\ Cardinality(Guessing(o)) \in Nat
           /\ Cardinality(Guessing(o)) <= Cardinality(Verifiers)
<1>1. IsFiniteSet(Verifiers) /\ Guessing(o) \subseteq Verifiers
  BY CodesAssumption DEF CodesAssumption, Guessing
<1> QED
  BY <1>1, FS_Subset, FS_CardinalityType

LEMMA VerifiersCount == Cardinality(Verifiers) \in Nat /\ OTP_MAX_VERIFY_ATTEMPTS \in Nat
  BY CodesAssumption, FS_CardinalityType DEF CodesAssumption

\* Nothing happened to a code's row and to the verifies under way.
CodeStays(o) ==
    code'[o] = code[o] /\ Guessing(o)' = Guessing(o) /\ compared'[o] = compared[o] /\ opened'[o] = opened[o]

LEMMA CodeKept ==
    ASSUME NEW o \in Codes, CodeOK(o), CodeStays(o)
    PROVE  CodeOK(o)'
  BY DEF CodeOK, CodeStays

\* A row loses nothing by being removed.
LEMMA CodeRemoved ==
    ASSUME CodesTypeOK, NEW o \in Codes, CodeOK(o), code'[o] = removed,
           Guessing(o)' = Guessing(o), compared'[o] = compared[o], opened'[o] = opened[o]
    PROVE  CodeOK(o)'
<1>1. code'[o].state = "deleted" /\ code'[o].attempts = 0
  BY DEF removed
<1>2. Cardinality(Guessing(o)) \in Nat /\ Cardinality(Guessing(o)) <= Cardinality(Verifiers)
  BY GuessingFinite
<1> QED
  BY <1>1, <1>2, VerifiersCount DEF CodeOK

\* Nor is a verification that is spent: it opens its one thing.
LEMMA CodeBurnt ==
    ASSUME CodesTypeOK, NEW o \in Codes, CodeOK(o), code[o].state = "verified",
           code' = burnt(o), guess' = guess, compared' = compared,
           opened' = [opened EXCEPT ![o] = @ + 1], \A x \in Codes : CodeOK(x)
    PROVE  CodesTypeOK' /\ \A x \in Codes : CodeOK(x)'
<1>1. PICK row \in OtpCode : row = [code[o] EXCEPT !.state = "spent"]
  BY DEF CodesTypeOK, OtpCode, CodeStates
<1>2. code' = [code EXCEPT ![o] = row]
  BY <1>1 DEF burnt, CodesTypeOK
<1>3. row.state = "spent" /\ row.attempts = code[o].attempts
  BY <1>1 DEF CodesTypeOK, OtpCode
<1>4. opened[o] = 0 /\ opened'[o] = 1
  BY DEF CodeOK, CodesTypeOK
<1>5. CodesTypeOK'
  BY <1>2 DEF CodesTypeOK
<1>6. \A x : Guessing(x)' = Guessing(x)
  BY DEF Guessing
<1>7. CodeOK(o)'
  BY <1>2, <1>3, <1>4, <1>6 DEF CodeOK, CodesTypeOK
<1>8. \A x \in Codes \ {o} : CodeOK(x)'
  <2> TAKE x \in Codes \ {o}
  <2>1. CodeStays(x)
    BY <1>2, <1>6 DEF CodeStays, CodesTypeOK
  <2> QED
    BY <2>1, CodeKept
<1> QED
  BY <1>5, <1>7, <1>8

\* Removing any set of codes.
LEMMA CodesWithout ==
    ASSUME CodesTypeOK, \A x \in Codes : CodeOK(x), NEW gone, code' = without(gone),
           guess' = guess, compared' = compared, opened' = opened
    PROVE  CodesTypeOK' /\ \A x \in Codes : CodeOK(x)'
<1>1. removed \in OtpCode
  BY VerifiersCount DEF removed, OtpCode, CodeStates
<1>2. CodesTypeOK'
  BY <1>1 DEF CodesTypeOK, without
<1>3. \A x : Guessing(x)' = Guessing(x)
  BY DEF Guessing
<1>4. ASSUME NEW x \in Codes PROVE CodeOK(x)'
  <2>1. CASE x \in gone
    BY <1>3, <2>1, CodeRemoved DEF without
  <2>2. CASE x \notin gone
    BY <1>3, <2>2, CodeKept DEF without, CodeStays
  <2> QED
    BY <2>1, <2>2
<1> QED
  BY <1>2, <1>4

\* A send: the number's standing codes are removed, but for one it may not see,
\* and a new one is standing.
LEMMA SendKeepsCodes ==
    ASSUME CodesTypeOK, \A x \in Codes : CodeOK(x), NEW p \in Phones, send(p)
    PROVE  /\ CodesTypeOK' /\ \A x \in Codes : CodeOK(x)'
           /\ \A x \in Codes : code[x].state \in {"verified", "deleted"} => code'[x] = code[x]
<1>1. PICK o \in Codes, missed \in {{}} \cup {{x} : x \in active(p)} :
        /\ code[o].state = "none"
        /\ code' = insert(soft_delete_active_for_phone(p, Codes \ missed), o, p)
        /\ UNCHANGED <<guess, compared, opened>>
  BY DEF send
<1> DEFINE fresh == [state |-> "active", phone |-> p, attempts |-> 0]
<1> DEFINE gone == active(p) \cap (Codes \ missed)
<1>2. code' = [x \in Codes |-> IF x = o THEN fresh ELSE IF x \in gone THEN removed ELSE code[x]]
  BY <1>1 DEF insert, soft_delete_active_for_phone
<1>3. removed \in OtpCode /\ fresh \in OtpCode
  BY VerifiersCount DEF removed, OtpCode, CodeStates
<1>4. CodesTypeOK'
  BY <1>1, <1>2, <1>3 DEF CodesTypeOK
<1>5. \A x : Guessing(x)' = Guessing(x)
  BY <1>1 DEF Guessing
<1>6. CodeOK(o)'
  <2>1. code'[o].state = "active" /\ code'[o].attempts = 0
    BY <1>2
  <2>2. compared'[o] = 0 /\ opened'[o] = 0
    BY <1>1 DEF CodeOK
  <2>3. Cardinality(Guessing(o)) \in Nat /\ Cardinality(Guessing(o)) <= Cardinality(Verifiers)
    BY GuessingFinite
  <2> QED
    BY <1>5, <2>1, <2>2, <2>3, VerifiersCount DEF CodeOK
<1>7. ASSUME NEW x \in Codes, x # o PROVE CodeOK(x)'
  <2>1. CASE x \in gone
    BY <1>1, <1>2, <1>5, <1>7, <2>1, CodeRemoved
  <2>2. CASE x \notin gone
    <3>1. CodeStays(x)
      BY <1>1, <1>2, <1>5, <1>7, <2>2 DEF CodeStays
    <3> QED
      BY <3>1, CodeKept
  <2> QED
    BY <2>1, <2>2
<1>8. ASSUME NEW x \in Codes, code[x].state \in {"verified", "deleted"} PROVE code'[x] = code[x]
  BY <1>1, <1>2, <1>8 DEF active
<1> QED
  BY <1>4, <1>6, <1>7, <1>8

\* A verify reads a row with attempts to spare.
LEMMA ReadKeepsCodes ==
    ASSUME CodesTypeOK, \A x \in Codes : CodeOK(x), NEW v \in Verifiers, NEW p \in Phones, verify_read(v, p)
    PROVE  CodesTypeOK' /\ (\A x \in Codes : CodeOK(x)') /\ code' = code
<1>1. PICK o : o = latest_active_by_phone(p)
  OBVIOUS
<1>2. /\ guess[v] = NONE /\ o # NONE /\ code[o].attempts < OTP_MAX_VERIFY_ATTEMPTS
      /\ guess' = [guess EXCEPT ![v] = o]
      /\ UNCHANGED <<code, compared, opened>>
  BY <1>1 DEF verify_read
<1>3. o \in Codes
  <2>1. active(p) # {}
    BY <1>1, <1>2 DEF latest_active_by_phone
  <2>2. o \in active(p)
    BY <1>1, <2>1, LatestIsActive
  <2> QED
    BY <2>2 DEF active
<1>4. NONE \notin Codes
  BY CodesAssumption DEF CodesAssumption
<1>5. CodesTypeOK'
  BY <1>2, <1>3 DEF CodesTypeOK
<1>6. CodeOK(o)'
  <2>1. Cardinality(Guessing(o))' \in Nat /\ Cardinality(Guessing(o))' <= Cardinality(Verifiers)
    <3>1. \A f : IsFiniteSet({w \in Verifiers : f[w] = o})
                 /\ Cardinality({w \in Verifiers : f[w] = o}) \in Nat
                 /\ Cardinality({w \in Verifiers : f[w] = o}) <= Cardinality(Verifiers)
      <4> TAKE f
      <4>1. IsFiniteSet(Verifiers) /\ {w \in Verifiers : f[w] = o} \subseteq Verifiers
        BY CodesAssumption DEF CodesAssumption
      <4> QED
        BY <4>1, FS_Subset, FS_CardinalityType
    <3>2. Guessing(o)' = {w \in Verifiers : guess'[w] = o}
      BY DEF Guessing
    <3> QED
      BY <3>1, <3>2
  <2>2. code[o].attempts \in Nat
    BY <1>3, VerifiersCount DEF CodesTypeOK, OtpCode
  <2>3. code[o].attempts + Cardinality(Guessing(o))' <= OTP_MAX_VERIFY_ATTEMPTS + Cardinality(Verifiers)
    BY <1>2, <2>1, <2>2, VerifiersCount
  <2> QED
    BY <1>2, <1>3, <2>3 DEF CodeOK
<1>7. ASSUME NEW x \in Codes, x # o PROVE CodeOK(x)'
  <2>1. Guessing(x)' = Guessing(x)
    BY <1>2, <1>3, <1>4, <1>7 DEF Guessing, CodesTypeOK
  <2> QED
    BY <1>2, <2>1, CodeKept DEF CodeStays
<1> QED
  BY <1>2, <1>5, <1>6, <1>7

\* A verify that ends is one fewer under way on its code.
LEMMA OneFewer ==
    ASSUME NEW v \in Verifiers, NEW o, guess[v] = o, guess \in [Verifiers -> Codes \cup {NONE}],
           o # NONE, guess' = [guess EXCEPT ![v] = NONE]
    PROVE  /\ Cardinality(Guessing(o))' = Cardinality(Guessing(o)) - 1
           /\ \A x \in Codes : x # o => Guessing(x)' = Guessing(x)
<1>1. Guessing(o)' = Guessing(o) \ {v} /\ v \in Guessing(o)
  BY DEF Guessing
<1>2. PICK G : G = Guessing(o)
  OBVIOUS
<1>3. IsFiniteSet(G) /\ v \in G
  BY <1>1, <1>2, GuessingFinite
<1>4. Cardinality(G \ {v}) = Cardinality(G) - 1
  BY <1>3, FS_RemoveElement
<1>5. \A x \in Codes : x # o => Guessing(x)' = Guessing(x)
  BY CodesAssumption DEF Guessing, CodesAssumption
<1> QED
  BY <1>1, <1>2, <1>4, <1>5

\* A verify counts itself in the row before it compares, and turns only a standing
\* code into a verification.
LEMMA VerifyKeepsCodes ==
    ASSUME CodesTypeOK, \A x \in Codes : CodeOK(x),
           NEW v \in Verifiers, NEW right \in BOOLEAN, NEW late \in BOOLEAN, verify(v, right, late)
    PROVE  /\ CodesTypeOK' /\ \A x \in Codes : CodeOK(x)'
           /\ \A x \in Codes : code[x].state \in {"verified", "deleted"} => code'[x].state = code[x].state
<1>1. PICK o : o = guess[v]
  OBVIOUS
<1>2. o \in Codes /\ o # NONE
  BY <1>1 DEF verify, CodesTypeOK
<1>3. PICK attempts : attempts = increment_attempts(o)
  OBVIOUS
<1>4. PICK compares \in BOOLEAN : compares = (~ exhausted(attempts) /\ ~ late)
  OBVIOUS
<1>5. PICK row : row = IF attempts = 0 THEN code[o] ELSE [code[o] EXCEPT !.attempts = attempts]
  OBVIOUS
<1>6. PICK new : new = IF compares /\ right THEN mark_consumed(row) ELSE row
  OBVIOUS
<1>7. /\ code' = [code EXCEPT ![o] = new]
      /\ compared' = [compared EXCEPT ![o] = @ + IF compares /\ attempts > 0 THEN 1 ELSE 0]
      /\ guess' = [guess EXCEPT ![v] = NONE]
      /\ opened' = opened
  BY <1>1, <1>3, <1>4, <1>5, <1>6 DEF verify
<1>8. PICK n \in Nat : n = Cardinality(Guessing(o))
  BY GuessingFinite
<1>9. Cardinality(Guessing(o))' = n - 1 /\ \A x \in Codes : x # o => Guessing(x)' = Guessing(x)
  BY <1>1, <1>2, <1>7, <1>8, OneFewer DEF CodesTypeOK
<1>10. n >= 1
  <2>1. Cardinality(Guessing(o))' \in Nat
    <3>1. Guessing(o)' = {w \in Verifiers : guess'[w] = o}
      BY DEF Guessing
    <3>2. IsFiniteSet(Verifiers) /\ {w \in Verifiers : guess'[w] = o} \subseteq Verifiers
      BY CodesAssumption DEF CodesAssumption
    <3>3. Cardinality({w \in Verifiers : guess'[w] = o}) \in Nat
      BY <3>2, FS_Subset, FS_CardinalityType
    <3> QED
      BY <3>1, <3>3
  <2> QED
    BY <1>9, <2>1
<1>11. PICK c \in OtpCode : c = code[o]
  BY <1>2 DEF CodesTypeOK
<1>12. c.attempts \in Nat /\ c.state \in CodeStates /\ c.phone \in Phones \cup {NONE}
  BY <1>11, VerifiersCount DEF OtpCode
<1>13. c.attempts + n <= OTP_MAX_VERIFY_ATTEMPTS + Cardinality(Verifiers)
  BY <1>2, <1>8, <1>11 DEF CodeOK
<1>14. \/ attempts = 0 /\ row = c
       \/ /\ attempts = c.attempts + 1 /\ attempts > 0 /\ c.state \notin {"deleted", "none"}
          /\ row = [c EXCEPT !.attempts = attempts]
  BY <1>3, <1>5, <1>11, <1>12 DEF increment_attempts
<1>15. /\ row \in OtpCode /\ row.state = c.state
       /\ row.attempts = IF attempts = 0 THEN c.attempts ELSE attempts
  <2>1. CASE attempts = 0
    BY <1>11, <1>14, <2>1
  <2>2. CASE attempts # 0
    <3>1. attempts \in 0..(OTP_MAX_VERIFY_ATTEMPTS + Cardinality(Verifiers))
      BY <1>10, <1>12, <1>13, <1>14, <2>2, VerifiersCount
    <3> QED
      BY <1>11, <1>14, <2>2, <3>1 DEF OtpCode
  <2> QED
    BY <2>1, <2>2
<1>16. /\ new \in OtpCode /\ new.attempts = row.attempts
       /\ new.state = c.state \/ (c.state = "active" /\ new.state = "verified")
  BY <1>6, <1>15 DEF mark_consumed, OtpCode, CodeStates
<1>17. compared[o] \in Nat /\ opened[o] \in Nat
  BY <1>2 DEF CodesTypeOK
<1>18. PICK k \in Nat : k = compared[o] + IF compares /\ attempts > 0 THEN 1 ELSE 0
  BY <1>17
<1>19. compared' = [compared EXCEPT ![o] = k]
  BY <1>7, <1>18
<1>20. CodesTypeOK'
  BY <1>7, <1>16, <1>19 DEF CodesTypeOK
<1>21. CodeOK(o)'
  <2>1. code'[o] = new /\ compared'[o] = k /\ opened'[o] = opened[o]
    BY <1>2, <1>7, <1>19 DEF CodesTypeOK
  <2>2. /\ c.state = "none" => compared[o] = 0 /\ opened[o] = 0
        /\ c.state \in {"active", "verified", "spent"} => compared[o] <= c.attempts
        /\ compared[o] <= OTP_MAX_VERIFY_ATTEMPTS
        /\ opened[o] <= 1
        /\ opened[o] > 0 => c.state \in {"spent", "deleted"}
    BY <1>2, <1>11 DEF CodeOK
  <2>3. CASE attempts = 0
    <3>1. k = compared[o]
      BY <1>17, <1>18, <2>3
    <3>2. new.attempts + (n - 1) <= OTP_MAX_VERIFY_ATTEMPTS + Cardinality(Verifiers)
      BY <1>12, <1>13, <1>15, <1>16, <2>3, VerifiersCount
    <3>3. /\ new.state = "none" => k = 0 /\ opened[o] = 0
          /\ new.state \in {"active", "verified", "spent"} => k <= new.attempts
          /\ k <= OTP_MAX_VERIFY_ATTEMPTS
          /\ opened[o] > 0 => new.state \in {"spent", "deleted"}
      BY <1>15, <1>16, <2>2, <2>3, <3>1
    <3> QED
      BY <1>9, <2>1, <2>2, <3>2, <3>3 DEF CodeOK
  <2>4. CASE attempts # 0
    <3>1. attempts = c.attempts + 1 /\ new.attempts = attempts /\ c.state \notin {"deleted", "none"}
      BY <1>14, <1>15, <1>16, <2>4
    <3>2. k <= attempts /\ k <= OTP_MAX_VERIFY_ATTEMPTS
      <4>1. c.state \in {"active", "verified", "spent"}
        BY <1>12, <3>1 DEF CodeStates
      <4>2. compared[o] <= c.attempts
        BY <2>2, <4>1
      <4>3. CASE compares
        <5>1. attempts <= OTP_MAX_VERIFY_ATTEMPTS
          <6>1. ~ (attempts > OTP_MAX_VERIFY_ATTEMPTS)
            BY <1>4, <4>3 DEF exhausted
          <6> QED
            BY <1>12, <3>1, <6>1, VerifiersCount
        <5> QED
          BY <1>12, <1>17, <1>18, <3>1, <4>2, <5>1, VerifiersCount
      <4>4. CASE ~ compares
        BY <1>12, <1>17, <1>18, <2>2, <3>1, <4>2, <4>4
      <4> QED
        BY <4>3, <4>4
    <3>3. new.attempts + (n - 1) <= OTP_MAX_VERIFY_ATTEMPTS + Cardinality(Verifiers)
      BY <1>12, <1>13, <3>1, VerifiersCount
    <3>4. new.state # "none" /\ (opened[o] > 0 => new.state \in {"spent", "deleted"})
      BY <1>16, <2>2, <3>1
    <3> QED
      BY <1>9, <2>1, <2>2, <3>1, <3>2, <3>3, <3>4 DEF CodeOK
  <2> QED
    BY <2>3, <2>4
<1>22. ASSUME NEW x \in Codes, x # o PROVE CodeOK(x)'
  <2>1. CodeStays(x)
    BY <1>7, <1>9, <1>19, <1>22 DEF CodeStays, CodesTypeOK
  <2> QED
    BY <2>1, CodeKept
<1>23. ASSUME NEW x \in Codes, code[x].state \in {"verified", "deleted"}
       PROVE  code'[x].state = code[x].state
  BY <1>7, <1>11, <1>16, <1>23 DEF CodesTypeOK
<1> QED
  BY <1>20, <1>21, <1>22, <1>23

LEMMA CodesSame ==
    ASSUME CodesTypeOK, \A x \in Codes : CodeOK(x), codeVars' = codeVars
    PROVE  CodesTypeOK' /\ \A x \in Codes : CodeOK(x)'
<1>1. code' = code /\ guess' = guess /\ compared' = compared /\ opened' = opened
  BY DEF codeVars
<1>2. \A x : Guessing(x)' = Guessing(x)
  BY <1>1 DEF Guessing
<1>3. \A x \in Codes : CodeOK(x)'
  BY <1>1, <1>2, CodeKept DEF CodeStays
<1> QED
  BY <1>1, <1>3 DEF CodesTypeOK

\* What leaves the codes and the lock alone.
LEMMA CodeInvSame ==
    ASSUME CodeInv, codeVars' = codeVars, claim' = claim, erasing' = erasing
    PROVE  CodeInv'
<1>1. LockOK'
  BY DEF CodeInv, LockOK, codeVars
<1> QED
  BY <1>1, CodesSame DEF CodeInv

(***************************************************************************)
(* A booking's row                                                         *)
(***************************************************************************)

\* What the desk, the customer and the texts may make of a row that stays hers.
Moves(old, new) ==
    /\ RowOK(new)
    /\ new.who = old.who /\ new.arrived = old.arrived /\ new.started = old.started
    /\ old.status # "none" => new.status # "none"
    /\ ~ old.started /\ new.status = "confirmed" => old.status = "confirmed"
    /\ old.link # NONE => new.link # NONE

LEMMA LinksAreNotNone == ASSUME NEW l \in SUBSET Phones PROVE l # NONE
  BY DeskAssumption DEF DeskAssumption

LEMMA UnusedOK == RowOK(unused) /\ Nobody \notin Phones /\ NONE \notin Phones /\ NONE \notin Customers
  BY DeskAssumption, CodesAssumption DEF RowOK, unused, Booking, DeskAssumption, CodesAssumption

LEMMA SameMoves == ASSUME NEW row, RowOK(row) PROVE Moves(row, row)
  BY DEF Moves

LEMMA CancelledMoves ==
    ASSUME NEW row, RowOK(row), row.status = "confirmed"
    PROVE  Moves(row, cancelled(row))
  BY DEF Moves, RowOK, Booking, cancelled

\* A null link is rotated as well.
LEMMA RotatedMoves ==
    ASSUME NEW row, RowOK(row), row.status # "none"
    PROVE  /\ Moves(row, rotated(row)) /\ rotated(row).link = {} /\ rotated(row).link # NONE
           /\ rotated(row).reminder # "other"
<1>1. {} # NONE
  BY LinksAreNotNone
<1>2. PICK m \in {"none", "same"} : m = IF row.reminder = "none" THEN "none" ELSE "same"
  OBVIOUS
<1>3. rotated(row) = [row EXCEPT !.link = {}, !.reminder = m]
  BY <1>2 DEF rotated
<1> QED
  BY <1>1, <1>2, <1>3 DEF Moves, RowOK, Booking

LEMMA ReminderMoves ==
    ASSUME NEW row, RowOK(row), row.status # "none", NEW near \in BOOLEAN
    PROVE  /\ Moves(row, upsert_reminder(row, near))
           /\ upsert_reminder(row, near).link = row.link \/ upsert_reminder(row, near).link # NONE
<1>1. {} # NONE
  BY LinksAreNotNone
<1>2. \/ upsert_reminder(row, near) = [row EXCEPT !.reminder = "none"]
      \/ upsert_reminder(row, near) = [row EXCEPT !.reminder = "same", !.link = {}]
      \/ upsert_reminder(row, near) = row
  BY DEF upsert_reminder
<1> QED
  BY <1>1, <1>2 DEF Moves, RowOK, Booking

LEMMA TransitionMoves ==
    ASSUME NEW row, RowOK(row), NEW to \in {"confirmed", "no_show", "completed"},
           row.status \in {"confirmed", "no_show", "completed"} \ {to}, to # "confirmed" => row.started
    PROVE  Moves(row, [row EXCEPT !.status = to])
  BY DEF Moves, RowOK, Booking

LEMMA FreshTokenMoves ==
    ASSUME NEW row, RowOK(row), row.status # "none", NEW m \in {"none", "other"}
    PROVE  Moves(row, [row EXCEPT !.link = {}, !.reminder = m]) /\ {} # NONE
<1>1. {} # NONE
  BY LinksAreNotNone
<1> QED
  BY <1>1 DEF Moves, RowOK, Booking

LEMMA DeliveredMoves ==
    ASSUME NEW row, RowOK(row), row.link # NONE, NEW p \in Phones
    PROVE  Moves(row, [row EXCEPT !.link = @ \cup {p}])
<1>1. row.status # "none"
  BY DEF RowOK, unused
<1>2. PICK l \in SUBSET Phones : l = row.link \cup {p}
  BY DEF RowOK, Booking
<1>3. l # NONE
  BY LinksAreNotNone
<1> QED
  BY <1>1, <1>2, <1>3 DEF Moves, RowOK, Booking

(***************************************************************************)
(* The parts of DeskInv across a step                                      *)
(***************************************************************************)

\* A request that does not change has still read the truth, if the rows it read of
\* stay hers and ahead.
Held(b) ==
    booking[b].status # "none" /\ ~ booking[b].started =>
        /\ booking'[b].who = booking[b].who
        /\ booking'[b].status # "none" /\ ~ booking'[b].started
        /\ booking'[b].status = "confirmed" => booking[b].status = "confirmed"

LEMMA CorrectionKept ==
    ASSUME NEW r \in Correction, CorrectionOK(r), \A b \in Bookings : Held(b)
    PROVE  /\ r.repointed => r.target \in Customers
           /\ r.listed /\ r.repointed => r.rotate = {r.booking}
           /\ \A b \in r.hers :
                 /\ booking'[b].who = r.who
                 /\ booking'[b].status # "none" /\ ~ booking'[b].started
                 /\ r.listed /\ ~ r.repointed /\ live(b)' => b \in r.rotate
<1> SUFFICES ASSUME NEW b \in r.hers
             PROVE  /\ booking'[b].who = r.who
                    /\ booking'[b].status # "none" /\ ~ booking'[b].started
                    /\ r.listed /\ ~ r.repointed /\ live(b)' => b \in r.rotate
  BY DEF CorrectionOK
<1>1. b \in Bookings
  BY DEF Correction
<1>2. /\ booking[b].who = r.who
      /\ booking[b].status # "none" /\ ~ booking[b].started
      /\ r.listed /\ ~ r.repointed /\ live(b) => b \in r.rotate
  BY DEF CorrectionOK
<1> QED
  BY <1>1, <1>2 DEF Held, live

LEMMA RequestKept ==
    ASSUME RequestsOK, NEW s \in Staff, req'[s] = req[s], \A b \in Bookings : Held(b)
    PROVE  RequestOK(s)'
<1> SUFFICES ASSUME req'[s] # NONE, req'[s].op = "phone" PROVE CorrectionOK(req[s])'
  BY DEF RequestOK
<1>1. PICK r : r = req[s]
  OBVIOUS
<1>2. r \in Correction /\ CorrectionOK(r)
  BY <1>1 DEF RequestsOK, RequestOK, Arrival
<1> QED
  BY <1>1, <1>2, CorrectionKept DEF CorrectionOK

LEMMA RequestsKept ==
    ASSUME RequestsOK, req' = req, \A b \in Bookings : Held(b)
    PROVE  RequestsOK'
  BY RequestKept DEF RequestsOK

LEMMA RequestsSame ==
    ASSUME RequestsOK, req' = req, booking' = booking
    PROVE  RequestsOK'
  BY RequestsKept DEF Held

\* No correction is under way.
LEMMA NoCorrection ==
    ASSUME req' \in [Staff -> Correction \cup Arrival \cup {NONE}],
           \A s \in Staff : req'[s] # NONE => req'[s].op # "phone"
    PROVE  RequestsOK'
  BY DEF RequestsOK, RequestOK

LEMMA TextsKept ==
    ASSUME TextsOK, texts' \subseteq Text,
           \A t \in texts' :
              \/ t \in texts /\ (booking[t.booking].link # NONE => booking'[t.booking].link # NONE)
              \/ t.link = "opens" => booking'[t.booking].link # NONE
    PROVE  TextsOK'
  BY DEF TextsOK, TextOK

LEMMA AuditKept ==
    ASSUME AuditOK, trail' = trail, \A b \in Bookings : booking'[b].arrived = booking[b].arrived
    PROVE  AuditOK'
  BY DEF AuditOK, ArrivalsAudited

LEMMA AgedKept ==
    ASSUME AgedOK, aged' = aged, \A b \in Bookings : booking[b].started => booking'[b].started
    PROVE  AgedOK'
  BY DEF AgedOK

\* Rows that move, with what is texted about them.
LEMMA RowsMove ==
    ASSUME DeskInv, booking' \in [Bookings -> Booking], \A b \in Bookings : Moves(booking[b], booking'[b]),
           customer' = customer, cookies' = cookies, left' \in 0..MaxRequests,
           req' = req, trail' = trail, aged' = aged, texts' \subseteq Text,
           \A t \in texts' : t \in texts \/ (t.link = "opens" => booking'[t.booking].link # NONE)
    PROVE  DeskInv'
<1>1. PeopleOK' /\ RowsOK'
  BY DEF DeskInv, PeopleOK, RowsOK, Moves
<1>2. TextsOK'
  <2>1. \A t \in texts' : t \in texts => t.booking \in Bookings
    BY DEF DeskInv, TextsOK, Text
  <2> QED
    BY <2>1, TextsKept DEF DeskInv, Moves
<1>3. RequestsOK'
  BY RequestsKept DEF DeskInv, Held, Moves
<1>4. AuditOK' /\ AgedOK'
  BY AuditKept, AgedKept DEF DeskInv, Moves
<1> QED
  BY <1>1, <1>2, <1>3, <1>4 DEF DeskInv

\* One row that moves.
LEMMA RowMoves ==
    ASSUME DeskInv, NEW b \in Bookings, NEW row, Moves(booking[b], row), booking' = [booking EXCEPT ![b] = row],
           customer' = customer, cookies' = cookies, left' \in 0..MaxRequests,
           req' = req, trail' = trail, aged' = aged, texts' \subseteq Text,
           \A t \in texts' : t \in texts \/ (t.link = "opens" => booking'[t.booking].link # NONE)
    PROVE  DeskInv'
<1>1. row \in Booking /\ booking \in [Bookings -> Booking] /\ \A x \in Bookings : RowOK(booking[x])
  BY DEF DeskInv, RowsOK, Moves, RowOK
<1>2. booking' \in [Bookings -> Booking] /\ booking'[b] = row /\ \A x \in Bookings : x # b => booking'[x] = booking[x]
  BY <1>1
<1>3. \A x \in Bookings : Moves(booking[x], booking'[x])
  BY <1>1, <1>2, SameMoves
<1> QED
  BY <1>2, <1>3, RowsMove

\* The rows of a set get a new token each.
LEMMA LinksRotate ==
    ASSUME NEW rows, rows \in [Bookings -> Booking], \A b \in Bookings : RowOK(rows[b]), NEW bs,
           \A b \in Bookings : b \in bs => rows[b].status # "none"
    PROVE  /\ _rotate_links(rows, bs) \in [Bookings -> Booking]
           /\ \A b \in Bookings : Moves(rows[b], _rotate_links(rows, bs)[b])
           /\ \A b \in Bookings : b \in bs => /\ _rotate_links(rows, bs)[b].link = {}
                                              /\ _rotate_links(rows, bs)[b].link # NONE
                                              /\ _rotate_links(rows, bs)[b].reminder # "other"
<1> DEFINE new == _rotate_links(rows, bs)
<1>1. \A b \in Bookings : new[b] = IF b \in bs THEN rotated(rows[b]) ELSE rows[b]
  BY DEF _rotate_links
<1>2. \A b \in Bookings : Moves(rows[b], new[b])
  BY <1>1, RotatedMoves, SameMoves
<1>3. new \in [Bookings -> Booking]
  <2>1. \A b \in Bookings : (IF b \in bs THEN rotated(rows[b]) ELSE rows[b]) \in Booking
    BY <1>1, <1>2 DEF Moves, RowOK
  <2> QED
    BY <2>1 DEF _rotate_links
<1> QED
  BY <1>1, <1>2, <1>3, RotatedMoves

LEMMA RequestSpent == ASSUME PeopleOK, Requested PROVE left' \in 0..MaxRequests
  BY DeskAssumption DEF PeopleOK, Requested, DeskAssumption

LEMMA ConfirmationIsText ==
    ASSUME NEW b \in Bookings, NEW k \in Customers
    PROVE  confirmation(b, k) \in Text /\ confirmation(b, k).booking = b
  BY DEF confirmation, Text

LEMMA StaleAreTexts == \A bs : staleTexts(bs) \subseteq texts
  BY DEF staleTexts

(***************************************************************************)
(* One step of the customer's or of the desk's                             *)
(***************************************************************************)

LEMMA CancelStep ==
    ASSUME IInv, NEW b \in Bookings, cancel(b)
    PROVE  IInv'
<1>1. RowOK(booking[b]) /\ booking[b].status = "confirmed"
  BY DEF IInv, DeskInv, RowsOK, cancel, live
<1>2. Moves(booking[b], cancelled(booking[b]))
  BY <1>1, CancelledMoves
<1>3. booking' = [booking EXCEPT ![b] = cancelled(booking[b])]
  BY DEF cancel
<1>4. left' \in 0..MaxRequests
  BY RequestSpent DEF cancel, IInv, DeskInv
<1>5. DeskInv'
  BY <1>2, <1>3, <1>4, RowMoves DEF cancel, IInv, DeskInv, TextsOK
<1>6. CodeInv'
  BY CodeInvSame DEF cancel, IInv
<1> QED
  BY <1>5, <1>6 DEF IInv

\* A resent link and a replayed booking request: a new token, and its text.
LEMMA ReissueStep ==
    ASSUME IInv, NEW b \in Bookings, booking[b].status # "none", Requested,
           booking' = _rotate_links(booking, {b}),
           texts' = staleTexts({b}) \cup {confirmation(b, booking[b].who)},
           UNCHANGED <<codeVars, customer, cookies, claim, erasing, req, trail, aged>>
    PROVE  IInv'
<1>1. booking \in [Bookings -> Booking] /\ \A x \in Bookings : RowOK(booking[x])
  BY DEF IInv, DeskInv, RowsOK
<1>2. /\ booking' \in [Bookings -> Booking] /\ \A x \in Bookings : Moves(booking[x], booking'[x])
      /\ booking'[b].link # NONE
  BY <1>1, LinksRotate
<1>3. PICK k \in Customers : k = booking[b].who
  BY <1>1 DEF RowOK
<1>4. PICK t \in Text : t = confirmation(b, booking[b].who) /\ t.booking = b
  BY <1>3, ConfirmationIsText
<1>5. texts' \subseteq Text /\ \A x \in texts' : x \in texts \/ (x.link = "opens" => booking'[x.booking].link # NONE)
  BY <1>2, <1>4, StaleAreTexts DEF IInv, DeskInv, TextsOK
<1>6. left' \in 0..MaxRequests
  BY RequestSpent DEF IInv, DeskInv
<1>7. DeskInv'
  BY <1>2, <1>5, <1>6, RowsMove DEF IInv
<1>8. CodeInv'
  BY CodeInvSame DEF IInv
<1> QED
  BY <1>7, <1>8 DEF IInv

LEMMA RescheduleStep ==
    ASSUME IInv, NEW b \in Bookings, NEW near \in BOOLEAN, reschedule(b, near)
    PROVE  IInv'
<1>1. RowOK(booking[b]) /\ booking[b].status # "none"
  BY DEF IInv, DeskInv, RowsOK, reschedule, live
<1>2. Moves(booking[b], upsert_reminder(booking[b], near))
  BY <1>1, ReminderMoves
<1>3. booking' = [booking EXCEPT ![b] = upsert_reminder(booking[b], near)]
  BY DEF reschedule
<1>4. PICK t : t = [booking |-> b, who |-> booking[b].who, to |-> NONE, link |-> "unread"]
  OBVIOUS
<1>5. t \in Text /\ t.link # "opens"
  BY <1>1, <1>4 DEF Text, RowOK
<1>6. texts' \subseteq texts \cup {t}
  BY <1>4, StaleAreTexts DEF reschedule
<1>7. texts' \subseteq Text /\ \A x \in texts' : x \in texts \/ (x.link = "opens" => booking'[x.booking].link # NONE)
  BY <1>5, <1>6 DEF IInv, DeskInv, TextsOK
<1>8. left' \in 0..MaxRequests
  BY RequestSpent DEF reschedule, IInv, DeskInv
<1>9. DeskInv'
  BY <1>2, <1>3, <1>7, <1>8, RowMoves DEF reschedule, IInv
<1>10. CodeInv'
  BY CodeInvSame DEF reschedule, IInv
<1> QED
  BY <1>9, <1>10 DEF IInv

LEMMA TransitionStep ==
    ASSUME IInv, NEW b \in Bookings, NEW to \in {"confirmed", "no_show", "completed"}, _transition(b, to)
    PROVE  IInv'
<1>1. RowOK(booking[b]) /\ booking \in [Bookings -> Booking]
  BY DEF IInv, DeskInv, RowsOK
<1>2. PICK row : row = [booking[b] EXCEPT !.status = to]
  OBVIOUS
<1>3. Moves(booking[b], row)
  BY <1>1, <1>2, TransitionMoves DEF _transition
<1>4. booking' = [booking EXCEPT ![b] = row]
  BY <1>2 DEF _transition
<1>5. left' \in 0..MaxRequests
  BY RequestSpent DEF _transition, IInv, DeskInv
<1>6. DeskInv'
  BY <1>3, <1>4, <1>5, RowMoves DEF _transition, IInv, DeskInv, TextsOK
<1>7. CodeInv'
  BY CodeInvSame DEF _transition, IInv
<1> QED
  BY <1>6, <1>7 DEF IInv

\* What changes no row at all.
LEMMA NothingButTexts ==
    ASSUME DeskInv, booking' = booking, customer' = customer, cookies' = cookies, left' \in 0..MaxRequests,
           req' = req, trail' = trail, aged' = aged, texts' \subseteq Text,
           \A t \in texts' : t \in texts \/ (t.link = "opens" => booking[t.booking].link # NONE)
    PROVE  DeskInv'
  BY RowsMove, SameMoves DEF DeskInv, RowsOK

LEMMA TextStepOK ==
    ASSUME IInv, NEW t \in texts, _customer_phone(t) \/ _live_token(t) \/ _rotate(t) \/ _deliver(t)
    PROVE  IInv'
<1>1. /\ t \in Text /\ t.booking \in Bookings /\ t.who \in Customers /\ t.to \in Numbers \cup {NONE}
      /\ TextOK(t) /\ RowOK(booking[t.booking])
  <2>1. t \in Text /\ TextOK(t)
    BY DEF IInv, DeskInv, TextsOK
  <2>2. t.booking \in Bookings /\ t.who \in Customers /\ t.to \in Numbers \cup {NONE}
    BY <2>1 DEF Text
  <2> QED
    BY <2>1, <2>2 DEF IInv, DeskInv, RowsOK
<1>2. texts \subseteq Text /\ left \in 0..MaxRequests
  BY DEF IInv, DeskInv, TextsOK, PeopleOK
<1>3. CodeInv'
  BY CodeInvSame DEF IInv, _customer_phone, _live_token, _rotate, _deliver
<1>4. CASE _customer_phone(t)
  <2>1. PICK n : n = customer[t.who].phone
    OBVIOUS
  <2>2. n \in Numbers \cup {NONE}
    BY <1>1, <2>1 DEF IInv, DeskInv, PeopleOK, Customer
  <2>3. PICK x \in Text : x = [t EXCEPT !.to = n]
    BY <1>1, <2>2 DEF Text
  <2>4. x.link = t.link /\ x.booking = t.booking
    BY <1>1, <2>3 DEF Text
  <2>5. texts' = (texts \ {t}) \cup {x}
    BY <1>4, <2>1, <2>3 DEF _customer_phone
  <2>6. x.link = "opens" => booking[x.booking].link # NONE
    BY <1>1, <2>4 DEF TextOK
  <2> QED
    BY <1>2, <1>3, <1>4, <2>5, <2>6, NothingButTexts DEF IInv, _customer_phone
<1>5. CASE _live_token(t)
  <2>1. /\ texts' \subseteq Text
        /\ \A x \in texts' : x \in texts \/ (x.link = "opens" => booking[x.booking].link # NONE)
    <3>1. CASE booking[t.booking].reminder = "same"
      <4>1. PICK x \in Text : x = [t EXCEPT !.link = "opens"]
        BY <1>1 DEF Text
      <4>2. x.booking = t.booking
        BY <1>1, <4>1 DEF Text
      <4>3. booking[t.booking].link # NONE
        BY <1>1, <3>1 DEF RowOK
      <4>4. texts' = (texts \ {t}) \cup {x}
        BY <1>5, <3>1, <4>1 DEF _live_token
      <4> QED
        BY <1>2, <4>1, <4>2, <4>3, <4>4
    <3>2. CASE booking[t.booking].reminder = "other"
      <4>1. texts' = (texts \ {t}) \cup {}
        BY <1>5, <3>2 DEF _live_token
      <4> QED
        BY <1>2, <4>1
    <3>3. CASE booking[t.booking].reminder \notin {"same", "other"}
      <4>1. PICK x \in Text : x = [t EXCEPT !.link = "rotate"]
        BY <1>1 DEF Text
      <4>2. x.link = "rotate"
        BY <1>1, <4>1 DEF Text
      <4>3. texts' = (texts \ {t}) \cup {x}
        BY <1>5, <3>3, <4>1 DEF _live_token
      <4> QED
        BY <1>2, <4>1, <4>2, <4>3
    <3> QED
      BY <3>1, <3>2, <3>3
  <2> QED
    BY <1>2, <1>3, <1>5, <2>1, NothingButTexts DEF IInv, _live_token
<1>6. CASE _rotate(t)
  <2>1. PICK b \in Bookings : b = t.booking
    BY <1>1
  <2>2. PICK m \in {"none", "other"} : m = IF booking[b].reminder = "none" THEN "none" ELSE "other"
    OBVIOUS
  <2>3. PICK row : row = [booking[b] EXCEPT !.link = {}, !.reminder = m]
    OBVIOUS
  <2>4. booking[b].status # "none"
    BY <1>6, <2>1 DEF _rotate
  <2>5. Moves(booking[b], row) /\ {} # NONE /\ row.link = {}
    BY <1>1, <2>1, <2>2, <2>3, <2>4, FreshTokenMoves DEF RowOK, Booking
  <2>6. booking \in [Bookings -> Booking]
    BY DEF IInv, DeskInv, RowsOK
  <2>7. booking' = [booking EXCEPT ![b] = row]
    BY <1>6, <2>1, <2>2, <2>3, <2>6 DEF _rotate
  <2>8. PICK x \in Text : x = [t EXCEPT !.link = "opens"]
    BY <1>1 DEF Text
  <2>9. x.booking = b
    BY <1>1, <2>1, <2>8 DEF Text
  <2>10. texts' = (staleTexts({b}) \ {t}) \cup {x}
    BY <1>6, <2>1, <2>8 DEF _rotate
  <2>11. texts' \subseteq Text /\ \A y \in texts' : y \in texts \/ (y.link = "opens" => booking'[y.booking].link # NONE)
    BY <1>2, <2>5, <2>6, <2>7, <2>8, <2>9, <2>10, StaleAreTexts
  <2> QED
    BY <1>2, <1>3, <1>6, <2>5, <2>7, <2>11, RowMoves DEF IInv, _rotate
<1>7. CASE _deliver(t)
  <2>1. texts' \subseteq texts
    BY <1>7 DEF _deliver
  <2>2. CASE reaches(t)
    <3>1. PICK b \in Bookings : b = t.booking
      BY <1>1
    <3>2. PICK p \in Phones : p = t.to
      BY <1>1, <1>7, <2>2 DEF _deliver, reaches, Numbers
    <3>3. booking[b].link # NONE
      BY <1>1, <1>7, <3>1 DEF _deliver, TextOK
    <3>4. PICK row : row = [booking[b] EXCEPT !.link = @ \cup {p}]
      OBVIOUS
    <3>5. Moves(booking[b], row)
      BY <1>1, <3>1, <3>3, <3>4, DeliveredMoves
    <3>6. booking' = [booking EXCEPT ![b] = row]
      BY <1>7, <2>2, <3>1, <3>2, <3>4 DEF _deliver
    <3> QED
      BY <1>2, <1>3, <1>7, <2>1, <3>5, <3>6, RowMoves DEF IInv, _deliver
  <2>3. CASE ~ reaches(t)
    BY <1>2, <1>3, <1>7, <2>1, <2>3, NothingButTexts DEF IInv, _deliver
  <2> QED
    BY <2>2, <2>3
<1> QED
  BY <1>4, <1>5, <1>6, <1>7

\* A walk-in: its row, and the check-in it comes with.
LEMMA WalkInStep ==
    ASSUME IInv, NEW b \in Bookings, NEW k \in Customers, create_walk_in(b, k)
    PROVE  IInv'
<1>1. PICK row : row = insert_walk_in(k)
  OBVIOUS
<1>2. RowOK(row) /\ row.started /\ row.arrived = TRUE /\ row.status = "confirmed"
  BY <1>1 DEF insert_walk_in, unused, RowOK, Booking
<1>3. booking' = [booking EXCEPT ![b] = row] /\ trail' = [trail EXCEPT ![b] = 1] /\ booking[b].status = "none"
  BY <1>1 DEF create_walk_in
<1>4. booking \in [Bookings -> Booking] /\ row \in Booking /\ \A x \in Bookings : RowOK(booking[x])
  BY <1>2 DEF IInv, DeskInv, RowsOK, RowOK
<1>5. booking' \in [Bookings -> Booking] /\ booking'[b] = row /\ \A x \in Bookings : x # b => booking'[x] = booking[x]
  BY <1>3, <1>4
<1>6. booking[b] = unused
  BY <1>3, <1>4 DEF RowOK
<1>7. RowsOK'
  BY <1>2, <1>4, <1>5 DEF RowsOK
<1>8. PeopleOK'
  BY RequestSpent DEF create_walk_in, IInv, DeskInv, PeopleOK
<1>9. TextsOK'
  <2>1. \A t \in texts : t.booking \in Bookings
    BY DEF IInv, DeskInv, TextsOK, Text
  <2>2. texts' = texts
    BY DEF create_walk_in
  <2>3. \A x \in Bookings : booking[x].link # NONE => booking'[x].link # NONE
    BY <1>5, <1>6 DEF unused
  <2> QED
    BY <2>1, <2>2, <2>3, TextsKept DEF IInv, DeskInv, TextsOK
<1>10. RequestsOK'
  BY <1>3, <1>5, RequestsKept DEF create_walk_in, IInv, DeskInv, Held
<1>11. AuditOK'
  BY <1>2, <1>3, <1>5 DEF IInv, DeskInv, AuditOK, ArrivalsAudited
<1>12. AgedOK'
  BY <1>2, <1>5 DEF create_walk_in, IInv, DeskInv, AgedOK
<1>13. CodeInv'
  BY CodeInvSame DEF create_walk_in, IInv
<1> QED
  BY <1>7, <1>8, <1>9, <1>10, <1>11, <1>12, <1>13 DEF IInv, DeskInv

\* The UPDATE of an arrival and its audit row go together or not at all.
LEMMA ArrivalStep ==
    ASSUME IInv, NEW s \in Staff, arrival_commit(s)
    PROVE  IInv'
<1>1. PICK r : r = req[s]
  OBVIOUS
<1>2. r \in Arrival /\ r.booking \in Bookings /\ r.op \in {"check_in", "undo"}
  BY <1>1 DEF arrival_commit, IInv, DeskInv, RequestsOK, Correction, Arrival
<1>3. PICK b \in Bookings : b = r.booking
  BY <1>2
<1>4. PICK in \in BOOLEAN : in = (r.op = "check_in")
  OBVIOUS
<1>5. PICK row : row = [booking[b] EXCEPT !.arrived = in]
  OBVIOUS
<1>6. PICK n \in {1, -1} : n = IF r.op = "check_in" THEN 1 ELSE -1
  OBVIOUS
<1>7. \/ booking' = booking /\ trail' = trail
      \/ /\ booking' = [booking EXCEPT ![b] = row] /\ trail' = [trail EXCEPT ![b] = @ + n]
         /\ IF r.op = "check_in" THEN check_in_guard(booking[b]) ELSE undo_guard(booking[b])
  BY <1>1, <1>3, <1>4, <1>5, <1>6 DEF arrival_commit
<1>8. /\ booking \in [Bookings -> Booking] /\ \A x \in Bookings : RowOK(booking[x])
      /\ trail \in [Bookings -> {0, 1}] /\ \A x \in Bookings : trail[x] = IF booking[x].arrived THEN 1 ELSE 0
  BY DEF IInv, DeskInv, RowsOK, AuditOK, ArrivalsAudited
<1>9. /\ customer' = customer /\ cookies' = cookies /\ left' = left /\ texts' = texts /\ aged' = aged
      /\ req' = [req EXCEPT ![s] = NONE]
  BY DEF arrival_commit
<1>10. CodeInv'
  BY CodeInvSame DEF arrival_commit, IInv
<1>11. \A x \in Bookings : /\ booking'[x].who = booking[x].who /\ booking'[x].status = booking[x].status
                           /\ booking'[x].started = booking[x].started /\ booking'[x].link = booking[x].link
  <2>1. CASE booking' = booking
    BY <2>1
  <2>2. CASE booking' = [booking EXCEPT ![b] = row]
    <3>1. /\ row.who = booking[b].who /\ row.status = booking[b].status
          /\ row.started = booking[b].started /\ row.link = booking[b].link
      BY <1>5, <1>8 DEF RowOK, Booking
    <3> QED
      BY <1>8, <2>2, <3>1
  <2> QED
    BY <1>7, <2>1, <2>2
<1>12. RowsOK' /\ AuditOK'
  <2>1. CASE booking' = booking /\ trail' = trail
    BY <2>1 DEF IInv, DeskInv, RowsOK, AuditOK, ArrivalsAudited
  <2>2. CASE /\ booking' = [booking EXCEPT ![b] = row] /\ trail' = [trail EXCEPT ![b] = @ + n]
             /\ IF r.op = "check_in" THEN check_in_guard(booking[b]) ELSE undo_guard(booking[b])
    <3>1. booking[b].status # "none"
      BY <1>8, <2>2 DEF check_in_guard, undo_guard, RowOK, unused
    <3>2. RowOK(row) /\ row.arrived = in
      BY <1>5, <1>8, <3>1 DEF RowOK, Booking
    <3>3. RowsOK'
      BY <1>8, <2>2, <3>2 DEF RowsOK, RowOK
    <3>4. CASE r.op = "check_in"
      <4>1. n = 1 /\ in = TRUE /\ ~ booking[b].arrived
        BY <1>4, <1>6, <2>2, <3>4 DEF check_in_guard
      <4>2. trail[b] = 0
        BY <1>8, <4>1
      <4>3. trail' = [trail EXCEPT ![b] = 1]
        BY <2>2, <4>1, <4>2
      <4> QED
        BY <1>8, <2>2, <3>2, <3>3, <4>1, <4>3 DEF AuditOK, ArrivalsAudited
    <3>5. CASE r.op # "check_in"
      <4>1. n = -1 /\ in = FALSE /\ booking[b].arrived
        BY <1>4, <1>6, <2>2, <3>5 DEF undo_guard
      <4>2. trail[b] = 1
        BY <1>8, <4>1
      <4>3. trail' = [trail EXCEPT ![b] = 0]
        BY <2>2, <4>1, <4>2
      <4> QED
        BY <1>8, <2>2, <3>2, <3>3, <4>1, <4>3 DEF AuditOK, ArrivalsAudited
    <3> QED
      BY <3>4, <3>5
  <2> QED
    BY <1>7, <2>1, <2>2
<1>13. PeopleOK' /\ AgedOK'
  BY <1>9, <1>11 DEF IInv, DeskInv, PeopleOK, AgedOK
<1>14. TextsOK'
  <2>1. \A t \in texts : t.booking \in Bookings
    BY DEF IInv, DeskInv, TextsOK, Text
  <2> QED
    BY <1>9, <1>11, <2>1, TextsKept DEF IInv, DeskInv, TextsOK
<1>15. RequestsOK'
  <2>1. \A b_1 \in Bookings : Held(b_1)
    BY <1>11 DEF Held
  <2>2. \A x \in Staff : RequestOK(x)'
    <3> TAKE x \in Staff
    <3>1. CASE x = s
      BY <1>9, <3>1 DEF RequestOK, IInv, DeskInv, RequestsOK
    <3>2. CASE x # s
      BY <1>9, <2>1, <3>2, RequestKept DEF IInv, DeskInv, RequestsOK
    <3> QED
      BY <3>1, <3>2
  <2> QED
    BY <1>9, <2>2 DEF IInv, DeskInv, RequestsOK
<1> QED
  BY <1>10, <1>12, <1>13, <1>14, <1>15 DEF IInv, DeskInv

\* The clock reaches the appointments while no correction is under way.
LEMMA StartedRow ==
    ASSUME NEW row, RowOK(row)
    PROVE  /\ RowOK([row EXCEPT !.started = row.status # "none"])
           /\ [row EXCEPT !.started = row.status # "none"].arrived = row.arrived
           /\ [row EXCEPT !.started = row.status # "none"].link = row.link
           /\ row.status # "none" => [row EXCEPT !.started = row.status # "none"].started
<1>1. PICK b \in BOOLEAN : b = (row.status # "none")
  OBVIOUS
<1>2. row.status = "none" => [row EXCEPT !.started = b] = row
  BY <1>1 DEF RowOK, unused, Booking
<1>3. /\ [row EXCEPT !.started = b].arrived = row.arrived
      /\ [row EXCEPT !.started = b].link = row.link
      /\ [row EXCEPT !.started = b].started = b
      /\ RowOK([row EXCEPT !.started = b])
  BY <1>1, <1>2 DEF RowOK, Booking
<1> QED
  BY <1>1, <1>3

LEMMA RowsStart ==
    ASSUME DeskInv, booking' = [b \in Bookings |-> [booking[b] EXCEPT !.started = booking[b].status # "none"]]
    PROVE  /\ RowsOK'
           /\ \A b \in Bookings : /\ booking'[b].arrived = booking[b].arrived
                                  /\ booking'[b].link = booking[b].link
                                  /\ booking[b].status # "none" => booking'[b].started
<1>1. \A b \in Bookings : RowOK(booking[b])
  BY DEF DeskInv, RowsOK
<1>2. \A b \in Bookings : booking'[b] = [booking[b] EXCEPT !.started = booking[b].status # "none"]
  OBVIOUS
<1>3. ASSUME NEW b \in Bookings
      PROVE  /\ RowOK(booking'[b])
             /\ booking'[b].arrived = booking[b].arrived
             /\ booking'[b].link = booking[b].link
             /\ booking[b].status # "none" => booking'[b].started
  <2>1. PICK row : row = booking[b] /\ RowOK(row)
    BY <1>1
  <2>2. booking'[b] = [row EXCEPT !.started = row.status # "none"]
    BY <1>2, <2>1
  <2> QED
    BY <2>1, <2>2, StartedRow
<1>4. booking' \in [Bookings -> Booking]
  <2>1. \A b \in Bookings : [booking[b] EXCEPT !.started = booking[b].status # "none"] \in Booking
    BY <1>2, <1>3 DEF RowOK
  <2> QED
    BY <2>1
<1> QED
  BY <1>3, <1>4 DEF RowsOK, RowOK

LEMMA StartStep ==
    ASSUME IInv, Start
    PROVE  IInv'
<1>1. CodeInv'
  BY CodeInvSame DEF Start, IInv
<1>2. PeopleOK'
  BY DEF Start, IInv, DeskInv, PeopleOK
<1>3. /\ RowsOK'
      /\ \A b \in Bookings : /\ booking'[b].arrived = booking[b].arrived
                             /\ booking'[b].link = booking[b].link
                             /\ booking[b].status # "none" => booking'[b].started
  BY RowsStart DEF Start, IInv, DeskInv
<1>4. \A b \in Bookings : RowOK(booking[b])
  BY DEF IInv, DeskInv, RowsOK
<1>5. TextsOK'
  <2>1. \A t \in texts : t.booking \in Bookings
    BY DEF IInv, DeskInv, TextsOK, Text
  <2> QED
    BY <1>3, <2>1, TextsKept DEF Start, IInv, DeskInv, TextsOK
<1>6. RequestsOK'
  BY NoCorrection DEF Start, IInv, DeskInv, RequestsOK
<1>7. AuditOK'
  BY <1>3, AuditKept DEF Start, IInv, DeskInv
<1>8. AgedOK'
  <2>1. \A b \in Bookings : booking[b].started => booking[b].status # "none"
    BY <1>4 DEF RowOK, unused
  <2> QED
    BY <1>3, <2>1 DEF Start, IInv, DeskInv, AgedOK
<1> QED
  BY <1>1, <1>2, <1>3, <1>5, <1>6, <1>7, <1>8 DEF IInv, DeskInv

LEMMA AgeStep ==
    ASSUME IInv, Age
    PROVE  IInv'
<1>1. CodeInv'
  BY CodeInvSame DEF Age, IInv
<1>2. PeopleOK'
  BY DEF Age, IInv, DeskInv, PeopleOK
<1>3. /\ RowsOK'
      /\ \A b \in Bookings : /\ booking'[b].arrived = booking[b].arrived
                             /\ booking'[b].link = booking[b].link
                             /\ booking[b].status # "none" => booking'[b].started
  BY RowsStart DEF Age, IInv, DeskInv
<1>4. TextsOK'
  BY DEF Age, Idle, TextsOK
<1>5. RequestsOK'
  BY NoCorrection DEF Age, Idle, IInv, DeskInv, RequestsOK
<1>6. AuditOK'
  BY <1>3, AuditKept DEF Age, IInv, DeskInv
<1>7. AgedOK'
  <2>1. \A b \in Bookings : b \notin Customers /\ b \notin Codes
    BY DeskAssumption DEF DeskAssumption
  <2>2. \A b \in Bookings : b \in aged' => booking[b].status # "none"
    BY <2>1 DEF Age
  <2> QED
    BY <1>3, <2>2 DEF AgedOK
<1> QED
  BY <1>1, <1>2, <1>3, <1>4, <1>5, <1>6, <1>7 DEF IInv, DeskInv

\* Codes change, rows and requests do not.
LEMMA DeskUntouched ==
    ASSUME DeskInv, booking' = booking, customer' = customer, cookies' \in [Codes -> Customers \cup {NONE}],
           left' \in 0..MaxRequests, req' = req, trail' = trail, aged' = aged, texts' = texts
    PROVE  DeskInv'
<1>1. PeopleOK' /\ RowsOK' /\ TextsOK' /\ AuditOK' /\ AgedOK'
  BY DEF DeskInv, PeopleOK, RowsOK, TextsOK, TextOK, AuditOK, ArrivalsAudited, AgedOK
<1>2. RequestsOK'
  BY RequestsSame DEF DeskInv
<1> QED
  BY <1>1, <1>2 DEF DeskInv

LEMMA CodeStepOK ==
    ASSUME IInv, CodeStep
    PROVE  IInv'
<1>1. /\ CodesTypeOK' /\ \A x \in Codes : CodeOK(x)'
      /\ \A x \in Codes : code[x].state \in {"verified", "deleted"} => code'[x].state = code[x].state
      /\ UNCHANGED deskVars /\ (Requested \/ left' = left)
  <2>1. CodesTypeOK /\ \A x \in Codes : CodeOK(x)
    BY DEF IInv, CodeInv
  <2>2. CASE Requested /\ UNCHANGED deskVars /\ \E p \in Phones : send(p)
    BY <2>1, <2>2, SendKeepsCodes
  <2>3. CASE Requested /\ UNCHANGED deskVars /\ \E v \in Verifiers, p \in Phones : verify_read(v, p)
    BY <2>1, <2>3, ReadKeepsCodes
  <2>4. CASE UNCHANGED <<deskVars, left>> /\ \E v \in Verifiers, right, late \in BOOLEAN : verify(v, right, late)
    BY <2>1, <2>4, VerifyKeepsCodes
  <2> QED
    BY <2>2, <2>3, <2>4 DEF CodeStep
<1>2. CodeInv'
  BY <1>1 DEF IInv, CodeInv, LockOK, Claim, deskVars
<1>3. left' \in 0..MaxRequests
  BY <1>1, RequestSpent DEF IInv, DeskInv, PeopleOK
<1>4. DeskInv'
  BY <1>1, <1>3, DeskUntouched DEF IInv, DeskInv, PeopleOK, deskVars
<1> QED
  BY <1>2, <1>4 DEF IInv

LEMMA CreateStep ==
    ASSUME IInv, NEW o \in Codes, NEW p \in Phones, NEW k \in Customers, NEW c \in BOOLEAN,
           create_booking(o, p, k, c)
    PROVE  IInv'
<1>1. PICK new \in Claim : new = [code |-> o, phone |-> p, who |-> k, consents |-> c]
  BY DEF Claim
<1>2. claim' = new /\ erasing' = NONE /\ new.code = o
  BY <1>1 DEF create_booking, advisoryLockFree
<1>3. code' = code /\ code[o].state = "verified"
  BY DEF create_booking, consume_verification, codeVars
<1>4. LockOK'
  BY <1>2, <1>3 DEF LockOK
<1>5. CodeInv'
  BY <1>4, CodesSame DEF create_booking, IInv, CodeInv
<1>6. left' \in 0..MaxRequests
  BY RequestSpent DEF create_booking, IInv, DeskInv
<1>7. DeskInv'
  BY <1>6, DeskUntouched DEF create_booking, IInv, DeskInv, PeopleOK
<1> QED
  BY <1>5, <1>7 DEF IInv

LEMMA RefusedStep ==
    ASSUME IInv, claim_refused
    PROVE  IInv'
<1>1. LockOK'
  BY DEF claim_refused, IInv, CodeInv, LockOK
<1>2. CodeInv'
  BY <1>1, CodesSame DEF claim_refused, IInv, CodeInv
<1>3. DeskInv'
  BY DeskUntouched DEF claim_refused, IInv, DeskInv, PeopleOK
<1> QED
  BY <1>2, <1>3 DEF IInv

\* A session burns a verification that no booking is burning.
LEMMA SessionStep ==
    ASSUME IInv, NEW o \in Codes, NEW p \in Phones, create_session(o, p)
    PROVE  IInv'
<1>1. CodesTypeOK' /\ \A x \in Codes : CodeOK(x)'
  BY CodeBurnt DEF create_session, consume_verification, IInv, CodeInv
<1>2. LockOK'
  <2>1. \A x \in Codes : x # o => code'[x] = code[x]
    BY DEF create_session, burnt, IInv, CodeInv, CodesTypeOK
  <2>2. claim' = claim /\ erasing' = erasing /\ (claim # NONE => claim.code # o)
    BY DEF create_session
  <2>3. claim # NONE => claim.code \in Codes
    BY DEF IInv, CodeInv, LockOK, Claim
  <2> QED
    BY <2>1, <2>2, <2>3 DEF IInv, CodeInv, LockOK
<1>3. cookies' \in [Codes -> Customers \cup {NONE}]
  BY DEF create_session, sessions_insert, by_phone, IInv, DeskInv, PeopleOK
<1>4. left' \in 0..MaxRequests
  BY RequestSpent DEF create_session, IInv, DeskInv
<1>5. DeskInv'
  BY <1>3, <1>4, DeskUntouched DEF create_session, IInv
<1> QED
  BY <1>1, <1>2, <1>5 DEF IInv, CodeInv

LEMMA LogoutStep ==
    ASSUME IInv, NEW o \in Codes, logout(o)
    PROVE  IInv'
<1>1. CodeInv'
  BY CodeInvSame DEF logout, IInv
<1>2. cookies' \in [Codes -> Customers \cup {NONE}]
  BY DEF logout, revoke_by_token_hash, IInv, DeskInv, PeopleOK
<1>3. DeskInv'
  BY <1>2, DeskUntouched DEF logout, IInv, DeskInv, PeopleOK
<1> QED
  BY <1>1, <1>3 DEF IInv

\* The claim's commit: customer, row, verification, text.
LEMMA ClaimStep ==
    ASSUME IInv, NEW b \in Bookings, NEW soon \in BOOLEAN, claim_commit(b, soon)
    PROVE  IInv'
<1>1. PICK cl \in Claim : cl = claim
  BY DEF claim_commit, IInv, CodeInv, LockOK
<1>2. cl.who \in Customers /\ cl.code \in Codes /\ cl.phone \in Phones /\ cl.consents \in BOOLEAN
  BY DEF Claim
<1>3. PICK k \in Customers : k = cl.who
  BY <1>2
<1>4. code[cl.code].state = "verified"
  BY <1>1 DEF claim_commit, IInv, CodeInv, LockOK
<1>5. CodesTypeOK' /\ \A x \in Codes : CodeOK(x)'
  BY <1>1, <1>2, <1>4, CodeBurnt DEF claim_commit, IInv, CodeInv
<1>6. LockOK'
  BY DEF claim_commit, IInv, CodeInv, LockOK
<1>7. PICK row : row = bookings_insert(k, soon)
  OBVIOUS
<1>8. RowOK(row) /\ row.link # NONE /\ ~ row.arrived
  <2>1. {} # NONE
    BY LinksAreNotNone
  <2>2. PICK m \in {"none", "same"} : m = IF soon THEN "none" ELSE "same"
    OBVIOUS
  <2>3. row = [unused EXCEPT !.who = k, !.status = "confirmed", !.link = {}, !.reminder = m]
    BY <1>7, <2>2 DEF bookings_insert
  <2> QED
    BY <2>1, <2>3 DEF unused, RowOK, Booking
<1>9. booking' = [booking EXCEPT ![b] = row] /\ booking[b].status = "none"
  BY <1>1, <1>3, <1>7 DEF claim_commit
<1>10. booking \in [Bookings -> Booking] /\ row \in Booking /\ \A x \in Bookings : RowOK(booking[x])
  BY <1>8 DEF IInv, DeskInv, RowsOK, RowOK
<1>11. booking' \in [Bookings -> Booking] /\ booking'[b] = row /\ \A x \in Bookings : x # b => booking'[x] = booking[x]
  BY <1>9, <1>10
<1>12. booking[b] = unused
  BY <1>9, <1>10 DEF RowOK
<1>13. RowsOK'
  BY <1>8, <1>10, <1>11 DEF RowsOK
<1>14. customer' \in [Customers -> Customer]
  <2>1. PICK old \in Customer : old = customer[k]
    BY DEF IInv, DeskInv, PeopleOK
  <2>2. PICK base : base = IF old.phone = NONE THEN [old EXCEPT !.phone = cl.phone] ELSE old
    OBVIOUS
  <2>3. base \in Customer
    BY <1>2, <2>2 DEF Customer, Numbers
  <2>4. PICK new : new = IF cl.consents THEN record_marketing_consent(base) ELSE base
    OBVIOUS
  <2>5. new \in Customer
    BY <2>3, <2>4 DEF Customer, record_marketing_consent
  <2>6. customer' = [customer EXCEPT ![k] = new]
    BY <1>1, <1>3, <2>1, <2>2, <2>4 DEF claim_commit
  <2> QED
    BY <2>5, <2>6 DEF IInv, DeskInv, PeopleOK
<1>15. PeopleOK'
  BY <1>14 DEF claim_commit, IInv, DeskInv, PeopleOK
<1>16. TextsOK'
  <2>1. PICK t \in Text : t = confirmation(b, k) /\ t.booking = b
    BY ConfirmationIsText
  <2>2. texts' = texts \cup {t} /\ texts \subseteq Text
    BY <1>1, <1>3, <2>1 DEF claim_commit, IInv, DeskInv, TextsOK
  <2>3. \A x \in Bookings : booking[x].link # NONE => booking'[x].link # NONE
    BY <1>11, <1>12 DEF unused
  <2>4. \A x \in texts : x.booking \in Bookings
    BY DEF IInv, DeskInv, TextsOK, Text
  <2>5. booking'[t.booking].link # NONE
    BY <1>8, <1>11, <2>1
  <2> QED
    BY <2>2, <2>3, <2>4, <2>5, TextsKept DEF IInv, DeskInv
<1>17. RequestsOK'
  BY <1>9, <1>11, RequestsKept DEF claim_commit, IInv, DeskInv, Held
<1>18. AuditOK'
  BY <1>8, <1>11, <1>12 DEF claim_commit, IInv, DeskInv, AuditOK, ArrivalsAudited, unused
<1>19. AgedOK'
  BY <1>11, <1>12 DEF claim_commit, IInv, DeskInv, AgedOK, unused
<1> QED
  BY <1>5, <1>6, <1>13, <1>15, <1>16, <1>17, <1>18, <1>19 DEF IInv, CodeInv, DeskInv

(***************************************************************************)
(* The staff's requests                                                    *)
(***************************************************************************)

\* One request changes, and nothing else.
LEMMA RequestMoves ==
    ASSUME IInv, NEW s \in Staff, NEW r \in Correction \cup Arrival \cup {NONE}, req' = [req EXCEPT ![s] = r],
           r # NONE /\ r.op = "phone" => CorrectionOK(r), left' \in 0..MaxRequests,
           UNCHANGED <<codeVars, customer, booking, cookies, claim, erasing, texts, trail, aged>>
    PROVE  IInv'
<1>1. CodeInv'
  BY CodeInvSame DEF IInv
<1>2. PeopleOK' /\ RowsOK' /\ TextsOK' /\ AuditOK' /\ AgedOK'
  BY DEF IInv, DeskInv, PeopleOK, RowsOK, TextsOK, TextOK, AuditOK, ArrivalsAudited, AgedOK
<1>3. req' \in [Staff -> Correction \cup Arrival \cup {NONE}]
  BY DEF IInv, DeskInv, RequestsOK
<1>4. ASSUME NEW x \in Staff PROVE RequestOK(x)'
  <2>1. CASE x = s
    <3>1. req'[x] = r
      BY <2>1 DEF IInv, DeskInv, RequestsOK
    <3> QED
      BY <3>1 DEF RequestOK, CorrectionOK, live
  <2>2. CASE x # s
    <3>1. req'[x] = req[x]
      BY <2>2 DEF IInv, DeskInv, RequestsOK
    <3> QED
      BY <3>1, RequestKept DEF IInv, DeskInv, Held
  <2> QED
    BY <2>1, <2>2
<1> QED
  BY <1>1, <1>2, <1>3, <1>4 DEF IInv, DeskInv, RequestsOK

LEMMA CorrectStep ==
    ASSUME IInv, NEW s \in Staff, NEW b \in Bookings, NEW p \in Phones, correct_phone(s, b, p)
    PROVE  IInv'
<1>1. PICK k : k = booking[b].who
  OBVIOUS
<1>2. k \in Customers
  BY <1>1 DEF correct_phone, live, IInv, DeskInv, RowsOK, RowOK
<1>3. PICK target : target = IF by_phone(p) = {} THEN NONE ELSE CHOOSE x \in by_phone(p) : TRUE
  OBVIOUS
<1>4. target \in Customers \cup {NONE}
  BY <1>3 DEF by_phone
<1>5. PICK repointed \in BOOLEAN : repointed = (target \notin {NONE, k})
  OBVIOUS
<1>6. PICK hers_1 : hers_1 = list_live_for_customer(k)
  OBVIOUS
<1>7. hers_1 \subseteq Bookings /\ \A x \in hers_1 : booking[x].who = k /\ live(x)
  BY <1>6 DEF list_live_for_customer
<1>8. PICK r \in Correction :
        r = [op |-> "phone", booking |-> b, phone |-> p, who |-> k, target |-> target,
             repointed |-> repointed, listed |-> FALSE, rotate |-> {}, hers |-> hers_1]
  BY <1>2, <1>4, <1>7 DEF Correction
<1>9. CorrectionOK(r)
  BY <1>4, <1>5, <1>7, <1>8 DEF CorrectionOK, live
<1>10. req' = [req EXCEPT ![s] = r]
  BY <1>1, <1>3, <1>5, <1>6, <1>8 DEF correct_phone
<1>11. left' \in 0..MaxRequests
  BY RequestSpent DEF correct_phone, IInv, DeskInv
<1> QED
  BY <1>9, <1>10, <1>11, RequestMoves DEF correct_phone

LEMMA WriteStep ==
    ASSUME IInv, NEW s \in Staff, correct_write(s)
    PROVE  IInv'
<1>1. PICK r : r = req[s]
  OBVIOUS
<1>2. r \in Correction /\ CorrectionOK(r) /\ ~ r.listed
  BY <1>1 DEF correct_write, IInv, DeskInv, RequestsOK, RequestOK, Arrival
<1>3. PICK list : list = links_to_rotate(r)
  OBVIOUS
<1>4. list \subseteq Bookings /\ (r.repointed => list = {r.booking})
  BY <1>2, <1>3 DEF links_to_rotate, list_live_for_customer, Correction
<1>5. PICK new \in Correction : new = [r EXCEPT !.listed = TRUE, !.rotate = list]
  BY <1>2, <1>4 DEF Correction
<1>6. /\ new.repointed = r.repointed /\ new.target = r.target /\ new.booking = r.booking
      /\ new.who = r.who /\ new.hers = r.hers /\ new.rotate = list
  BY <1>2, <1>5 DEF Correction
<1>7. \A b \in r.hers : ~ r.repointed /\ live(b) => b \in list
  BY <1>2, <1>3 DEF links_to_rotate, list_live_for_customer, CorrectionOK, Correction
<1>8. CorrectionOK(new)
  BY <1>2, <1>4, <1>6, <1>7 DEF CorrectionOK
<1>9. req' = [req EXCEPT ![s] = new]
  BY <1>1, <1>3, <1>5 DEF correct_write, IInv, DeskInv, RequestsOK
<1>10. left' \in 0..MaxRequests
  BY DEF correct_write, IInv, DeskInv, PeopleOK
<1> QED
  BY <1>8, <1>9, <1>10, RequestMoves DEF correct_write

\* The rows a correction's commit leaves: the listed ones with a new token, the
\* re-pointed one with its new owner.
LEMMA CommitRows ==
    ASSUME IInv, NEW s \in Staff, correct_commit(s), NEW r, r = req[s]
    PROVE  /\ r \in Correction /\ CorrectionOK(r) /\ r.listed /\ r.booking \in r.rotate
           /\ booking' \in [Bookings -> Booking]
           /\ \A b \in Bookings : /\ RowOK(booking'[b]) /\ booking'[b].arrived = booking[b].arrived
                                  /\ booking'[b].started = booking[b].started
                                  /\ booking[b].status # "none" => booking'[b].status # "none"
                                  /\ ~ booking[b].started /\ booking'[b].status = "confirmed"
                                        => booking[b].status = "confirmed"
                                  /\ booking[b].link # NONE => booking'[b].link # NONE
                                  /\ b \in r.rotate => /\ booking'[b].link = {} /\ booking'[b].link # NONE
                                                       /\ booking'[b].reminder # "other"
                                  /\ ~ (r.repointed /\ b = r.booking) => booking'[b].who = booking[b].who
                                  /\ r.repointed /\ b = r.booking => booking'[b].who = r.target
<1>1. r \in Correction /\ CorrectionOK(r) /\ r.listed /\ correctable(r)
  BY DEF correct_commit, IInv, DeskInv, RequestsOK, RequestOK, Arrival
<1>2. r.booking \in r.rotate /\ r.rotate \subseteq Bookings /\ r.booking \in Bookings
  BY <1>1 DEF correctable, Correction
<1>3. \A b \in r.rotate : booking[b].status = "confirmed"
  BY <1>1 DEF correctable, live
<1>4. PICK rows : rows = IF r.repointed THEN set_customer_id(r.booking, r.target) ELSE booking
  OBVIOUS
<1>5. booking' = _rotate_links(rows, r.rotate)
  BY <1>4 DEF correct_commit
<1>6. booking \in [Bookings -> Booking] /\ \A b \in Bookings : RowOK(booking[b])
  BY DEF IInv, DeskInv, RowsOK
<1>7. /\ rows \in [Bookings -> Booking]
      /\ \A b \in Bookings :
            /\ RowOK(rows[b]) /\ rows[b].arrived = booking[b].arrived /\ rows[b].started = booking[b].started
            /\ rows[b].status = booking[b].status /\ rows[b].link = booking[b].link
            /\ ~ (r.repointed /\ b = r.booking) => rows[b].who = booking[b].who
            /\ r.repointed /\ b = r.booking => rows[b].who = r.target
  <2>1. CASE ~ r.repointed
    BY <1>4, <1>6, <2>1
  <2>2. CASE r.repointed
    <3>1. PICK c \in Bookings : c = r.booking
      BY <1>2
    <3>2. PICK k \in Customers : k = r.target
      BY <1>1, <2>2 DEF CorrectionOK
    <3>3. PICK row : row = [booking[c] EXCEPT !.who = k]
      OBVIOUS
    <3>4. /\ RowOK(row) /\ row.arrived = booking[c].arrived /\ row.started = booking[c].started
          /\ row.status = booking[c].status /\ row.link = booking[c].link /\ row.who = k
      BY <1>2, <1>3, <1>6, <3>1, <3>3 DEF RowOK, Booking
    <3>5. rows = [booking EXCEPT ![c] = row]
      BY <1>4, <2>2, <3>1, <3>2, <3>3 DEF set_customer_id
    <3>6. row \in Booking
      BY <3>4 DEF RowOK
    <3>7. rows \in [Bookings -> Booking] /\ rows[c] = row /\ \A b \in Bookings : b # c => rows[b] = booking[b]
      BY <1>6, <3>5, <3>6
    <3>8. ASSUME NEW b \in Bookings
          PROVE  /\ RowOK(rows[b]) /\ rows[b].arrived = booking[b].arrived /\ rows[b].started = booking[b].started
                 /\ rows[b].status = booking[b].status /\ rows[b].link = booking[b].link
                 /\ b # c => rows[b].who = booking[b].who
                 /\ b = c => rows[b].who = k
      <4>1. CASE b = c
        BY <3>4, <3>7, <4>1
      <4>2. CASE b # c
        <5>1. rows[b] = booking[b]
          BY <3>7, <4>2
        <5> QED
          BY <1>6, <4>2, <5>1
      <4> QED
        BY <4>1, <4>2
    <3> QED
      BY <2>2, <3>1, <3>2, <3>7, <3>8
  <2> QED
    BY <2>1, <2>2
<1>8. \A b \in Bookings : b \in r.rotate => rows[b].status # "none"
  BY <1>3, <1>7
<1>9. /\ booking' \in [Bookings -> Booking]
      /\ \A b \in Bookings : Moves(rows[b], booking'[b])
      /\ \A b \in Bookings : b \in r.rotate => /\ booking'[b].link = {} /\ booking'[b].link # NONE
                                               /\ booking'[b].reminder # "other"
  BY <1>5, <1>7, <1>8, LinksRotate
<1> QED
  BY <1>1, <1>2, <1>7, <1>9 DEF Moves

LEMMA CommitStep ==
    ASSUME IInv, NEW s \in Staff, correct_commit(s)
    PROVE  IInv'
<1>1. PICK r : r = req[s]
  OBVIOUS
<1>2. PICK c : c = r.booking
  OBVIOUS
<1>3. /\ r \in Correction /\ CorrectionOK(r) /\ r.listed /\ c \in r.rotate
      /\ booking' \in [Bookings -> Booking]
  BY <1>1, <1>2, CommitRows
<1>4. \A b \in Bookings : /\ RowOK(booking'[b]) /\ booking'[b].arrived = booking[b].arrived
                          /\ booking'[b].started = booking[b].started
                          /\ booking[b].status # "none" => booking'[b].status # "none"
                          /\ ~ booking[b].started /\ booking'[b].status = "confirmed"
                                => booking[b].status = "confirmed"
                          /\ booking[b].link # NONE => booking'[b].link # NONE
                          /\ b \in r.rotate => booking'[b].link # NONE
                          /\ ~ (r.repointed /\ b = c) => booking'[b].who = booking[b].who
  BY <1>1, <1>2, CommitRows
<1>5. c \in Bookings /\ r.who \in Customers /\ r.phone \in Phones
  BY <1>2, <1>3 DEF Correction
<1>6. CodeInv'
  BY CodeInvSame DEF correct_commit, IInv
<1>7. PeopleOK'
  <2>1. PICK k \in Customers : k = r.who
    BY <1>5
  <2>2. PICK new : new = [customer[k] EXCEPT !.phone = r.phone]
    OBVIOUS
  <2>3. customer \in [Customers -> Customer]
    BY DEF IInv, DeskInv, PeopleOK
  <2>4. new \in Customer
    BY <1>5, <2>2, <2>3 DEF Customer, Numbers
  <2>5. customer' = customer \/ customer' = [customer EXCEPT ![k] = new]
    BY <1>1, <2>1, <2>2 DEF correct_commit, set_phone
  <2>6. customer' \in [Customers -> Customer]
    BY <2>3, <2>4, <2>5
  <2> QED
    BY <2>6 DEF correct_commit, IInv, DeskInv, PeopleOK
<1>8. RowsOK'
  BY <1>3, <1>4 DEF RowsOK
<1>9. TextsOK'
  <2>1. PICK k \in Customers : k = IF r.repointed THEN r.target ELSE r.who
    BY <1>3, <1>5 DEF CorrectionOK
  <2>2. PICK t \in Text : t = confirmation(c, k) /\ t.booking = c
    BY <1>5, ConfirmationIsText
  <2>3. texts' = staleTexts(r.rotate) \cup {t}
    BY <1>1, <1>2, <2>1, <2>2 DEF correct_commit
  <2>4. texts \subseteq Text /\ \A x \in texts : x.booking \in Bookings
    BY DEF IInv, DeskInv, TextsOK, Text
  <2>5. texts' \subseteq texts \cup {t} /\ texts' \subseteq Text
    BY <2>2, <2>3, <2>4, StaleAreTexts
  <2>6. booking'[t.booking].link # NONE
    BY <1>3, <1>4, <1>5, <2>2
  <2>7. \A x \in texts : booking[x.booking].link # NONE => booking'[x.booking].link # NONE
    BY <1>4, <2>4
  <2> QED
    BY <2>5, <2>6, <2>7, TextsKept DEF IInv, DeskInv
<1>10. AuditOK' /\ AgedOK'
  BY <1>4, AuditKept, AgedKept DEF correct_commit, IInv, DeskInv
<1>11. ASSUME NEW x \in Staff
       PROVE  /\ req'[x] \in Correction \cup Arrival \cup {NONE}
              /\ RequestOK(x)'
  <2>1. /\ req'[x] = IF x # s /\ r.repointed THEN noLongerHers(req[x], c)
                     ELSE IF x = s THEN NONE ELSE req[x]
    BY <1>1, <1>2 DEF correct_commit
  <2>2. req[x] \in Correction \cup Arrival \cup {NONE} /\ RequestOK(x)
    BY DEF IInv, DeskInv, RequestsOK
  <2>3. CASE x = s
    BY <2>1, <2>3 DEF RequestOK
  <2>4. CASE x # s /\ ~ r.repointed
    <3>1. \A b \in Bookings : Held(b)
      BY <1>4, <2>4 DEF Held
    <3> QED
      BY <2>1, <2>2, <2>4, <3>1, RequestKept DEF IInv, DeskInv
  <2>5. CASE x # s /\ r.repointed /\ ~ (req[x] # NONE /\ req[x].op = "phone")
    BY <2>1, <2>2, <2>5 DEF noLongerHers, RequestOK
  <2>6. CASE x # s /\ r.repointed /\ req[x] # NONE /\ req[x].op = "phone"
    <3>1. PICK q \in Correction : q = req[x]
      BY <2>2, <2>6 DEF Arrival
    <3>2. PICK new \in Correction : new = [q EXCEPT !.hers = q.hers \ {c}]
      BY DEF Correction
    <3>3. req'[x] = new
      BY <2>1, <2>6, <3>1, <3>2 DEF noLongerHers
    <3>4. CorrectionOK(q)
      BY <2>2, <2>6, <3>1 DEF RequestOK
    <3>5. /\ new.repointed = q.repointed /\ new.target = q.target /\ new.listed = q.listed
          /\ new.rotate = q.rotate /\ new.booking = q.booking /\ new.who = q.who /\ new.hers = q.hers \ {c}
      BY <3>2 DEF Correction
    <3>6. \A b \in new.hers : /\ booking'[b].who = new.who
                              /\ booking'[b].status # "none" /\ ~ booking'[b].started
                              /\ new.listed /\ ~ new.repointed /\ live(b)' => b \in new.rotate
      <4> TAKE b \in new.hers
      <4>1. b \in Bookings /\ b \in q.hers /\ b # c
        BY <3>5 DEF Correction
      <4>2. /\ booking[b].who = q.who
            /\ booking[b].status # "none" /\ ~ booking[b].started
            /\ q.listed /\ ~ q.repointed /\ live(b) => b \in q.rotate
        BY <3>4, <4>1 DEF CorrectionOK
      <4>3. /\ booking'[b].who = booking[b].who /\ booking'[b].started = booking[b].started
            /\ booking'[b].status # "none"
            /\ booking'[b].status = "confirmed" => booking[b].status = "confirmed"
        BY <1>4, <4>1, <4>2
      <4> QED
        BY <3>5, <4>2, <4>3 DEF live
    <3>7. /\ new.repointed => new.target \in Customers
          /\ new.listed /\ new.repointed => new.rotate = {new.booking}
      BY <3>4, <3>5 DEF CorrectionOK
    <3> QED
      BY <3>2, <3>3, <3>6, <3>7 DEF RequestOK, CorrectionOK
  <2> QED
    BY <2>3, <2>4, <2>5, <2>6
<1>12. RequestsOK'
  <2>1. req' = [x \in Staff |-> IF x # s /\ r.repointed THEN noLongerHers(req[x], c)
                                ELSE IF x = s THEN NONE ELSE req[x]]
    BY <1>1, <1>2 DEF correct_commit
  <2>2. req' \in [Staff -> Correction \cup Arrival \cup {NONE}]
    BY <1>11, <2>1
  <2> QED
    BY <1>11, <2>2 DEF RequestsOK
<1> QED
  BY <1>6, <1>7, <1>8, <1>9, <1>10, <1>12 DEF IInv, DeskInv

\* A request that is rolled back, and the reads of a check-in and of its undo.
LEMMA DroppedStep ==
    ASSUME IInv, NEW s \in Staff, correct_refused(s)
    PROVE  IInv'
<1>1. left' \in 0..MaxRequests
  BY DEF correct_refused, IInv, DeskInv, PeopleOK
<1>2. req' = [req EXCEPT ![s] = NONE]
  BY DEF correct_refused
<1> QED
  BY <1>1, <1>2, RequestMoves DEF correct_refused

LEMMA ReadArrivalStep ==
    ASSUME IInv, NEW s \in Staff, NEW b \in Bookings, check_in(s, b) \/ undo_check_in(s, b)
    PROVE  IInv'
<1>1. left' \in 0..MaxRequests
  BY RequestSpent DEF check_in, undo_check_in, IInv, DeskInv
<1>2. PICK r \in Arrival : req' = [req EXCEPT ![s] = r]
  BY DEF check_in, undo_check_in, Arrival
<1>3. r.op # "phone"
  BY DEF Arrival
<1>4. UNCHANGED <<codeVars, customer, booking, cookies, claim, erasing, texts, trail, aged>>
  BY DEF check_in, undo_check_in
<1> QED
  BY <1>1, <1>2, <1>3, <1>4, RequestMoves

(***************************************************************************)
(* Privacy                                                                 *)
(***************************************************************************)

LEMMA WithdrawStep ==
    ASSUME IInv, NEW k \in Customers, withdraw_marketing(k)
    PROVE  IInv'
<1>1. PICK new : new = withdraw_marketing_consent(customer[k])
  OBVIOUS
<1>2. new \in Customer
  BY <1>1 DEF withdraw_marketing_consent, Customer, IInv, DeskInv, PeopleOK
<1>3. customer' \in [Customers -> Customer]
  BY <1>1, <1>2 DEF withdraw_marketing, IInv, DeskInv, PeopleOK
<1>4. CodeInv'
  BY CodeInvSame DEF withdraw_marketing, IInv
<1>5. PeopleOK'
  BY <1>3, RequestSpent DEF withdraw_marketing, IInv, DeskInv, PeopleOK
<1>6. RowsOK' /\ TextsOK' /\ AuditOK' /\ AgedOK'
  BY DEF withdraw_marketing, IInv, DeskInv, RowsOK, TextsOK, TextOK, AuditOK, ArrivalsAudited, AgedOK
<1>7. RequestsOK'
  BY RequestsSame DEF withdraw_marketing, IInv, DeskInv
<1> QED
  BY <1>4, <1>5, <1>6, <1>7 DEF IInv, DeskInv

LEMMA EraseStep ==
    ASSUME IInv, NEW k \in Customers, erase_subject(k)
    PROVE  IInv'
<1>1. customer[k].phone \in Numbers
  BY DEF erase_subject, IInv, DeskInv, PeopleOK, Customer
<1>2. erasing' \in Erasure /\ claim' = NONE
  BY <1>1 DEF erase_subject, erasable, advisoryLockFree, Erasure
<1>3. LockOK'
  BY <1>2 DEF LockOK
<1>4. CodeInv'
  BY <1>3, CodesSame DEF erase_subject, IInv, CodeInv
<1>5. left' \in 0..MaxRequests
  BY RequestSpent DEF erase_subject, IInv, DeskInv
<1>6. DeskInv'
  BY <1>5, DeskUntouched DEF erase_subject, IInv, DeskInv, PeopleOK
<1> QED
  BY <1>4, <1>6 DEF IInv

LEMMA UnusedUnlinked ==
    ASSUME NEW new \in Booking, new.who = unused.who, new.status = unused.status, new.started = unused.started,
           new.arrived = unused.arrived, new.link = NONE, new.reminder = "none"
    PROVE  new = unused
  BY DEF Booking, unused

\* An erased row keeps its appointment and loses its link, and so do its texts.
LEMMA UnlinkedRow ==
    ASSUME NEW row, RowOK(row), NEW new \in Booking, new.who = row.who, new.status = row.status,
           new.started = row.started, new.arrived = row.arrived, new.link = NONE, new.reminder = "none"
    PROVE  RowOK(new)
<1>1. ASSUME row.status = "none" PROVE new = unused
  BY <1>1, UnusedUnlinked DEF RowOK
<1> QED
  BY <1>1 DEF RowOK

LEMMA EraseCommitStep ==
    ASSUME IInv, erase_commit
    PROVE  IInv'
<1>1. PICK e \in Erasure : e = erasing
  BY DEF erase_commit, IInv, CodeInv, LockOK
<1>2. e.who \in Customers /\ e.bookings \subseteq Bookings
  BY DEF Erasure
<1>3. CodesTypeOK' /\ \A x \in Codes : CodeOK(x)'
  BY CodesWithout DEF erase_commit, IInv, CodeInv
<1>4. LockOK'
  BY DEF erase_commit, IInv, CodeInv, LockOK
<1>5. PeopleOK'
  <2>1. PICK k \in Customers : k = e.who
    BY <1>2
  <2>2. PICK new : new = forgotten(customer[k])
    OBVIOUS
  <2>3. customer \in [Customers -> Customer]
    BY DEF IInv, DeskInv, PeopleOK
  <2>4. _withdraw_case(customer[k]) \in Customer
    BY <2>3 DEF _withdraw_case, withdraw_marketing_consent, Customer
  <2>5. new \in Customer
    BY <2>2, <2>4 DEF forgotten, Customer, Numbers
  <2>6. customer' = [customer EXCEPT ![k] = new]
    BY <1>1, <2>1, <2>2 DEF erase_commit
  <2>7. customer' \in [Customers -> Customer]
    BY <2>3, <2>5, <2>6
  <2>8. cookies' \in [Codes -> Customers \cup {NONE}]
    BY DEF erase_commit, revoke_all_for_customer, IInv, DeskInv, PeopleOK
  <2> QED
    BY <2>7, <2>8 DEF erase_commit, IInv, DeskInv, PeopleOK
<1>6. \A b \in Bookings : booking'[b] = IF b \in e.bookings
                                        THEN [booking[b] EXCEPT !.link = NONE, !.reminder = "none"]
                                        ELSE booking[b]
  BY <1>1 DEF erase_commit
<1>7. \A b \in Bookings : RowOK(booking[b])
  BY DEF IInv, DeskInv, RowsOK
<1>8. ASSUME NEW b \in Bookings
      PROVE  /\ RowOK(booking'[b]) /\ booking'[b].who = booking[b].who /\ booking'[b].status = booking[b].status
             /\ booking'[b].started = booking[b].started /\ booking'[b].arrived = booking[b].arrived
             /\ b \notin e.bookings => booking'[b].link = booking[b].link
  <2>1. PICK row : row = booking[b] /\ RowOK(row)
    BY <1>7
  <2>2. booking'[b] = IF b \in e.bookings THEN [row EXCEPT !.link = NONE, !.reminder = "none"] ELSE row
    BY <1>6, <2>1
  <2>3. CASE b \in e.bookings
    <3>1. PICK new : new = booking'[b]
      OBVIOUS
    <3>2. /\ new \in Booking /\ new.who = row.who /\ new.status = row.status /\ new.started = row.started
          /\ new.arrived = row.arrived /\ new.link = NONE /\ new.reminder = "none"
      <4>1. row \in Booking
        BY <2>1 DEF RowOK
      <4>2. new = [row EXCEPT !.link = NONE, !.reminder = "none"]
        BY <2>2, <2>3, <3>1
      <4> QED
        BY <4>1, <4>2 DEF Booking
    <3>3. RowOK(new)
      BY <2>1, <3>2, UnlinkedRow
    <3> QED
      BY <2>1, <2>3, <3>1, <3>2, <3>3
  <2>4. CASE b \notin e.bookings
    BY <2>1, <2>2, <2>4
  <2> QED
    BY <2>3, <2>4
<1>9. RowsOK'
  <2>1. \A b \in Bookings : (IF b \in e.bookings
                             THEN [booking[b] EXCEPT !.link = NONE, !.reminder = "none"]
                             ELSE booking[b]) \in Booking
    BY <1>6, <1>8 DEF RowOK
  <2>2. booking' \in [Bookings -> Booking]
    BY <1>1, <2>1 DEF erase_commit
  <2> QED
    BY <1>8, <2>2 DEF RowsOK
<1>10. TextsOK'
  <2>1. texts' = staleTexts(e.bookings)
    BY <1>1 DEF erase_commit
  <2>2. texts \subseteq Text /\ \A t \in texts : t.booking \in Bookings
    BY DEF IInv, DeskInv, TextsOK, Text
  <2>3. ASSUME NEW t \in texts'
        PROVE  \/ t \in texts /\ (booking[t.booking].link # NONE => booking'[t.booking].link # NONE)
               \/ t.link = "opens" => booking'[t.booking].link # NONE
    <3>1. t \in texts /\ ~ (t.booking \in e.bookings /\ t.link = "opens")
      BY <2>1 DEF staleTexts
    <3> QED
      BY <1>8, <2>2, <3>1
  <2> QED
    BY <2>1, <2>2, <2>3, StaleAreTexts, TextsKept DEF IInv, DeskInv
<1>11. RequestsOK'
  BY <1>8, RequestsKept DEF erase_commit, IInv, DeskInv, Held
<1>12. AuditOK' /\ AgedOK'
  BY <1>8, AuditKept, AgedKept DEF erase_commit, IInv, DeskInv
<1> QED
  BY <1>3, <1>4, <1>5, <1>9, <1>10, <1>11, <1>12 DEF IInv, CodeInv, DeskInv

LEMMA PurgeCodesStep ==
    ASSUME IInv, _purge_otp_codes
    PROVE  IInv'
<1>1. CodesTypeOK' /\ \A x \in Codes : CodeOK(x)'
  BY CodesWithout DEF _purge_otp_codes, IInv, CodeInv
<1>2. LockOK'
  <2>1. claim # NONE => claim.code \in Codes /\ code[claim.code].state = "verified"
    BY DEF IInv, CodeInv, LockOK, Claim
  <2>2. \A x \in Codes : x \notin aged => code'[x] = code[x]
    BY DEF _purge_otp_codes, without
  <2> QED
    BY <2>1, <2>2 DEF _purge_otp_codes, IInv, CodeInv, LockOK
<1>3. PeopleOK' /\ RowsOK' /\ TextsOK' /\ AuditOK' /\ AgedOK'
  BY DEF _purge_otp_codes, IInv, DeskInv, PeopleOK, RowsOK, TextsOK, TextOK, AuditOK, ArrivalsAudited, AgedOK
<1>4. RequestsOK'
  BY RequestsSame DEF _purge_otp_codes, IInv, DeskInv
<1> QED
  BY <1>1, <1>2, <1>3, <1>4 DEF IInv, CodeInv, DeskInv

\* A booking that goes takes its texts, its arrival and the requests on it along.
LEMMA PurgeBookingsStep ==
    ASSUME IInv, _purge_bookings
    PROVE  IInv'
<1>1. /\ \A b \in Bookings : booking'[b] = IF b \in aged THEN unused ELSE booking[b]
      /\ \A b \in Bookings : trail'[b] = IF b \in aged THEN 0 ELSE trail[b]
  BY DEF _purge_bookings
<1>2. booking \in [Bookings -> Booking] /\ \A b \in Bookings : RowOK(booking[b])
  BY DEF IInv, DeskInv, RowsOK
<1>3. RowOK(unused) /\ unused \in Booking
  BY UnusedOK DEF RowOK
<1>4. CodeInv'
  BY CodeInvSame DEF _purge_bookings, IInv
<1>5. PeopleOK'
  BY DEF _purge_bookings, IInv, DeskInv, PeopleOK
<1>6. RowsOK'
  <2>1. booking' \in [Bookings -> Booking]
    BY <1>2, <1>3 DEF _purge_bookings
  <2> QED
    BY <1>1, <1>2, <1>3, <2>1 DEF RowsOK
<1>7. TextsOK'
  <2>1. texts' \subseteq texts /\ \A t \in texts' : t.booking \notin aged
    BY DEF _purge_bookings
  <2>2. texts \subseteq Text /\ \A t \in texts : t.booking \in Bookings
    BY DEF IInv, DeskInv, TextsOK, Text
  <2>3. \A t \in texts' : booking'[t.booking] = booking[t.booking]
    BY <1>1, <2>1, <2>2
  <2> QED
    BY <2>1, <2>2, <2>3, TextsKept DEF IInv, DeskInv
<1>8. RequestsOK'
  <2>1. \A b \in Bookings : Held(b)
    BY <1>1 DEF Held, IInv, DeskInv, AgedOK
  <2>2. \A x \in Staff : req'[x] = NONE \/ req'[x] = req[x]
    BY DEF _purge_bookings
  <2>3. req' \in [Staff -> Correction \cup Arrival \cup {NONE}]
    BY DEF _purge_bookings, IInv, DeskInv, RequestsOK
  <2>4. ASSUME NEW x \in Staff PROVE RequestOK(x)'
    <3>1. CASE req'[x] = NONE
      BY <3>1 DEF RequestOK
    <3>2. CASE req'[x] = req[x]
      BY <2>1, <3>2, RequestKept DEF IInv, DeskInv
    <3> QED
      BY <2>2, <3>1, <3>2
  <2> QED
    BY <2>3, <2>4 DEF RequestsOK
<1>9. AuditOK'
  <2>1. trail' \in [Bookings -> {0, 1}]
    BY DEF _purge_bookings, IInv, DeskInv, AuditOK
  <2>2. unused.arrived = FALSE
    BY DEF unused
  <2> QED
    BY <1>1, <2>1, <2>2 DEF IInv, DeskInv, AuditOK, ArrivalsAudited
<1>10. AgedOK'
  BY DEF _purge_bookings, AgedOK
<1> QED
  BY <1>4, <1>5, <1>6, <1>7, <1>8, <1>9, <1>10 DEF IInv, DeskInv

LEMMA ScrubStep ==
    ASSUME IInv, _scrub_customers
    PROVE  IInv'
<1>1. PICK due : customer' = [k \in Customers |-> IF k \in due
                                                  THEN [customer[k] EXCEPT !.phone = Nobody, !.erased = "retention"]
                                                  ELSE customer[k]]
  BY DEF _scrub_customers
<1>2. \A k \in Customers : [customer[k] EXCEPT !.phone = Nobody, !.erased = "retention"] \in Customer
  BY DEF IInv, DeskInv, PeopleOK, Customer, Numbers
<1>3. customer' \in [Customers -> Customer]
  BY <1>1, <1>2 DEF IInv, DeskInv, PeopleOK
<1>4. UNCHANGED <<codeVars, booking, cookies, claim, erasing, req, texts, trail, aged, left>>
  BY DEF _scrub_customers
<1>5. CodeInv'
  BY <1>4, CodeInvSame DEF IInv
<1>6. PeopleOK'
  BY <1>3, <1>4 DEF IInv, DeskInv, PeopleOK
<1>7. RowsOK' /\ TextsOK' /\ AuditOK' /\ AgedOK'
  BY <1>4 DEF IInv, DeskInv, RowsOK, TextsOK, TextOK, AuditOK, ArrivalsAudited, AgedOK
<1>8. RequestsOK'
  BY <1>4, RequestsSame DEF IInv, DeskInv
<1> QED
  BY <1>5, <1>6, <1>7, <1>8 DEF IInv, DeskInv

(***************************************************************************)
(* The invariant                                                           *)
(***************************************************************************)

\* A customer with her bookings, as the desk first finds them.
LEMMA InitOK == Init => IInv
<1> SUFFICES ASSUME Init PROVE IInv
  OBVIOUS
<1>1. CodeInv
  <2>1. \A o \in Codes : /\ code[o] = [state |-> "none", phone |-> NONE, attempts |-> 0]
                         /\ compared[o] = 0 /\ opened[o] = 0
    BY DEF Init, CodesInit
  <2>2. CodesTypeOK
    <3>1. [state |-> "none", phone |-> NONE, attempts |-> 0] \in OtpCode
      BY VerifiersCount DEF OtpCode, CodeStates
    <3> QED
      BY <3>1 DEF Init, CodesInit, CodesTypeOK
  <2>3. ASSUME NEW o \in Codes PROVE CodeOK(o)
    <3>1. code[o].state = "none" /\ code[o].attempts = 0
      BY <2>1
    <3>2. Cardinality(Guessing(o)) \in Nat /\ Cardinality(Guessing(o)) <= Cardinality(Verifiers)
      BY GuessingFinite
    <3> QED
      BY <2>1, <3>1, <3>2, VerifiersCount DEF CodeOK
  <2>4. LockOK
    BY DEF Init, LockOK
  <2> QED
    BY <2>2, <2>3, <2>4 DEF CodeInv
<1>2. PICK phone \in [Customers -> Phones \cup {NONE}], k \in Customers, consent \in {"none", "given"},
           booked \in SUBSET Bookings :
         /\ phone[k] # NONE /\ booked # {}
         /\ \A x, y \in Customers : phone[x] = phone[y] => x = y
         /\ customer = [x \in Customers |->
                          [phone |-> phone[x], consent |-> IF x = k THEN consent ELSE "none", erased |-> "no"]]
         /\ booking = [b \in Bookings |->
                         IF b \in booked
                         THEN [unused EXCEPT !.who = k, !.status = "confirmed", !.link = {phone[k]},
                                             !.reminder = "same"]
                         ELSE unused]
  BY DEF Init
<1>3. PICK row : row = [unused EXCEPT !.who = k, !.status = "confirmed", !.link = {phone[k]}, !.reminder = "same"]
  OBVIOUS
<1>4. RowOK(row) /\ ~ row.arrived
  <2>1. {phone[k]} \in SUBSET Phones
    BY <1>2
  <2>2. {phone[k]} # NONE
    BY <2>1, LinksAreNotNone
  <2> QED
    BY <1>3, <2>1, <2>2 DEF unused, RowOK, Booking
<1>5. RowOK(unused) /\ ~ unused.arrived
  BY UnusedOK DEF unused
<1>6. RowsOK /\ \A b \in Bookings : ~ booking[b].arrived
  <2>1. booking = [b \in Bookings |-> IF b \in booked THEN row ELSE unused]
    BY <1>2, <1>3
  <2>2. row \in Booking /\ unused \in Booking
    BY <1>4, <1>5 DEF RowOK
  <2> QED
    BY <1>4, <1>5, <2>1, <2>2 DEF RowsOK
<1>7. PeopleOK
  <2>1. customer \in [Customers -> Customer]
    BY <1>2 DEF Customer, Numbers
  <2> QED
    BY <2>1, DeskAssumption DEF Init, PeopleOK, DeskAssumption
<1>8. TextsOK /\ RequestsOK /\ AgedOK
  BY DEF Init, TextsOK, RequestsOK, RequestOK, AgedOK
<1>9. AuditOK
  BY <1>6 DEF Init, AuditOK, ArrivalsAudited
<1> QED
  BY <1>1, <1>6, <1>7, <1>8, <1>9 DEF IInv, DeskInv

LEMMA StutterStep == ASSUME IInv, UNCHANGED vars PROVE IInv'
<1>1. CodeInv'
  BY CodeInvSame DEF vars, deskVars, IInv
<1>2. DeskInv'
  BY DeskUntouched DEF vars, deskVars, IInv, DeskInv, PeopleOK
<1> QED
  BY <1>1, <1>2 DEF IInv

LEMMA OpenStepOK == ASSUME IInv, OpenStep PROVE IInv'
  BY CreateStep, ClaimStep, RefusedStep, SessionStep, LogoutStep, CancelStep DEF OpenStep, customer_cancel

LEMMA StaffStepOK == ASSUME IInv, StaffStep PROVE IInv'
<1>1. ASSUME NEW b \in Bookings, resend_link(b) \/ reissue_manage_token(b) PROVE IInv'
  <2>1. booking[b].status # "none"
    BY <1>1 DEF resend_link, reissue_manage_token, live
  <2> QED
    BY <1>1, <2>1, ReissueStep DEF resend_link, reissue_manage_token
<1>2. ASSUME NEW s \in Staff,
             \/ \E b \in Bookings, p \in Phones : correct_phone(s, b, p)
             \/ correct_write(s) \/ correct_commit(s) \/ correct_refused(s)
             \/ \E b \in Bookings : check_in(s, b) \/ undo_check_in(s, b)
             \/ arrival_commit(s)
      PROVE  IInv'
  BY <1>2, CorrectStep, WriteStep, CommitStep, DroppedStep, ReadArrivalStep, ArrivalStep
<1> QED
  BY <1>1, <1>2, CancelStep, RescheduleStep, WalkInStep, TransitionStep DEF StaffStep, owner_cancel

LEMMA PrivacyStepOK == ASSUME IInv, PrivacyStep PROVE IInv'
  BY WithdrawStep, EraseStep, EraseCommitStep, AgeStep, PurgeCodesStep, PurgeBookingsStep, ScrubStep
     DEF PrivacyStep

\* What the requests under way have read of codes and of bookings stays true, whatever
\* the other requests, the customer and the retention job do meanwhile.
THEOREM InvariantHolds == Spec => []IInv
<1>1. Init => IInv
  BY InitOK
<1>2. IInv /\ [Next]_vars => IInv'
  BY CodeStepOK, OpenStepOK, StaffStepOK, TextStepOK, PrivacyStepOK, StartStep, StutterStep DEF Next, TextStep
<1> QED
  BY <1>1, <1>2, PTL DEF Spec

\* However many verifies race, a code is compared with at most the allowed guesses; a
\* verification opens one thing, though a refused booking gives it back; and the audit
\* log agrees with the arrivals, though two tablets check one customer in.
THEOREM DeskSound == Spec => []DeskIsSound
<1>1. IInv => DeskIsSound
  BY DEF IInv, CodeInv, CodeOK, DeskInv, PeopleOK, RowsOK, TextsOK, AuditOK, DeskIsSound, TypeOK,
         GuessesBounded, SpentOnce
<1> QED
  BY <1>1, InvariantHolds, PTL

(***************************************************************************)
(* What was taken back opens nothing                                       *)
(***************************************************************************)

\* Every link to the number a correction moves is replaced by its commit.
LEMMA CommitKillsLinks == IInv => OldLinkDies
<1> SUFFICES ASSUME IInv, NEW s \in Staff, correct_commit(s), NEW b \in req[s].hers,
                    live(b)', number(b)' # number(b)
             PROVE  booking'[b].link = {} /\ booking'[b].reminder # "other"
  BY DEF OldLinkDies
<1>1. PICK r : r = req[s]
  OBVIOUS
<1>2. /\ r \in Correction /\ CorrectionOK(r) /\ r.listed /\ r.booking \in r.rotate
      /\ \A x \in Bookings :
            /\ x \in r.rotate => booking'[x].link = {} /\ booking'[x].reminder # "other"
            /\ ~ booking[x].started /\ booking'[x].status = "confirmed" => booking[x].status = "confirmed"
            /\ ~ (r.repointed /\ x = r.booking) => booking'[x].who = booking[x].who
  BY <1>1, CommitRows
<1>3. b \in Bookings /\ b \in r.hers
  BY <1>1, <1>2 DEF Correction
<1>4. ~ booking[b].started /\ (~ r.repointed /\ live(b) => b \in r.rotate)
  BY <1>2, <1>3 DEF CorrectionOK
<1>5. CASE r.repointed
  <2>1. customer' = customer
    BY <1>1, <1>5 DEF correct_commit
  <2>2. b = r.booking
    BY <1>2, <1>3, <2>1 DEF number
  <2> QED
    BY <1>2, <1>3, <2>2
<1>6. CASE ~ r.repointed
  <2>1. live(b)
    BY <1>2, <1>3, <1>4 DEF live
  <2> QED
    BY <1>2, <1>3, <1>4, <1>6, <2>1
<1> QED
  BY <1>5, <1>6

LEMMA DeadStaysDead == ASSUME IInv, Next PROVE RemovedCodeIsDead
<1> SUFFICES ASSUME NEW o \in Codes, code[o].state = "deleted" PROVE code'[o].state = "deleted"
  BY DEF RemovedCodeIsDead
<1>1. CodesTypeOK /\ (\A x \in Codes : CodeOK(x)) /\ LockOK
  BY DEF IInv, CodeInv
<1>2. CASE CodeStep
  BY <1>1, <1>2, SendKeepsCodes, ReadKeepsCodes, VerifyKeepsCodes DEF CodeStep
<1>3. CASE code' = code
  BY <1>3
<1>4. ASSUME NEW x \in Codes, code[x].state = "verified", code' = burnt(x) PROVE code'[o].state = "deleted"
  BY <1>1, <1>4 DEF burnt, CodesTypeOK
<1>5. ASSUME NEW gone, code' = without(gone) PROVE code'[o].state = "deleted"
  BY <1>5 DEF without, removed
<1>6. CASE OpenStep
  <2>1. CASE \E b \in Bookings, soon \in BOOLEAN : claim_commit(b, soon)
    <3>1. claim \in Claim /\ code[claim.code].state = "verified" /\ code' = burnt(claim.code)
      BY <1>1, <2>1 DEF claim_commit, LockOK
    <3> QED
      BY <1>4, <3>1 DEF Claim
  <2>2. CASE \E x \in Codes, p \in Phones : create_session(x, p)
    BY <1>4, <2>2 DEF create_session, consume_verification
  <2>3. CASE code' = code
    BY <2>3
  <2> QED
    BY <1>6, <2>1, <2>2, <2>3
       DEF OpenStep, create_booking, claim_refused, logout, customer_cancel, cancel, codeVars
<1>7. CASE StaffStep \/ TextStep \/ Start
  BY <1>3, <1>7 DEF StaffStep, TextStep, Start, owner_cancel, cancel, resend_link, reissue_manage_token,
         reschedule, create_walk_in, _transition, correct_phone, correct_write, correct_commit, correct_refused,
         check_in, undo_check_in, arrival_commit, _customer_phone, _live_token, _rotate, _deliver, codeVars
<1>8. CASE PrivacyStep
  BY <1>3, <1>5, <1>8 DEF PrivacyStep, withdraw_marketing, erase_subject, erase_commit, Age,
         _purge_otp_codes, _purge_bookings, _scrub_customers, codeVars
<1> QED
  BY <1>2, <1>6, <1>7, <1>8 DEF Next

\* A code that was removed is never a verification again, for a verify that had read it
\* either; and when a correction commits, none of the links its customer's old number
\* was sent opens a live booking, however her bookings changed since the correction read
\* them.
THEOREM OldKeysDead == Spec => OldKeysAreDead
<1>1. IInv /\ [Next]_vars => [RemovedCodeIsDead /\ OldLinkDies]_<<code, req>>
  <2>1. ASSUME IInv, Next PROVE RemovedCodeIsDead /\ OldLinkDies
    BY <2>1, CommitKillsLinks, DeadStaysDead
  <2>2. UNCHANGED vars => UNCHANGED <<code, req>>
    BY DEF vars, codeVars, deskVars
  <2> QED
    BY <2>1, <2>2
<1> QED
  BY <1>1, InvariantHolds, PTL DEF Spec, OldKeysAreDead

(***************************************************************************)
(* Her word on her own data                                                *)
(***************************************************************************)

LEMMA WordStandsStep == ASSUME IInv, Next PROVE customer' = customer \/ (WithdrawnForGood /\ EraseMeetsNoClaim)
<1> DEFINE Kept(k) == /\ customer[k].consent = "withdrawn" => customer'[k].consent = "withdrawn"
                      /\ customer[k].erased # "subject" => customer'[k].erased # "subject"
<1>1. (\A k \in Customers : Kept(k)) => WithdrawnForGood /\ EraseMeetsNoClaim
  BY DEF WithdrawnForGood, EraseMeetsNoClaim
<1>2. customer \in [Customers -> Customer]
  BY DEF IInv, DeskInv, PeopleOK
<1>3. CASE \E b \in Bookings, soon \in BOOLEAN : claim_commit(b, soon)
  <2> PICK k : k = claim.who
    OBVIOUS
  <2> PICK base :
        base = IF customer[k].phone = NONE THEN [customer[k] EXCEPT !.phone = claim.phone] ELSE customer[k]
    OBVIOUS
  <2> PICK new : new = IF claim.consents THEN record_marketing_consent(base) ELSE base
    OBVIOUS
  <2>1. customer' = [customer EXCEPT ![k] = new]
    BY <1>3 DEF claim_commit
  <2>2. ASSUME NEW x \in Customers PROVE Kept(x)
    <3>1. CASE x = k
      <4>1. /\ base.consent = customer[k].consent /\ base.erased = customer[k].erased
            /\ base \in [phone : {base.phone}, consent : {"none", "given", "withdrawn"}, erased : {base.erased}]
        BY <1>2, <3>1 DEF Customer
      <4>2. new.erased = base.erased /\ (base.consent = "withdrawn" => new.consent = "withdrawn")
        BY <4>1 DEF record_marketing_consent
      <4> QED
        BY <1>2, <2>1, <3>1, <4>1, <4>2
    <3>2. CASE x # k
      BY <1>2, <2>1, <3>2
    <3> QED
      BY <3>1, <3>2
  <2> QED
    BY <1>1, <2>2
<1>4. CASE \E s \in Staff : correct_commit(s)
  <2>1. customer' = customer \/ \E k, p : customer' = [customer EXCEPT ![k].phone = p]
    BY <1>4 DEF correct_commit, set_phone
  <2>2. ASSUME NEW k, NEW p, customer' = [customer EXCEPT ![k].phone = p], NEW x \in Customers PROVE Kept(x)
    <3>1. customer'[x] = customer[x] \/ customer'[x] = [customer[x] EXCEPT !.phone = p]
      BY <1>2, <2>2
    <3> QED
      BY <1>2, <3>1 DEF Customer
  <2> QED
    BY <1>1, <2>1, <2>2
<1>5. CASE \E k \in Customers : withdraw_marketing(k)
  <2>1. PICK k \in Customers : customer' = [customer EXCEPT ![k] = withdraw_marketing_consent(@)]
    BY <1>5 DEF withdraw_marketing
  <2>2. ASSUME NEW x \in Customers PROVE Kept(x)
    <3>1. customer'[x] = customer[x] \/ customer'[x] = withdraw_marketing_consent(customer[x])
      BY <1>2, <2>1
    <3> QED
      BY <1>2, <3>1 DEF Customer, withdraw_marketing_consent
  <2> QED
    BY <1>1, <2>2
<1>6. CASE erase_commit
  <2>1. claim = NONE
    BY <1>6 DEF erase_commit, IInv, CodeInv, LockOK
  <2>2. PICK k : customer' = [customer EXCEPT ![k] = forgotten(@)]
    BY <1>6 DEF erase_commit
  <2>3. ASSUME NEW x \in Customers, customer[x].consent = "withdrawn" PROVE customer'[x].consent = "withdrawn"
    <3>0. customer[x] \in Customer
      BY <1>2
    <3>1. customer'[x] = customer[x] \/ customer'[x] = forgotten(customer[x])
      BY <1>2, <2>2
    <3>2. _withdraw_case(customer[x]) = customer[x]
      BY <2>3 DEF _withdraw_case, withdraw_marketing_consent
    <3>3. forgotten(customer[x]) = [customer[x] EXCEPT !.phone = Nobody, !.erased = "subject"]
      BY <3>2 DEF forgotten
    <3> QED
      BY <2>3, <3>0, <3>1, <3>3 DEF Customer
  <2> QED
    BY <2>1, <2>3 DEF WithdrawnForGood, EraseMeetsNoClaim
<1>7. CASE _scrub_customers
  <2>1. ASSUME NEW x \in Customers PROVE Kept(x)
    <3>1. \/ customer'[x] = customer[x]
          \/ customer'[x] = [customer[x] EXCEPT !.phone = Nobody, !.erased = "retention"]
      BY <1>7 DEF _scrub_customers
    <3> QED
      BY <1>2, <3>1 DEF Customer
  <2> QED
    BY <1>1, <2>1
<1>8. CASE CodeStep \/ TextStep \/ Start
  BY <1>8 DEF CodeStep, TextStep, Start, _customer_phone, _live_token, _rotate, _deliver, deskVars
<1>9. CASE OpenStep
  BY <1>3, <1>9 DEF OpenStep, create_booking, claim_refused, create_session, logout, customer_cancel, cancel
<1>10. CASE StaffStep
  BY <1>4, <1>10 DEF StaffStep, owner_cancel, cancel, resend_link, reissue_manage_token,
         reschedule, create_walk_in, _transition, correct_phone, correct_write, correct_refused,
         check_in, undo_check_in, arrival_commit
<1>11. CASE PrivacyStep
  BY <1>5, <1>6, <1>7, <1>11 DEF PrivacyStep, erase_subject, Age, _purge_otp_codes, _purge_bookings
<1> QED
  BY <1>8, <1>9, <1>10, <1>11 DEF Next

\* Consent she withdrew stays withdrawn, whatever a later form ticks, and her erasure
\* never commits under a booking request that has picked her row.
THEOREM WordStands == Spec => HerWordStands
<1>1. IInv /\ [Next]_vars => [WithdrawnForGood /\ EraseMeetsNoClaim]_customer
  <2>1. UNCHANGED vars => UNCHANGED customer
    BY DEF vars, deskVars
  <2> QED
    BY <2>1, WordStandsStep
<1> QED
  BY <1>1, InvariantHolds, PTL DEF Spec, HerWordStands

============================================================================
