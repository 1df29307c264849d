--------------------------- MODULE CatalogProofs ---------------------------
(***************************************************************************)
(* Proofs about the catalogue and the store it shares with the staff       *)
(* photographs, for any number of keys, requests, days and reservations:   *)
(* whatever is shown exists and was checked, a deleted image stays         *)
(* deleted, a gallery has one order and a day one reservation.             *)
(*                                                                         *)
(* A key is minted once, posted under once, and then named by one side     *)
(* only, the photograph's or the gallery's.  UploadInv says what every     *)
(* open request may still do to the keys it holds; GalleryInv what an      *)
(* archive leaves for the requests that read the gown before it.           *)
(***************************************************************************)
EXTENDS Catalog, FiniteSetTheorems, WellFoundedInduction, TLAPS

USE UploadAssumption, CatalogAssumption DEF UploadAssumption, CatalogAssumption

\* An open request.
Job == [verb : {"none", "photo", "media"},
        step : {"none", "presigned", "read", "reject", "verified", "drop"},
        key : Keys \union {None}, drop : SUBSET Keys]

\* A presign has minted the key.
Minted(k) ==
    \/ policy[k] # "none"
    \/ \E j \in Jobs : job[j].step = "presigned" /\ job[j].key = k

\* What lies under the key is not an image, and nothing can be posted any more.
Dead(k) == policy[k] = "spent" /\ object[k] # "image" /\ k \notin checked

\* A row may still show the key, now or after a confirm or a restore.
Kept(k) ==
    \/ k = photo \/ k = pending
    \/ media[k].status # "none" /\ media[k].gone # "deleted"

\* What an open request knows of its key, and what it may delete.
JobOK(j) ==
    LET k == job[j].key IN
    /\ job[j].step \in {"none", "drop"} => k = None
    /\ job[j].step \in {"presigned", "read", "reject", "verified"} =>
          /\ k \in Keys /\ Minted(k)
          /\ job[j].verb = "photo" => media[k].status = "none"
          /\ job[j].verb = "media" => media[k].status # "none"
    /\ job[j].step = "presigned" => policy[k] = "none"
    /\ job[j].step = "reject" => Dead(k)
    /\ job[j].step = "verified" => k \in checked
    /\ \A d \in job[j].drop : Minted(d) /\ (Kept(d) => Dead(d))

\* Two requests never work on the presign of one key.
OneMinter ==
    \A i, j \in Jobs :
        /\ job[i].step = "presigned" /\ job[j].step = "presigned"
        /\ job[i].key = job[j].key
        => i = j

\* What the rows and the store say of a key.
KeyOK(k) ==
    /\ media[k].status # "none" => Minted(k)
    /\ media[k].status = "none" => media[k].gone = "no"
    /\ media[k].status = "ready" => k \in checked
    /\ object[k] # "none" => policy[k] = "spent"
    /\ k \in checked => policy[k] = "spent" /\ object[k] # "other"
    /\ k \in checked /\ Kept(k) => object[k] # "none"

\* The keys on the card are the photograph's, and two different ones.
CardOK ==
    /\ photo # None => photo \in checked /\ media[photo].status = "none"
    /\ pending # None =>
          Minted(pending) /\ media[pending].status = "none" /\ pending # photo
    /\ staffer = "gone" => photo = None /\ pending = None

UploadInv ==
    /\ TypeOK
    /\ \A j \in Jobs : JobOK(j)
    /\ OneMinter
    /\ \A k \in Keys : KeyOK(k)
    /\ CardOK

\* The rows that are, or can again be, in the gallery; and all that ever were.
Standing == {k \in Keys : media[k].status = "ready" /\ media[k].gone # "deleted"}

Ready == {k \in Keys : media[k].status = "ready"}

\* A confirm under way on an image.
Confirming(j, k) ==
    job[j].verb = "media" /\ job[j].step \in {"read", "verified"} /\ job[j].key = k

\* A live gown has no archived rows; an archived one has no ready row, and no
\* confirm under way on a row that is here.
ArchiveOK ==
    /\ dress = "live" => \A k \in Keys : media[k].gone # "archived"
    /\ dress = "archived" =>
          /\ list_ready = {}
          /\ \A j \in Jobs, k \in Keys : Confirming(j, k) => ~ Here(k)

\* Positions are distinct, and fewer than the rows that ever were in the gallery.
PlacesOK ==
    /\ \A a, b \in Standing : a # b => media[a].sort # media[b].sort
    /\ \A k \in Ready : media[k].sort < Cardinality(Ready)

\* Two reservations of the gown share no day.
RangesOK ==
    \A r, s \in Reservations :
        r # s /\ reserved[r] # <<>> /\ reserved[s] # <<>> =>
            reserved[r][2] < reserved[s][1] \/ reserved[s][2] < reserved[r][1]

GalleryInv == ArchiveOK /\ PlacesOK /\ RangesOK

IInv == UploadInv /\ GalleryInv

----------------------------------------------------------------------------
(* What a step may do to a key, and what follows for the open requests. *)

\* A minted key stays minted and on its side; nothing new is posted under a spent
\* one; a row that let go of it never takes it up again.
KeyMoves(k) ==
    /\ policy[k] = "spent" => policy'[k] = "spent" /\ object'[k] \in {object[k], "none"}
    /\ Minted(k) => Minted(k)'
    /\ k \in checked => k \in checked'
    /\ Dead(k) => k \notin checked'
    /\ Minted(k) => (media[k].status = "none" <=> media'[k].status = "none")
    /\ Minted(k) /\ Kept(k)' => Kept(k)

\* A request that does not move keeps what it knew.
LEMMA JobStays ==
    ASSUME UploadInv, NEW i \in Jobs, job'[i] = job[i],
           \A k \in Keys : KeyMoves(k),
           job[i].step = "presigned" => policy'[job[i].key] = policy[job[i].key]
    PROVE  JobOK(i)'
<1>1. JobOK(i) /\ job[i].drop \subseteq Keys
  BY DEF UploadInv, TypeOK, UploadTypeOK
<1>2. job[i].step \in {"none", "presigned", "read", "reject", "verified", "drop"}
  BY DEF UploadInv, TypeOK, UploadTypeOK
<1>3. \A d \in job[i].drop : Minted(d)' /\ (Kept(d)' => Dead(d)')
  <2> TAKE d \in job[i].drop
  <2>1. Minted(d) /\ (Kept(d) => Dead(d)) /\ KeyMoves(d)
    BY <1>1 DEF JobOK
  <2> QED
    BY <2>1 DEF KeyMoves, Dead
<1>4. CASE job[i].step \in {"none", "drop"}
  BY <1>1, <1>3, <1>4 DEF JobOK
<1>5. CASE job[i].step \in {"presigned", "read", "reject", "verified"}
  <2>1. job[i].key \in Keys /\ KeyMoves(job[i].key)
    BY <1>1, <1>5 DEF JobOK
  <2> QED
    BY <1>1, <1>3, <1>5, <2>1 DEF JobOK, KeyMoves, Dead
<1> QED
  BY <1>2, <1>4, <1>5

\* One request moves, all others stay.
LEMMA OneMoves ==
    ASSUME UploadInv, TypeOK', CardOK', NEW j \in Jobs, JobOK(j)',
           \A i \in Jobs \ {j} : job'[i] = job[i],
           \A k \in Keys : KeyMoves(k) /\ KeyOK(k)',
           \A k \in Keys : policy'[k] # policy[k] =>
              policy[k] # "none" \/ (job[j].step = "presigned" /\ job[j].key = k),
           job'[j].step = "presigned" => ~ Minted(job'[j].key)
    PROVE  UploadInv'
<1>1. \A i \in Jobs \ {j} : job[i].step = "presigned" => policy'[job[i].key] = policy[job[i].key]
  <2> TAKE i \in Jobs \ {j}
  <2> HAVE job[i].step = "presigned"
  <2>1. job[i].key \in Keys /\ policy[job[i].key] = "none"
    BY DEF UploadInv, JobOK
  <2>2. ~ (job[j].step = "presigned" /\ job[j].key = job[i].key)
    BY DEF UploadInv, OneMinter
  <2> QED
    BY <2>1, <2>2
<1>2. \A i \in Jobs : JobOK(i)'
  BY <1>1, JobStays
<1>3. OneMinter'
  <2> SUFFICES ASSUME NEW a \in Jobs, NEW b \in Jobs,
                      job'[a].step = "presigned", job'[b].step = "presigned",
                      job'[a].key = job'[b].key, a # b
               PROVE  FALSE
    BY DEF OneMinter
  <2>1. CASE a # j /\ b # j
    BY <2>1 DEF UploadInv, OneMinter
  <2>2. CASE a = j
    BY <2>2 DEF Minted
  <2>3. CASE b = j
    BY <2>3 DEF Minted
  <2> QED
    BY <2>1, <2>2, <2>3
<1> QED
  BY <1>2, <1>3 DEF UploadInv

\* No request moves.
LEMMA NoneMoves ==
    ASSUME UploadInv, TypeOK', CardOK', job' = job,
           \A k \in Keys : KeyMoves(k) /\ KeyOK(k)',
           \A k \in Keys : policy'[k] # policy[k] => policy[k] # "none"
    PROVE  UploadInv'
<1>1. \A i \in Jobs : job[i].step = "presigned" => policy'[job[i].key] = policy[job[i].key]
  BY DEF UploadInv, JobOK
<1>2. \A i \in Jobs : JobOK(i)'
  BY <1>1, JobStays
<1> QED
  BY <1>2 DEF UploadInv, OneMinter

----------------------------------------------------------------------------
(* The store. *)

\* A posted body: the key's policy was open, so nothing lay under it.
LEMMA PostKeeps ==
    ASSUME UploadInv, NEW k \in Keys, NEW body \in Body, post_object(k, body),
           UNCHANGED catalogVars
    PROVE  UploadInv'
<1> USE DEF post_object, photoVars, catalogVars
<1>1. TypeOK'
  BY DEF UploadInv, TypeOK, UploadTypeOK
<1>2. ASSUME NEW x \in Keys PROVE KeyMoves(x) /\ KeyOK(x)'
  BY DEF UploadInv, KeyOK, KeyMoves, Minted, Dead, Kept, TypeOK, UploadTypeOK, Body
<1>3. CardOK'
  BY DEF UploadInv, CardOK, Minted, TypeOK, UploadTypeOK
<1>4. \A x \in Keys : policy'[x] # policy[x] => policy[x] # "none"
  BY DEF UploadInv, TypeOK, UploadTypeOK
<1> QED
  BY <1>1, <1>2, <1>3, <1>4, NoneMoves

\* The deletes after a commit: no row shows what they delete.
LEMMA DeletesKeep ==
    ASSUME UploadInv, NEW j \in Jobs, best_effort_delete(j), UNCHANGED catalogVars
    PROVE  UploadInv'
<1> USE DEF best_effort_delete, photoVars, catalogVars
<1>1. PICK done \in {{}, job[j].drop} :
         object' = [k \in Keys |-> IF k \in done THEN "none" ELSE object[k]]
  BY DEF delete_objects
<1>2. job' = [job EXCEPT ![j] = Idle]
  OBVIOUS
<1>3. TypeOK'
  BY <1>1, <1>2 DEF UploadInv, TypeOK, UploadTypeOK, Idle
<1>4. job[j].step = "drop" /\ job'[j] = Idle /\ \A i \in Jobs \ {j} : job'[i] = job[i]
  BY <1>2 DEF UploadInv, TypeOK, UploadTypeOK
<1>5. ASSUME NEW x \in Keys PROVE KeyMoves(x) /\ KeyOK(x)'
  <2>1. Minted(x) => Minted(x)'
    BY <1>4 DEF Minted
  <2>2. x \in done /\ Kept(x) => Dead(x)
    BY <1>1 DEF UploadInv, JobOK
  <2>3. KeyMoves(x)
    BY <1>1, <2>1 DEF KeyMoves, Dead, Kept
  <2>4. KeyOK(x)'
    BY <1>1, <2>1, <2>2 DEF UploadInv, KeyOK, Dead, Kept
  <2> QED
    BY <2>3, <2>4
<1>6. CardOK'
  BY <1>4 DEF UploadInv, CardOK, Minted
<1>7. JobOK(j)'
  BY <1>4 DEF JobOK, Idle
<1> QED
  BY <1>3, <1>4, <1>5, <1>6, <1>7, OneMoves DEF Idle

\* The look at the object, outside any transaction.
LEMMA LookKeeps ==
    ASSUME UploadInv, NEW j \in Jobs, look(j), UNCHANGED catalogVars
    PROVE  UploadInv'
<1>k. PICK k \in Keys : k = job[j].key
  BY DEF UploadInv, JobOK, look
<1>0. /\ checked' = IF object[k] = "image" THEN checked \union {k} ELSE checked
      /\ UNCHANGED <<object, policy, staffer, photo, pending, dress, media, sizes, reserved>>
  BY <1>k DEF look, photoVars, catalogVars, head_object
<1>1. k \in Keys /\ Minted(k) /\ job[j].step = "read" /\ JobOK(j) /\ KeyOK(k)
  BY <1>k DEF UploadInv, JobOK, look
<1>2. PICK to : /\ job' = [job EXCEPT ![j] = to]
                /\ object[k] = "none" => to = Idle
                /\ object[k] = "other" => to = [job[j] EXCEPT !.step = "reject"]
                /\ object[k] = "image" => to = [job[j] EXCEPT !.step = "verified"]
  BY <1>k, <1>1 DEF UploadInv, TypeOK, UploadTypeOK, Body, look, head_object
<1>3. object[k] \in {"image", "other", "none"}
  BY <1>k DEF UploadInv, TypeOK, UploadTypeOK, Body
<1>4. TypeOK'
  <2>1. job \in [Jobs -> Job] /\ Idle \in Job
    BY DEF UploadInv, TypeOK, UploadTypeOK, Job, Idle
  <2>2. \A s \in {"reject", "verified"} : [job[j] EXCEPT !.step = s] \in Job
    BY <2>1 DEF Job
  <2>3. to \in Job
    BY <1>2, <1>3, <2>1, <2>2
  <2>4. job' \in [Jobs -> Job]
    BY <1>2, <2>1, <2>3
  <2>5. checked' \subseteq Keys
    BY <1>k, <1>0 DEF UploadInv, TypeOK, UploadTypeOK
  <2> QED
    BY <1>0, <2>4, <2>5 DEF UploadInv, TypeOK, UploadTypeOK, Job
<1>5. job'[j] = to /\ \A i \in Jobs \ {j} : job'[i] = job[i]
  BY <1>2 DEF UploadInv, TypeOK, UploadTypeOK
<1>6. ASSUME NEW x \in Keys PROVE KeyMoves(x) /\ KeyOK(x)'
  <2>1. Minted(x) => Minted(x)'
    BY <1>k, <1>0, <1>1, <1>5 DEF Minted
  <2>2. KeyMoves(x)
    BY <1>0, <1>1, <2>1 DEF KeyMoves, Dead, Kept
  <2>3. KeyOK(x)'
    BY <1>0, <1>1, <2>1 DEF UploadInv, KeyOK, Kept
  <2> QED
    BY <2>2, <2>3
<1>7. CardOK'
  BY <1>0, <1>1, <1>6 DEF UploadInv, CardOK, KeyMoves, TypeOK, UploadTypeOK
<1>8. JobOK(j)'
  <2>1. job[j] \in [verb : {"none", "photo", "media"},
                    step : {"none", "presigned", "read", "reject", "verified", "drop"},
                    key : Keys \union {None}, drop : SUBSET Keys]
    BY DEF UploadInv, TypeOK, UploadTypeOK
  <2>2. CASE object[k] = "none"
    BY <1>2, <1>5, <2>2 DEF JobOK, Idle
  <2>3. CASE object[k] # "none"
    <3>1. to.key = k /\ to.verb = job[j].verb /\ to.drop = job[j].drop
      BY <1>k, <1>2, <1>3, <2>1, <2>3
    <3>2. Minted(k)' /\ \A d \in to.drop : Minted(d)' /\ (Kept(d)' => Dead(d)')
      <4>1. \A d \in to.drop : d \in Keys /\ Minted(d) /\ (Kept(d) => Dead(d))
        BY <1>1, <2>1, <3>1 DEF JobOK
      <4>2. \A d \in to.drop : KeyMoves(d)
        BY <1>6, <4>1
      <4> QED
        BY <1>1, <1>6, <4>1, <4>2 DEF KeyMoves, Dead
    <3>3. \/ to.step = "reject" /\ object[k] = "other"
          \/ to.step = "verified" /\ object[k] = "image"
      <4>1. CASE object[k] = "other"
        <5>1. to = [job[j] EXCEPT !.step = "reject"]
          BY <1>2, <4>1
        <5> QED
          BY <2>1, <4>1, <5>1
      <4>2. CASE object[k] = "image"
        <5>1. to = [job[j] EXCEPT !.step = "verified"]
          BY <1>2, <4>2
        <5> QED
          BY <2>1, <4>2, <5>1
      <4> QED
        BY <1>3, <2>3, <4>1, <4>2
    <3>4. to.step = "reject" => Dead(k)'
      BY <1>0, <1>1, <3>3 DEF Dead, KeyOK
    <3>5. to.step = "verified" => k \in checked'
      BY <1>0, <3>3
    <3> QED
      BY <1>k, <1>0, <1>1, <1>5, <3>1, <3>2, <3>3, <3>4, <3>5 DEF JobOK
  <2> QED
    BY <2>2, <2>3
<1>9. to.step # "presigned"
  BY <1>2, <1>3 DEF Idle, UploadInv, TypeOK, UploadTypeOK
<1> QED
  BY <1>0, <1>4, <1>5, <1>6, <1>7, <1>8, <1>9, OneMoves

----------------------------------------------------------------------------
(* The photograph. *)

\* A request that closes, or that has only its deletes left.
LEMMA DropJob ==
    ASSUME job \in [Jobs -> Job], NEW j \in Jobs, NEW ks \in SUBSET Keys, Drop(j, ks)
    PROVE  /\ job' \in [Jobs -> Job]
           /\ job'[j].step \in {"none", "drop"} /\ job'[j].key = None /\ job'[j].drop = ks
           /\ \A i \in Jobs \ {j} : job'[i] = job[i]
<1>1. Idle \in Job /\ Idle.step = "none" /\ Idle.key = None /\ Idle.drop = {}
  BY DEF Idle, Job
<1>2. CASE ks = {}
  <2>1. job' = [job EXCEPT ![j] = Idle]
    BY <1>2 DEF Drop
  <2> QED
    BY <1>1, <1>2, <2>1
<1>3. CASE ks # {}
  <2>1. PICK to : to = [Idle EXCEPT !.verb = "photo", !.step = "drop", !.drop = ks]
    OBVIOUS
  <2>2. job' = [job EXCEPT ![j] = to]
    BY <1>3, <2>1 DEF Drop
  <2>3. to \in Job /\ to.step = "drop" /\ to.key = None /\ to.drop = ks
    BY <2>1 DEF Job, Idle
  <2> QED
    BY <2>2, <2>3
<1> QED
  BY <1>2, <1>3

\* What a request drops was minted and is let go by every row, or is dead.
LEMMA DropOK ==
    ASSUME UploadInv, NEW j \in Jobs, NEW ks \in SUBSET Keys, Drop(j, ks),
           \A k \in ks : Minted(k)' /\ (Kept(k)' => Dead(k)')
    PROVE  JobOK(j)'
BY DropJob DEF UploadInv, TypeOK, UploadTypeOK, JobOK, Job

\* Minted keys stay minted when no policy goes back and no presign closes.
LEMMA MintedStays ==
    ASSUME NEW j \in Jobs, NEW k \in Keys, job[j].step = "presigned" => job[j].key # k,
           \A i \in Jobs \ {j} : job'[i] = job[i], policy[k] # "none" => policy'[k] # "none",
           Minted(k)
    PROVE  Minted(k)'
BY DEF Minted

\* The photograph, its pending key and the card change; the store does not.
LEMMA CardMoves ==
    ASSUME UploadInv, NEW j \in Jobs, NEW ks \in SUBSET Keys, Drop(j, ks),
           job[j].step # "presigned",
           UNCHANGED <<object, policy, checked, catalogVars>>,
           staffer' \in {"live", "gone"},
           <<photo', pending'>> \in {<<photo, pending>>, <<pending, None>>, <<photo, None>>, <<None, None>>},
           photo' # None => photo' \in checked,
           staffer' = "gone" => photo' = None /\ pending' = None,
           \A k \in ks : Minted(k) /\ (Kept(k)' => Dead(k))
    PROVE  UploadInv'
<1> USE DEF catalogVars
<1>1. /\ photo' \in {photo, pending, None} /\ pending' \in {pending, None}
      /\ photo' # None /\ pending' # None => photo' = photo /\ pending' = pending
  OBVIOUS
<1>2. job \in [Jobs -> Job]
  BY DEF UploadInv, TypeOK, UploadTypeOK, Job
<1>3. /\ job' \in [Jobs -> Job] /\ job'[j].step \in {"none", "drop"}
      /\ \A i \in Jobs \ {j} : job'[i] = job[i]
  BY <1>2, DropJob
<1>4. TypeOK'
  BY <1>1, <1>3 DEF UploadInv, TypeOK, UploadTypeOK, Job
<1>5. ASSUME NEW x \in Keys PROVE KeyMoves(x) /\ KeyOK(x)'
  <2>1. Minted(x) => Minted(x)'
    BY <1>3, MintedStays
  <2>2. Kept(x)' => Kept(x)
    BY <1>1 DEF Kept, UploadInv, TypeOK, UploadTypeOK
  <2> QED
    BY <2>1, <2>2 DEF KeyMoves, KeyOK, UploadInv, Dead
<1>6. CardOK'
  BY <1>1, <1>5 DEF CardOK, UploadInv, KeyMoves, TypeOK, UploadTypeOK
<1>7. JobOK(j)'
  BY <1>5, DropOK DEF KeyMoves, Dead
<1> QED
  BY <1>3, <1>4, <1>5, <1>6, <1>7, OneMoves

\* A presign of the photograph: a new key, and the old pending one goes.
LEMMA PresignPhotoKeeps ==
    ASSUME UploadInv, NEW j \in Jobs, NEW k \in Keys, presign_photo(j, k), UNCHANGED catalogVars
    PROVE  UploadInv'
<1> USE DEF catalogVars, storeVars
<1>1. PICK to : to = [verb |-> "photo", step |-> "presigned", key |-> k, drop |-> {pending} \ {None}]
  OBVIOUS
<1>2. /\ job' = [job EXCEPT ![j] = to] /\ job[j] = Idle /\ staffer = "live"
      /\ pending' = k /\ photo' = photo
      /\ UNCHANGED <<object, policy, checked, staffer>>
  BY <1>1 DEF presign_photo, set_pending_photo
<1>3. policy[k] = "none" /\ ~ Minted(k)
  BY DEF presign_photo, NewKey, Minted
<1>4. to \in Job /\ to.step = "presigned" /\ to.key = k /\ to.verb = "photo"
  BY <1>1 DEF UploadInv, TypeOK, UploadTypeOK, Job
<1>5. job'[j] = to /\ (\A i \in Jobs \ {j} : job'[i] = job[i]) /\ job' \in [Jobs -> Job]
  BY <1>2, <1>4 DEF UploadInv, TypeOK, UploadTypeOK, Job
<1>6. TypeOK'
  BY <1>2, <1>5 DEF UploadInv, TypeOK, UploadTypeOK, Job
<1>7. Minted(k)' /\ \A x \in Keys : Minted(x) => Minted(x)'
  BY <1>2, <1>4, <1>5 DEF Minted, Idle
<1>8. \A x \in Keys : Kept(x)' => Kept(x) \/ x = k
  BY <1>2 DEF Kept
<1>9. media[k].status = "none" /\ k \notin checked /\ k # photo /\ k # pending /\ object[k] = "none"
  BY <1>3 DEF UploadInv, KeyOK, CardOK
<1>10. ASSUME NEW x \in Keys PROVE KeyMoves(x) /\ KeyOK(x)'
  BY <1>2, <1>3, <1>7, <1>8, <1>9 DEF UploadInv, KeyOK, KeyMoves, Dead, Kept
<1>11. CardOK'
  BY <1>2, <1>7, <1>9 DEF CardOK, UploadInv
<1>12. JobOK(j)'
  <2>1. \A d \in to.drop : d = pending /\ d # None /\ d \in Keys
    BY <1>1 DEF UploadInv, TypeOK, UploadTypeOK
  <2>2. \A d \in to.drop : Minted(d) /\ media[d].status = "none" /\ d # photo /\ d # k
    BY <1>9, <2>1 DEF UploadInv, CardOK
  <2>3. \A d \in to.drop : Minted(d)' /\ ~ Kept(d)'
    BY <1>2, <1>7, <2>1, <2>2 DEF Kept
  <2> QED
    BY <1>2, <1>3, <1>4, <1>5, <1>7, <1>9, <2>3 DEF JobOK
<1> QED
  BY <1>2, <1>3, <1>4, <1>5, <1>6, <1>10, <1>11, <1>12, OneMoves

\* A row that is let go of, or left alone.
LetsGo(k) ==
    \/ media'[k] = media[k]
    \/ /\ Here(k)
       /\ media'[k].status = media[k].status
       /\ media'[k].gone = "deleted"
       /\ media'[k].sort = media[k].sort

\* A presign closes, signed or not: what it replaced or swept is deleted, and its key
\* has a policy or never will.
LEMMA SignKeeps ==
    ASSUME UploadInv, NEW j \in Jobs, job[j].step = "presigned",
           delete_objects(job[j].drop), job' = [job EXCEPT ![j] = Idle],
           NEW p \in {"open", "spent"}, policy' = [policy EXCEPT ![job[j].key] = p],
           UNCHANGED <<checked, photo, staffer, dress, sizes, reserved>>,
           pending' \in {pending, None},
           media' \in [Keys -> DressMedia], \A k \in Keys : LetsGo(k)
    PROVE  UploadInv'
<1>1. PICK k \in Keys : k = job[j].key
  BY DEF UploadInv, JobOK
<1>2. PICK done \in {{}, job[j].drop} :
         object' = [x \in Keys |-> IF x \in done THEN "none" ELSE object[x]]
  BY DEF delete_objects
<1>3. policy[k] = "none" /\ object[k] = "none" /\ k \notin checked
  BY <1>1 DEF UploadInv, JobOK, KeyOK
<1>4. Idle \in Job /\ Idle.step = "none" /\ Idle.key = None /\ Idle.drop = {}
  BY DEF Idle, Job
<1>5. job' \in [Jobs -> Job] /\ job'[j] = Idle /\ \A i \in Jobs \ {j} : job'[i] = job[i]
  BY <1>4 DEF UploadInv, TypeOK, UploadTypeOK, Job
<1>6. TypeOK'
  BY <1>2, <1>5 DEF UploadInv, TypeOK, UploadTypeOK, Job
<1>7. policy'[k] = p /\ \A x \in Keys \ {k} : policy'[x] = policy[x]
  BY <1>1 DEF UploadInv, TypeOK, UploadTypeOK
<1>8. \A x \in Keys : Minted(x) => Minted(x)'
  BY <1>1, <1>5, <1>7 DEF Minted
<1>9. \A x \in Keys : Kept(x)' => Kept(x)
  BY DEF Kept, LetsGo, Here, UploadInv, TypeOK, UploadTypeOK
<1>10. \A x \in Keys : media'[x].status = media[x].status
  BY DEF LetsGo
<1>11. ASSUME NEW x \in Keys PROVE KeyMoves(x) /\ KeyOK(x)'
  <2>1. x \in done /\ Kept(x) => Dead(x)
    BY <1>2 DEF UploadInv, JobOK
  <2>2. media'[x].status = "none" => media'[x].gone = "no"
    BY DEF LetsGo, Here, UploadInv, KeyOK
  <2>3. KeyMoves(x)
    BY <1>2, <1>3, <1>7, <1>8, <1>9, <1>10 DEF KeyMoves, Dead
  <2>4. KeyOK(x)'
    BY <1>2, <1>3, <1>7, <1>8, <1>9, <1>10, <2>1, <2>2 DEF UploadInv, KeyOK, Dead
  <2> QED
    BY <2>3, <2>4
<1>12. CardOK'
  BY <1>8, <1>10 DEF CardOK, UploadInv, TypeOK, UploadTypeOK
<1>13. JobOK(j)'
  BY <1>4, <1>5 DEF JobOK
<1> QED
  BY <1>1, <1>4, <1>5, <1>6, <1>7, <1>11, <1>12, <1>13, OneMoves

\* The photograph's presign goes out.
LEMMA PhotoSignedKeeps ==
    ASSUME UploadInv, NEW j \in Jobs, photo_signed(j), UNCHANGED catalogVars
    PROVE  UploadInv'
<1>1. media' \in [Keys -> DressMedia] /\ \A k \in Keys : LetsGo(k)
  BY DEF LetsGo, catalogVars, UploadInv, TypeOK
<1> QED
  BY <1>1, SignKeeps DEF photo_signed, presigned_post, photoVars, catalogVars

\* Signing failed.
LEMMA PhotoNotSignedKeeps ==
    ASSUME UploadInv, NEW j \in Jobs, photo_not_signed(j), UNCHANGED catalogVars
    PROVE  UploadInv'
<1>1. media' \in [Keys -> DressMedia] /\ \A k \in Keys : LetsGo(k)
  BY DEF LetsGo, catalogVars, UploadInv, TypeOK
<1> QED
  BY <1>1, SignKeeps DEF photo_not_signed, catalogVars

\* A confirm reads a row: the pending key of the card, or an image that is here.
LEMMA ConfirmKeeps ==
    ASSUME UploadInv, NEW j \in Jobs, job[j] = Idle, NEW v \in {"photo", "media"}, NEW k \in Keys,
           job' = [job EXCEPT ![j] = [Idle EXCEPT !.verb = v, !.step = "read", !.key = k]],
           UNCHANGED <<storeVars, photoVars, catalogVars>>,
           Minted(k),
           v = "photo" => media[k].status = "none",
           v = "media" => media[k].status # "none"
    PROVE  UploadInv'
<1> USE DEF storeVars, photoVars, catalogVars
<1>1. PICK to : to = [Idle EXCEPT !.verb = v, !.step = "read", !.key = k]
  OBVIOUS
<1>2. to \in Job /\ to.step = "read" /\ to.verb = v /\ to.key = k /\ to.drop = {}
  BY <1>1 DEF Idle, Job
<1>3. job' = [job EXCEPT ![j] = to]
  BY <1>1
<1>4. job' \in [Jobs -> Job] /\ job'[j] = to /\ \A i \in Jobs \ {j} : job'[i] = job[i]
  BY <1>2, <1>3 DEF UploadInv, TypeOK, UploadTypeOK, Job
<1>5. TypeOK'
  BY <1>4 DEF UploadInv, TypeOK, UploadTypeOK, Job
<1>6. \A x \in Keys : Minted(x) => Minted(x)'
  BY <1>4 DEF Minted, Idle
<1>7. \A x \in Keys : KeyMoves(x) /\ KeyOK(x)'
  BY <1>6 DEF KeyMoves, KeyOK, Kept, Dead, UploadInv
<1>8. CardOK'
  BY <1>6 DEF CardOK, UploadInv, TypeOK, UploadTypeOK
<1>9. JobOK(j)'
  BY <1>2, <1>4, <1>6 DEF JobOK
<1> QED
  BY <1>2, <1>4, <1>5, <1>7, <1>8, <1>9, OneMoves

\* The photograph's confirm begins.
LEMMA ConfirmPhotoKeeps ==
    ASSUME UploadInv, NEW j \in Jobs, confirm_photo(j), UNCHANGED catalogVars
    PROVE  UploadInv'
<1>1. PICK k \in Keys : k = pending
  BY DEF confirm_photo, UploadInv, TypeOK, UploadTypeOK
<1>2. Minted(k) /\ media[k].status = "none"
  BY <1>1 DEF UploadInv, CardOK
<1>3. job' = [job EXCEPT ![j] = [Idle EXCEPT !.verb = "photo", !.step = "read", !.key = k]]
  BY <1>1 DEF confirm_photo
<1> QED
  BY <1>2, <1>3, ConfirmKeeps DEF confirm_photo

\* The object that was looked at is promoted, if the card still names it; the
\* photograph it replaces goes.
LEMMA PhotoPromotedKeeps ==
    ASSUME UploadInv, NEW j \in Jobs, photo_promoted(j), UNCHANGED catalogVars
    PROVE  UploadInv'
<1> USE DEF photo_promoted, storeVars
<1>1. PICK k \in Keys : k = job[j].key
  BY DEF UploadInv, JobOK
<1>2. k \in checked /\ job[j].step = "verified"
  BY <1>1 DEF UploadInv, JobOK
<1>3. CASE staffer = "live" /\ pending = k
  <2>1. photo' = k /\ pending' = None /\ Drop(j, superseded(k)) /\ staffer' = "live"
    BY <1>1, <1>3 DEF still_pending, promote_pending_photo
  <2>2. superseded(k) \in SUBSET Keys /\ \A x \in superseded(k) : x = photo /\ x # k /\ x # None
    BY DEF superseded, UploadInv, TypeOK, UploadTypeOK
  <2>3. \A x \in superseded(k) : Minted(x) /\ ~ Kept(x)'
    <3>1. \A x \in superseded(k) : media[x].status = "none" /\ policy[x] = "spent"
      BY <2>2 DEF UploadInv, CardOK, KeyOK
    <3> QED
      BY <2>1, <2>2, <3>1 DEF Minted, Kept, catalogVars
  <2> QED
    BY <1>2, <1>3, <2>1, <2>2, <2>3, CardMoves
<1>4. CASE ~ (staffer = "live" /\ pending = k)
  <2>1. photo' = photo /\ pending' = pending /\ Drop(j, {}) /\ staffer' = staffer
    BY <1>1, <1>4 DEF still_pending
  <2> QED
    BY <1>2, <2>1, CardMoves DEF UploadInv, CardOK, TypeOK, UploadTypeOK
<1> QED
  BY <1>3, <1>4

\* A rejected object goes; nothing shows it or ever will.
LEMMA RejectPhotoKeeps ==
    ASSUME UploadInv, NEW j \in Jobs, reject_photo(j), UNCHANGED catalogVars
    PROVE  UploadInv'
<1>1. PICK k \in Keys : k = job[j].key
  BY DEF UploadInv, JobOK, reject_photo
<1>2. Dead(k) /\ Minted(k) /\ job[j].step = "reject"
  BY <1>1 DEF UploadInv, JobOK, reject_photo
<1>3. /\ Drop(j, {k}) /\ staffer' = staffer /\ photo' = photo /\ pending' \in {pending, None}
      /\ UNCHANGED <<object, policy, checked>>
  BY <1>1 DEF reject_photo, storeVars
<1>4. {k} \in SUBSET Keys /\ \A x \in {k} : Minted(x) /\ (Kept(x)' => Dead(x))
  BY <1>2
<1> QED
  BY <1>2, <1>3, <1>4, CardMoves DEF UploadInv, CardOK, TypeOK, UploadTypeOK

\* The card is cleared, by her or with her.
LEMMA ClearKeeps ==
    ASSUME UploadInv, NEW j \in Jobs, delete_photo(j) \/ deactivate(j), UNCHANGED catalogVars
    PROVE  UploadInv'
<1>1. PICK ks : ks = {photo, pending} \ {None}
  OBVIOUS
<1>2. /\ Drop(j, ks) /\ staffer' \in {"live", "gone"} /\ photo' = None /\ pending' = None
      /\ UNCHANGED <<object, policy, checked>> /\ job[j] = Idle
  BY <1>1 DEF delete_photo, deactivate, clear_photo, storeVars
<1>3. ks \in SUBSET Keys /\ \A x \in ks : x \in {photo, pending} /\ x # None
  BY <1>1 DEF UploadInv, TypeOK, UploadTypeOK
<1>4. \A x \in ks : Minted(x) /\ ~ Kept(x)'
  <2>1. \A x \in ks : media[x].status = "none" /\ Minted(x)
    BY <1>3 DEF UploadInv, CardOK, KeyOK, Minted
  <2> QED
    BY <1>2, <1>3, <2>1 DEF Kept, catalogVars
<1>5. job[j].step # "presigned"
  BY <1>2 DEF Idle
<1> QED
  BY <1>2, <1>3, <1>4, <1>5, CardMoves

\* Every step of the photograph.
LEMMA PhotoNextKeeps ==
    ASSUME UploadInv, PhotoNext, UNCHANGED catalogVars
    PROVE  UploadInv'
BY PostKeeps, DeletesKeep, LookKeeps, PhotoSignedKeeps, PhotoNotSignedKeeps, ConfirmPhotoKeeps,
   PhotoPromotedKeeps, RejectPhotoKeeps, ClearKeeps, PresignPhotoKeeps DEF PhotoNext

----------------------------------------------------------------------------
(* The gallery and the store. *)

\* A row that is deleted, and nothing else of the gallery.
LEMMA SoftDeletes ==
    ASSUME UploadInv, NEW k \in Keys, media' = media_soft_delete(k)
    PROVE  /\ media' \in [Keys -> DressMedia] /\ \A x \in Keys : LetsGo(x)
           /\ \A x \in Keys \ {k} : media'[x] = media[x]
           /\ Here(k) => media'[k].gone = "deleted" /\ media'[k].status = media[k].status
<1>1. media \in [Keys -> DressMedia]
  BY DEF UploadInv, TypeOK
<1>2. CASE Here(k)
  <2>1. PICK row : row = [media[k] EXCEPT !.gone = "deleted"]
    OBVIOUS
  <2>2. media' = [media EXCEPT ![k] = row]
    BY <1>2, <2>1 DEF media_soft_delete
  <2>3. row \in DressMedia /\ row.gone = "deleted" /\ row.status = media[k].status
      /\ row.sort = media[k].sort
    BY <1>1, <2>1 DEF DressMedia
  <2> QED
    BY <1>1, <1>2, <2>2, <2>3 DEF LetsGo
<1>3. CASE ~ Here(k)
  BY <1>1, <1>3 DEF media_soft_delete, LetsGo
<1> QED
  BY <1>2, <1>3

\* A policy for an image goes out, or its slot is given back.
LEMMA MediaSignedKeeps ==
    ASSUME UploadInv, NEW j \in Jobs, media_signed(j)
    PROVE  UploadInv'
<1>1. PICK k \in Keys : k = job[j].key
  BY DEF UploadInv, JobOK, media_signed
<1>2. CASE presigned_post(k) /\ UNCHANGED media
  <2>1. media' \in [Keys -> DressMedia] /\ \A x \in Keys : LetsGo(x)
    BY <1>2 DEF LetsGo, UploadInv, TypeOK
  <2> QED
    BY <1>1, <1>2, <2>1, SignKeeps DEF media_signed, presigned_post, photoVars
<1>3. CASE policy' = [policy EXCEPT ![k] = "spent"] /\ media' = release_pending(k)
  <2>1. media' \in [Keys -> DressMedia] /\ \A x \in Keys : LetsGo(x)
    BY <1>3, SoftDeletes DEF release_pending
  <2> QED
    BY <1>1, <1>3, <2>1, SignKeeps DEF media_signed, photoVars
<1> QED
  BY <1>1, <1>2, <1>3 DEF media_signed

\* Rows of the gallery change, of images that are where they were: none appears, none
\* comes back, and a row that becomes ready was checked.
LEMMA RowsMove ==
    ASSUME UploadInv, NEW j, NEW ks \in SUBSET Keys,
           \/ job' = job /\ ks = {}
           \/ j \in Jobs /\ Drop(j, ks) /\ job[j].step # "presigned",
           UNCHANGED <<object, checked, photoVars>>, dress' \in {"live", "archived"},
           policy' \in [Keys -> {"none", "open", "spent"}],
           \A k \in Keys : policy'[k] # policy[k] => policy[k] # "none" /\ policy'[k] = "spent",
           media' \in [Keys -> DressMedia],
           sizes' \in [live : 0..1, archived : 0..1],
           reserved' = reserved,
           \A k \in Keys :
              /\ media'[k].status = "none" <=> media[k].status = "none"
              /\ media'[k].status = "none" => media'[k].gone = "no"
              /\ media'[k].gone # "deleted" => media[k].gone # "deleted"
              /\ media'[k].status = "ready" => k \in checked,
           \A k \in ks : Minted(k) /\ (Kept(k)' => Dead(k))
    PROVE  UploadInv'
<1> USE DEF photoVars
<1>1. job \in [Jobs -> Job]
  BY DEF UploadInv, TypeOK, UploadTypeOK, Job
<1>2. /\ job' \in [Jobs -> Job]
      /\ \A i \in Jobs \ {j} : job'[i] = job[i]
      /\ job' # job => job[j].step # "presigned" /\ job'[j].step # "presigned"
  BY <1>1, DropJob
<1>3. UploadTypeOK'
  BY <1>2 DEF UploadInv, TypeOK, UploadTypeOK, Job
<1>4. TypeOK'
  BY <1>3 DEF UploadInv, TypeOK
<1>5. \A k \in Keys : policy[k] # "none" => policy'[k] # "none"
  OBVIOUS
<1>6. ASSUME NEW x \in Keys PROVE KeyMoves(x) /\ KeyOK(x)'
  <2>1. Minted(x) => Minted(x)'
    BY <1>2, <1>5 DEF Minted
  <2>2. Kept(x)' => Kept(x)
    BY DEF Kept, UploadInv, TypeOK, UploadTypeOK
  <2>3. policy[x] = "spent" => policy'[x] = "spent"
    OBVIOUS
  <2>4. media[x].status # "none" => Minted(x)'
    BY <2>1 DEF UploadInv, KeyOK
  <2> QED
    BY <2>1, <2>2, <2>3, <2>4 DEF KeyMoves, KeyOK, UploadInv, Dead
<1>7. CardOK'
  BY <1>6 DEF CardOK, UploadInv, KeyMoves, TypeOK, UploadTypeOK
<1>8. CASE job' = job
  <2>1. \A k \in Keys : policy'[k] # policy[k] => policy[k] # "none"
    OBVIOUS
  <2> QED
    BY <1>4, <1>6, <1>7, <1>8, <2>1, NoneMoves
<1>9. CASE job' # job
  <2>0. j \in Jobs /\ Drop(j, ks) /\ job[j].step # "presigned"
    BY <1>9
  <2>1. \A k \in ks : Minted(k)' /\ (Kept(k)' => Dead(k)')
    BY <1>6 DEF KeyMoves, Dead
  <2>2. JobOK(j)'
    BY <2>0, <2>1, DropOK
  <2>3. \A k \in Keys : policy'[k] # policy[k] => policy[k] # "none"
    OBVIOUS
  <2> QED
    BY <1>2, <1>4, <1>6, <1>7, <1>9, <2>0, <2>2, <2>3, OneMoves
<1> QED
  BY <1>8, <1>9

\* An object that a confirm rejected goes, and its row stays.
LEMMA RejectKeeps ==
    ASSUME UploadInv, NEW j \in Jobs, reject_object(j)
    PROVE  UploadInv'
<1>1. PICK k \in Keys : k = job[j].key
  BY DEF UploadInv, JobOK, reject_object
<1>2. Dead(k) /\ Minted(k) /\ job[j].step = "reject"
  BY <1>1 DEF UploadInv, JobOK, reject_object
<1>3. Drop(j, {k}) /\ UNCHANGED <<storeVars, photoVars, catalogVars>>
  BY <1>1 DEF reject_object
<1>4. \A x \in Keys : KeyOK(x)
  BY DEF UploadInv
<1> QED
  BY <1>2, <1>3, <1>4, RowsMove
  DEF storeVars, photoVars, catalogVars, UploadInv, TypeOK, UploadTypeOK, KeyOK

\* An image is deleted.
LEMMA DeleteMediaKeeps ==
    ASSUME UploadInv, NEW j \in Jobs, NEW k \in Keys, delete_media(j, k)
    PROVE  UploadInv'
<1>1. /\ job[j] = Idle /\ Here(k) /\ media' = media_soft_delete(k) /\ Drop(j, {k})
      /\ UNCHANGED <<object, checked, photoVars, dress>> /\ policy' = policy
      /\ UNCHANGED <<sizes, reserved>>
  BY DEF delete_media, storeVars
<1>2. /\ media' \in [Keys -> DressMedia] /\ \A x \in Keys \ {k} : media'[x] = media[x]
      /\ media'[k].gone = "deleted" /\ media'[k].status = media[k].status
  BY <1>1, SoftDeletes
<1>3. k # photo /\ k # pending /\ Minted(k) /\ media[k].status # "none"
  BY <1>1 DEF UploadInv, CardOK, KeyOK, Here, TypeOK, UploadTypeOK
<1>4. ~ Kept(k)'
  BY <1>1, <1>2, <1>3 DEF Kept, photoVars
<1>5. \A x \in Keys :
         /\ media'[x].status = "none" <=> media[x].status = "none"
         /\ media'[x].status = "none" => media'[x].gone = "no"
         /\ media'[x].gone # "deleted" => media[x].gone # "deleted"
         /\ media'[x].status = "ready" => x \in checked
  BY <1>2, <1>3 DEF UploadInv, KeyOK
<1>6. job[j].step # "presigned"
  BY <1>1 DEF Idle
<1> QED
  BY <1>1, <1>2, <1>3, <1>4, <1>5, <1>6, RowsMove DEF UploadInv, TypeOK, UploadTypeOK

\* Requests, images and the card stay; rows of the gallery change in place.
LEMMA QuietKeeps ==
    ASSUME UploadInv, UNCHANGED <<object, checked, job, photoVars, reserved>>, dress' \in {"live", "archived"},
           policy' \in [Keys -> {"none", "open", "spent"}],
           \A k \in Keys : policy'[k] # policy[k] => policy[k] # "none" /\ policy'[k] = "spent",
           media' \in [Keys -> DressMedia],
           sizes' \in [live : 0..1, archived : 0..1],
           \A k \in Keys :
              /\ media'[k].status = media[k].status
              /\ media'[k].status = "none" => media'[k].gone = "no"
              /\ media'[k].gone = "deleted" <=> media[k].gone = "deleted"
    PROVE  UploadInv'
<1>1. \A k \in Keys : media'[k].status = "ready" => k \in checked
  BY DEF UploadInv, KeyOK
<1>2. {} \in SUBSET Keys
  OBVIOUS
<1>3. PICK j : TRUE
  OBVIOUS
<1> QED
  BY <1>1, <1>2, <1>3, RowsMove

\* A policy's hour is over.
LEMMA StaleKeeps ==
    ASSUME UploadInv, NEW k \in Keys, goes_stale(k)
    PROVE  UploadInv'
<1>1. PICK row : row = [media[k] EXCEPT !.stale = TRUE]
  OBVIOUS
<1>2. media' = [media EXCEPT ![k] = row] /\ media \in [Keys -> DressMedia]
  BY <1>1 DEF goes_stale, UploadInv, TypeOK
<1>3. row \in DressMedia /\ row.status = media[k].status /\ row.gone = media[k].gone
  BY <1>1, <1>2 DEF DressMedia
<1>4. /\ media' \in [Keys -> DressMedia]
      /\ \A x \in Keys : media'[x].status = media[x].status /\ media'[x].gone = media[x].gone
  BY <1>2, <1>3
<1>5. \A x \in Keys : media'[x].status = "none" => media'[x].gone = "no"
  BY <1>4 DEF UploadInv, KeyOK
<1>6. /\ UNCHANGED <<object, checked, job, photoVars, dress, reserved>>
      /\ policy' = [policy EXCEPT ![k] = "spent"] /\ policy[k] # "none" /\ sizes' = sizes
  BY DEF goes_stale
<1>7. /\ sizes \in [live : 0..1, archived : 0..1] /\ dress \in {"live", "archived"}
      /\ policy \in [Keys -> {"none", "open", "spent"}]
  BY DEF UploadInv, TypeOK, UploadTypeOK
<1> QED
  BY <1>4, <1>5, <1>6, <1>7, QuietKeeps

\* Positions are given anew.
LEMMA ReorderRows ==
    ASSUME media \in [Keys -> DressMedia], reorder_media
    PROVE  /\ media' \in [Keys -> DressMedia]
           /\ \A x \in Keys : /\ media'[x].status = media[x].status
                              /\ media'[x].gone = media[x].gone
                              /\ x \notin list_ready => media'[x] = media[x]
           /\ \A x \in list_ready : media'[x].sort \in 0..(Cardinality(list_ready) - 1)
           /\ \A a, b \in list_ready : a # b => media'[a].sort # media'[b].sort
<1>1. PICK order \in [list_ready -> 0..(Cardinality(list_ready) - 1)] :
         /\ \A a, b \in list_ready : a # b => order[a] # order[b]
         /\ media' = [k \in Keys |-> IF k \in list_ready THEN set_sort_order(k, order[k])
                                     ELSE media[k]]
  BY DEF reorder_media
<1>2. list_ready \in SUBSET Keys
  BY DEF list_ready
<1>3. Cardinality(list_ready) \in Nat /\ Cardinality(Keys) \in Nat
      /\ Cardinality(list_ready) <= Cardinality(Keys)
  <2>1. IsFiniteSet(list_ready)
    BY <1>2, FS_Subset
  <2> QED
    BY <1>2, <2>1, FS_Subset, FS_CardinalityType
<1>4. ASSUME NEW x \in list_ready
      PROVE  /\ media'[x] \in DressMedia /\ media'[x].status = media[x].status
             /\ media'[x].gone = media[x].gone /\ media'[x].sort = order[x]
  <2>1. PICK n \in 0..Cardinality(Keys) : n = order[x]
    BY <1>1, <1>3
  <2>2. media'[x] = [media[x] EXCEPT !.sort = n] /\ media[x] \in DressMedia
    BY <1>1, <1>2, <2>1 DEF set_sort_order
  <2> QED
    BY <2>1, <2>2 DEF DressMedia
<1>5. \A x \in Keys \ list_ready : media'[x] = media[x]
  BY <1>1
<1>6. media' \in [Keys -> DressMedia]
  <2>1. \A x \in Keys : media'[x] \in DressMedia
    BY <1>4, <1>5
  <2> QED
    BY <1>1, <2>1
<1>7. \A x \in list_ready : media'[x].sort \in 0..(Cardinality(list_ready) - 1)
  BY <1>1, <1>4
<1>8. \A a, b \in list_ready : a # b => media'[a].sort # media'[b].sort
  BY <1>1, <1>4
<1>9. \A x \in Keys : media'[x].status = media[x].status /\ media'[x].gone = media[x].gone
  BY <1>4, <1>5
<1> QED
  BY <1>5, <1>6, <1>7, <1>8, <1>9

\* A drag of the gallery.
LEMMA ReorderKeeps ==
    ASSUME UploadInv, reorder_media
    PROVE  UploadInv'
<1>1. /\ media' \in [Keys -> DressMedia]
      /\ \A x \in Keys : media'[x].status = media[x].status /\ media'[x].gone = media[x].gone
  BY ReorderRows DEF UploadInv, TypeOK
<1>2. \A x \in Keys : media'[x].status = "none" => media'[x].gone = "no"
  BY <1>1 DEF UploadInv, KeyOK
<1>3. UNCHANGED <<object, checked, job, photoVars, dress, reserved>> /\ policy' = policy /\ sizes' = sizes
  BY DEF reorder_media, storeVars
<1>4. /\ sizes \in [live : 0..1, archived : 0..1] /\ dress \in {"live", "archived"}
      /\ policy \in [Keys -> {"none", "open", "spent"}]
  BY DEF UploadInv, TypeOK, UploadTypeOK
<1> QED
  BY <1>1, <1>2, <1>3, <1>4, QuietKeeps

\* The rows of an archive: all that was here is stamped.
LEMMA ArchiveRows ==
    ASSUME media \in [Keys -> DressMedia], archive_dress
    PROVE  /\ media' \in [Keys -> DressMedia]
           /\ \A x \in Keys :
                 /\ media'[x].status = media[x].status /\ media'[x].sort = media[x].sort
                 /\ media'[x].gone = IF Here(x) THEN "archived" ELSE media[x].gone
<1>1. media' = [k \in Keys |-> IF Here(k) THEN [media[k] EXCEPT !.gone = "archived"] ELSE media[k]]
  BY DEF archive_dress, soft_delete_all
<1>2. ASSUME NEW x \in Keys
      PROVE  /\ media'[x] \in DressMedia
             /\ media'[x].status = media[x].status /\ media'[x].sort = media[x].sort
             /\ media'[x].gone = IF Here(x) THEN "archived" ELSE media[x].gone
  <2>1. CASE Here(x)
    <3>1. media'[x] = [media[x] EXCEPT !.gone = "archived"] /\ media[x] \in DressMedia
      BY <1>1, <2>1
    <3> QED
      BY <2>1, <3>1 DEF DressMedia
  <2>2. CASE ~ Here(x)
    BY <1>1, <2>2
  <2> QED
    BY <2>1, <2>2
<1> QED
  BY <1>1, <1>2

\* The rows of a restore: what carries the stamp is here again.
LEMMA RestoreRows ==
    ASSUME media \in [Keys -> DressMedia], restore_dress
    PROVE  /\ media' \in [Keys -> DressMedia]
           /\ \A x \in Keys :
                 /\ media'[x].status = media[x].status /\ media'[x].sort = media[x].sort
                 /\ media'[x].gone = IF media[x].gone = "archived" THEN "no" ELSE media[x].gone
<1>1. media' = [k \in Keys |-> IF archived_with(k) THEN [media[k] EXCEPT !.gone = "no"] ELSE media[k]]
  BY DEF restore_dress
<1>2. ASSUME NEW x \in Keys
      PROVE  /\ media'[x] \in DressMedia
             /\ media'[x].status = media[x].status /\ media'[x].sort = media[x].sort
             /\ media'[x].gone = IF media[x].gone = "archived" THEN "no" ELSE media[x].gone
  <2>1. CASE media[x].gone = "archived"
    <3>1. media'[x] = [media[x] EXCEPT !.gone = "no"] /\ media[x] \in DressMedia
      BY <1>1, <2>1 DEF archived_with
    <3> QED
      BY <2>1, <3>1 DEF DressMedia
  <2>2. CASE media[x].gone # "archived"
    BY <1>1, <2>2 DEF archived_with
  <2> QED
    BY <2>1, <2>2
<1> QED
  BY <1>1, <1>2

\* The gown goes.
LEMMA ArchiveKeeps ==
    ASSUME UploadInv, archive_dress
    PROVE  UploadInv'
<1>1. /\ media' \in [Keys -> DressMedia]
      /\ \A x \in Keys : /\ media'[x].status = media[x].status
                         /\ media'[x].gone = IF Here(x) THEN "archived" ELSE media[x].gone
  BY ArchiveRows DEF UploadInv, TypeOK
<1>2. \A x \in Keys : /\ media'[x].status = "none" => media'[x].gone = "no"
                      /\ media'[x].gone = "deleted" <=> media[x].gone = "deleted"
  BY <1>1 DEF UploadInv, KeyOK, Here
<1>3. /\ UNCHANGED <<object, checked, job, photoVars, reserved>> /\ policy' = policy
      /\ dress' = "archived" /\ sizes' = [live |-> 0, archived |-> sizes.live]
  BY DEF archive_dress, dresses_soft_delete, variants_soft_delete_all, storeVars
<1>4. sizes \in [live : 0..1, archived : 0..1] /\ policy \in [Keys -> {"none", "open", "spent"}]
  BY DEF UploadInv, TypeOK, UploadTypeOK
<1>5. sizes' \in [live : 0..1, archived : 0..1]
  BY <1>3, <1>4
<1> QED
  BY <1>1, <1>2, <1>3, <1>4, <1>5, QuietKeeps

\* The gown returns.
LEMMA RestoreKeeps ==
    ASSUME UploadInv, restore_dress
    PROVE  UploadInv'
<1>1. /\ media' \in [Keys -> DressMedia]
      /\ \A x \in Keys : /\ media'[x].status = media[x].status
                         /\ media'[x].gone = IF media[x].gone = "archived" THEN "no" ELSE media[x].gone
  BY RestoreRows DEF UploadInv, TypeOK
<1>2. \A x \in Keys : /\ media'[x].status = "none" => media'[x].gone = "no"
                      /\ media'[x].gone = "deleted" <=> media[x].gone = "deleted"
  BY <1>1 DEF UploadInv, KeyOK
<1>3. /\ UNCHANGED <<object, checked, job, photoVars, reserved>> /\ policy' = policy
      /\ dress' = "live" /\ sizes' = [live |-> sizes.live + sizes.archived, archived |-> 0]
      /\ sizes.live + sizes.archived <= 1
  BY DEF restore_dress, dresses_restore, variants_restore_archived_with,
         idx_dress_variants_dress_size_unique, storeVars
<1>4. sizes \in [live : 0..1, archived : 0..1] /\ policy \in [Keys -> {"none", "open", "spent"}]
  BY DEF UploadInv, TypeOK, UploadTypeOK
<1>5. sizes' \in [live : 0..1, archived : 0..1]
  BY <1>3, <1>4
<1> QED
  BY <1>1, <1>2, <1>3, <1>4, <1>5, QuietKeeps

\* The sizes are replaced.
LEMMA SizesKeep ==
    ASSUME UploadInv, replace_variants
    PROVE  UploadInv'
<1>1. /\ UNCHANGED <<object, policy, checked, job, photoVars, dress, media, reserved>>
  BY DEF replace_variants, storeVars
<1>2. /\ sizes \in [live : 0..1, archived : 0..1] /\ dress \in {"live", "archived"}
      /\ policy \in [Keys -> {"none", "open", "spent"}] /\ media \in [Keys -> DressMedia]
  BY DEF UploadInv, TypeOK, UploadTypeOK
<1>3. sizes' \in [live : 0..1, archived : 0..1]
  <2>1. PICK none : none = [sizes EXCEPT !.live = 0]
    OBVIOUS
  <2>2. none \in [live : 0..1, archived : 0..1]
    BY <1>2, <2>1
  <2>3. [none EXCEPT !.live = 1] \in [live : 0..1, archived : 0..1]
    BY <2>2
  <2> QED
    BY <2>1, <2>2, <2>3 DEF replace_variants, variants_insert
<1>4. \A x \in Keys : media[x].status = "none" => media[x].gone = "no"
  BY DEF UploadInv, KeyOK
<1> QED
  BY <1>1, <1>2, <1>3, <1>4, QuietKeeps

\* A range is reserved or given up.
LEMMA ReservationsKeep ==
    ASSUME UploadInv, NEW r \in Reservations,
           \/ delete_reservation(r)
           \/ \E from, to \in Days : create_reservation(r, from, to)
    PROVE  UploadInv'
<1>1. /\ UNCHANGED <<object, policy, checked, job, photoVars, dress, media, sizes>>
      /\ reserved' \in [Reservations -> {<<>>} \union {d \in Days \X Days : d[1] <= d[2]}]
  <2>1. reserved \in [Reservations -> {<<>>} \union {d \in Days \X Days : d[1] <= d[2]}]
    BY DEF UploadInv, TypeOK
  <2>2. CASE delete_reservation(r)
    BY <2>1, <2>2 DEF delete_reservation, reservations_soft_delete, storeVars
  <2>3. ASSUME NEW from \in Days, NEW to \in Days, create_reservation(r, from, to)
        PROVE  <1>1!1 /\ <1>1!2
    <3>1. <<from, to>> \in {d \in Days \X Days : d[1] <= d[2]}
      BY <2>3 DEF create_reservation
    <3> QED
      BY <2>1, <2>3, <3>1 DEF create_reservation, reservations_insert, storeVars
  <2> QED
    BY <2>2, <2>3
<1>2. TypeOK'
  BY <1>1 DEF UploadInv, TypeOK, UploadTypeOK, photoVars
<1> QED
  BY <1>1, <1>2 DEF UploadInv, JobOK, OneMinter, KeyOK, CardOK, Minted, Dead, Kept, photoVars

\* A presign of an image: stale slots are swept, a new key gets a row.
LEMMA PresignMediaKeeps ==
    ASSUME UploadInv, NEW j \in Jobs, NEW k \in Keys, presign_media(j, k)
    PROVE  UploadInv'
<1>1. PICK S \in SUBSET Keys : S = stale_pendings
  BY DEF stale_pendings
<1>2. PICK to : to = [verb |-> "media", step |-> "presigned", key |-> k, drop |-> S]
  OBVIOUS
<1>3. /\ job' = [job EXCEPT ![j] = to] /\ job[j] = Idle
      /\ UNCHANGED <<object, policy, checked, staffer, photo, pending, dress, sizes, reserved>>
      /\ media' = [m \in Keys |-> IF m = k THEN insert_pending
                                  ELSE IF m \in S THEN swept(m) ELSE media[m]]
  BY <1>1, <1>2 DEF presign_media, storeVars, photoVars
<1>4. policy[k] = "none" /\ ~ Minted(k)
  BY DEF presign_media, NewKey, Minted
<1>5. to \in Job /\ to.step = "presigned" /\ to.key = k /\ to.verb = "media" /\ to.drop = S
  BY <1>1, <1>2 DEF Job
<1>6. job'[j] = to /\ (\A i \in Jobs \ {j} : job'[i] = job[i]) /\ job' \in [Jobs -> Job]
  BY <1>3, <1>5 DEF UploadInv, TypeOK, UploadTypeOK, Job
<1>7. media[k].status = "none" /\ k \notin checked /\ k # photo /\ k # pending /\ object[k] = "none"
  BY <1>4 DEF UploadInv, KeyOK, CardOK, Minted
<1>8. k \notin S
  BY <1>1, <1>7 DEF stale_pendings, Here
<1>9. /\ media'[k] \in DressMedia /\ media'[k].status = "pending" /\ media'[k].gone = "no"
  <2>1. Cardinality(Keys) \in Nat
    BY FS_CardinalityType
  <2>2. insert_pending \in DressMedia /\ insert_pending.status = "pending" /\ insert_pending.gone = "no"
    <3>1. NoMedia \in DressMedia /\ NoMedia.gone = "no"
      BY <2>1 DEF NoMedia, DressMedia
    <3>2. insert_pending = [NoMedia EXCEPT !.status = "pending"]
      BY DEF insert_pending
    <3> QED
      BY <3>1, <3>2 DEF DressMedia, DressMediaStatus
  <2> QED
    BY <1>3, <2>2
<1>10. \A x \in S : /\ media'[x] \in DressMedia /\ media'[x].status = "pending"
                    /\ media'[x].gone = "deleted" /\ media[x].status = "pending"
  <2> TAKE x \in S
  <2>1. media'[x] = [media[x] EXCEPT !.gone = "deleted"] /\ media[x] \in DressMedia
    BY <1>3, <1>8 DEF swept, UploadInv, TypeOK
  <2>2. media[x].status = "pending"
    BY <1>1 DEF stale_pendings
  <2> QED
    BY <2>1, <2>2 DEF DressMedia
<1>11. \A x \in Keys : x # k /\ x \notin S => media'[x] = media[x]
  BY <1>3
<1>12. media' \in [Keys -> DressMedia]
  <2>1. \A x \in Keys : media'[x] \in DressMedia
    BY <1>9, <1>10, <1>11 DEF UploadInv, TypeOK
  <2> QED
    BY <1>3, <2>1
<1>13. TypeOK'
  BY <1>3, <1>6, <1>12 DEF UploadInv, TypeOK, UploadTypeOK, Job
<1>14. Minted(k)' /\ \A x \in Keys : Minted(x) => Minted(x)'
  BY <1>3, <1>5, <1>6 DEF Minted, Idle
<1>15. \A x \in Keys : Kept(x)' => Kept(x) \/ x = k
  BY <1>3, <1>10, <1>11 DEF Kept
<1>16. ASSUME NEW x \in Keys PROVE KeyMoves(x) /\ KeyOK(x)'
  <2>1. KeyMoves(x)
    BY <1>3, <1>4, <1>10, <1>11, <1>14, <1>15 DEF KeyMoves, Dead
  <2>2. media'[x].status # "none" => Minted(x)'
    BY <1>11, <1>10, <1>14 DEF UploadInv, KeyOK
  <2>3. /\ media'[x].status = "none" => media'[x].gone = "no"
        /\ media'[x].status = "ready" => x \in checked
    BY <1>9, <1>10, <1>11 DEF UploadInv, KeyOK
  <2>4. KeyOK(x)'
    BY <1>3, <1>7, <1>15, <2>2, <2>3 DEF UploadInv, KeyOK
  <2> QED
    BY <2>1, <2>4
<1>17. CardOK'
  BY <1>3, <1>7, <1>10, <1>11, <1>14 DEF CardOK, UploadInv, TypeOK, UploadTypeOK
<1>18. JobOK(j)'
  <2>1. \A d \in S : Minted(d) /\ d # photo /\ d # pending
    BY <1>10 DEF UploadInv, CardOK, KeyOK, TypeOK, UploadTypeOK
  <2>2. \A d \in S : Minted(d)' /\ ~ Kept(d)'
    BY <1>3, <1>10, <1>14, <2>1 DEF Kept
  <2> QED
    BY <1>3, <1>4, <1>5, <1>6, <1>9, <1>14, <2>2 DEF JobOK
<1> QED
  BY <1>3, <1>4, <1>5, <1>6, <1>13, <1>16, <1>17, <1>18, OneMoves

\* A confirm of an image begins.
LEMMA ConfirmMediaKeeps ==
    ASSUME UploadInv, NEW j \in Jobs, NEW k \in Keys, confirm_media(j, k)
    PROVE  UploadInv'
<1>1. Minted(k) /\ media[k].status # "none"
  BY DEF confirm_media, UploadInv, KeyOK
<1> QED
  BY <1>1, ConfirmKeeps DEF confirm_media

\* A bounded set of positions has a greatest one.
LEMMA GreatestPosition ==
    ASSUME NEW N \in Nat, NEW S \in SUBSET (0..N), S # {}
    PROVE  \E p \in S : \A q \in S : q <= p
<1> DEFINE T == {N - p : p \in S}
<1>1. T \subseteq Nat /\ T # {}
  <2>1. \A p \in S : p \in 0..N /\ N - p \in Nat
    OBVIOUS
  <2>2. PICK p \in S : TRUE
    OBVIOUS
  <2> QED
    BY <2>1, <2>2
<1>2. PICK x \in T : \A y \in T : ~ (<<y, x>> \in OpToRel(<, Nat))
  <2>1. IsWellFoundedOn(OpToRel(<, Nat), Nat)
    BY NatLessThanWellFounded
  <2> QED
    BY <1>1, <2>1, WFMin
<1>3. \A y \in T : ~ (y < x)
  BY <1>1, <1>2 DEF OpToRel
<1>4. PICK p \in S : x = N - p
  OBVIOUS
<1>5. \A q \in S : q <= p
  <2> TAKE q \in S
  <2>1. ~ (N - q < N - p)
    BY <1>3, <1>4
  <2> QED
    BY <2>1
<1> QED
  BY <1>5

\* The next position is past every image that is here, and no larger than their
\* number: each row was given a position once, and a drag closes the gaps.
LEMMA NextPosition ==
    ASSUME IInv
    PROVE  /\ next_sort \in Nat /\ next_sort <= Cardinality(Ready)
           /\ \A k \in list_ready : media[k].sort < next_sort
<1>1. Cardinality(Keys) \in Nat /\ Cardinality(Ready) \in Nat
  <2>1. IsFiniteSet(Ready)
    BY FS_Subset DEF Ready
  <2> QED
    BY <2>1, FS_CardinalityType
<1>2. list_ready \subseteq Ready /\ Ready \subseteq Keys
  BY DEF list_ready, Ready
<1>3. \A k \in list_ready : media[k].sort \in 0..Cardinality(Keys) /\ media[k].sort < Cardinality(Ready)
  BY <1>2 DEF IInv, UploadInv, TypeOK, DressMedia, GalleryInv, PlacesOK
<1>4. CASE list_ready = {}
  BY <1>1, <1>4 DEF next_sort
<1>5. CASE list_ready # {}
  <2> DEFINE S == {media[k].sort : k \in list_ready}
             Last(n) == /\ \E k \in list_ready : media[k].sort = n
                        /\ \A k \in list_ready : media[k].sort <= n
  <2>1. S \in SUBSET (0..Cardinality(Keys)) /\ S # {}
    BY <1>3, <1>5
  <2>2. PICK p \in S : \A q \in S : q <= p
    BY <1>1, <2>1, GreatestPosition
  <2>3. p \in 0..Cardinality(Keys) /\ Last(p)
    BY <2>1, <2>2
  <2>4. PICK n : n = CHOOSE m \in 0..Cardinality(Keys) : Last(m)
    OBVIOUS
  <2>5. n \in 0..Cardinality(Keys) /\ Last(n)
    BY <2>3, <2>4
  <2>6. next_sort = 1 + n
    BY <1>5, <2>4 DEF next_sort
  <2> QED
    BY <1>1, <1>3, <2>5, <2>6
<1> QED
  BY <1>4, <1>5

\* The row that a confirm promotes, if it still may.
LEMMA PromotedRow ==
    ASSUME IInv, NEW j \in Jobs, media_promoted(j), NEW k \in Keys, k = job[j].key,
           NEW n, n = next_sort
    PROVE  /\ media' \in [Keys -> DressMedia]
           /\ \A x \in Keys \ {k} : media'[x] = media[x]
           /\ ~ promote_to_ready(k) => media'[k] = media[k]
           /\ promote_to_ready(k) => /\ media'[k].status = "ready" /\ media'[k].gone = media[k].gone
                                     /\ media'[k].sort = n
<1>1. n \in 0..Cardinality(Keys)
  <2>1. Ready \in SUBSET Keys
    BY DEF Ready
  <2>2. Cardinality(Ready) <= Cardinality(Keys) /\ Cardinality(Keys) \in Nat /\ Cardinality(Ready) \in Nat
    BY <2>1, FS_Subset, FS_CardinalityType
  <2> QED
    BY <2>2, NextPosition
<1>2. media \in [Keys -> DressMedia]
  BY DEF IInv, UploadInv, TypeOK
<1>3. CASE promote_to_ready(k)
  <2>1. PICK row : row = [media[k] EXCEPT !.status = "ready", !.stale = FALSE, !.sort = n]
    OBVIOUS
  <2>2. media' = [media EXCEPT ![k] = row]
    BY <1>3, <2>1 DEF media_promoted
  <2>3. row \in DressMedia /\ row.status = "ready" /\ row.gone = media[k].gone /\ row.sort = n
    <3>1. media[k] \in DressMedia
      BY <1>2
    <3> QED
      BY <1>1, <2>1, <3>1 DEF DressMedia, DressMediaStatus
  <2> QED
    BY <1>2, <1>3, <2>2, <2>3
<1>4. CASE ~ promote_to_ready(k)
  BY <1>2, <1>4 DEF media_promoted
<1> QED
  BY <1>3, <1>4

\* The second transaction of a confirm.
LEMMA MediaPromotedKeeps ==
    ASSUME IInv, NEW j \in Jobs, media_promoted(j)
    PROVE  UploadInv'
<1>1. PICK k \in Keys : k = job[j].key
  BY DEF IInv, UploadInv, JobOK, media_promoted
<1>2. k \in checked /\ job[j].step = "verified"
  BY <1>1 DEF IInv, UploadInv, JobOK, media_promoted
<1>3. PICK n : n = next_sort
  OBVIOUS
<1>4. /\ media' \in [Keys -> DressMedia]
      /\ \A x \in Keys \ {k} : media'[x] = media[x]
      /\ ~ promote_to_ready(k) => media'[k] = media[k]
      /\ promote_to_ready(k) => media'[k].status = "ready" /\ media'[k].gone = media[k].gone
  BY <1>1, <1>3, PromotedRow
<1>5. Drop(j, {}) /\ UNCHANGED <<object, policy, checked, photoVars, dress, sizes, reserved>>
  BY DEF media_promoted, Drop, storeVars
<1>6. \A x \in Keys :
         /\ media'[x].status = "none" <=> media[x].status = "none"
         /\ media'[x].status = "none" => media'[x].gone = "no"
         /\ media'[x].gone # "deleted" => media[x].gone # "deleted"
         /\ media'[x].status = "ready" => x \in checked
  BY <1>2, <1>4 DEF IInv, UploadInv, KeyOK, promote_to_ready
<1> QED
  BY <1>2, <1>4, <1>5, <1>6, RowsMove DEF IInv, UploadInv, TypeOK, UploadTypeOK

----------------------------------------------------------------------------
(* The archive, the positions and the ranges. *)

\* Nothing comes to be here, or to be ready, and no confirm begins.
LEMMA ArchiveStays ==
    ASSUME ArchiveOK, dress' = dress,
           \A k \in Keys : /\ Here(k)' => Here(k)
                           /\ media'[k].status = "ready" /\ Here(k)' => media[k].status = "ready"
                           /\ media'[k].gone = "archived" => media[k].gone = "archived",
           \A j \in Jobs : job'[j] # job[j] =>
              \A k \in Keys : Confirming(j, k)' => Confirming(j, k)
    PROVE  ArchiveOK'
<1>1. ASSUME NEW j \in Jobs, NEW k \in Keys, Confirming(j, k)', Here(k)'
      PROVE  Confirming(j, k) /\ Here(k)
  BY <1>1 DEF Confirming
<1>2. list_ready' \subseteq list_ready
  BY DEF list_ready
<1> QED
  BY <1>1, <1>2 DEF ArchiveOK

\* Rows that stay in the gallery keep their positions.
LEMMA PlacesStay ==
    ASSUME PlacesOK,
           \A k \in Keys : /\ media'[k].status = "ready" <=> media[k].status = "ready"
                           /\ media'[k].gone # "deleted" => media[k].gone # "deleted"
                           /\ media[k].status = "ready" => media'[k].sort = media[k].sort
    PROVE  PlacesOK'
<1>1. Ready' = Ready
  BY DEF Ready
<1>2. Standing' \subseteq Standing /\ Standing \subseteq Ready
  BY DEF Standing, Ready
<1>3. \A k \in Ready : media'[k].sort = media[k].sort
  BY DEF Ready
<1> QED
  BY <1>1, <1>2, <1>3 DEF PlacesOK

\* The gallery as a photograph's request leaves it.
LEMMA PhotoNextGallery ==
    ASSUME IInv, PhotoNext, UNCHANGED catalogVars
    PROVE  GalleryInv'
<1> USE DEF catalogVars
<1>1. job \in [Jobs -> Job]
  BY DEF IInv, UploadInv, TypeOK, UploadTypeOK, Job
<1>2. \A j \in Jobs, k \in Keys : job'[j] # job[j] => (Confirming(j, k)' => Confirming(j, k))
  <2> SUFFICES ASSUME NEW j \in Jobs, NEW k \in Keys, job'[j] # job[j], Confirming(j, k)'
               PROVE  Confirming(j, k)
    OBVIOUS
  <2>1. CASE \E i \in Jobs : look(i)
    <3>1. PICK i \in Jobs : look(i)
      BY <2>1
    <3>2. PICK to : /\ job' = [job EXCEPT ![i] = to]
                    /\ to \in {Idle, [job[i] EXCEPT !.step = "reject"], [job[i] EXCEPT !.step = "verified"]}
      <4>1. PICK o : o = object[job[i].key]
        OBVIOUS
      <4>2. o \in {"image", "other", "none"}
        BY <3>1, <4>1 DEF look, IInv, UploadInv, JobOK, TypeOK, UploadTypeOK, Body
      <4> QED
        BY <3>1, <4>1, <4>2 DEF look, head_object
    <3>3. i = j /\ job'[j] = to
      BY <1>1, <3>2
    <3>4. job[j] \in Job /\ job[j].step = "read"
      BY <1>1, <3>1, <3>3 DEF look
    <3>5. CASE to = Idle
      BY <3>3, <3>5 DEF Confirming, Idle
    <3>6. CASE to = [job[j] EXCEPT !.step = "reject"]
      BY <3>3, <3>4, <3>6 DEF Confirming, Job
    <3>7. CASE to = [job[j] EXCEPT !.step = "verified"]
      BY <3>3, <3>4, <3>7 DEF Confirming, Job
    <3> QED
      BY <3>2, <3>3, <3>5, <3>6, <3>7
  <2>2. CASE \E i \in Jobs : \E ks \in SUBSET Keys : Drop(i, ks)
    BY <1>1, <2>2, DropJob DEF Confirming
  <2>3. CASE \E i \in Jobs : job' = [job EXCEPT ![i] = Idle]
    BY <1>1, <2>3 DEF Confirming, Idle
  <2>4. CASE \E i \in Jobs : confirm_photo(i)
    <3>1. PICK i \in Jobs : confirm_photo(i)
      BY <2>4
    <3>2. PICK to : to = [Idle EXCEPT !.verb = "photo", !.step = "read", !.key = pending]
      OBVIOUS
    <3>3. job' = [job EXCEPT ![i] = to]
      BY <3>1, <3>2 DEF confirm_photo
    <3>4. to.verb = "photo"
      BY <3>2 DEF Idle
    <3> QED
      BY <1>1, <3>3, <3>4 DEF Confirming
  <2>5. CASE \E i \in Jobs : \E x \in Keys : presign_photo(i, x)
    <3>1. PICK i \in Jobs, x \in Keys : presign_photo(i, x)
      BY <2>5
    <3>2. PICK to : to = [verb |-> "photo", step |-> "presigned", key |-> x, drop |-> {pending} \ {None}]
      OBVIOUS
    <3>3. job' = [job EXCEPT ![i] = to] /\ to.verb = "photo"
      BY <3>1, <3>2 DEF presign_photo
    <3> QED
      BY <1>1, <3>3 DEF Confirming
  <2>6. CASE \E x \in Keys : \E body \in Body : post_object(x, body)
    BY <2>6 DEF post_object
  <2>7. ASSUME NEW i \in Jobs,
               photo_promoted(i) \/ reject_photo(i) \/ delete_photo(i) \/ deactivate(i)
        PROVE  \E ks \in SUBSET Keys : Drop(i, ks)
    <3>1. photo \in Keys \union {None} /\ pending \in Keys \union {None}
      BY DEF IInv, UploadInv, TypeOK, UploadTypeOK
    <3>2. reject_photo(i) => job[i].key \in Keys
      BY DEF reject_photo, IInv, UploadInv, JobOK
    <3>3. /\ {photo, pending} \ {None} \in SUBSET Keys /\ {} \in SUBSET Keys
          /\ superseded(job[i].key) \in SUBSET Keys
      BY <3>1 DEF superseded
    <3> QED
      BY <2>7, <3>2, <3>3 DEF photo_promoted, reject_photo, delete_photo, deactivate
  <2> QED
    BY <2>1, <2>2, <2>3, <2>4, <2>5, <2>6, <2>7
    DEF PhotoNext, best_effort_delete, photo_signed, photo_not_signed
<1>3. \A k \in Keys : Here(k)' => Here(k)
  BY DEF Here
<1>4. ArchiveOK'
  BY <1>2, <1>3, ArchiveStays DEF IInv, GalleryInv
<1>5. PlacesOK' /\ RangesOK'
  BY PlacesStay DEF IInv, GalleryInv, RangesOK
<1> QED
  BY <1>4, <1>5 DEF GalleryInv

\* Requests that close begin no confirm.
LEMMA ClosingJob ==
    ASSUME job \in [Jobs -> Job], NEW j \in Jobs,
           job' = [job EXCEPT ![j] = Idle] \/ \E ks \in SUBSET Keys : Drop(j, ks)
    PROVE  \A i \in Jobs, k \in Keys : job'[i] # job[i] => (Confirming(i, k)' => Confirming(i, k))
<1>1. CASE job' = [job EXCEPT ![j] = Idle]
  BY <1>1 DEF Confirming, Idle
<1>2. CASE \E ks \in SUBSET Keys : Drop(j, ks)
  BY <1>2, DropJob DEF Confirming
<1> QED
  BY <1>1, <1>2

\* Rows that are let go of, by a request that closes.
LEMMA LetGoGallery ==
    ASSUME IInv, NEW j \in Jobs,
           job' = [job EXCEPT ![j] = Idle] \/ \E ks \in SUBSET Keys : Drop(j, ks),
           dress' = dress, reserved' = reserved, \A k \in Keys : LetsGo(k)
    PROVE  GalleryInv'
<1>1. \A i \in Jobs, k \in Keys : job'[i] # job[i] => (Confirming(i, k)' => Confirming(i, k))
  BY ClosingJob DEF IInv, UploadInv, TypeOK, UploadTypeOK, Job
<1>2. \A k \in Keys : /\ media'[k].status = media[k].status /\ media'[k].sort = media[k].sort
                      /\ media'[k].gone = media[k].gone \/ media'[k].gone = "deleted"
                      /\ media'[k].gone # "deleted" => media[k].gone = media'[k].gone
  BY DEF LetsGo, Here
<1>3. ArchiveOK'
  BY <1>1, <1>2, ArchiveStays DEF IInv, GalleryInv, Here
<1>4. PlacesOK' /\ RangesOK'
  BY <1>2, PlacesStay DEF IInv, GalleryInv, RangesOK
<1> QED
  BY <1>3, <1>4 DEF GalleryInv

\* A presign closes, a rejected object goes, an image is deleted.
LEMMA LettingGoGallery ==
    ASSUME IInv, NEW j \in Jobs,
           media_signed(j) \/ reject_object(j) \/ \E k \in Keys : delete_media(j, k)
    PROVE  GalleryInv'
<1>1. job' = [job EXCEPT ![j] = Idle] \/ \E ks \in SUBSET Keys : Drop(j, ks)
  <2>1. reject_object(j) => job[j].key \in Keys
    BY DEF reject_object, IInv, UploadInv, JobOK
  <2> QED
    BY <2>1 DEF media_signed, reject_object, delete_media
<1>2. dress' = dress /\ reserved' = reserved
  BY DEF media_signed, reject_object, delete_media, catalogVars
<1>3. media' = media \/ \E k \in Keys : media' = media_soft_delete(k)
  <2>1. media_signed(j) => job[j].key \in Keys
    BY DEF media_signed, IInv, UploadInv, JobOK
  <2> QED
    BY <2>1 DEF media_signed, reject_object, delete_media, catalogVars, release_pending
<1>4. \A k \in Keys : LetsGo(k)
  BY <1>3, SoftDeletes DEF LetsGo, IInv
<1> QED
  BY <1>1, <1>2, <1>4, LetGoGallery

\* A presign: the new row is pending, and of a key no confirm knows.
LEMMA PresignMediaGallery ==
    ASSUME IInv, NEW j \in Jobs, NEW k \in Keys, presign_media(j, k)
    PROVE  GalleryInv'
<1>1. PICK S \in SUBSET Keys : S = stale_pendings
  BY DEF stale_pendings
<1>2. PICK to : to = [verb |-> "media", step |-> "presigned", key |-> k, drop |-> S]
  OBVIOUS
<1>3. /\ job' = [job EXCEPT ![j] = to] /\ dress' = dress /\ reserved' = reserved
      /\ media' = [m \in Keys |-> IF m = k THEN insert_pending
                                  ELSE IF m \in S THEN swept(m) ELSE media[m]]
  BY <1>1, <1>2 DEF presign_media
<1>4. /\ job'[j] = to /\ to.step = "presigned" /\ \A i \in Jobs \ {j} : job'[i] = job[i]
  BY <1>2, <1>3 DEF IInv, UploadInv, TypeOK, UploadTypeOK
<1>5. media[k].status = "none" /\ \A i \in Jobs : job[i].key # k
  <2>1. policy[k] = "none" /\ \A i \in Jobs : job[i].key # k
    BY DEF presign_media, NewKey
  <2> QED
    BY <2>1 DEF IInv, UploadInv, KeyOK, Minted
<1>6. media'[k].status = "pending" /\ media'[k].gone = "no"
  BY <1>3 DEF insert_pending, NoMedia
<1>7. \A x \in S : /\ media'[x].status = "pending" /\ media'[x].gone = "deleted"
                   /\ media[x].status = "pending" /\ media[x].gone = "no"
  <2> TAKE x \in S
  <2>1. media[x].status = "pending" /\ media[x].gone = "no" /\ x # k
    BY <1>1, <1>5 DEF stale_pendings, Here
  <2>2. media'[x] = [media[x] EXCEPT !.gone = "deleted"] /\ media[x] \in DressMedia
    BY <1>3, <2>1 DEF swept, IInv, UploadInv, TypeOK
  <2> QED
    BY <2>1, <2>2 DEF DressMedia
<1>8. \A x \in Keys : x # k /\ x \notin S => media'[x] = media[x]
  BY <1>3
<1>9. \A x \in Keys : (Here(x)' => Here(x) \/ x = k) /\ (media'[x].status = "ready" => media'[x] = media[x])
  BY <1>6, <1>7, <1>8 DEF Here
<1>10. ArchiveOK'
  <2>1. dress = "live" => \A x \in Keys : media'[x].gone # "archived"
    BY <1>6, <1>7, <1>8 DEF IInv, GalleryInv, ArchiveOK
  <2>2. list_ready' \subseteq list_ready
    BY <1>9 DEF list_ready, Here
  <2>3. \A i \in Jobs, x \in Keys : Confirming(i, x)' => Confirming(i, x) /\ x # k
    BY <1>4, <1>5 DEF Confirming
  <2> QED
    BY <1>3, <1>9, <2>1, <2>2, <2>3 DEF IInv, GalleryInv, ArchiveOK
<1>11. PlacesOK'
  <2>1. \A x \in Keys : /\ media'[x].status = "ready" <=> media[x].status = "ready"
                        /\ media[x].status = "ready" => media'[x] = media[x]
    BY <1>5, <1>6, <1>7, <1>8
  <2>2. Ready' = Ready
    BY <2>1 DEF Ready
  <2>3. Standing' = Standing
    BY <2>1 DEF Standing
  <2> QED
    BY <2>1, <2>2, <2>3 DEF IInv, GalleryInv, PlacesOK, Ready, Standing
<1> QED
  BY <1>3, <1>10, <1>11 DEF IInv, GalleryInv, RangesOK

\* A confirm begins on a gown that is live.
LEMMA ConfirmMediaGallery ==
    ASSUME IInv, NEW j \in Jobs, NEW k \in Keys, confirm_media(j, k)
    PROVE  GalleryInv'
<1>1. dress = "live" /\ UNCHANGED catalogVars
  BY DEF confirm_media, dress_by_id
<1> QED
  BY <1>1 DEF IInv, GalleryInv, ArchiveOK, PlacesOK, RangesOK, Ready, Standing, catalogVars

\* A promoted image takes the next position.
LEMMA MediaPromotedGallery ==
    ASSUME IInv, NEW j \in Jobs, media_promoted(j)
    PROVE  GalleryInv'
<1>1. PICK k \in Keys : k = job[j].key
  BY DEF IInv, UploadInv, JobOK, media_promoted
<1>2. PICK n : n = next_sort
  OBVIOUS
<1>3. /\ \A x \in Keys \ {k} : media'[x] = media[x]
      /\ ~ promote_to_ready(k) => media'[k] = media[k]
      /\ promote_to_ready(k) => /\ media'[k].status = "ready" /\ media'[k].gone = media[k].gone
                                /\ media'[k].sort = n
  BY <1>1, <1>2, PromotedRow
<1>4. /\ dress' = dress /\ reserved' = reserved /\ job' = [job EXCEPT ![j] = Idle]
      /\ Confirming(j, k)
  BY <1>1 DEF media_promoted, Confirming
<1>5. \A i \in Jobs, x \in Keys : job'[i] # job[i] => (Confirming(i, x)' => Confirming(i, x))
  BY <1>4, ClosingJob DEF IInv, UploadInv, TypeOK, UploadTypeOK, Job
<1>6. CASE ~ promote_to_ready(k)
  <2>1. \A x \in Keys : media'[x] = media[x]
    BY <1>3, <1>6
  <2>2. ArchiveOK'
    BY <1>4, <1>5, <2>1, ArchiveStays DEF IInv, GalleryInv, Here
  <2>3. PlacesOK'
    BY <2>1, PlacesStay DEF IInv, GalleryInv
  <2> QED
    BY <1>4, <2>2, <2>3 DEF IInv, GalleryInv, RangesOK
<1>7. CASE promote_to_ready(k)
  <2>1. Here(k) /\ media[k].status = "pending" /\ media[k].gone = "no"
    BY <1>7 DEF promote_to_ready, Here
  <2>2. dress = "live"
    BY <1>4, <2>1 DEF IInv, GalleryInv, ArchiveOK, UploadInv, TypeOK
  <2>3. ArchiveOK'
    BY <1>3, <1>4, <1>7, <2>1, <2>2 DEF IInv, GalleryInv, ArchiveOK
  <2>4. Standing = list_ready /\ k \notin Ready
    BY <2>1, <2>2 DEF IInv, GalleryInv, ArchiveOK, UploadInv, TypeOK, DressMedia, Standing,
       list_ready, Here, Ready
  <2>5. Ready' = Ready \union {k} /\ Standing' = Standing \union {k}
    BY <1>3, <1>7, <2>1 DEF Ready, Standing
  <2>6. Cardinality(Ready) \in Nat /\ Cardinality(Ready') = Cardinality(Ready) + 1
    <3>1. IsFiniteSet(Ready)
      BY FS_Subset DEF Ready
    <3> QED
      BY <2>4, <2>5, <3>1, FS_AddElement, FS_CardinalityType
  <2>7. n \in Nat /\ n <= Cardinality(Ready) /\ \A x \in Standing : media[x].sort < n
    BY <1>2, <2>4, NextPosition
  <2>8. /\ k \notin Standing /\ \A x \in Standing : media'[x] = media[x] /\ media[x].sort \in Nat
        /\ \A x \in Ready : media'[x] = media[x] /\ media[x].sort \in Nat
    BY <1>3, <2>1, <2>4, FS_CardinalityType
    DEF Standing, Ready, IInv, UploadInv, TypeOK, DressMedia
  <2>9. \A a, b \in Standing' : a # b => media'[a].sort # media'[b].sort
    BY <1>3, <1>7, <2>5, <2>7, <2>8 DEF IInv, GalleryInv, PlacesOK
  <2>10. \A x \in Ready' : media'[x].sort < Cardinality(Ready')
    BY <1>3, <1>7, <2>5, <2>6, <2>7, <2>8 DEF IInv, GalleryInv, PlacesOK
  <2>11. PlacesOK'
    BY <2>9, <2>10 DEF PlacesOK
  <2> QED
    BY <1>4, <2>3, <2>11 DEF IInv, GalleryInv, RangesOK
<1> QED
  BY <1>6, <1>7

\* An hour passes.
LEMMA StaleGallery ==
    ASSUME IInv, NEW k \in Keys, goes_stale(k)
    PROVE  GalleryInv'
<1>1. PICK row : row = [media[k] EXCEPT !.stale = TRUE]
  OBVIOUS
<1>2. media' = [media EXCEPT ![k] = row] /\ media \in [Keys -> DressMedia]
  BY <1>1 DEF goes_stale, IInv, UploadInv, TypeOK
<1>3. row.status = media[k].status /\ row.gone = media[k].gone /\ row.sort = media[k].sort
  BY <1>1, <1>2 DEF DressMedia
<1>4. \A x \in Keys : /\ media'[x].status = media[x].status /\ media'[x].gone = media[x].gone
                      /\ media'[x].sort = media[x].sort
  BY <1>2, <1>3
<1>5. dress' = dress /\ reserved' = reserved /\ job' = job
  BY DEF goes_stale
<1>6. ArchiveOK'
  BY <1>4, <1>5, ArchiveStays DEF IInv, GalleryInv, Here
<1>7. PlacesOK'
  BY <1>4, PlacesStay DEF IInv, GalleryInv
<1> QED
  BY <1>5, <1>6, <1>7 DEF IInv, GalleryInv, RangesOK

\* A drag of a live gown's gallery numbers it from nought.
LEMMA ReorderGallery ==
    ASSUME IInv, reorder_media
    PROVE  GalleryInv'
<1>1. /\ \A x \in Keys : /\ media'[x].status = media[x].status
                         /\ media'[x].gone = media[x].gone
                         /\ x \notin list_ready => media'[x] = media[x]
      /\ \A x \in list_ready : media'[x].sort \in 0..(Cardinality(list_ready) - 1)
      /\ \A a, b \in list_ready : a # b => media'[a].sort # media'[b].sort
  BY ReorderRows DEF IInv, UploadInv, TypeOK
<1>2. dress = "live" /\ dress' = dress /\ reserved' = reserved /\ job' = job
  BY DEF reorder_media, dress_by_id
<1>3. ArchiveOK'
  BY <1>1, <1>2, ArchiveStays DEF IInv, GalleryInv, Here
<1>4. Standing = list_ready /\ Standing' = Standing /\ Ready' = Ready
  BY <1>1, <1>2 DEF IInv, GalleryInv, ArchiveOK, UploadInv, TypeOK, DressMedia, Standing,
     list_ready, Here, Ready
<1>5. Cardinality(Ready) \in Nat /\ Cardinality(list_ready) <= Cardinality(Ready)
      /\ Cardinality(list_ready) \in Nat
  <2>1. IsFiniteSet(Ready)
    BY FS_Subset DEF Ready
  <2>2. list_ready \in SUBSET Ready
    BY DEF list_ready, Ready
  <2> QED
    BY <2>1, <2>2, FS_Subset, FS_CardinalityType
<1>6. \A x \in Ready : media'[x].sort < Cardinality(Ready)
  <2> TAKE x \in Ready
  <2>1. CASE x \in list_ready
    BY <1>1, <1>5, <2>1
  <2>2. CASE x \notin list_ready
    BY <1>1, <2>2 DEF IInv, GalleryInv, PlacesOK, Ready
  <2> QED
    BY <2>1, <2>2
<1>7. PlacesOK'
  BY <1>1, <1>4, <1>6 DEF PlacesOK
<1> QED
  BY <1>2, <1>3, <1>7 DEF IInv, GalleryInv, RangesOK

\* The gown goes: nothing is here any more.
LEMMA ArchiveGallery ==
    ASSUME IInv, archive_dress
    PROVE  GalleryInv'
<1>1. \A x \in Keys :
         /\ media'[x].status = media[x].status /\ media'[x].sort = media[x].sort
         /\ media'[x].gone = IF Here(x) THEN "archived" ELSE media[x].gone
  BY ArchiveRows DEF IInv, UploadInv, TypeOK
<1>2. dress' = "archived" /\ reserved' = reserved
  BY DEF archive_dress, dresses_soft_delete
<1>3. \A x \in Keys : ~ Here(x)'
  BY <1>1 DEF Here
<1>4. ArchiveOK'
  BY <1>2, <1>3 DEF ArchiveOK, list_ready
<1>5. PlacesOK'
  BY <1>1, PlacesStay DEF IInv, GalleryInv, Here
<1> QED
  BY <1>2, <1>4, <1>5 DEF IInv, GalleryInv, RangesOK

\* The gown returns, and so does all that was stamped.
LEMMA RestoreGallery ==
    ASSUME IInv, restore_dress
    PROVE  GalleryInv'
<1>1. \A x \in Keys :
         /\ media'[x].status = media[x].status /\ media'[x].sort = media[x].sort
         /\ media'[x].gone = IF media[x].gone = "archived" THEN "no" ELSE media[x].gone
  BY RestoreRows DEF IInv, UploadInv, TypeOK
<1>2. dress' = "live" /\ reserved' = reserved
  BY DEF restore_dress, dresses_restore
<1>3. ArchiveOK'
  BY <1>1, <1>2 DEF ArchiveOK
<1>4. PlacesOK'
  BY <1>1, PlacesStay DEF IInv, GalleryInv
<1> QED
  BY <1>2, <1>3, <1>4 DEF IInv, GalleryInv, RangesOK

\* The sizes are replaced.
LEMMA SizesGallery ==
    ASSUME IInv, replace_variants
    PROVE  GalleryInv'
BY DEF replace_variants, IInv, GalleryInv, ArchiveOK, PlacesOK, RangesOK, Ready, Standing,
       list_ready, Here, Confirming

\* A range is reserved where none overlaps, or given up.
LEMMA ReservationsGallery ==
    ASSUME IInv, NEW r \in Reservations,
           \/ delete_reservation(r)
           \/ \E from, to \in Days : create_reservation(r, from, to)
    PROVE  GalleryInv'
<1>1. ArchiveOK' /\ PlacesOK'
  <2>1. UNCHANGED <<job, dress, media>>
    BY DEF delete_reservation, create_reservation
  <2> QED
    BY <2>1 DEF IInv, GalleryInv, ArchiveOK, PlacesOK, Ready, Standing, list_ready, Here, Confirming
<1>2. reserved \in [Reservations -> {<<>>} \union {d \in Days \X Days : d[1] <= d[2]}]
  BY DEF IInv, UploadInv, TypeOK
<1>3. CASE delete_reservation(r)
  <2>1. reserved' = [reserved EXCEPT ![r] = <<>>]
    BY <1>3 DEF delete_reservation, reservations_soft_delete
  <2>2. RangesOK'
    BY <1>2, <2>1 DEF IInv, GalleryInv, RangesOK
  <2> QED
    BY <1>1, <2>2 DEF GalleryInv
<1>4. ASSUME NEW from \in Days, NEW to \in Days, create_reservation(r, from, to)
      PROVE  RangesOK'
  <2>1. reserved' = [reserved EXCEPT ![r] = <<from, to>>] /\ overlapping(from, to) = {}
    BY <1>4 DEF create_reservation, reservations_insert
  <2>2. \A s \in Reservations : reserved[s] # <<>> => reserved[s][2] < from \/ to < reserved[s][1]
    <3> SUFFICES ASSUME NEW s \in Reservations, reserved[s] # <<>>
                 PROVE  reserved[s][2] < from \/ to < reserved[s][1]
      OBVIOUS
    <3>1. ~ (reserved[s][1] <= to /\ reserved[s][2] >= from)
      BY <2>1 DEF overlapping
    <3>2. reserved[s][1] \in Nat /\ reserved[s][2] \in Nat /\ from \in Nat /\ to \in Nat
      BY <1>2
    <3> QED
      BY <3>1, <3>2
  <2>3. /\ reserved'[r][1] = from /\ reserved'[r][2] = to
        /\ \A s \in Reservations \ {r} : reserved'[s] = reserved[s]
    BY <1>2, <2>1
  <2> QED
    BY <2>2, <2>3 DEF IInv, GalleryInv, RangesOK
<1> QED
  BY <1>1, <1>3, <1>4 DEF GalleryInv

----------------------------------------------------------------------------
(* The theorems. *)

\* It holds at the start.
LEMMA InitIInv == Init => IInv
<1> SUFFICES ASSUME Init PROVE IInv
  OBVIOUS
<1>1. PICK order \in [Shown -> 0..(Cardinality(Shown) - 1)] :
         /\ \A a, b \in Shown : a # b => order[a] # order[b]
         /\ media = [k \in Keys |->
                       IF k \in Shown
                       THEN [NoMedia EXCEPT !.status = "ready", !.sort = order[k]]
                       ELSE NoMedia]
  BY DEF Init
<1>2. /\ Cardinality(Shown) \in Nat /\ Cardinality(Keys) \in Nat
      /\ Cardinality(Shown) <= Cardinality(Keys)
  <2>1. IsFiniteSet(Shown)
    BY FS_Subset
  <2> QED
    BY <2>1, FS_Subset, FS_CardinalityType
<1>3. /\ object = [k \in Keys |-> IF k \in Shown THEN "image" ELSE "none"]
      /\ policy = [k \in Keys |-> IF k \in Shown THEN "spent" ELSE "none"]
      /\ checked = Shown /\ job = [j \in Jobs |-> Idle]
      /\ staffer = "live" /\ photo = None /\ pending = None /\ dress = "live"
      /\ sizes = [live |-> 0, archived |-> 0] /\ reserved = [r \in Reservations |-> <<>>]
  BY DEF Init, UploadInit
<1>4. NoMedia \in DressMedia /\ NoMedia.status = "none" /\ NoMedia.gone = "no"
  BY <1>2 DEF NoMedia, DressMedia
<1>5. \A k \in Shown : /\ media[k] \in DressMedia /\ media[k].status = "ready" /\ media[k].gone = "no"
                       /\ media[k].sort = order[k] /\ order[k] < Cardinality(Shown)
  <2> TAKE k \in Shown
  <2>1. PICK n \in 0..Cardinality(Keys) : n = order[k] /\ n < Cardinality(Shown)
    <3>1. order[k] \in 0..(Cardinality(Shown) - 1)
      BY <1>1
    <3>2. order[k] \in 0..Cardinality(Keys) /\ order[k] < Cardinality(Shown)
      BY <1>2, <3>1
    <3> QED
      BY <3>2
  <2>2. media[k] = [NoMedia EXCEPT !.status = "ready", !.sort = n]
    BY <1>1, <2>1
  <2> QED
    BY <1>4, <2>1, <2>2 DEF DressMedia, DressMediaStatus
<1>6. \A k \in Keys \ Shown : media[k] = NoMedia
  BY <1>1
<1>7. media \in [Keys -> DressMedia]
  <2>1. \A k \in Keys : media[k] \in DressMedia
    BY <1>4, <1>5, <1>6
  <2> QED
    BY <1>1, <2>1
<1>8. Idle \in Job /\ Idle.step = "none" /\ Idle.key = None /\ Idle.drop = {} /\ Idle.verb = "none"
  BY DEF Idle, Job
<1>9. TypeOK
  <2>1. job \in [Jobs -> Job]
    BY <1>3, <1>8
  <2>2. UploadTypeOK
    BY <1>3, <2>1 DEF UploadTypeOK, Body, Job
  <2> QED
    BY <1>3, <1>7, <2>2 DEF TypeOK
<1>10. \A j \in Jobs : JobOK(j)
  BY <1>3, <1>8 DEF JobOK
<1>11. OneMinter
  BY <1>3, <1>8 DEF OneMinter
<1>12. \A k \in Keys : KeyOK(k)
  BY <1>3, <1>4, <1>5, <1>6 DEF KeyOK, Minted
<1>13. CardOK
  BY <1>3 DEF CardOK
<1>14. ArchiveOK
  BY <1>3, <1>4, <1>5, <1>6 DEF ArchiveOK
<1>15. Ready = Shown /\ Standing = Shown
  BY <1>4, <1>5, <1>6 DEF Ready, Standing
<1>16. PlacesOK
  <2>1. \A a, b \in Shown : a # b => media[a].sort # media[b].sort
    <3>1. \A a, b \in Shown : a # b => order[a] # order[b]
      BY <1>1
    <3>2. \A a \in Shown : media[a].sort = order[a]
      BY <1>5
    <3> QED
      BY <3>1, <3>2
  <2>2. \A k \in Shown : media[k].sort < Cardinality(Shown)
    BY <1>5
  <2> QED
    BY <1>15, <2>1, <2>2 DEF PlacesOK
<1>17. RangesOK
  BY <1>3 DEF RangesOK
<1> QED
  BY <1>9, <1>10, <1>11, <1>12, <1>13, <1>14, <1>16, <1>17 DEF IInv, UploadInv, GalleryInv

\* Every step keeps it.
LEMMA NextIInv == IInv /\ [Next]_vars => IInv'
<1> SUFFICES ASSUME IInv, [Next]_vars PROVE UploadInv' /\ GalleryInv'
  BY DEF IInv
<1>0. UploadInv
  BY DEF IInv
<1>1. CASE PhotoNext /\ UNCHANGED catalogVars
  BY <1>0, <1>1, PhotoNextKeeps, PhotoNextGallery
<1>2. ASSUME NEW j \in Jobs, media_signed(j) PROVE UploadInv' /\ GalleryInv'
  BY <1>0, <1>2, MediaSignedKeeps, LettingGoGallery
<1>3. ASSUME NEW j \in Jobs, media_promoted(j) PROVE UploadInv' /\ GalleryInv'
  BY <1>3, MediaPromotedKeeps, MediaPromotedGallery
<1>4. ASSUME NEW j \in Jobs, reject_object(j) PROVE UploadInv' /\ GalleryInv'
  BY <1>0, <1>4, RejectKeeps, LettingGoGallery
<1>5. ASSUME NEW j \in Jobs, NEW k \in Keys, presign_media(j, k) PROVE UploadInv' /\ GalleryInv'
  BY <1>0, <1>5, PresignMediaKeeps, PresignMediaGallery
<1>6. ASSUME NEW j \in Jobs, NEW k \in Keys, confirm_media(j, k) PROVE UploadInv' /\ GalleryInv'
  BY <1>0, <1>6, ConfirmMediaKeeps, ConfirmMediaGallery
<1>7. ASSUME NEW j \in Jobs, NEW k \in Keys, delete_media(j, k) PROVE UploadInv' /\ GalleryInv'
  BY <1>0, <1>7, DeleteMediaKeeps, LettingGoGallery
<1>8. ASSUME NEW k \in Keys, goes_stale(k) PROVE UploadInv' /\ GalleryInv'
  BY <1>0, <1>8, StaleKeeps, StaleGallery
<1>9. CASE reorder_media
  BY <1>0, <1>9, ReorderKeeps, ReorderGallery
<1>10. CASE archive_dress
  BY <1>0, <1>10, ArchiveKeeps, ArchiveGallery
<1>11. CASE restore_dress
  BY <1>0, <1>11, RestoreKeeps, RestoreGallery
<1>12. CASE replace_variants
  BY <1>0, <1>12, SizesKeep, SizesGallery
<1>13. ASSUME NEW r \in Reservations,
              \/ delete_reservation(r)
              \/ \E from, to \in Days : create_reservation(r, from, to)
       PROVE  UploadInv' /\ GalleryInv'
  BY <1>0, <1>13, ReservationsKeep, ReservationsGallery
<1>14. CASE UNCHANGED vars
  BY <1>14 DEF vars, storeVars, photoVars, catalogVars, IInv, UploadInv, TypeOK, UploadTypeOK,
     JobOK, OneMinter, KeyOK, CardOK, GalleryInv, ArchiveOK, PlacesOK, RangesOK, Minted, Dead,
     Kept, Ready, Standing, list_ready, Here, Confirming
<1> QED
  BY <1>1, <1>2, <1>3, <1>4, <1>5, <1>6, <1>7, <1>8, <1>9, <1>10, <1>11, <1>12, <1>13, <1>14
  DEF Next

\* The inductive invariant holds.
THEOREM InvariantHolds == Spec => []IInv
BY InitIInv, NextIInv, PTL DEF Spec

\* Whatever is shown, on a card or in a gallery, exists and was checked, for any number
\* of uploads, confirms, removals, archives and late clean-ups in flight.
THEOREM ImagesReal == Spec => []ImagesAreReal
<1>1. IInv => ImagesAreReal
  <2> SUFFICES ASSUME IInv PROVE ImagesAreReal
    OBVIOUS
  <2>1. photo # None => photo \in checked /\ object[photo] # "none"
    BY DEF IInv, UploadInv, CardOK, KeyOK, Kept, TypeOK, UploadTypeOK
  <2>2. \A k \in list_ready : k \in checked /\ object[k] # "none"
    BY DEF IInv, UploadInv, KeyOK, Kept, list_ready, Here
  <2> QED
    BY <2>1, <2>2 DEF ImagesAreReal, PromotedIsChecked, PhotoHasObject, GalleryIsReal
<1> QED
  BY <1>1, InvariantHolds, PTL

\* The rows are well formed, the gallery has one order, and a day one reservation,
\* whatever archive, restore or drag came between.
THEOREM CatalogueSound == Spec => []CatalogueIsSound
<1>1. IInv => CatalogueIsSound
  <2> SUFFICES ASSUME IInv PROVE CatalogueIsSound
    OBVIOUS
  <2>1. OneOrder
    BY DEF IInv, GalleryInv, PlacesOK, OneOrder, Standing, list_ready, Here
  <2>2. OneReservationADay
    <3> SUFFICES ASSUME NEW day \in Days PROVE Cardinality(containing(day)) <= 1
      BY DEF OneReservationADay
    <3>1. \A r, s \in containing(day) : r = s
      <4> SUFFICES ASSUME NEW r \in containing(day), NEW s \in containing(day), r # s
                   PROVE  FALSE
        OBVIOUS
      <4>1. /\ r \in Reservations /\ reserved[r] # <<>> /\ reserved[r][1] <= day /\ reserved[r][2] >= day
            /\ s \in Reservations /\ reserved[s] # <<>> /\ reserved[s][1] <= day /\ reserved[s][2] >= day
        BY DEF containing
      <4>2. /\ reserved[r][1] \in Nat /\ reserved[r][2] \in Nat
            /\ reserved[s][1] \in Nat /\ reserved[s][2] \in Nat /\ day \in Nat
        BY <4>1 DEF IInv, UploadInv, TypeOK
      <4>3. reserved[r][2] < reserved[s][1] \/ reserved[s][2] < reserved[r][1]
        BY <4>1 DEF IInv, GalleryInv, RangesOK
      <4> QED
        BY <4>1, <4>2, <4>3
    <3>2. CASE containing(day) = {}
      BY <3>2, FS_EmptySet
    <3>3. CASE containing(day) # {}
      <4>1. PICK r : containing(day) = {r}
        BY <3>1, <3>3
      <4>2. Cardinality({r}) = 1
        BY FS_Singleton
      <4> QED
        BY <4>1, <4>2
    <3> QED
      BY <3>2, <3>3
  <2> QED
    BY <2>1, <2>2 DEF CatalogueIsSound, IInv, UploadInv
<1> QED
  BY <1>1, InvariantHolds, PTL

\* An image that was deleted or swept never comes back, with a restore or without.
THEOREM DeletedStays == Spec => DeletedStaysDeleted
<1>1. IInv /\ [Next]_vars =>
        [\A k \in Keys : media[k].gone = "deleted" => media'[k].gone = "deleted"]_vars
  <2> SUFFICES ASSUME IInv, Next, NEW k \in Keys, media[k].gone = "deleted"
               PROVE  media'[k].gone = "deleted"
    BY DEF vars
  <2>0. UploadInv /\ media \in [Keys -> DressMedia] /\ media[k].status # "none"
    BY DEF IInv, UploadInv, TypeOK, KeyOK
  <2>1. CASE UNCHANGED media
    BY <2>1
  <2>2. ASSUME NEW x \in Keys, media' = media_soft_delete(x) PROVE media'[k].gone = "deleted"
    BY <2>0, <2>2, SoftDeletes DEF LetsGo
  <2>3. ASSUME NEW j \in Jobs, media_signed(j) PROVE media'[k].gone = "deleted"
    BY <2>1, <2>2, <2>3 DEF media_signed, release_pending, IInv, UploadInv, JobOK
  <2>4. ASSUME NEW j \in Jobs, media_promoted(j) PROVE media'[k].gone = "deleted"
    <3>1. PICK x \in Keys : x = job[j].key
      BY <2>4 DEF IInv, UploadInv, JobOK, media_promoted
    <3>2. PICK n : n = next_sort
      OBVIOUS
    <3> QED
      BY <2>4, <3>1, <3>2, PromotedRow DEF promote_to_ready, Here
  <2>5. ASSUME NEW j \in Jobs, NEW x \in Keys, presign_media(j, x) PROVE media'[k].gone = "deleted"
    <3>1. x # k
      BY <2>0, <2>5 DEF presign_media, NewKey, IInv, UploadInv, KeyOK, Minted
    <3>2. k \notin stale_pendings
      BY DEF stale_pendings, Here
    <3> QED
      BY <2>5, <3>1, <3>2 DEF presign_media
  <2>6. ASSUME NEW x \in Keys, goes_stale(x) PROVE media'[k].gone = "deleted"
    <3>1. x # k
      BY <2>6 DEF goes_stale, Here
    <3> QED
      BY <2>0, <2>6, <3>1 DEF goes_stale
  <2>7. CASE reorder_media
    BY <2>0, <2>7, ReorderRows
  <2>8. CASE archive_dress
    BY <2>0, <2>8, ArchiveRows DEF Here
  <2>9. CASE restore_dress
    BY <2>0, <2>9, RestoreRows
  <2>10. Next => \/ UNCHANGED media
                 \/ \E x \in Keys : media' = media_soft_delete(x)
                 \/ \E j \in Jobs : media_signed(j) \/ media_promoted(j)
                 \/ \E j \in Jobs, x \in Keys : presign_media(j, x)
                 \/ \E x \in Keys : goes_stale(x)
                 \/ reorder_media \/ archive_dress \/ restore_dress
    BY DEF Next, catalogVars, reject_object, confirm_media, delete_media, replace_variants,
           delete_reservation, create_reservation
  <2> QED
    BY <2>1, <2>2, <2>3, <2>4, <2>5, <2>6, <2>7, <2>8, <2>9, <2>10
<1> QED
  BY <1>1, InvariantHolds, PTL DEF Spec, DeletedStaysDeleted

============================================================================
