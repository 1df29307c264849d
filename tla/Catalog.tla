------------------------------- MODULE Catalog -------------------------------
(***************************************************************************)
(* One gown of the catalogue (catalog/service.py): its gallery, its sizes, *)
(* its archive and its reservations.                                       *)
(*                                                                         *)
(* A write of the gallery holds the dress's media lock, one of the sizes   *)
(* its variants lock, one of the reservations the tenant's claim lock; the *)
(* archive and the restore hold none.  A presign or a replacement of the   *)
(* sizes may therefore land on a dress archived since it was read.         *)
(***************************************************************************)
EXTENDS StaffPhoto

CONSTANTS MAX_MEDIA_PER_DRESS,
          Shown,         \* the images of the gallery at the start
          Days,          \* days a reservation can cover
          Reservations   \* the rows that can ever be inserted (a bound)

ASSUME CatalogAssumption ==
    /\ MAX_MEDIA_PER_DRESS \in Nat /\ Days \subseteq Nat
    /\ Shown \subseteq Keys /\ Cardinality(Shown) <= MAX_MEDIA_PER_DRESS

VARIABLES dress,    \* dresses: live or archived
          media,    \* dress_media, by storage key
          sizes,    \* dress_variants of one size: how many rows are live, and how many
                    \* carry the archive's stamp
          reserved  \* dress_reservations: the first and last day, or <<>>

catalogVars == <<dress, media, sizes, reserved>>
vars == <<storeVars, job, photoVars, catalogVars>>

DressMediaStatus == {"pending", "ready"}

\* deleted_at: not set, set by a delete or a sweep, or set by the archive.
DressMedia ==
    [status : DressMediaStatus \union {"none"}, gone : {"no", "deleted", "archived"},
     stale : BOOLEAN, sort : 0..Cardinality(Keys)]

NoMedia == [status |-> "none", gone |-> "no", stale |-> FALSE, sort |-> 0]

TypeOK ==
    /\ UploadTypeOK
    /\ dress \in {"live", "archived"}
    /\ media \in [Keys -> DressMedia]
    /\ sizes \in [live : 0..1, archived : 0..1]
    /\ reserved \in [Reservations -> {<<>>} \union {d \in Days \X Days : d[1] <= d[2]}]

Init ==
    /\ UploadInit(Shown)
    /\ dress = "live"
    /\ \E order \in [Shown -> 0..(Cardinality(Shown) - 1)] :
          /\ \A a, b \in Shown : a # b => order[a] # order[b]
          /\ media = [k \in Keys |->
                        IF k \in Shown
                        THEN [NoMedia EXCEPT !.status = "ready", !.sort = order[k]]
                        ELSE NoMedia]
    /\ sizes = [live |-> 0, archived |-> 0]
    /\ reserved = [r \in Reservations |-> <<>>]

----------------------------------------------------------------------------
(* The gallery. *)

dress_by_id == dress = "live"

Here(k) == media[k].status # "none" /\ media[k].gone = "no"

list_ready == {k \in Keys : Here(k) /\ media[k].status = "ready"}

\* A pending row past its hour no longer holds a slot.
count_active == Cardinality({k \in Keys : Here(k) /\ (media[k].status = "ready" \/ ~media[k].stale)})

stale_pendings == {k \in Keys : Here(k) /\ media[k].status = "pending" /\ media[k].stale}

\* Mutant: the next position is the number of ready rows.
BugCountAsNext == Cardinality(list_ready)

\* max_ready_sort_order + 1.
next_sort ==
    IF list_ready = {} THEN 0
    ELSE 1 + (CHOOSE n \in 0..Cardinality(Keys) :
                 /\ \E k \in list_ready : media[k].sort = n
                 /\ \A k \in list_ready : media[k].sort <= n)

swept(k) == [media[k] EXCEPT !.gone = "deleted"]

insert_pending == [NoMedia EXCEPT !.status = "pending"]

\* Sweep, count, insert, commit; at the limit all of it, the sweep included, is
\* rolled back.  The dress is read live first, under the media lock; the archive
\* takes no lock and may commit after that read, so nothing here depends on it.
presign_media(j, k) ==
    /\ job[j] = Idle
    /\ NewKey(k)
    /\ count_active < MAX_MEDIA_PER_DRESS
    /\ media' = [m \in Keys |->
                    IF m = k THEN insert_pending
                    ELSE IF m \in stale_pendings THEN swept(m) ELSE media[m]]
    /\ job' = [job EXCEPT ![j] = [verb |-> "media", step |-> "presigned", key |-> k,
                                  drop |-> stale_pendings]]
    /\ UNCHANGED <<storeVars, photoVars, dress, sizes, reserved>>

media_soft_delete(k) == IF Here(k) THEN [media EXCEPT ![k].gone = "deleted"] ELSE media

release_pending(k) == media_soft_delete(k)

\* The swept objects are deleted; then the policy goes out, or signing fails and
\* the slot is given back.
media_signed(j) ==
    LET k == job[j].key IN
    /\ job[j].verb = "media" /\ job[j].step = "presigned"
    /\ delete_objects(job[j].drop)
    /\ \/ presigned_post(k) /\ UNCHANGED media
       \/ /\ policy' = [policy EXCEPT ![k] = "spent"]
          /\ media' = release_pending(k)
    /\ job' = [job EXCEPT ![j] = Idle]
    /\ UNCHANGED <<checked, photoVars, dress, sizes, reserved>>

\* An hour passes, and with it the policy.  What was posted in time can still be
\* confirmed, until a presign sweeps the row.
goes_stale(k) ==
    /\ Here(k) /\ media[k].status = "pending" /\ ~media[k].stale
    /\ policy[k] # "none"
    /\ media' = [media EXCEPT ![k].stale = TRUE]
    /\ policy' = [policy EXCEPT ![k] = "spent"]
    /\ UNCHANGED <<object, checked, job, photoVars, dress, sizes, reserved>>

confirm_media(j, k) ==
    /\ job[j] = Idle
    /\ dress_by_id
    /\ Here(k) /\ media[k].status = "pending"
    /\ job' = [job EXCEPT ![j] = [Idle EXCEPT !.verb = "media", !.step = "read", !.key = k]]
    /\ UNCHANGED <<storeVars, photoVars, catalogVars>>

promote_to_ready(k) == Here(k) /\ media[k].status = "pending"

\* The second transaction reads the row again, and only the row.
media_promoted(j) ==
    LET k == job[j].key IN
    /\ job[j].verb = "media" /\ job[j].step = "verified"
    /\ media' = IF promote_to_ready(k)
                THEN [media EXCEPT ![k].status = "ready", ![k].stale = FALSE,
                                   ![k].sort = next_sort]
                ELSE media
    /\ job' = [job EXCEPT ![j] = Idle]
    /\ UNCHANGED <<storeVars, photoVars, dress, sizes, reserved>>

\* The row stays: a new upload would need a new presign.
reject_object(j) ==
    /\ job[j].verb = "media" /\ job[j].step = "reject"
    /\ Drop(j, {job[j].key})
    /\ UNCHANGED <<storeVars, photoVars, catalogVars>>

delete_media(j, k) ==
    /\ job[j] = Idle
    /\ dress_by_id
    /\ Here(k)
    /\ media' = media_soft_delete(k)
    /\ Drop(j, {k})
    /\ UNCHANGED <<storeVars, photoVars, dress, sizes, reserved>>

set_sort_order(k, n) == [media[k] EXCEPT !.sort = n]

\* A drag of the whole gallery: refused unless it names exactly the ready rows.
reorder_media ==
    /\ dress_by_id
    /\ Cardinality(list_ready) > 1
    /\ \E order \in [list_ready -> 0..(Cardinality(list_ready) - 1)] :
          /\ \A a, b \in list_ready : a # b => order[a] # order[b]
          /\ media' = [k \in Keys |-> IF k \in list_ready THEN set_sort_order(k, order[k])
                                      ELSE media[k]]
    /\ UNCHANGED <<storeVars, job, photoVars, dress, sizes, reserved>>

----------------------------------------------------------------------------
(* The gown. *)

soft_delete_all ==
    [k \in Keys |-> IF Here(k) THEN [media[k] EXCEPT !.gone = "archived"] ELSE media[k]]

variants_soft_delete_all == [live |-> 0, archived |-> sizes.live]

dresses_soft_delete == dress = "live" /\ dress' = "archived"

\* The stamp of an archive is its transaction's clock: one value for the dress
\* and everything that was live on it.
archive_dress ==
    /\ dress_by_id
    /\ dresses_soft_delete
    /\ media' = soft_delete_all
    /\ sizes' = variants_soft_delete_all
    /\ UNCHANGED <<storeVars, job, photoVars, reserved>>

\* Mutant: the restore brings back every row of the dress.
BugRestoreAll(k) == media[k].gone # "no"

archived_with(k) == media[k].gone = "archived"

\* One live row of a size on a dress, or the whole restore fails.
idx_dress_variants_dress_size_unique == sizes.live + sizes.archived <= 1

variants_restore_archived_with == [live |-> sizes.live + sizes.archived, archived |-> 0]

dresses_restore == dress = "archived" /\ dress' = "live"

\* What was archived with it comes back.
restore_dress ==
    /\ dresses_restore
    /\ idx_dress_variants_dress_size_unique
    /\ media' = [k \in Keys |-> IF archived_with(k) THEN [media[k] EXCEPT !.gone = "no"] ELSE media[k]]
    /\ sizes' = variants_restore_archived_with
    /\ UNCHANGED <<storeVars, job, photoVars, reserved>>

variants_insert(rows) == [rows EXCEPT !.live = 1]

\* The sizes are replaced by a list with or without this one.  The dress is read
\* live first; as above, the archive may commit after that read.
replace_variants ==
    /\ LET none == [sizes EXCEPT !.live = 0] IN sizes' \in {none, variants_insert(none)}
    /\ UNCHANGED <<storeVars, job, photoVars, dress, media, reserved>>

----------------------------------------------------------------------------
(* Reservations: closed ranges of days, under the tenant's lock. *)

overlapping(from, to) ==
    {r \in Reservations : reserved[r] # <<>> /\ reserved[r][1] <= to /\ reserved[r][2] >= from}

reservations_insert(r, from, to) == reserved' = [reserved EXCEPT ![r] = <<from, to>>]

\* Dropping the row or never having had it is the same to every reader.
reservations_soft_delete(r) == reserved' = [reserved EXCEPT ![r] = <<>>]

create_reservation(r, from, to) ==
    /\ dress_by_id
    /\ from <= to
    /\ reserved[r] = <<>>
    /\ overlapping(from, to) = {}
    /\ reservations_insert(r, from, to)
    /\ UNCHANGED <<storeVars, job, photoVars, dress, media, sizes>>

delete_reservation(r) ==
    /\ dress_by_id
    /\ reserved[r] # <<>>
    /\ reservations_soft_delete(r)
    /\ UNCHANGED <<storeVars, job, photoVars, dress, media, sizes>>

\* The reservation a booking of the gown on that day is refused for.
containing(day) ==
    {r \in Reservations : reserved[r] # <<>> /\ reserved[r][1] <= day /\ reserved[r][2] >= day}

Next ==
    \/ PhotoNext /\ UNCHANGED catalogVars
    \/ \E j \in Jobs :
          \/ media_signed(j)
          \/ media_promoted(j) \/ reject_object(j)
          \/ \E k \in Keys : presign_media(j, k) \/ confirm_media(j, k) \/ delete_media(j, k)
    \/ \E k \in Keys : goes_stale(k)
    \/ reorder_media \/ archive_dress \/ restore_dress \/ replace_variants
    \/ \E r \in Reservations :
          \/ delete_reservation(r)
          \/ \E from, to \in Days : create_reservation(r, from, to)

Spec == Init /\ [][Next]_vars

----------------------------------------------------------------------------
(* Properties. *)

\* Every image of the gallery exists and was checked: neither a clean-up after a
\* commit, nor a rejected confirm, nor a confirm that outlived a delete, a sweep
\* or an archive puts a row in the gallery with nothing, or something unread,
\* under its key.
GalleryIsReal == \A k \in list_ready : k \in checked /\ object[k] # "none"

\* The gallery has one order: no two of its images share a position, over
\* deletes, drags, an archive and confirms that were under way meanwhile.
OneOrder == \A a, b \in list_ready : a # b => media[a].sort # media[b].sort

\* An image that was deleted or swept never comes back, with a restore or
\* without (restore matches the archive's own stamp).
DeletedStaysDeleted ==
    [][\A k \in Keys : media[k].gone = "deleted" => media'[k].gone = "deleted"]_vars

\* No day of a gown is promised twice: whatever order reservations come and go
\* in, at most one covers a day, so the booking flow's first match is the only.
OneReservationADay == \A day \in Days : Cardinality(containing(day)) <= 1

\* Whatever is shown exists and is what was checked, on the card of a staffer and
\* in the gallery of a gown, which share the store and its late clean-ups.
ImagesAreReal == PromotedIsChecked /\ PhotoHasObject /\ GalleryIsReal

\* The gown's rows are well formed, its gallery has one order and its days one
\* reservation, whatever an archive without a lock came between.
CatalogueIsSound == TypeOK /\ OneOrder /\ OneReservationADay

=============================================================================
