----------------------------- MODULE StaffPhoto -----------------------------
(***************************************************************************)
(* A staffer's photograph (auth/staff.py) and the object store both image  *)
(* pipelines upload to.                                                    *)
(*                                                                         *)
(* An upload takes four parties: a presign writes the key on a row, the    *)
(* browser posts the body to the store with the policy it was given, a     *)
(* confirm looks at the object outside any transaction and promotes the    *)
(* key in a second one, and whoever replaces or removes an image deletes   *)
(* its object after the commit, as best it can.  A request is a job that   *)
(* other requests may interleave with between those steps; what runs under *)
(* the staff lock or the dress's media lock is one step.                   *)
(***************************************************************************)
EXTENDS Naturals, FiniteSets

CONSTANTS Keys,   \* the storage keys that can ever be minted (a bound)
          Jobs,   \* the requests that can be open at once (a bound)
          None

ASSUME UploadAssumption == None \notin Keys /\ IsFiniteSet(Keys)

VARIABLES object,   \* the store: what lies under each key
          policy,   \* the POST policy of each key: none, open, or used or expired
          checked,  \* keys whose bytes a confirm has read and found to be an image
          job,      \* the open requests
          staffer,  \* whether the staff_users row is live
          photo,    \* photo_key
          pending   \* photo_pending_key

storeVars == <<object, policy, checked>>
photoVars == <<staffer, photo, pending>>

Body == {"image", "other"}

\* A job's verb and step, the key it works on, and the keys it will delete.
Idle == [verb |-> "none", step |-> "none", key |-> None, drop |-> {}]

UploadTypeOK ==
    /\ object \in [Keys -> Body \union {"none"}]
    /\ policy \in [Keys -> {"none", "open", "spent"}]
    /\ checked \subseteq Keys
    /\ job \in [Jobs -> [verb : {"none", "photo", "media"},
                         step : {"none", "presigned", "read", "reject", "verified", "drop"},
                         key : Keys \union {None},
                         drop : SUBSET Keys]]
    /\ staffer \in {"live", "gone"}
    /\ photo \in Keys \union {None}
    /\ pending \in Keys \union {None}

\* Shown: the keys of the images that were uploaded before.
UploadInit(Shown) ==
    /\ object = [k \in Keys |-> IF k \in Shown THEN "image" ELSE "none"]
    /\ policy = [k \in Keys |-> IF k \in Shown THEN "spent" ELSE "none"]
    /\ checked = Shown
    /\ job = [j \in Jobs |-> Idle]
    /\ staffer = "live"
    /\ photo = None
    /\ pending = None

----------------------------------------------------------------------------
(* The store. *)

\* A key no presign has minted yet: media_id and photo_id are random.
NewKey(k) == policy[k] = "none" /\ \A j \in Jobs : job[j].key # k

\* The browser posts the file once, or never: PRESIGN_TTL_SECONDS may pass first.
post_object(k, body) ==
    /\ policy[k] = "open"
    /\ object' = [object EXCEPT ![k] = body]
    /\ policy' = [policy EXCEPT ![k] = "spent"]
    /\ UNCHANGED <<checked, job, photoVars>>

\* What head_object and read_prefix find.
head_object(k) == object[k]

\* The deletes; a store that cannot be reached leaves orphans.
delete_objects(ks) ==
    \E done \in {{}, ks} : object' = [k \in Keys |-> IF k \in done THEN "none" ELSE object[k]]

presigned_post(k) == policy' = [policy EXCEPT ![k] = "open"]

Drop(j, ks) ==
    job' = [job EXCEPT ![j] = IF ks = {} THEN Idle
                              ELSE [Idle EXCEPT !.verb = "photo", !.step = "drop", !.drop = ks]]

\* The deletes after a commit.
best_effort_delete(j) ==
    /\ job[j].step = "drop"
    /\ delete_objects(job[j].drop)
    /\ job' = [job EXCEPT ![j] = Idle]
    /\ UNCHANGED <<policy, checked, photoVars>>

\* head_object and read_prefix, outside any transaction: no object, one that is
\* not what was declared, or an image.
look(j) ==
    LET k == job[j].key IN
    /\ job[j].step = "read"
    /\ job' = [job EXCEPT ![j] =
                  CASE head_object(k) = "none"  -> Idle
                    [] head_object(k) = "other" -> [job[j] EXCEPT !.step = "reject"]
                    [] head_object(k) = "image" -> [job[j] EXCEPT !.step = "verified"]]
    /\ checked' = IF head_object(k) = "image" THEN checked \union {k} ELSE checked
    /\ UNCHANGED <<object, policy, photoVars>>

----------------------------------------------------------------------------
(* The photograph. *)

clear_photo == photo' = None /\ pending' = None

set_pending_photo(k) == pending' = k /\ UNCHANGED photo

promote_pending_photo == photo' = pending /\ pending' = None

\* The presign's transaction; the key it replaces is deleted afterwards.
presign_photo(j, k) ==
    /\ job[j] = Idle
    /\ staffer = "live"
    /\ NewKey(k)
    /\ set_pending_photo(k)
    /\ job' = [job EXCEPT ![j] = [verb |-> "photo", step |-> "presigned", key |-> k,
                                  drop |-> {pending} \ {None}]]
    /\ UNCHANGED <<storeVars, staffer>>

\* The replaced object is deleted, as best it can be, and the policy goes out.
photo_signed(j) ==
    /\ job[j].verb = "photo" /\ job[j].step = "presigned"
    /\ presigned_post(job[j].key)
    /\ delete_objects(job[j].drop)
    /\ job' = [job EXCEPT ![j] = Idle]
    /\ UNCHANGED <<checked, photoVars>>

\* Signing failed: the pending triple is cleared, whatever it names by now.
photo_not_signed(j) ==
    /\ job[j].verb = "photo" /\ job[j].step = "presigned"
    /\ pending' = IF staffer = "live" THEN None ELSE pending
    /\ delete_objects(job[j].drop)
    /\ policy' = [policy EXCEPT ![job[j].key] = "spent"]
    /\ job' = [job EXCEPT ![j] = Idle]
    /\ UNCHANGED <<checked, staffer, photo>>

confirm_photo(j) ==
    /\ job[j] = Idle
    /\ staffer = "live" /\ pending # None
    /\ job' = [job EXCEPT ![j] = [Idle EXCEPT !.verb = "photo", !.step = "read",
                                              !.key = pending]]
    /\ UNCHANGED <<storeVars, photoVars>>

\* Mutant: the row is promoted whatever key it names by now.
BugPromoteWhatever(k) == pending # None

\* The object that was looked at is the one the row still names.
still_pending(k) == pending = k

superseded(k) == {photo} \ {None, k}

photo_promoted(j) ==
    LET k == job[j].key IN
    /\ job[j].verb = "photo" /\ job[j].step = "verified"
    /\ IF staffer = "live" /\ still_pending(k)
       THEN /\ promote_pending_photo
            /\ Drop(j, superseded(k))
       ELSE /\ UNCHANGED <<photo, pending>>
            /\ Drop(j, {})
    /\ UNCHANGED <<storeVars, staffer>>

\* The clear is conditional, the delete is not.
reject_photo(j) ==
    LET k == job[j].key IN
    /\ job[j].verb = "photo" /\ job[j].step = "reject"
    /\ pending' = IF staffer = "live" /\ pending = k THEN None ELSE pending
    /\ Drop(j, {k})
    /\ UNCHANGED <<storeVars, staffer, photo>>

delete_photo(j) ==
    /\ job[j] = Idle
    /\ staffer = "live" /\ {photo, pending} # {None}
    /\ clear_photo
    /\ Drop(j, {photo, pending} \ {None})
    /\ UNCHANGED <<storeVars, staffer>>

\* Her removal takes her photograph with it.
deactivate(j) ==
    /\ job[j] = Idle
    /\ staffer = "live"
    /\ staffer' = "gone"
    /\ clear_photo
    /\ Drop(j, {photo, pending} \ {None})
    /\ UNCHANGED storeVars

PhotoNext ==
    \/ \E k \in Keys : \E body \in Body : post_object(k, body)
    \/ \E j \in Jobs :
          \/ best_effort_delete(j) \/ look(j)
          \/ photo_signed(j) \/ photo_not_signed(j)
          \/ confirm_photo(j) \/ photo_promoted(j) \/ reject_photo(j)
          \/ delete_photo(j) \/ deactivate(j)
          \/ \E k \in Keys : presign_photo(j, k)

----------------------------------------------------------------------------
(* Properties. *)

\* The photograph on a live card is the object whose bytes were checked, although
\* a presign may replace the pending key between the check and the promotion
\* (confirm_photo: the verified object and the promoted object must be the same).
PromotedIsChecked == photo # None => photo \in checked

\* A photograph that is shown exists: no replacement, rejection, removal or late
\* clean-up deletes the object a live row names.
PhotoHasObject == photo # None => object[photo] # "none"

=============================================================================
