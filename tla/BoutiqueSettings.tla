-------------------------- MODULE BoutiqueSettings --------------------------
(***************************************************************************)
(* The rest of an owner's settings (boutique/service): the blocks of       *)
(* tenants.settings, merged by one statement and audited after it, and the *)
(* appointment types, edited through the ORM.                              *)
(*                                                                         *)
(* A block that is always written whole stands for the request that wrote  *)
(* it; a toggle has a value of its own.  The two halves share no row, so a *)
(* behaviour is one of the one or one of the other.                        *)
(***************************************************************************)
EXTENDS Integers, Sequences

CONSTANTS Toggles,    \* TOGGLE_KEYS
          Writers,    \* requests of update_settings (a bound)
          Patches,    \* what they may send
          TypeIds,    \* appointment types ever created (a bound)
          Names,      \* their names
          Forms,      \* the fields an owner may submit, valid or not
          Editors,    \* requests of update_appointment_type (a bound)
          NoWriter

VARIABLES settings,    \* tenants.settings
          tenantLive,  \* the boutique is not deleted
          writer,      \* the requests of update_settings
          merged,      \* the writers, in the order of their statements
          trail        \* audit_log, in the order of its commits

settingsVars == <<settings, tenantLive, writer, merged, trail>>

VARIABLES types,   \* appointment_types
          editor   \* the requests of update_appointment_type

typesVars == <<types, editor>>

----------------------------------------------------------------------------
(* tenants.settings. *)

\* The blocks that arrive whole and are audited, around the toggles, in the order
\* of their audit rows.  The profile arrives whole too, and has no row.
AuditOrder == [atelier |-> 1, toggles |-> 2, scheduling |-> 3]
Whole == {"profile", "atelier", "scheduling"}
Switch == {"absent", "on", "off"}

Patch == [toggles : [Toggles -> Switch], whole : SUBSET Whole]

ASSUME SettingsAssumption ==
    NoWriter \notin Writers /\ Patches \subseteq Patch /\ "deposits_enabled" \in Toggles

\* A toggles block is in the request when it names a key.
names_toggles(patch) == \E k \in Toggles : patch.toggles[k] # "absent"

SettingsInit ==
    /\ settings = [toggles |-> [k \in Toggles |-> "absent"], whole |-> [b \in Whole |-> NoWriter]]
    /\ tenantLive = TRUE
    /\ writer = [w \in Writers |->
            [step |-> "none", patch |-> [toggles |-> [k \in Toggles |-> "absent"], whole |-> {}],
             owed |-> {}]]
    /\ merged = <<>> /\ trail = <<>>

SettingsTypeOK ==
    /\ settings \in [toggles : [Toggles -> Switch], whole : [Whole -> Writers \union {NoWriter}]]
    /\ tenantLive \in BOOLEAN
    /\ \A w \in Writers : /\ writer[w].step \in {"none", "merged", "done", "missing", "died"}
                          /\ writer[w].patch \in Patch

\* merge_settings: settings || patch, and for the toggles the stored block || the
\* named ones, in one UPDATE of the live row; else nothing is written.
merge_settings(w, patch) ==
    IF tenantLive
    THEN /\ settings' =
                [toggles |-> [k \in Toggles |-> IF patch.toggles[k] # "absent" THEN patch.toggles[k]
                                                ELSE settings.toggles[k]],
                 whole |-> [b \in Whole |-> IF b \in patch.whole THEN w ELSE settings.whole[b]]]
         /\ merged' = Append(merged, w)
    ELSE UNCHANGED <<settings, merged>>

\* The rows a request owes the audit log once its merge has answered.
owes(patch) == {key \in DOMAIN AuditOrder :
                    key \in patch.whole \/ (key = "toggles" /\ names_toggles(patch))}

update_settings(w, patch) ==
    /\ writer[w].step = "none"
    /\ merge_settings(w, patch)
    /\ writer' = [writer EXCEPT ![w] =
            IF ~tenantLive THEN [@ EXCEPT !.step = "missing"]
            ELSE [step |-> IF owes(patch) = {} THEN "done" ELSE "merged",
                  patch |-> patch, owed |-> owes(patch)]]
    /\ UNCHANGED <<tenantLive, trail>>

\* _record_settings_audit: each row in a transaction of its own.
record_settings_audit(w) ==
    /\ writer[w].step = "merged"
    /\ \E key \in writer[w].owed :
          /\ \A other \in writer[w].owed : AuditOrder[key] <= AuditOrder[other]
          /\ trail' = Append(trail, [by |-> w, key |-> key])
          /\ writer' = [writer EXCEPT ![w].owed = @ \ {key},
                ![w].step = IF writer[w].owed = {key} THEN "done" ELSE "merged"]
    /\ UNCHANGED <<settings, tenantLive, merged>>

\* The process dies between two transactions of a request.
settings_crash(w) ==
    /\ writer[w].step = "merged"
    /\ writer' = [writer EXCEPT ![w].step = "died"]
    /\ UNCHANGED <<settings, tenantLive, merged, trail>>

\* The platform deletes the boutique.
soft_delete_tenant ==
    /\ tenantLive /\ tenantLive' = FALSE
    /\ UNCHANGED <<settings, writer, merged, trail>>

\* What the owner's page shows: the registry's defaults, all off, under the stored
\* toggles; the other blocks as they are.
settings_result ==
    [settings EXCEPT !.toggles = [k \in Toggles |-> IF @[k] = "absent" THEN "off" ELSE @[k]]]

SettingsNext ==
    \/ \E w \in Writers : \/ \E patch \in Patches : update_settings(w, patch)
                          \/ record_settings_audit(w) \/ settings_crash(w)
    \/ soft_delete_tenant

----------------------------------------------------------------------------
(* appointment_types. *)

NoAmount == 0  \* deposit_amount_agorot IS NULL
AppointmentType == [name : Names, deposit_required : BOOLEAN, deposit_amount_agorot : {NoAmount, 1}]

ASSUME TypesAssumption == Names # {} /\ TypeIds # {} /\ Forms \subseteq AppointmentType

\* A deposit that is required has an amount.
validate_appointment_type(f) == f.deposit_required => f.deposit_amount_agorot # NoAmount

TypesInit ==
    /\ types = [t \in TypeIds |-> [stage |-> "none", row |-> CHOOSE f \in AppointmentType : TRUE]]
    /\ editor = [e \in Editors |-> [step |-> "none", of |-> CHOOSE t \in TypeIds : TRUE,
                                    read |-> CHOOSE f \in AppointmentType : TRUE,
                                    want |-> CHOOSE f \in AppointmentType : TRUE]]

TypesTypeOK ==
    /\ types \in [TypeIds -> [stage : {"none", "live", "archived"}, row : AppointmentType]]
    /\ editor \in [Editors -> [step : {"none", "read", "done", "refused"}, of : TypeIds,
                               read : AppointmentType, want : AppointmentType]]

\* by_id: the live row, if there is one.
live_types == {t \in TypeIds : types[t].stage = "live"}

\* The partial unique index: an archived type frees its name.
name_taken(t, name) == \E u \in live_types \ {t} : types[u].row.name = name

types_insert(t, f) ==
    /\ types[t].stage = "none" /\ ~name_taken(t, f.name)
    /\ types' = [types EXCEPT ![t] = [stage |-> "live", row |-> f]]

create_appointment_type(t, f) ==
    /\ validate_appointment_type(f)
    /\ types_insert(t, f)
    /\ UNCHANGED editor

\* update_fields: the live row is read; none is a 404.
update_appointment_type(e, t, f) ==
    /\ editor[e].step = "none" /\ validate_appointment_type(f)
    /\ editor' = [editor EXCEPT ![e] =
            IF t \in live_types THEN [step |-> "read", of |-> t, read |-> types[t].row, want |-> f]
            ELSE [@ EXCEPT !.step = "refused"]]
    /\ UNCHANGED types

\* The columns the session flushes: those that differ from what it read.
flushed(want, read, stored) == IF want # read THEN want ELSE stored

flushed_row(e) ==
    LET want == editor[e].want
        read == editor[e].read
        stored == types[editor[e].of].row
    IN  [name |-> flushed(want.name, read.name, stored.name),
         deposit_required |->
            flushed(want.deposit_required, read.deposit_required, stored.deposit_required),
         deposit_amount_agorot |->
            flushed(want.deposit_amount_agorot, read.deposit_amount_agorot,
                    stored.deposit_amount_agorot)]

\* The UPDATE by primary key: archived meanwhile or not, and a name that another
\* live type has is refused.
flush_appointment_type(e) ==
    LET t == editor[e].of
        refused == t \in live_types /\ name_taken(t, flushed_row(e).name)
    IN  /\ editor[e].step = "read"
        /\ types' = IF refused THEN types ELSE [types EXCEPT ![t].row = flushed_row(e)]
        /\ editor' = [editor EXCEPT ![e].step = IF refused THEN "refused" ELSE "done"]

types_soft_delete(t) ==
    /\ t \in live_types
    /\ types' = [types EXCEPT ![t].stage = "archived"]

archive_appointment_type(t) == types_soft_delete(t) /\ UNCHANGED editor

TypesNext ==
    \/ \E t \in TypeIds : (\E f \in Forms : create_appointment_type(t, f)) \/ archive_appointment_type(t)
    \/ \E e \in Editors : \/ \E t \in TypeIds, f \in Forms : update_appointment_type(e, t, f)
                          \/ flush_appointment_type(e)

\* The claim reads the stored toggles, an absent one as off.
deposits_enabled(toggles) == toggles["deposits_enabled"] = "on"

\* The one predicate of the storefront's disclosure and of the claim.
deposit_due(enabled, row, connected) ==
    enabled /\ row.deposit_required /\ row.deposit_amount_agorot > 0 /\ connected

hide_deposit(row) == [row EXCEPT !.deposit_required = FALSE, !.deposit_amount_agorot = NoAmount]

\* The storefront's list_appointment_types, of one row.
disclosed(enabled, row, connected) ==
    IF deposit_due(enabled, row, connected) THEN row ELSE hide_deposit(row)

----------------------------------------------------------------------------
(* What the settings promise. *)

\* Two writers of different keys both survive and of one key the later wins: every
\* toggle and every block is what the last request that named it sent.
LastNamedStands ==
    LET patch(i) == writer[merged[i]].patch
        sent(b) == {i \in DOMAIN merged : b \in patch(i).whole}
        toggled(k) == {i \in DOMAIN merged : patch(i).toggles[k] # "absent"}
        latest(S) == {i \in S : \A j \in S : j <= i}
    IN  /\ \A b \in Whole :
            /\ sent(b) = {} => settings.whole[b] = NoWriter
            /\ \A i \in latest(sent(b)) : settings.whole[b] = merged[i]
        /\ \A k \in Toggles :
            /\ toggled(k) = {} => settings.toggles[k] = "absent"
            /\ \A i \in latest(toggled(k)) : settings.toggles[k] = patch(i).toggles[k]

\* A crash between merge and audit loses rows and never invents one: each row is of
\* a merge that happened, of a key it sent, at most once; and without a crash none
\* is lost.
TrailInventsNothing ==
    /\ \A i \in DOMAIN trail :
          /\ \E j \in DOMAIN merged : merged[j] = trail[i].by
          /\ trail[i].key \in owes(writer[trail[i].by].patch)
    /\ \A i, j \in DOMAIN trail : trail[i] = trail[j] => i = j
    /\ \A w \in Writers : writer[w].step = "done" =>
          \A key \in owes(writer[w].patch) :
              \E i \in DOMAIN trail : trail[i] = [by |-> w, key |-> key]

\* The docstring of _record_settings_audit has the trail be the history: once
\* every request has ended, and none by a crash, the last row of a block tells who
\* wrote what is in force.  It does not hold: the rows commit in their own order.
TrailIsTheHistory ==
    (\A w \in Writers : writer[w].step \in {"none", "done"}) =>
        \A b \in {"atelier", "scheduling"} :
            \A i \in DOMAIN trail :
                trail[i].key = b /\ (\A j \in DOMAIN trail : trail[j].key = b => j <= i)
                    => settings.whole[b] = trail[i].by

\* The docstring of _settings_result: the switch the owner sees is the one the
\* claim obeys.
SwitchIsObeyed == deposits_enabled(settings.toggles) = deposits_enabled(settings_result.toggles)

SettingsAreSound ==
    SettingsTypeOK /\ LastNamedStands /\ TrailInventsNothing /\ SwitchIsObeyed

\* No two live types share a name, through any race of creation, rename and
\* archive; and of a row that two edits have torn (its deposit required, its
\* amount cleared) the storefront shows no deposit without an amount.
TypesAreSound ==
    /\ TypesTypeOK
    /\ \A t, u \in live_types : t # u => types[t].row.name # types[u].row.name
    /\ \A t \in TypeIds, enabled, connected \in BOOLEAN :
            validate_appointment_type(disclosed(enabled, types[t].row, connected))

\* What the validator asks of every write holds of every live row.  It does not:
\* two edits that each pass it can leave a required deposit without an amount.
RequiredHasAmount ==
    \A t \in live_types : validate_appointment_type(types[t].row)

=============================================================================
