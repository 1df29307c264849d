----------------------------- MODULE BackOffice -----------------------------
(***************************************************************************)
(* The offices behind the counter: the platform's administration and, of   *)
(* one boutique, the gateway credentials, the opening hours, the terms,    *)
(* the settings and the appointment types.  They share no row, and none    *)
(* reads what another writes, so interleaving them shows nothing that they *)
(* do not show alone; a behaviour is one of one of them.                   *)
(***************************************************************************)
EXTENDS Platform, Gateway, Hours, Terms, BoutiqueSettings

VARIABLE office  \* whose behaviour this is

Offices == {"platform", "gateway", "hours", "terms", "settings", "types"}

vars == <<platformVars, gatewayVars, hoursVars, termsVars, settingsVars, typesVars, office>>

TypeOK == PlatformTypeOK /\ GatewayTypeOK /\ office \in Offices

Init ==
    /\ PlatformInit /\ GatewayInit /\ HoursInit /\ TermsInit /\ SettingsInit /\ TypesInit
    /\ office \in Offices

Platforms == office = "platform" /\ PlatformNext
    /\ UNCHANGED <<gatewayVars, hoursVars, termsVars, settingsVars, typesVars, office>>
Gateways == office = "gateway" /\ GatewayNext
    /\ UNCHANGED <<platformVars, hoursVars, termsVars, settingsVars, typesVars, office>>
OpeningHours == office = "hours" /\ HoursNext
    /\ UNCHANGED <<platformVars, gatewayVars, termsVars, settingsVars, typesVars, office>>
TermsOfSale == office = "terms" /\ TermsNext
    /\ UNCHANGED <<platformVars, gatewayVars, hoursVars, settingsVars, typesVars, office>>
Settings == office = "settings" /\ SettingsNext
    /\ UNCHANGED <<platformVars, gatewayVars, hoursVars, termsVars, typesVars, office>>
AppointmentTypes == office = "types" /\ TypesNext
    /\ UNCHANGED <<platformVars, gatewayVars, hoursVars, termsVars, settingsVars, office>>

Next == Platforms \/ Gateways \/ OpeningHours \/ TermsOfSale \/ Settings \/ AppointmentTypes

Spec == Init /\ [][Next]_vars

\* Every office's tables agree with each other: one boutique per address and one
\* invite per boutique; one active credential set, every verdict on the set it was
\* about; a week that is one submission, with three readings of its grid that
\* agree; terms that still say what a customer was shown; settings that no writer
\* loses to another, and an audit log that invents nothing; names of appointment
\* types that are their own.  Only one office has moved: the others are as Init
\* left them.
OfficeIsSound ==
    /\ TypeOK
    /\ office = "platform" => OneBoutiquePerSlug /\ SpentMeansFounded
    /\ office = "gateway" => LaterConnectSupersedes /\ VerdictIsItsOwn
    /\ office = "hours" => HoursAreSound
    /\ office = "terms" => TermsAreSound
    /\ office = "settings" => SettingsAreSound
    /\ office = "types" => TypesAreSound

=============================================================================
