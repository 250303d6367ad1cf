---------------------------- MODULE Configuration ---------------------------
(***************************************************************************)
(* The ConfigProvider: a YAML file with overrides from the environment, or *)
(* parameters of SSM, and the schema a configuration is validated against. *)
(* A configuration is a function from keys to settings; of the schema only *)
(* the policy section is kept, which the deterministic half reads.         *)
(*                                                                         *)
(* A raw text is the setting it would be read as, a number or a string;    *)
(* what only matters to lists and booleans is left out with the keys that  *)
(* hold them.                                                              *)
(***************************************************************************)
EXTENDS RoadNetwork

CONSTANT Missing    \* a file that cannot be read, a service that does not answer

\* Something was thrown: the value of no configuration, policy or facts.
Fault == [thrown |-> TRUE]

Setting(type, value) == [type |-> type, value |-> value]

TimeAlignmentModes ==
    {"exact_or_latest_prior_per_entity", "last_known_value_with_visible_staleness"}
AffectedRoadRoles == {"display_only", "context_and_ete", "parallel_road_impact_explicit_host"}
EteAffectedSets ==
    {"incident_primary_and_selected_secondary", "directly_affected_roads_at_event_snapshot",
     "incident_plus_alternatives", "all_classified_roads"}
IncidentAnchorModes == {"incident_anchor_from_location_text", "explicit_host_mapping"}
AffectedIntersectionScopeModes ==
    {"unresolved_manual_confirmation", "all_segment_intersections", "explicit_host_set"}
MultilingualScopeModes ==
    {"current_snapshot_all_available_stations", "incident_area_nearby_stations",
     "explicit_host_policy"}

\* policy.ete.snapshot_mode, which nothing reads, is left out.
CONFIG_SCHEMA ==
    LET Enum(values) == [type |-> "string", allowed |-> values] IN
    [time_alignment              |-> Enum(TimeAlignmentModes),
     max_staleness               |-> [type |-> "number", allowed |-> {}],
     affected_road               |-> Enum(AffectedRoadRoles),
     ete                         |-> Enum(EteAffectedSets),
     incident_anchor             |-> Enum(IncidentAnchorModes),
     affected_intersection_scope |-> Enum(AffectedIntersectionScopeModes),
     multilingual_scope          |-> Enum(MultilingualScopeModes)]

\* A number has no bounds here.
validateConfig(config) ==
    \A key \in DOMAIN CONFIG_SCHEMA :
        LET def == CONFIG_SCHEMA[key] IN
        /\ key \in DOMAIN config
        /\ config[key].type = def.type
        /\ def.allowed # {} => config[key].value \in def.allowed

\* The file's own value says how an override is read: what is not kept as a
\* number is kept as its text.
Text(raw) == Setting("string", IF raw.type = "string" THEN raw.value ELSE "a number's text")

coerceEnvValue(raw, existing) ==
    IF existing.type = "number" /\ raw.type = "number" THEN raw ELSE Text(raw)

\* A variable for a key the file does not have lands under the key with every
\* underscore turned into a dot; every policy key has an underscore, so such a
\* variable reaches nobody and is left out.
LocalFileConfigProvider(file, env) ==
    IF file = Missing THEN Fault
    ELSE [key \in DOMAIN file |->
            IF key \in DOMAIN env THEN coerceEnvValue(env[key], file[key]) ELSE file[key]]

\* SSM has no types: each parameter is what its text reads as.
SsmConfigProvider(parameters) == IF parameters = Missing THEN Fault ELSE parameters

\* Throws unless the profile is one of the three.
resolveProfile(d) == d.profile \in {"LOCAL_MOCK", "PERSONAL_AWS_DEV", "COMPETITION_AWS"}

createConfigProvider(d) ==
    IF ~resolveProfile(d) THEN Fault
    ELSE IF d.profile = "LOCAL_MOCK" THEN LocalFileConfigProvider(d.file, d.env)
    ELSE SsmConfigProvider(d.parameters)
=============================================================================
