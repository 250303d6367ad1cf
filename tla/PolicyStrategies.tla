-------------------------- MODULE PolicyStrategies --------------------------
(***************************************************************************)
(* Strategies A-F: the provisional policies the configuration chooses      *)
(* between.  A policy is the record of the values createPolicyStrategyBundle *)
(* has read and checked; time is in minutes.                               *)
(*                                                                         *)
(* A location text is the set of road names it contains.  Alias gives a    *)
(* name without its section suffix (itself when it has none).              *)
(***************************************************************************)
EXTENDS Configuration

CONSTANTS
    RoadIds,   \* the segment ids that start with RD_
    Alias      \* name |-> the name without its section

\* An absent value is none of the values it stands in for.
ASSUME NoneAssumption == None \notin RoadIds \cup Int \cup {"upstream", "downstream"}

IsRoadEvent(incident) == incident.affected_segment \in RoadIds

\* get throws on a key the configuration lacks, readEnum on any other value.
\* Two of the four sets the schema allows for the clearance time are not read.
ImplementedEteSets ==
    {"directly_affected_roads_at_event_snapshot", "incident_primary_and_selected_secondary"}

readEnum(config, key, allowed) ==
    key \in DOMAIN config /\ config[key].type = "string" /\ config[key].value \in allowed

createPolicyStrategyBundle(config) ==
    IF /\ readEnum(config, "time_alignment", TimeAlignmentModes)
       /\ "max_staleness" \in DOMAIN config
       /\ config.max_staleness.type = "number" /\ config.max_staleness.value >= 0
       /\ readEnum(config, "affected_road", AffectedRoadRoles)
       /\ readEnum(config, "ete", ImplementedEteSets)
       /\ readEnum(config, "incident_anchor", IncidentAnchorModes)
       /\ readEnum(config, "affected_intersection_scope", AffectedIntersectionScopeModes)
       /\ readEnum(config, "multilingual_scope", MultilingualScopeModes)
    THEN [key \in DOMAIN config |-> config[key].value]
    ELSE Fault

(* Strategy A: the row of an entity that counts at the event.               *)
\* The records of an entity are the positions of its rows; of several rows at
\* one instant the first counts.
latestPrior(event, rows, records) ==
    LET prior == {i \in records : rows[i].at <= event}
        latest == {i \in prior : \A j \in prior : rows[j].at <= rows[i].at}
    IN  IF latest = {} THEN None ELSE rows[Min(latest)]

\* A limit that is no number never cuts anything off.
select(policy, event, rows, records) ==
    LET best == latestPrior(event, rows, records) IN
    IF /\ best # None
       /\ policy.time_alignment = "exact_or_latest_prior_per_entity"
       /\ policy.max_staleness # None
       /\ event - best.at > policy.max_staleness
    THEN None ELSE best

\* The selector by itself checks nothing: the constructor throws on a key the
\* configuration lacks, and every select throws on a mode nobody knows.
SnapshotSelector(config) ==
    IF {"time_alignment", "max_staleness"} \subseteq DOMAIN config
    THEN [time_alignment |-> IF config.time_alignment.type = "string"
                             THEN config.time_alignment.value ELSE None,
          max_staleness |-> IF config.max_staleness.type = "number"
                            THEN config.max_staleness.value ELSE None]
    ELSE Fault

selects(selector) == selector.time_alignment \in TimeAlignmentModes

(* Strategy D: the intersection the incident is at.                         *)
intersectionAppearsInLocation(location, name) == {name, Alias[name]} \cap location # {}

Unresolved(unranked) ==
    [anchor_intersection |-> None, manual_confirmation_required |-> TRUE, unranked |-> unranked]

Resolved(name) ==
    [anchor_intersection |-> name, manual_confirmation_required |-> FALSE, unranked |-> <<>>]

LocationMatches(incident, intersections) ==
    {i \in DOMAIN intersections :
        intersectionAppearsInLocation(incident.location, intersections[i])}

incidentAnchorFromLocationText_FirstMatch(incident, network) ==
    IF incident.affected_segment \notin DOMAIN network THEN Unresolved(<<>>)
    ELSE LET intersections == network[incident.affected_segment].intersections
             matches == LocationMatches(incident, intersections)
         IN  IF matches = {} THEN Unresolved(intersections)
             ELSE Resolved(intersections[Min(matches)])

incidentAnchorFromLocationText(incident, network) ==
    IF incident.affected_segment \notin DOMAIN network THEN Unresolved(<<>>)
    ELSE LET intersections == network[incident.affected_segment].intersections
             matches == LocationMatches(incident, intersections)
         IN  IF matches = {} THEN Unresolved(intersections)
             ELSE IF Cardinality(matches) = 1 THEN Resolved(intersections[Min(matches)])
             ELSE Unresolved(AtPositions(intersections, matches))

\* A configured mapping wins over the text; it must name an intersection.
explicitHostMapping(incident, network, mappings) ==
    IF incident.event_id \notin DOMAIN mappings
    THEN incidentAnchorFromLocationText(incident, network)
    ELSE IF isDirectIntersection(network, incident.affected_segment, mappings[incident.event_id])
         THEN Resolved(mappings[incident.event_id])
         ELSE Unresolved(IF incident.affected_segment \in DOMAIN network
                         THEN network[incident.affected_segment].intersections ELSE <<>>)

(* Strategy B: what the affected_road of a station event is good for.       *)
affectedRoad(policy, incident) ==
    [affected_road |-> incident.affected_road,
     include_in_ete_context |->
         policy.affected_road = "context_and_ete" /\ incident.affected_road # None]

(* Strategy C: the roads the clearance time is about, in order.             *)
stableUniqueRoadIds(ids) ==
    AtPositions(ids, {i \in DOMAIN ids : ids[i] # None /\ \A j \in 1..(i - 1) : ids[j] # ids[i]})

eteAffectedSet(policy, incident, road, primary, secondary) ==
    IF policy.ete = "incident_primary_and_selected_secondary"
    THEN IF IsRoadEvent(incident)
         THEN stableUniqueRoadIds(<<incident.affected_segment, primary>> \o secondary)
         ELSE <<>>
    ELSE IF IsRoadEvent(incident) THEN <<incident.affected_segment>>
    ELSE IF road.include_in_ete_context THEN <<road.affected_road>> ELSE <<>>

\* The latest instant at or before the event at which every road of the set
\* was read; the first reading of a road at an instant is the one that counts.
ReadingAt(traffic, road, at) ==
    LET i == SelectInSeq(traffic, LAMBDA r : r.road = road /\ r.at = at)
    IN  IF i = 0 THEN None ELSE traffic[i]

NoCommonSnapshot == [at |-> None, readings |-> <<>>]

ReadInstants(roads, event, traffic) ==
    {traffic[i].at : i \in {j \in DOMAIN traffic :
                                Contains(roads, traffic[j].road) /\ traffic[j].at <= event}}

selectLatestCommonExactSnapshot_PerRoad(roads, event, traffic) ==
    LET prior(road) ==
            latestPrior(event, traffic, {i \in DOMAIN traffic : traffic[i].road = road})
    IN  IF roads = <<>> \/ \E i \in DOMAIN roads : prior(roads[i]) = None
        THEN NoCommonSnapshot
        ELSE [at |-> prior(roads[1]).at, readings |-> [i \in DOMAIN roads |-> prior(roads[i])]]

selectLatestCommonExactSnapshot(roads, event, traffic) ==
    LET common == {at \in ReadInstants(roads, event, traffic) :
                      \A k \in DOMAIN roads : ReadingAt(traffic, roads[k], at) # None}
    IN  IF roads = <<>> \/ common = {} THEN NoCommonSnapshot
        ELSE [at |-> Max(common),
              readings |-> [k \in DOMAIN roads |-> ReadingAt(traffic, roads[k], Max(common))]]

(* Strategy E: how many intersections a signal failure reaches.  The        *)
(* pipeline passes no explicit set.                                         *)
affectedIntersections(policy, network, id) ==
    IF policy.affected_intersection_scope = "all_segment_intersections" /\ id \in DOMAIN network
    THEN Len(network[id].intersections) ELSE None

(* Strategy F: the stations whose roaming share may demand other languages. *)
(* The pipeline passes no station lists.                                    *)
stationsInScope(policy, stations) ==
    IF policy.multilingual_scope = "current_snapshot_all_available_stations"
    THEN stations ELSE {}
=============================================================================
