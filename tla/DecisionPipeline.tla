-------------------------- MODULE DecisionPipeline --------------------------
(***************************************************************************)
(* runDeterministicDecision: the facts of one incident from the ingested   *)
(* files, by the strategies of one policy; and DefaultDomainPipelineAdapter *)
(* around it.  What is thrown inside ends as an error result: a setting the *)
(* bundle rejects, an instant normalizeTimestamp cannot read, an article   *)
(* without a chunk.                                                        *)
(***************************************************************************)
EXTENDS RuleEngine

\* The positions of the rows of one entity.
groupBy(rows, key, value) == {i \in DOMAIN rows : rows[i][key] = value}

selectSaturation(policy, data, event, id) ==
    LET row == select(policy, event, data.traffic, groupBy(data.traffic, "road", id))
    IN  IF row = None THEN None ELSE row.saturation

selectStation(policy, data, event, id) ==
    select(policy, event, data.crowd, groupBy(data.crowd, "station", id))

Stations(data) == {data.crowd[i].station : i \in DOMAIN data.crowd}

\* What a candidate without a reading is compared by.
saturationMap(policy, data, incident) ==
    [id \in ToSet(alternativesOf(data.network, incident.affected_segment)) |->
        LET saturation == selectSaturation(policy, data, incident.at, id)
        IN  IF saturation = None THEN 0 ELSE saturation]

(* The part for an incident on a road.                                      *)
\* Only the mode is passed on, so no event has a configured mapping.
resolveIncidentAnchor(policy, data, incident) ==
    IF policy.incident_anchor = "explicit_host_mapping"
    THEN explicitHostMapping(incident, data.network, <<>>)
    ELSE incidentAnchorFromLocationText(incident, data.network)

evacuationFrom(policy, data, incident, anchor) ==
    selectEvacuation(qualifyCandidates(incident.affected_segment, anchor.anchor_intersection,
                                       data.network, saturationMap(policy, data, incident)))

clearanceOf(data, incident, roads) ==
    calculateEte(incident.severity, roads,
                 selectLatestCommonExactSnapshot(roads, incident.at, data.traffic))

roadConclusions(policy, data, incident, grades, anchor, routes) ==
    [classifications |-> grades, anchor |-> anchor, routes |-> routes,
     ete |-> clearanceOf(data, incident,
                 eteAffectedSet(policy, incident, affectedRoad(policy, incident),
                                routes.primary, routes.secondary)),
     evaluations |-> {evaluateArticle1(grades).evaluation,
                      Evaluation(2, isArticle2Triggered(incident), {})}]

RoadFacts(policy, data, incident) ==
    LET id == incident.affected_segment
        anchor == resolveIncidentAnchor(policy, data, incident)
    IN  roadConclusions(policy, data, incident,
            classifySegments(
                <<[segment_id |-> id,
                   saturation |-> selectSaturation(policy, data, incident.at, id)]>>),
            anchor, evacuationFrom(policy, data, incident, anchor))

NoRoadFacts ==
    [classifications |-> <<>>, anchor |-> None,
     routes |-> [primary |-> None, secondary |-> <<>>, excluded |-> <<>>, congested |-> FALSE],
     ete |-> None, evaluations |-> {}]

(* The part for the two named stations and for the visitors.                *)
StationEvaluations(policy, data, incident) ==
    LET current(id) == selectStation(policy, data, incident.at, id) IN
    {evaluateArticle3(current(ARTICLE3_STATION_ID)) :
        s \in Stations(data) \cap {ARTICLE3_STATION_ID}}
    \cup {evaluateArticle4(current(ARTICLE4_STATION_ID),
                           data.crowd, groupBy(data.crowd, "station", ARTICLE4_STATION_ID),
                           incident.at) :
        s \in Stations(data) \cap {ARTICLE4_STATION_ID}}

currentStations(policy, data, incident) ==
    {[station |-> id,
      roaming |-> LET row == selectStation(policy, data, incident.at, id)
                  IN  IF row = None THEN None ELSE row.roaming] : id \in Stations(data)}

\* Road and failure are the parts above and of article 5, scope the stations
\* of article 6.
decisionFacts(policy, data, incident, road, failure, scope) ==
    LET visitors == evaluateArticle6(scope)
        articles == aggregateArticles(
                        road.evaluations \cup {failure.evaluation, visitors}
                            \cup StationEvaluations(policy, data, incident),
                        IF road.ete = None THEN {} ELSE {7})
    IN  IF ~evidenceIsComplete(articles, data.articles)
        THEN Fault
        ELSE [articles |-> articles,
              classifications |-> road.classifications,
              anchor |-> road.anchor,
              routes |-> road.routes,
              ete |-> road.ete,
              intersections |-> IF failure.evaluation.triggered
                                THEN affectedIntersections(policy, data.network,
                                                           incident.affected_segment)
                                ELSE None,
              multilingual_required |-> visitors.triggered,
              stations_in_scope |-> {s.station : s \in scope},
              cms_core_text |-> failure.cms_core_text]

decideWith(policy, data, incident) ==
    IF policy = Fault \/ incident.at = None THEN Fault
    ELSE decisionFacts(policy, data, incident,
             IF IsRoadEvent(incident) THEN RoadFacts(policy, data, incident) ELSE NoRoadFacts,
             evaluateArticle5(incident, data.network),
             stationsInScope(policy, currentStations(policy, data, incident)))

runDeterministicDecision(config, data, incident) ==
    decideWith(createPolicyStrategyBundle(config), data, incident)

(* The adapter: ingest anew, find the incident, decide.                     *)
Stopped(reason, hash) ==
    [data_status |-> "insufficient_data", stop_reason |-> reason,
     source_manifest_hash |-> hash, facts |-> None]

resolveIncident(incidents, eventId) ==
    LET i == SelectInSeq(incidents, LAMBDA x : x.event_id = eventId)
    IN  IF i = 0 THEN None ELSE incidents[i]

Outcome(status, ingested, facts) ==
    [data_status |-> status, stop_reason |-> None,
     source_manifest_hash |-> ingested.source_manifest_hash, facts |-> facts]

outcomeOf(ingested, facts) ==
    IF facts = Fault THEN Outcome("error", ingested, None) ELSE Outcome("ready", ingested, facts)

execute(config, ingested, eventId) ==
    LET incident == resolveIncident(ingested.incidents, eventId) IN
    IF ingested.data_status # "ready"
    THEN Stopped(ingested.stop_reason, ingested.source_manifest_hash)
    ELSE IF incident = None THEN Stopped("unknown_event", ingested.source_manifest_hash)
    ELSE outcomeOf(ingested, runDeterministicDecision(config, ingested, incident))
=============================================================================
