----------------------------- MODULE RuleEngine -----------------------------
(***************************************************************************)
(* The seven articles of the SOP as the rule engine encodes them.  Shares  *)
(* and rates are percentages, speeds and names are left out; an incident   *)
(* is a record of live_incidents.json, a location the names it contains.   *)
(***************************************************************************)
EXTENDS PolicyStrategies

(* SOP-1: grades.                                                           *)
Level(saturation) ==
    IF saturation = None \/ saturation < 85 THEN None
    ELSE IF saturation >= 95 THEN "A" ELSE "B"

classifySegments(snapshots) ==
    [i \in DOMAIN snapshots |->
        [segment_id |-> snapshots[i].segment_id, level |-> Level(snapshots[i].saturation)]]

ARTICLE1_TRIGGER_SEGMENTS == {"RD_TPE_001", "RD_TPE_002"}

Evaluation(article, triggered, procedures) ==
    [article |-> article, triggered |-> triggered, procedures |-> procedures]

\* An A grade invokes the guidance procedure of article 2, never the article.
evaluateArticle1(classifications) ==
    LET graded == {i \in DOMAIN classifications :
                      /\ classifications[i].segment_id \in ARTICLE1_TRIGGER_SEGMENTS
                      /\ classifications[i].level # None}
    IN  [measures |-> AtPositions(classifications, graded),
         evaluation |->
            Evaluation(1, graded # {},
                {"article2_alternative_route_guidance" : i \in
                    {j \in graded : classifications[j].level = "A"}})]

(* SOP-2: the closed road and its candidates.                               *)
isArticle2Triggered(incident) ==
    /\ incident.status \in {"Closed", "Blocked", "Restricted"}
    /\ incident.severity \in {"High", "Critical"}
    /\ IsRoadEvent(incident)

CAPACITY_THRESHOLD == 1000

\* Saturation plays no part in the role.
determineRole(capacity, direct, position, anchor) ==
    IF capacity < CAPACITY_THRESHOLD \/ ~direct THEN "excluded"
    ELSE IF anchor = None THEN "unranked_direct_intersection"
    ELSE IF position = None THEN "excluded"
    ELSE IF position = "downstream" THEN "secondary" ELSE "primary"

evaluateSingleCandidate(id, incidentSegment, anchor, network, saturation) ==
    LET known == id \in DOMAIN network
        name == IF known THEN network[id].name ELSE None
        direct == isDirectIntersection(network, incidentSegment, name)
        position == IF anchor = None \/ ~known THEN None
                    ELSE positionRelativeToAnchor(network, incidentSegment, name, anchor)
    IN  [segment_id |-> id, saturation |-> saturation,
         role |-> determineRole(IF known THEN network[id].capacity_vph ELSE 0,
                                direct, position, anchor)]

\* saturationMap gives each alternative a number: 0 stands for no reading.
qualifyCandidates(incidentSegment, anchor, network, saturationMap) ==
    LET alternatives == alternativesOf(network, incidentSegment) IN
    [i \in DOMAIN alternatives |->
        evaluateSingleCandidate(alternatives[i], incidentSegment, anchor, network,
                                saturationMap[alternatives[i]])]

InRole(candidates, role) == {i \in DOMAIN candidates : candidates[i].role = role}
IdsAt(candidates, positions) ==
    AtPositions([i \in DOMAIN candidates |-> candidates[i].segment_id], positions)

\* Of the qualified candidates the first with the lowest saturation; a
\* congested one is kept, with a note.
selectEvacuation(candidates) ==
    LET qualified == InRole(candidates, "primary")
        lowest == {i \in qualified :
                      \A j \in qualified : candidates[i].saturation <= candidates[j].saturation}
    IN  [primary |-> IF lowest = {} THEN None ELSE candidates[Min(lowest)].segment_id,
         secondary |-> IdsAt(candidates, InRole(candidates, "secondary")),
         excluded |-> IdsAt(candidates, InRole(candidates, "excluded")),
         congested |-> lowest # {} /\ candidates[Min(lowest)].saturation >= 85]

(* SOP-3 and SOP-4: the two stations the SOP names.                         *)
ARTICLE3_STATION_ID == "BS_MRT_BL17"
ARTICLE4_STATION_ID == "BS_TPE_DOME"

evaluateArticle3(reading) ==
    Evaluation(3, reading # None /\ (reading.growth > 30 \/ reading.users > 25000), {})

\* Observations are positions of rows.  The peak is taken over the readings up to the current one.
evaluateArticle4_WholeSeries(reading, rows, observations, event) ==
    LET seen == {rows[i].users : i \in observations}
        triggered == /\ reading # None
                     /\ \E users \in seen : users >= 30000
                     /\ reading.growth <= -20
    IN  Evaluation(4, triggered, IF triggered THEN {"article3_mrt_shuttle_mechanism"} ELSE {})

evaluateArticle4(reading, rows, observations, event) ==
    LET current == IF reading = None THEN event ELSE reading.at
        seen == {rows[i].users : i \in {j \in observations : rows[j].at <= current}}
        triggered == /\ reading # None
                     /\ \E users \in seen : users >= 30000
                     /\ reading.growth <= -20
    IN  Evaluation(4, triggered, IF triggered THEN {"article3_mrt_shuttle_mechanism"} ELSE {})

(* SOP-5: a signal failure, by its type or by what its description says.    *)
isArticle5Triggered(incident) == incident.type = "Power_Failure" \/ incident.says_failure

\* The road the CMS text names: a name, else whatever the incident gives.
cmsRoad(incident, network) ==
    IF incident.affected_segment \in DOMAIN network THEN network[incident.affected_segment].name
    ELSE IF incident.affected_road # None THEN incident.affected_road
    ELSE incident.affected_segment

evaluateArticle5(incident, network) ==
    [evaluation |-> Evaluation(5, isArticle5Triggered(incident), {}),
     cms_core_text |-> IF isArticle5Triggered(incident) THEN cmsRoad(incident, network) ELSE None]

(* SOP-6: one station with three visitors in ten is enough.                 *)
evaluateArticle6(stations) ==
    Evaluation(6, \E s \in stations : s.roaming # None /\ s.roaming >= 30, {})

(* SOP-7: base clearance by severity, plus 0.6 minutes for each percent by  *)
(* which the mean saturation exceeds 50: fifths of a minute per reading.    *)
baseClearanceFor(severity) ==
    CASE severity = "Critical" -> 60 [] severity = "High" -> 40 [] severity = "Medium" -> 20

SumOf(readings) ==
    LET upTo[n \in 0..Len(readings)] ==
            IF n = 0 THEN 0 ELSE upTo[n - 1] + readings[n].saturation
    IN  upTo[Len(readings)]

hasCompleteCommonSnapshot(roads, snapshot) ==
    /\ snapshot.at # None /\ roads # <<>>
    /\ Len(snapshot.readings) = Len(roads)
    /\ \A i \in DOMAIN roads : snapshot.readings[i].road = roads[i]
    /\ \A i \in DOMAIN snapshot.readings : snapshot.readings[i].at = snapshot.at

calculateEte(severity, roads, snapshot) ==
    LET n == Len(roads)
        excess == SumOf(snapshot.readings) - 50 * n
    IN  IF hasCompleteCommonSnapshot(roads, snapshot)
        THEN [base |-> baseClearanceFor(severity), roads |-> roads, at |-> snapshot.at,
              penalty |-> [fifths |-> 3 * (IF excess > 0 THEN excess ELSE 0), per |-> n]]
        ELSE [base |-> baseClearanceFor(severity), roads |-> roads, at |-> None,
              penalty |-> None]

(* The article sets: triggers, and the union with the formula for citing.   *)
\* aggregateArticles throws on a triggered article 7.
aggregateArticles(evaluations, formula) ==
    LET triggered == {e \in evaluations : e.triggered} IN
    [triggered |-> {e.article : e \in triggered},
     applied |-> formula,
     procedures |-> UNION {e.procedures : e \in triggered},
     cited |-> {e.article : e \in triggered} \cup formula]

\* buildEvidenceTrace throws when a cited article has no chunk of the SOP.
evidenceIsComplete(articles, loaded) == articles.cited \subseteq loaded
=============================================================================
