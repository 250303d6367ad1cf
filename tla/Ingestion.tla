------------------------------ MODULE Ingestion -----------------------------
(***************************************************************************)
(* ingestData: the STOP gate over the five runtime sources, then the five  *)
(* parsers.  A file is its digest and its rows: two contents with one      *)
(* digest are the same content.  A row's field is None when its text does  *)
(* not parse as what the column holds; a parser throws on the first such   *)
(* field and the whole ingestion is insufficient.                          *)
(***************************************************************************)
EXTENDS Configuration

RUNTIME_SOURCE_FILES == <<"traffic", "crowd", "roads", "sop", "incidents">>

\* getBuffer answers null for a Missing file.
verifySourceBuffer(expected, bytes) ==
    IF bytes = Missing THEN "missing"
    ELSE IF bytes.sha = expected THEN "verified" ELSE "hash_mismatch"

evaluateGate_OnlyPresence(statuses) == \A f \in DOMAIN statuses : statuses[f] # "missing"

evaluateGate(statuses) == \A f \in DOMAIN statuses : statuses[f] = "verified"

runManifestGateSync(expected, files) ==
    evaluateGate([f \in ToSet(RUNTIME_SOURCE_FILES) |-> verifySourceBuffer(expected[f], files[f])])

\* The digests in manifest order.
computeSourceManifestHash(files) ==
    [i \in DOMAIN RUNTIME_SOURCE_FILES |-> files[RUNTIME_SOURCE_FILES[i]].sha]

NonEmpty(rows) == rows # <<>>

trafficParses(rows) ==
    /\ NonEmpty(rows)
    /\ \A i \in DOMAIN rows :
          rows[i].at # None /\ rows[i].saturation # None /\ rows[i].saturation \in 0..100

\* parsePercent takes the sign off and bounds nothing.
crowdParses(rows) ==
    /\ NonEmpty(rows)
    /\ \A i \in DOMAIN rows :
          None \notin {rows[i].at, rows[i].users, rows[i].growth, rows[i].roaming}

roadsParse(rows) ==
    /\ NonEmpty(rows)
    /\ \A i \in DOMAIN rows : rows[i].capacity_vph # None /\ rows[i].capacity_vph >= 0

\* Exactly the seven articles, in order.
sopParses(articles) == articles = [i \in 1..7 |-> i]

INCIDENT_TYPES == {"Road_Collapse_Accident", "Crowd_Surge_Injury", "Power_Failure"}
INCIDENT_STATUSES == {"Closed", "Blocked", "Restricted", "Open", "Caution"}

\* The instant of an incident is not looked at here.
incidentsParse(rows) ==
    /\ NonEmpty(rows)
    /\ \A i \in DOMAIN rows :
          /\ rows[i].type \in INCIDENT_TYPES
          /\ rows[i].status \in INCIDENT_STATUSES
          /\ rows[i].severity \in {"Critical", "High", "Medium"}

Insufficient(reason) ==
    [data_status |-> "insufficient_data", stop_reason |-> reason, source_manifest_hash |-> <<>>,
     incidents |-> <<>>]

ingestData(expected, files) ==
    IF ~runManifestGateSync(expected, files) THEN Insufficient("source_verification")
    ELSE IF \/ ~trafficParses(files["traffic"].rows) \/ ~crowdParses(files["crowd"].rows)
            \/ ~roadsParse(files["roads"].rows) \/ ~NoDuplicateSegments(files["roads"].rows)
            \/ ~sopParses(files["sop"].rows) \/ ~incidentsParse(files["incidents"].rows)
    THEN Insufficient("parsing")
    ELSE [data_status |-> "ready", stop_reason |-> None,
          source_manifest_hash |-> computeSourceManifestHash(files),
          traffic |-> files["traffic"].rows,
          crowd |-> files["crowd"].rows,
          network |-> load(files["roads"].rows),
          articles |-> ToSet(files["sop"].rows),
          incidents |-> files["incidents"].rows]
=============================================================================
