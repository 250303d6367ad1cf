------------------------------ MODULE Dashboard -----------------------------
(***************************************************************************)
(* The four GET routes of the dashboard.  Each ingests the files anew and  *)
(* answers for the latest instant of the official data.  A selector that   *)
(* throws is a 500.                                                        *)
(***************************************************************************)
EXTENDS RuleEngine, FiniteSetsExt

Answer(route, ingested, body) ==
    [route |-> route, data_status |-> ingested.data_status,
     stop_reason |-> ingested.stop_reason,
     body |-> IF ingested.data_status = "ready" THEN body ELSE None]

\* An answer that needs the selector.
SelectedAnswer(route, selector, ingested, body) ==
    IF ingested.data_status = "ready" /\ ~selects(selector)
    THEN [route |-> route, data_status |-> "error", stop_reason |-> None, body |-> None]
    ELSE Answer(route, ingested, body)

Instants(rows) == {rows[i].at : i \in DOMAIN rows}

resolveCutoff_OfOneFile(data) == Max(Instants(data.crowd))

\* The replay position: the latest instant of either file.
resolveCutoff(data) == Max(Instants(data.traffic) \cup Instants(data.crowd))

queryTimeline(data) ==
    Answer("timeline", data,
           [timestamps |-> Instants(data.traffic) \cup Instants(data.crowd),
            current |-> resolveCutoff(data)])

RowsOf(rows, key, id) == {i \in DOMAIN rows : rows[i][key] = id}

\* One call grades every segment of the traffic file.
queryRoads(selector, data) ==
    LET row(id) == select(selector, resolveCutoff(data), data.traffic,
                          RowsOf(data.traffic, "road", id))
        snapshot(id) == [segment_id |-> id,
                         saturation |-> IF row(id) = None THEN None ELSE row(id).saturation]
    IN  SelectedAnswer("roads", selector, data,
               {classifySegments(<<snapshot(id)>>)[1] :
                   id \in {data.traffic[i].road : i \in DOMAIN data.traffic}})

evaluateStationFlags(id, current, rows, observations, cutoff) ==
    {"SOP3_MRT_SHUTTLE" : x \in
        {y \in {id} : y = ARTICLE3_STATION_ID /\ evaluateArticle3(current).triggered}}
    \cup {"SOP4_DOME_DISPERSAL" : x \in
        {y \in {id} : y = ARTICLE4_STATION_ID
                      /\ evaluateArticle4(current, rows, observations, cutoff).triggered}}

queryCrowd(selector, data) ==
    LET cutoff == resolveCutoff(data)
        observations(id) == RowsOf(data.crowd, "station", id)
        current(id) == select(selector, cutoff, data.crowd, observations(id))
    IN  SelectedAnswer("crowd", selector, data,
               [id \in {data.crowd[i].station : i \in DOMAIN data.crowd} |->
                   [reading |-> current(id),
                    flags |-> evaluateStationFlags(id, current(id), data.crowd,
                                                   observations(id), cutoff)]])

queryIncidents(data) ==
    Answer("incidents", data, [i \in DOMAIN data.incidents |-> data.incidents[i].event_id])
=============================================================================
