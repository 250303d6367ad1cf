------------------------ MODULE MCOperationalPicture ------------------------
(* OperationalPicture for TLC.  The event is at 10; rows are at 0, 10, 20.   *)
(* Two families: a road incident over several maps, places and series of     *)
(* readings, and a station incident over series of the two named stations.   *)
EXTENDS OperationalPicture

MCRoadIds == {"RD_TPE_001", "RD_TPE_002", "RD_TPE_004", "RD_TPE_005", "RD_TPE_009"}

MCAlias == [n \in {"Guangfu", "Civic4", "Renai4", "Zhongxiao4", "Zhongxiao5", "Yanji"} |->
               CASE n = "Civic4" -> "Civic" [] n = "Renai4" -> "Renai"
                 [] n \in {"Zhongxiao4", "Zhongxiao5"} -> "Zhongxiao" [] OTHER -> n]

Segment(id, name, intersections, capacity, alternatives) ==
    [segment_id |-> id, name |-> name, intersections |-> intersections,
     capacity_vph |-> capacity, alternatives |-> alternatives]

Map(intersections, capacity004, alternatives) ==
    <<Segment("RD_TPE_002", "Guangfu", intersections, 1800, alternatives),
      Segment("RD_TPE_004", "Civic4", <<"Guangfu">>, capacity004, <<"RD_TPE_001">>),
      Segment("RD_TPE_005", "Renai4", <<"Guangfu">>, 1000, <<>>)>>

BothUpstream == Map(<<"Civic4", "Renai4", "Zhongxiao4">>, 2500, <<"RD_TPE_004", "RD_TPE_005">>)
Straddling == Map(<<"Civic4", "Zhongxiao4", "Renai4">>, 2500, <<"RD_TPE_005", "RD_TPE_004">>)
Narrow == Map(<<"Civic4", "Renai4", "Zhongxiao4">>, 999, <<"RD_TPE_004", "RD_TPE_001">>)
TwoSections == Map(<<"Civic4", "Zhongxiao4", "Zhongxiao5">>, 2500, <<"RD_TPE_004">>)
Repeated == Append(BothUpstream, BothUpstream[1])

Traffic(road, at, saturation) == [road |-> road, at |-> at, saturation |-> saturation]
Crowd(station, at, users, growth, roaming) ==
    [station |-> station, at |-> at, users |-> users, growth |-> growth, roaming |-> roaming]

Series(road, s) == [i \in DOMAIN s |-> Traffic(road, s[i][1], s[i][2])]
RoadSeries == {<<>>, <<<<0, 80>>>>, <<<<10, 85>>>>, <<<<0, 40>>, <<10, 95>>, <<20, 99>>>>,
               <<<<20, 50>>, <<10, 60>>>>}

TrafficOf(s2, s4, s5) ==
    <<Traffic("RD_TPE_009", 0, 10)>>
    \o Series("RD_TPE_002", s2) \o Series("RD_TPE_004", s4) \o Series("RD_TPE_005", s5)

CrowdSeries(id, s) == [i \in DOMAIN s |-> Crowd(id, s[i][1], s[i][2], s[i][3], s[i][4])]
Bl17Series == {<<>>, <<<<10, 25000, 30, 29>>>>, <<<<10, 25001, 0, 0>>>>,
               <<<<0, 100, 31, 30>>, <<20, 100, 0, 0>>>>}
DomeSeries == {<<>>, <<<<0, 30000, 5, 5>>, <<10, 20000, -20, 30>>>>,
               <<<<10, 29999, -20, 5>>, <<20, 30000, -40, 5>>>>,
               <<<<10, 20000, -19, 5>>>>, <<<<0, 31000, -25, 5>>>>}

CrowdOf(bl17, dome) ==
    <<Crowd("BS_OTHER", 0, 10, 0, 5)>>
    \o CrowdSeries("BS_MRT_BL17", bl17) \o CrowdSeries("BS_TPE_DOME", dome)

Incident(id, type, segment, road, location, status, severity, failure, at) ==
    [event_id |-> id, type |-> type, affected_segment |-> segment, affected_road |-> road,
     location |-> location, status |-> status, severity |-> severity,
     says_failure |-> failure, at |-> at]

RoadIncident(location, status, severity) ==
    Incident("ACC", "Road_Collapse_Accident", "RD_TPE_002", None, location, status, severity,
             FALSE, 10)
StationIncident(at) ==
    Incident("EVT", "Crowd_Surge_Injury", "BS_MRT_BL17", "RD_TPE_001", {}, "Caution", "High",
             FALSE, at)
Outage == Incident("PWR", "Power_Failure", "RD_TPE_001", None, {}, "Open", "Medium", TRUE, 10)

Policy(alignment, staleness, ete, scopes) ==
    [time_alignment |-> Setting("string", alignment),
     max_staleness |-> Setting("number", staleness),
     affected_road |-> Setting("string", "context_and_ete"),
     ete |-> Setting("string", ete),
     incident_anchor |-> Setting("string", IF scopes THEN "incident_anchor_from_location_text"
                                           ELSE "explicit_host_mapping"),
     affected_intersection_scope |->
         Setting("string", IF scopes THEN "all_segment_intersections"
                           ELSE "unresolved_manual_confirmation"),
     multilingual_scope |->
         Setting("string", IF scopes THEN "current_snapshot_all_available_stations"
                           ELSE "explicit_host_policy")]

StrictFile == Policy("exact_or_latest_prior_per_entity", 5,
                     "incident_primary_and_selected_secondary", TRUE)
LastKnownFile == Policy("last_known_value_with_visible_staleness", 0,
                        "directly_affected_roads_at_event_snapshot", FALSE)

Local(file, env) ==
    [profile |-> "LOCAL_MOCK", file |-> file, env |-> env, parameters |-> Missing]
Aws(parameters) ==
    [profile |-> "COMPETITION_AWS", file |-> Missing, env |-> <<>>, parameters |-> parameters]

Strict == Local(StrictFile, <<>>)
LastKnown == Aws(LastKnownFile)
Hosted == Local(StrictFile, "max_staleness" :> Setting("number", 10))

\* A mode nobody knows; a limit that is a text, negative, or not there; an
\* override of another type than the file's; the two sets without a strategy;
\* no file, no service, no such profile.
OddDeployments ==
    {Local([StrictFile EXCEPT !.time_alignment = Setting("string", "nearest")], <<>>),
     Local(StrictFile, "max_staleness" :> Setting("string", "an hour")),
     Local(StrictFile, "max_staleness" :> Setting("number", -1)),
     Local(StrictFile, "time_alignment" :> Setting("number", 1)),
     Local(StrictFile, "ete" :> Setting("string", "all_classified_roads")),
     Aws([StrictFile EXCEPT !.ete = Setting("string", "incident_plus_alternatives")]),
     Aws([StrictFile EXCEPT !.time_alignment = Setting("number", 1)]),
     Aws([key \in DOMAIN StrictFile \ {"max_staleness"} |-> StrictFile[key]]),
     Aws([key \in DOMAIN StrictFile \ {"multilingual_scope"} |-> StrictFile[key]]),
     Local(Missing, <<>>), Aws(Missing), [Strict EXCEPT !.profile = "PRODUCTION"]}

Case(traffic, crowd, roads, sop, incidents, deployment, events, bad) ==
    LET Bytes(rows) == [sha |-> "official", rows |-> rows] IN
    [files |-> ("traffic" :> Bytes(traffic)) @@ ("crowd" :> Bytes(crowd))
               @@ ("roads" :> Bytes(roads)) @@ ("sop" :> Bytes(sop))
               @@ ("incidents" :> Bytes(incidents)),
     expected |-> [f \in ToSet(RUNTIME_SOURCE_FILES) |-> "official"],
     deployment |-> deployment, events |-> events, max_bad_files |-> bad]

Sop == <<1, 2, 3, 4, 5, 6, 7>>

RoadCase(s2, s4, s5, roads, location, policy, bad) ==
    Case(TrafficOf(s2, s4, s5), CrowdOf(<<>>, <<>>), roads, Sop,
         <<RoadIncident(location, "Closed", "Critical")>>, policy, {"ACC"}, bad)

RoadCases ==
    {RoadCase(s2, s4, s5, roads, {"Zhongxiao"}, policy, 0) :
        s2 \in RoadSeries, s4 \in RoadSeries, s5 \in RoadSeries,
        roads \in {BothUpstream, Straddling}, policy \in {Strict, Hosted, LastKnown}}

PlaceCases ==
    {RoadCase(<<<<10, 95>>>>, s4, <<<<10, 60>>>>, roads, location, policy, 0) :
        s4 \in RoadSeries,
        roads \in {BothUpstream, Straddling, Narrow, TwoSections, Repeated, <<>>},
        location \in {{}, {"Zhongxiao", "Zhongxiao4"}, {"Zhongxiao", "Renai"}, {"Civic"}},
        policy \in {Strict, LastKnown}}

StationCases ==
    {Case(TrafficOf(<<<<10, 84>>>>, <<>>, <<>>), CrowdOf(bl17, dome), BothUpstream, Sop,
          <<StationIncident(at), Outage>>, policy, {"EVT", "PWR"}, 0) :
        bl17 \in Bl17Series, dome \in DomeSeries, at \in {10, 20}, policy \in {Strict, LastKnown}}

\* Files that go bad and come back, official files that do not parse, an
\* event nobody reported, an instant that does not parse, odd deployments.
FaultCases ==
    {RoadCase(<<<<10, 95>>>>, <<<<0, 40>>, <<10, 90>>>>, <<<<10, 60>>>>, BothUpstream,
              {"Zhongxiao"}, Strict, 1)}
    \cup {RoadCase(<<<<10, 95>>>>, <<<<0, 40>>, <<10, 90>>>>, <<<<10, 60>>>>, BothUpstream,
                   {"Zhongxiao"}, deployment, 1) : deployment \in OddDeployments}
    \cup {Case(traffic, crowd, roads, sop, incidents, Strict, {"ACC", "EVT", "NONE"}, bad) :
             traffic \in {<<Traffic("RD_TPE_009", 0, 101)>>, TrafficOf(<<>>, <<>>, <<<<10, 5>>>>)},
             crowd \in {<<Crowd("BS_OTHER", None, 1, 1, 1)>>, CrowdOf(<<>>, <<>>)},
             roads \in {BothUpstream, <<Segment("RD_TPE_002", "Guangfu", <<>>, -1, <<>>)>>},
             sop \in {Sop, <<1, 2, 3, 4, 5, 6>>},
             incidents \in {<<RoadIncident({}, "Closed", "Low")>>,
                            <<RoadIncident({}, "Open", "High"), StationIncident(None)>>},
             bad \in {0, 1}}

MCCases == RoadCases \cup PlaceCases \cup StationCases \cup FaultCases
=============================================================================
