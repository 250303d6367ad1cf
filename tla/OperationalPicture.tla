------------------------- MODULE OperationalPicture -------------------------
(***************************************************************************)
(* The deterministic half of the system over one set of official files:    *)
(* DecisionFn's pipeline and the dashboard's queries, each of which reads  *)
(* the files when it is called, while a file may be damaged or lost and    *)
(* put back in between.  A case fixes the official files, their expected   *)
(* digests, the deployment the configuration is loaded from, the events    *)
(* asked for, and how many files may be bad at a time.  A function whose   *)
(* configuration does not load answers nothing.                            *)
(***************************************************************************)
EXTENDS DecisionPipeline, Dashboard, Ingestion

CONSTANT Cases

VARIABLES
    case,      \* the deployment
    files,     \* what the provider returns for each file
    decision,  \* the last result of the adapter, with its event
    board      \* the last answer of the dashboard

vars == <<case, files, decision, board>>

Names == ToSet(RUNTIME_SOURCE_FILES)

\* The columns hold what their types in the code say, or None.
IsNumber(x) == x \in Int \cup {None}
IsSequence(s) == s \in Seq(ToSet(s))

AreRows(source, rows) ==
    /\ IsSequence(rows)
    /\ \A i \in DOMAIN rows :
          LET row == rows[i] IN
          /\ row # None
          /\ source = "traffic" => IsNumber(row.at) /\ IsNumber(row.saturation)
          /\ source = "crowd" => /\ IsNumber(row.at) /\ IsNumber(row.users)
                                 /\ IsNumber(row.growth) /\ IsNumber(row.roaming)
          /\ source = "roads" => /\ IsNumber(row.capacity_vph)
                                 /\ IsSequence(row.intersections) /\ IsSequence(row.alternatives)
                                 /\ None \notin ToSet(row.intersections)
          /\ source = "incidents" => IsNumber(row.at)

\* A setting marked as a number is one.
AreSettings(config) ==
    \A key \in DOMAIN config : config[key].type = "number" => config[key].value \in Int

\* Every source has a file, and no damaged file has the digest of an official
\* one: a digest stands for one content.
ASSUME CasesAssumption ==
    \A c \in Cases :
        /\ c.files = [f \in Names |-> c.files[f]]
        /\ \A f \in Names :
              /\ c.expected[f] # "truncated"
              /\ c.files[f] # Missing => AreRows(f, c.files[f].rows)
        /\ AreSettings(c.deployment.env)
        /\ c.deployment.file # Missing => AreSettings(c.deployment.file)
        /\ c.deployment.parameters # Missing => AreSettings(c.deployment.parameters)

Ingested == ingestData(case.expected, files)
Config == createConfigProvider(case.deployment)
Selector == SnapshotSelector(Config)

Init ==
    /\ case \in Cases
    /\ files = case.files
    /\ decision = None
    /\ board = None

\* Bytes other than the official ones: the last record is cut off.
Truncated(bytes) == [sha |-> "truncated", rows |-> Front(bytes.rows)]

BadFiles == {f \in Names : files[f] # case.files[f]}

SourceDamaged(f) ==
    /\ Cardinality(BadFiles) < case.max_bad_files
    /\ f \notin BadFiles
    /\ \E bytes \in {Truncated(case.files[f]), Missing} : files' = [files EXCEPT ![f] = bytes]
    /\ UNCHANGED <<case, decision, board>>

SourceRestored(f) ==
    /\ f \in BadFiles
    /\ files' = [files EXCEPT ![f] = case.files[f]]
    /\ UNCHANGED <<case, decision, board>>

Decide(eventId) ==
    /\ Config # Fault
    /\ decision' = [event_id |-> eventId, result |-> execute(Config, Ingested, eventId)]
    /\ UNCHANGED <<case, files, board>>

Get(answer) ==
    /\ Config # Fault /\ Selector # Fault
    /\ board' = answer
    /\ UNCHANGED <<case, files, decision>>

GetTimeline == Get(queryTimeline(Ingested))
GetRoads == Get(queryRoads(Selector, Ingested))
GetCrowd == Get(queryCrowd(Selector, Ingested))
GetIncidents == Get(queryIncidents(Ingested))

Next ==
    \/ \E f \in Names : SourceDamaged(f) \/ SourceRestored(f)
    \/ \E eventId \in case.events : Decide(eventId)
    \/ GetTimeline \/ GetRoads \/ GetCrowd \/ GetIncidents

Spec == Init /\ [][Next]_vars
-----------------------------------------------------------------------------
(* Properties.  Official is what the untouched files say.                   *)

Official == ingestData(case.expected, case.files)
Decided == decision # None /\ decision.result.data_status = "ready"
Facts == decision.result.facts
Event == resolveIncident(Official.incidents, decision.event_id)

(* No answer comes from a file that is not the official one: a decision     *)
(* with facts is the one the official files give and carries their digests, *)
(* whatever was damaged, restored or asked before (the STOP gate of         *)
(* ingestData, in front of the pipeline and of every query).  Under a       *)
(* configuration the schema accepts, only an unreadable instant, a negative *)
(* limit or one of the two sets without a strategy ends in an error.        *)
VerifiedOrNothing ==
    /\ decision # None /\ decision.result.data_status = "error" /\ validateConfig(Config) =>
          \/ Event.at = None
          \/ Config.max_staleness.value < 0
          \/ Config.ete.value \notin ImplementedEteSets
    /\ Decided => decision.result = execute(Config, Official, decision.event_id)
    /\ board # None /\ board.data_status = "ready" =>
          Official.data_status = "ready"
          /\ board \in {queryTimeline(Official), queryRoads(Selector, Official),
                        queryCrowd(Selector, Official), queryIncidents(Official)}

\* The geometry of the incident, read off the map and the text alone: the
\* intersections the text can mean, and the roads that cross upstream of one.
Crossings == Official.network[Event.affected_segment].intersections
Meant == {i \in DOMAIN Crossings :
              {Crossings[i], Alias[Crossings[i]]} \cap Event.location # {}}
Wide(id) == id \in DOMAIN Official.network /\ Official.network[id].capacity_vph >= 1000
CrossesBefore(id, i) ==
    Wide(id) /\ \E j \in 1..(i - 1) : Crossings[j] = Official.network[id].name
Upstream ==
    {id \in ToSet(Official.network[Event.affected_segment].alternatives) :
        \E i \in Meant : CrossesBefore(id, i)}

Measured(id) == selectSaturation(createPolicyStrategyBundle(Config), Official, Event.at, id)

(* The primary evacuation is a wide enough alternative that crosses the     *)
(* closed road upstream of the one place the report can mean, and there is  *)
(* one whenever such a road exists; of two measured ones it is not the more *)
(* saturated.  When the place is ambiguous nothing is ranked, primary or    *)
(* secondary (anchor resolution, qualifyCandidates, selectEvacuation).      *)
EvacuationIsQualified ==
    Decided /\ IsRoadEvent(Event) /\ Event.affected_segment \in DOMAIN Official.network =>
        LET routes == Facts.routes IN
        IF Cardinality(Meant) = 1
        THEN IF Upstream = {} THEN routes.primary = None
             ELSE /\ routes.primary \in Upstream \ ToSet(routes.secondary)
                  /\ Measured(routes.primary) # None =>
                        \A id \in Upstream :
                            Measured(id) # None => Measured(routes.primary) <= Measured(id)
        ELSE routes.primary = None /\ routes.secondary = <<>>

(* A computed clearance time is about one instant: every road of its set    *)
(* was read then, not after the event, its penalty is over those readings,  *)
(* and no later instant would have done (SOP-7, never mixing snapshots).    *)
EteIsOfOneInstant ==
    Decided /\ Facts.ete # None =>
        LET ete == Facts.ete
            readAt(id, t) == {i \in DOMAIN Official.traffic :
                                 Official.traffic[i].road = id /\ Official.traffic[i].at = t}
            common == {t \in Instants(Official.traffic) :
                          t <= Event.at /\ \A k \in DOMAIN ete.roads : readAt(ete.roads[k], t) # {}}
            first(id, t) == Official.traffic[Min(readAt(id, t))]
            total(t) == SumOf([k \in DOMAIN ete.roads |-> first(ete.roads[k], t)])
        IN  IF common = {} THEN ete.penalty = None
            ELSE /\ ete.at = Max(common)
                 /\ ete.penalty.per = Len(ete.roads)
                 /\ ete.penalty.fifths = 3 * Max({0, total(ete.at) - 50 * Len(ete.roads)})

(* Rows later than the event change nothing a decision concludes: it is the *)
(* decision of the files as they stood at the event (HG-001's cutoff).      *)
UntilEvent(rows) == AtPositions(rows, {i \in DOMAIN rows : rows[i].at <= Event.at})

NothingFromTheFuture ==
    Decided =>
        LET past == [Official EXCEPT !.traffic = UntilEvent(@), !.crowd = UntilEvent(@)]
            then == runDeterministicDecision(Config, past, Event)
        IN  /\ Facts.articles = then.articles
            /\ Facts.classifications = then.classifications
            /\ Facts.routes = then.routes
            /\ Facts.ete = then.ete
            /\ Facts.multilingual_required = then.multilingual_required

(* When the replay stands at the event, the dashboard and the decision say  *)
(* the same: the grade of the road, the shuttle flag, the dispersal flag    *)
(* (two callers of the same rules, each selecting its own rows).            *)
PictureMatchesDecision ==
    /\ Decided /\ board # None /\ board.data_status = "ready"
    /\ Event.at = Max(Instants(Official.traffic) \cup Instants(Official.crowd))
    => /\ board.route = "roads" =>
             \A i \in DOMAIN Facts.classifications :
                LET c == Facts.classifications[i] IN
                /\ c.level # None => c \in board.body
                /\ \A shown \in board.body : shown.segment_id = c.segment_id => shown = c
       /\ board.route = "crowd" =>
             LET flags == UNION {board.body[id].flags : id \in DOMAIN board.body} IN
             /\ 3 \in Facts.articles.triggered <=> "SOP3_MRT_SHUTTLE" \in flags
             /\ 4 \in Facts.articles.triggered <=> "SOP4_DOME_DISPERSAL" \in flags

(* A road without a reading the cutoff allows is not preferred to one with  *)
(* such a reading: missing prior data fails closed.                         *)
UnmeasuredIsNotPreferred ==
    Decided /\ Facts.routes.primary # None /\ (\E id \in Upstream : Measured(id) # None) =>
        Measured(Facts.routes.primary) # None
=============================================================================
